---------------------------- MODULE ClientsProofs -----------------------------
(***************************************************************************)
(* Proofs about the clients of the API server, for any number of actors    *)
(* and calls.  The MCP servers of a user: the credentials they keep, and   *)
(* who pays for what is published.  The web client: the catalogue's rows,  *)
(* the wallet and the purchase dialog.  The publisher's dialogs: what the  *)
(* page says of what the server did, and the rows publishing leaves.       *)
(***************************************************************************)
EXTENDS Agent, Browser, Dashboard, TLAPS

----------------------------------------------------------------------------
(* The MCP servers.                                                       *)

Memory == [wallet : Wallets \cup {None}, key : Keys \cup {None}]

RegisterCall ==
  [tool : {"register"}, proc : Procs, wallet : Wallets \cup {Elsewhere}, paired : BOOLEAN]
CreateCall ==
  [tool : {"create"}, proc : Procs, wallet : Wallets, key : Keys, paired : BOOLEAN]
PayCall == [tool : {"pay", "onchain"}, proc : Procs, wallet : Wallets, resource : Resources]
SignCall == [tool : {"sign"}, proc : Procs, wallet : Wallets, resource : Resources]
Call == {Idle} \cup RegisterCall \cup CreateCall \cup PayCall \cup SignCall

Resource ==
  [creator : Wallets \cup {Elsewhere, None}, payer : Wallets \cup {None},
   by : Keys \cup {None}, paired : BOOLEAN, onchain : BOOLEAN]

TypeInv ==
  /\ memory \in [Procs -> Memory] /\ file \in Memory
  /\ calls \in [Calls -> Call]
  /\ owner \in [Keys -> Wallets \cup {Elsewhere, None}]
  /\ resources \in [Resources -> Resource]

(* What a process or the file may hold: a key that was issued, for its     *)
(* wallet or outrun, and nothing a reset has removed.                      *)
Sound(m) ==
  /\ m.key # None => owner[m.key] # None
  /\ m.wallet # None /\ m.key # None /\ m.key \notin outrun => owner[m.key] = m.wallet
  /\ Credentials(m) \cap gone = {}

(* What a call under way relies on.                                        *)
CallOK(c) ==
  LET q == calls[c] IN
  /\ q.tool = "register" /\ q.paired => memory[q.proc].wallet \in {q.wallet, None}
  /\ q.tool = "create" => owner[q.key] # None /\ (q.paired => owner[q.key] = q.wallet)
  /\ q.tool \in {"pay", "onchain"} =>
       LET r == resources[q.resource] IN r.by # None /\ (r.paired => r.creator = q.wallet)

IInv ==
  /\ TypeInv
  /\ gone \subseteq Wallets \cup Keys
  /\ \A k \in Keys : k \in gone => owner[k] # None
  /\ \A p \in Procs : Sound(memory[p])
  /\ Sound(file)
  /\ \A c \in Calls : CallOK(c)
  /\ PaidByItsCreator

----------------------------------------------------------------------------
LEMMA CallShapes ==
  ASSUME TypeInv, NEW c \in Calls
  PROVE  /\ calls[c].tool = "register" => calls[c] \in RegisterCall
         /\ calls[c].tool = "create" => calls[c] \in CreateCall
         /\ calls[c].tool \in {"pay", "onchain"} => calls[c] \in PayCall
         /\ calls[c].tool = "sign" => calls[c] \in SignCall
         /\ calls[c] # Idle => calls[c].proc \in Procs
         /\ Idle.tool = "none" /\ Idle \in Call
<1>1. calls[c] \in Call
  BY DEF TypeInv
<1>2. QED
  BY <1>1 DEF Call, Idle, RegisterCall, CreateCall, PayCall, SignCall

LEMMA EmptyIsSound == Empty \in Memory /\ Sound(Empty) /\ Sound(Empty)'
BY DEF Empty, Memory, Sound, Credentials

LEMMA InitIInv == AgentInit => IInv
<1>1. SUFFICES ASSUME AgentInit PROVE IInv
  OBVIOUS
<1>2. TypeInv
  <2>1. Unmade \in Resource /\ Idle \in Call
    BY DEF Unmade, Resource, Call
  <2>2. QED
    BY <1>1, <2>1, EmptyIsSound DEF AgentInit, TypeInv
<1>3. \A c \in Calls : calls[c].tool = "none"
  BY <1>1 DEF AgentInit, Idle
<1>4. QED
  BY <1>1, <1>2, <1>3, EmptyIsSound DEF AgentInit, IInv, CallOK, PaidByItsCreator, Unmade

----------------------------------------------------------------------------
(* Credentials. *)

(* One process gets other credentials, and so may the file.                *)
LEMMA NewCredentials ==
  ASSUME TypeInv, NEW p \in Procs, NEW m \in Memory, NEW f \in Memory,
         memory' = [memory EXCEPT ![p] = m], file' = f, Sound(m)', Sound(f)',
         \A x \in Memory : (\E q \in Procs \ {p} : memory[q] = x) => Sound(x)'
  PROVE  /\ memory' \in [Procs -> Memory] /\ file' \in Memory
         /\ (\A q \in Procs : Sound(memory[q]))' /\ Sound(file)'
         /\ memory'[p] = m /\ \A q \in Procs \ {p} : memory'[q] = memory[q]
<1>1. /\ memory' \in [Procs -> Memory] /\ memory'[p] = m
      /\ \A q \in Procs \ {p} : memory'[q] = memory[q] /\ memory[q] \in Memory
  BY DEF TypeInv
<1>2. ASSUME NEW q \in Procs PROVE Sound(memory[q])'
  <2>1. PICK x \in Memory : x = memory'[q] /\ Sound(x)'
    BY <1>1
  <2>2. QED
    BY <2>1 DEF Sound
<1>3. Sound(file)'
  BY DEF Sound
<1>4. QED
  BY <1>1, <1>2, <1>3

LEMMA SetupWalletPreserves ==
  ASSUME IInv, NEW p \in Procs, SetupWallet(p)
  PROVE  IInv'
<1> USE AgentAssumption
<1>1. PICK w \in Wallets :
        /\ w \notin gone
        /\ memory' = [memory EXCEPT ![p].wallet = w]
        /\ Save(memory'[p])
        /\ outrun' = outrun \cup ({memory[p].key} \ {None})
        /\ calls' = [c \in Calls |->
             IF calls[c].tool = "register" /\ calls[c].proc = p
               THEN [calls[c] EXCEPT !.paired = FALSE] ELSE calls[c]]
        /\ UNCHANGED <<owner, resources, gone>>
  BY DEF SetupWallet
<1>2. PICK m : m = [memory[p] EXCEPT !.wallet = w]
  OBVIOUS
<1>3. /\ memory \in [Procs -> Memory] /\ memory[p] \in Memory /\ m \in Memory
      /\ m.wallet = w /\ m.key = memory[p].key /\ memory' = [memory EXCEPT ![p] = m]
  BY <1>1, <1>2 DEF IInv, TypeInv, Memory
<1>4. \A x \in Memory : Sound(x) => Sound(x)'
  BY <1>1 DEF Sound
<1>5. Sound(m)'
  <2>1. Sound(memory[p])
    BY DEF IInv
  <2>2. QED
    BY <1>1, <1>3, <2>1 DEF Sound, Credentials
<1>6. PICK f \in Memory : f = file' /\ Sound(f)'
  BY <1>1, <1>3, <1>4, <1>5, EmptyIsSound DEF Save, IInv, TypeInv
<1>7. /\ memory' \in [Procs -> Memory] /\ file' \in Memory
      /\ (\A q \in Procs : Sound(memory[q]))' /\ Sound(file)'
      /\ memory'[p] = m /\ \A q \in Procs \ {p} : memory'[q] = memory[q]
  BY <1>3, <1>4, <1>5, <1>6, NewCredentials DEF IInv
<1>8. ASSUME NEW c \in Calls PROVE calls'[c] \in Call /\ CallOK(c)'
  <2>1. CASE calls[c].tool = "register" /\ calls[c].proc = p
    <3>1. calls'[c] = [calls[c] EXCEPT !.paired = FALSE] /\ calls[c] \in RegisterCall
      BY <1>1, <2>1, CallShapes DEF IInv
    <3>2. calls'[c] \in RegisterCall /\ calls'[c].tool = "register" /\ ~calls'[c].paired
      BY <3>1 DEF RegisterCall
    <3>3. QED
      BY <3>2 DEF CallOK, Call
  <2>2. CASE ~(calls[c].tool = "register" /\ calls[c].proc = p)
    <3>1. calls'[c] = calls[c] /\ calls[c] \in Call /\ CallOK(c)
      BY <1>1, <2>2 DEF IInv, TypeInv
    <3>2. calls[c].tool = "register" => calls[c].proc \in Procs \ {p}
      BY <2>2, CallShapes DEF IInv, RegisterCall
    <3>3. QED
      BY <1>1, <1>7, <3>1, <3>2 DEF CallOK
  <2>3. QED
    BY <2>1, <2>2
<1>9. TypeInv' /\ PaidByItsCreator'
  <2>1. calls' \in [Calls -> Call]
    BY <1>1, <1>8
  <2>2. QED
    BY <1>1, <1>7, <2>1 DEF IInv, TypeInv, PaidByItsCreator
<1>10. QED
  BY <1>1, <1>7, <1>8, <1>9 DEF IInv

(* The key is a new one, and the wallet beside it the one it was made for, *)
(* unless there is none or the pair was outrun.                            *)
LEMMA RegisterReturnsPreserves ==
  ASSUME IInv, NEW c \in Calls, RegisterReturns(c)
  PROVE  IInv'
<1> USE AgentAssumption
<1> DEFINE q == calls[c]
<1>1. PICK p \in Procs : p = q.proc
  BY CallShapes DEF IInv, RegisterReturns, Idle
<1>2. PICK k \in Keys :
        /\ owner[k] = None
        /\ owner' = [owner EXCEPT ![k] = q.wallet]
        /\ memory' = [memory EXCEPT ![p].key = k]
        /\ Save(memory'[p])
        /\ outrun' = IF q.paired THEN outrun ELSE outrun \cup {k}
        /\ calls' = [calls EXCEPT ![c] = Idle]
        /\ UNCHANGED <<resources, gone>>
  BY <1>1 DEF RegisterReturns, Ends
<1>3. q \in RegisterCall /\ q.tool = "register" /\ q.wallet # None /\ CallOK(c)
  BY CallShapes DEF IInv, RegisterReturns, RegisterCall
<1>4. PICK m : m = [memory[p] EXCEPT !.key = k]
  OBVIOUS
<1>5. /\ memory \in [Procs -> Memory] /\ memory[p] \in Memory /\ m \in Memory
      /\ m.key = k /\ m.wallet = memory[p].wallet /\ memory' = [memory EXCEPT ![p] = m]
  BY <1>2, <1>4 DEF IInv, TypeInv, Memory
<1>6. /\ owner' \in [Keys -> Wallets \cup {Elsewhere, None}] /\ owner'[k] = q.wallet
      /\ \A l \in Keys \ {k} : owner'[l] = owner[l]
      /\ \A l \in Keys : owner[l] # None => owner'[l] = owner[l]
  BY <1>2, <1>3 DEF IInv, TypeInv, RegisterCall
<1>7. \A x \in Memory : Sound(x) => Sound(x)'
  <2>1. SUFFICES ASSUME NEW x \in Memory, Sound(x) PROVE Sound(x)'
    OBVIOUS
  <2>2. x.key # None => x.key \in Keys /\ owner'[x.key] = owner[x.key]
    BY <1>6, <2>1 DEF Memory, Sound
  <2>3. x.key # None => x.key # k
    BY <1>2, <2>1 DEF Sound
  <2>4. QED
    BY <1>2, <2>1, <2>2, <2>3 DEF Sound
<1>8. Sound(m)'
  <2>1. Sound(memory[p]) /\ k \notin gone
    BY <1>2 DEF IInv
  <2>2. q.paired => memory[p].wallet \in {q.wallet, None}
    BY <1>1, <1>3 DEF CallOK
  <2>3. Credentials(m) \cap gone = {}
    BY <1>5, <2>1 DEF Sound, Credentials
  <2>4. QED
    BY <1>2, <1>3, <1>5, <1>6, <2>2, <2>3 DEF Sound
<1>9. PICK f \in Memory : f = file' /\ Sound(f)'
  BY <1>2, <1>5, <1>7, <1>8, EmptyIsSound DEF Save, IInv, TypeInv
<1>10. /\ memory' \in [Procs -> Memory] /\ file' \in Memory
       /\ (\A r \in Procs : Sound(memory[r]))' /\ Sound(file)'
       /\ memory'[p] = m /\ \A r \in Procs \ {p} : memory'[r] = memory[r]
  BY <1>5, <1>7, <1>8, <1>9, NewCredentials DEF IInv
<1>11. \A r \in Procs : memory'[r].wallet = memory[r].wallet
  BY <1>5, <1>10
<1>12. ASSUME NEW d \in Calls PROVE calls'[d] \in Call /\ CallOK(d)'
  <2>1. CASE d = c
    BY <1>2, <2>1, CallShapes DEF IInv, TypeInv, CallOK
  <2>2. CASE d # c
    <3>1. calls'[d] = calls[d] /\ calls[d] \in Call /\ CallOK(d)
      BY <1>2, <2>2 DEF IInv, TypeInv
    <3>2. /\ calls[d].tool = "register" => calls[d].proc \in Procs
          /\ calls[d].tool = "create" => calls[d].key \in Keys
      BY CallShapes DEF IInv, RegisterCall, CreateCall
    <3>3. QED
      BY <1>2, <1>6, <1>11, <3>1, <3>2 DEF CallOK
  <2>3. QED
    BY <2>1, <2>2
<1>13. TypeInv' /\ PaidByItsCreator'
  <2>1. calls' \in [Calls -> Call]
    BY <1>2, <1>12 DEF IInv, TypeInv
  <2>2. QED
    BY <1>2, <1>6, <1>10, <2>1 DEF IInv, TypeInv, PaidByItsCreator
<1>14. QED
  BY <1>2, <1>6, <1>10, <1>12, <1>13 DEF IInv

LEMMA ResetPreserves ==
  ASSUME IInv, NEW p \in Procs, Reset(p)
  PROVE  IInv'
<1> USE AgentAssumption
<1>1. PICK f \in Memory : f = file' /\ f \in {Empty, file}
  BY EmptyIsSound DEF Reset, IInv, TypeInv
<1>2. /\ memory' = [memory EXCEPT ![p] = Empty] /\ gone' = gone \cup Removed(p, f)
      /\ UNCHANGED <<calls, owner, resources, outrun>>
  BY <1>1 DEF Reset
<1>3. /\ Sound(file) /\ \A q \in Procs : memory[q] \in Memory /\ Sound(memory[q])
      /\ file \in Memory
  BY DEF IInv, TypeInv
<1>4. Sound(f)'
  <2>1. Credentials(f) \cap Removed(p, f) = {}
    BY DEF Removed
  <2>2. Sound(f)
    BY <1>1, <1>3, EmptyIsSound
  <2>3. QED
    BY <1>2, <2>1, <2>2 DEF Sound
<1>5. ASSUME NEW x \in Memory, \E q \in Procs \ {p} : memory[q] = x PROVE Sound(x)'
  <2>1. Credentials(x) \cap Removed(p, f) = {} /\ Sound(x)
    BY <1>3, <1>5 DEF Removed
  <2>2. QED
    BY <1>2, <2>1 DEF Sound
<1>6. /\ memory' \in [Procs -> Memory] /\ file' \in Memory
      /\ (\A q \in Procs : Sound(memory[q]))' /\ Sound(file)'
      /\ memory'[p] = Empty /\ \A q \in Procs \ {p} : memory'[q] = memory[q]
  BY <1>1, <1>2, <1>4, <1>5, EmptyIsSound, NewCredentials DEF IInv
<1>7. /\ Removed(p, f) \subseteq Wallets \cup Keys
      /\ \A k \in Keys : k \in Removed(p, f) => owner[k] # None
  BY <1>3 DEF Removed, Credentials, Memory, Sound
<1>8. ASSUME NEW c \in Calls PROVE CallOK(c)'
  <2>1. CallOK(c) /\ (calls[c].tool = "register" => calls[c].proc \in Procs)
    BY CallShapes DEF IInv, RegisterCall
  <2>2. QED
    BY <1>2, <1>6, <2>1 DEF CallOK, Empty
<1>9. TypeInv' /\ PaidByItsCreator'
  BY <1>2, <1>6 DEF IInv, TypeInv, PaidByItsCreator
<1>10. QED
  BY <1>2, <1>6, <1>7, <1>8, <1>9 DEF IInv

LEMMA RestartPreserves ==
  ASSUME IInv, NEW p \in Procs, Restart(p)
  PROVE  IInv'
<1>1. PICK f \in Memory : f = file /\ Sound(f)
  BY DEF IInv, TypeInv
<1>2. /\ memory' = [memory EXCEPT ![p] = f] /\ file' = f
      /\ calls' = [c \in Calls |->
           IF calls[c] # Idle /\ calls[c].proc = p THEN Idle ELSE calls[c]]
      /\ UNCHANGED <<owner, resources, outrun, gone>>
  BY <1>1 DEF Restart
<1>3. \A x \in Memory : Sound(x) => Sound(x)'
  BY <1>2 DEF Sound
<1>4. /\ memory' \in [Procs -> Memory] /\ file' \in Memory
      /\ (\A q \in Procs : Sound(memory[q]))' /\ Sound(file)'
      /\ memory'[p] = f /\ \A q \in Procs \ {p} : memory'[q] = memory[q]
  BY <1>1, <1>2, <1>3, NewCredentials DEF IInv
<1>5. ASSUME NEW c \in Calls PROVE calls'[c] \in Call /\ CallOK(c)'
  <2>1. CASE calls'[c] = Idle
    BY <2>1, CallShapes DEF IInv, TypeInv, CallOK
  <2>2. CASE calls'[c] # Idle
    <3>1. calls'[c] = calls[c] /\ calls[c].proc # p /\ calls[c] \in Call /\ CallOK(c)
      BY <1>2, <2>2 DEF IInv, TypeInv
    <3>2. calls[c].tool = "register" => calls[c].proc \in Procs \ {p}
      BY <3>1, CallShapes DEF IInv, RegisterCall
    <3>3. QED
      BY <1>2, <1>4, <3>1, <3>2 DEF CallOK
  <2>3. QED
    BY <2>1, <2>2
<1>6. TypeInv' /\ PaidByItsCreator'
  <2>1. calls' \in [Calls -> Call]
    BY <1>2, <1>5
  <2>2. QED
    BY <1>2, <1>4, <2>1 DEF IInv, TypeInv, PaidByItsCreator
<1>7. QED
  BY <1>2, <1>4, <1>5, <1>6 DEF IInv

----------------------------------------------------------------------------
(* Calls. *)

(* One call goes on, and changes at most one resource: the one it is for,  *)
(* or one that nobody had made.                                            *)
LEMMA OneCall ==
  ASSUME IInv, UNCHANGED <<memory, file, owner, outrun, gone>>,
         NEW c \in Calls, NEW q \in Call, calls' = [calls EXCEPT ![c] = q], CallOK(c)',
         resources' \in [Resources -> Resource],
         \A r \in Resources : resources[r].by # None =>
           /\ resources'[r].by = resources[r].by /\ resources'[r].paired = resources[r].paired
           /\ resources'[r].creator = resources[r].creator,
         PaidByItsCreator'
  PROVE  IInv'
<1>1. /\ calls' \in [Calls -> Call] /\ \A d \in Calls \ {c} : calls'[d] = calls[d]
  BY DEF IInv, TypeInv
<1>2. ASSUME NEW d \in Calls \ {c} PROVE CallOK(d)'
  <2>1. CallOK(d) /\ (calls[d].tool \in {"pay", "onchain"} => calls[d].resource \in Resources)
    BY CallShapes DEF IInv, PayCall
  <2>2. QED
    BY <1>1, <2>1 DEF CallOK
<1>3. /\ (\A p \in Procs : Sound(memory[p]))' /\ Sound(file)'
  BY DEF IInv, Sound
<1>4. TypeInv'
  BY <1>1 DEF IInv, TypeInv
<1>5. QED
  BY <1>2, <1>3, <1>4 DEF IInv

LEMMA StartPreserves ==
  ASSUME IInv, NEW p \in Procs, NEW c \in Calls,
         RegisterStart(p, c) \/ PublishStart(p, c) \/ SignStart(p, c)
  PROVE  IInv'
<1> USE AgentAssumption
<1>1. /\ memory[p] \in Memory /\ Sound(memory[p]) /\ resources \in [Resources -> Resource]
      /\ calls \in [Calls -> Call] /\ PaidByItsCreator
  BY DEF IInv, TypeInv
<1>2. CASE RegisterStart(p, c)
  <2>1. PICK w \in {memory[p].wallet, Elsewhere} :
          calls' = [calls EXCEPT ![c] = [tool |-> "register", proc |-> p, wallet |-> w,
                                         paired |-> w = memory[p].wallet]]
    BY <1>2 DEF RegisterStart
  <2> DEFINE q == [tool |-> "register", proc |-> p, wallet |-> w, paired |-> w = memory[p].wallet]
  <2>2. q \in RegisterCall
    BY <1>1, <1>2, <2>1 DEF RegisterStart, RegisterCall, Memory
  <2>3. CallOK(c)'
    BY <1>1, <1>2, <2>1 DEF RegisterStart, CallOK
  <2>4. QED
    BY <1>1, <1>2, <2>1, <2>2, <2>3, OneCall DEF RegisterStart, Call, PaidByItsCreator
<1>3. CASE PublishStart(p, c)
  <2> DEFINE q == [tool |-> "create", proc |-> p, wallet |-> memory[p].wallet,
                   key |-> memory[p].key, paired |-> memory[p].key \notin outrun]
  <2>1. q \in CreateCall
    BY <1>1, <1>3 DEF PublishStart, CreateCall, Memory
  <2>2. CallOK(c)'
    BY <1>1, <1>3 DEF PublishStart, CallOK, Sound
  <2>3. QED
    BY <1>1, <1>3, <2>1, <2>2, OneCall DEF PublishStart, Call, PaidByItsCreator
<1>4. CASE SignStart(p, c)
  <2>1. PICK r \in Resources :
          calls' = [calls EXCEPT ![c] =
            [tool |-> "sign", proc |-> p, wallet |-> memory[p].wallet, resource |-> r]]
    BY <1>4 DEF SignStart
  <2> DEFINE q == [tool |-> "sign", proc |-> p, wallet |-> memory[p].wallet, resource |-> r]
  <2>2. q \in SignCall
    BY <1>1, <1>4, <2>1 DEF SignStart, SignCall, Memory
  <2>3. CallOK(c)'
    BY <1>1, <2>1 DEF CallOK
  <2>4. QED
    BY <1>1, <1>4, <2>1, <2>2, <2>3, OneCall DEF SignStart, Call, PaidByItsCreator
<1>5. QED
  BY <1>2, <1>3, <1>4

LEMMA EndPreserves ==
  ASSUME IInv, NEW c \in Calls, CallFails(c) \/ Unfunded(c)
  PROVE  IInv'
<1>1. calls' = [calls EXCEPT ![c] = Idle] /\ Idle \in Call /\ calls \in [Calls -> Call]
  BY CallShapes DEF CallFails, Unfunded, Ends, IInv, TypeInv
<1>2. CallOK(c)'
  BY <1>1, CallShapes DEF IInv, CallOK
<1>3. QED
  BY <1>1, <1>2, OneCall DEF IInv, TypeInv, CallFails, Unfunded, PaidByItsCreator

(* The resource is made for the key the call began with.                   *)
LEMMA CreatePreserves ==
  ASSUME IInv, NEW c \in Calls, Create(c)
  PROVE  IInv'
<1> USE AgentAssumption
<1>1. /\ calls[c] \in CreateCall /\ CallOK(c) /\ calls \in [Calls -> Call]
      /\ resources \in [Resources -> Resource]
      /\ owner \in [Keys -> Wallets \cup {Elsewhere, None}]
      /\ UNCHANGED <<memory, file, owner, outrun, gone>>
  BY CallShapes DEF IInv, TypeInv, Create
<1>2. PICK r \in Resources :
        /\ resources[r] = Unmade
        /\ resources' = [resources EXCEPT ![r] =
             [Unmade EXCEPT !.creator = owner[calls[c].key], !.by = calls[c].key,
                            !.paired = calls[c].paired]]
        /\ \/ Ends(c)
           \/ calls' = [calls EXCEPT ![c] =
                [tool |-> "pay", proc |-> calls[c].proc, wallet |-> calls[c].wallet,
                 resource |-> r]]
  BY DEF Create
<1>3. PICK new : new = [Unmade EXCEPT !.creator = owner[calls[c].key], !.by = calls[c].key,
                                        !.paired = calls[c].paired]
  OBVIOUS
<1>4. /\ new \in Resource /\ new.by # None /\ new.payer = None
      /\ new.paired => new.creator = calls[c].wallet
  <2>1. /\ calls[c].key \in Keys /\ calls[c].paired \in BOOLEAN
        /\ owner[calls[c].key] \in Wallets \cup {Elsewhere, None}
        /\ calls[c].paired => owner[calls[c].key] = calls[c].wallet
    BY <1>1 DEF CreateCall, CallOK, Create
  <2>2. Unmade \in Resource /\ Unmade.payer = None
    BY DEF Unmade, Resource
  <2>3. /\ new \in Resource /\ new.by = calls[c].key /\ new.payer = None
        /\ new.creator = owner[calls[c].key] /\ new.paired = calls[c].paired
    BY <1>3, <2>1, <2>2 DEF Resource
  <2>4. QED
    BY <2>1, <2>3
<1>5. resources' = [resources EXCEPT ![r] = new]
  BY <1>2, <1>3
<1>6. /\ resources' \in [Resources -> Resource] /\ resources'[r] = new
      /\ \A s \in Resources \ {r} : resources'[s] = resources[s]
      /\ resources[r].by = None
  BY <1>1, <1>2, <1>4, <1>5 DEF Unmade
<1>7. PaidByItsCreator'
  BY <1>4, <1>6 DEF IInv, PaidByItsCreator
<1>8. CASE Ends(c)
  <2>1. CallOK(c)' /\ Idle \in Call
    BY <1>1, <1>8, CallShapes DEF IInv, Ends, CallOK
  <2>2. QED
    BY <1>1, <1>6, <1>7, <1>8, <2>1, OneCall DEF Ends
<1>9. CASE ~Ends(c)
  <2> DEFINE q == [tool |-> "pay", proc |-> calls[c].proc, wallet |-> calls[c].wallet,
                   resource |-> r]
  <2>1. q \in PayCall
    BY <1>1 DEF CreateCall, PayCall
  <2>2. calls' = [calls EXCEPT ![c] = q]
    BY <1>2, <1>9
  <2>3. calls'[c] = q /\ q.tool = "pay" /\ q.resource = r /\ q.wallet = calls[c].wallet
    BY <1>1, <2>2
  <2>4. CallOK(c)'
    BY <1>4, <1>6, <2>3 DEF CallOK
  <2>5. q \in Call
    BY <2>1 DEF Call
  <2>6. QED
    BY <1>1, <1>6, <1>7, <2>2, <2>4, <2>5, OneCall
<1>10. QED
  BY <1>8, <1>9

(* What is written of a resource by the calls that follow its making.      *)
LEMMA FollowUpPreserves ==
  ASSUME IInv, NEW c \in Calls, PayVerification(c) \/ RegisterOnServer(c) \/ SubmitSigned(c)
  PROVE  IInv'
<1> USE AgentAssumption
<1>1. /\ calls \in [Calls -> Call] /\ resources \in [Resources -> Resource] /\ CallOK(c)
      /\ UNCHANGED <<memory, file, owner, outrun, gone>> /\ Idle \in Call /\ Idle.tool = "none"
  BY CallShapes DEF IInv, TypeInv, PayVerification, RegisterOnServer, SubmitSigned
<1>2. CASE PayVerification(c)
  <2> DEFINE r == calls[c].resource
  <2>1. calls[c] \in PayCall
    BY <1>2, CallShapes DEF IInv, PayVerification
  <2>2. PICK paid : paid = [resources[r] EXCEPT !.payer = calls[c].wallet]
    OBVIOUS
  <2>3. /\ r \in Resources /\ paid \in Resource /\ paid.payer = calls[c].wallet
        /\ paid.by = resources[r].by /\ paid.paired = resources[r].paired
        /\ paid.creator = resources[r].creator
    BY <1>1, <2>1, <2>2 DEF PayCall, Resource
  <2>4. resources' = [resources EXCEPT ![r] = paid]
    BY <1>2, <2>2 DEF PayVerification, Payer
  <2>5. /\ resources' \in [Resources -> Resource] /\ resources'[r] = paid
        /\ \A s \in Resources \ {r} : resources'[s] = resources[s]
    BY <1>1, <2>3, <2>4
  <2>6. paid.paired => paid.creator = calls[c].wallet
    BY <1>1, <1>2, <2>3 DEF PayVerification, CallOK
  <2>7. PaidByItsCreator'
    BY <2>3, <2>5, <2>6 DEF IInv, PaidByItsCreator
  <2>8. PICK q \in Call :
          /\ calls' = [calls EXCEPT ![c] = q]
          /\ q = Idle \/ q = [calls[c] EXCEPT !.tool = "onchain"]
    BY <1>1, <1>2, <2>1 DEF PayVerification, Ends, PayCall, Call
  <2>9. CASE q = Idle
    <3>1. CallOK(c)'
      BY <1>1, <2>8, <2>9 DEF CallOK
    <3>2. QED
      BY <1>1, <2>3, <2>5, <2>7, <2>8, <3>1, OneCall
  <2>10. CASE q = [calls[c] EXCEPT !.tool = "onchain"]
    <3>1. q.tool = "onchain" /\ q.resource = calls[c].resource /\ q.wallet = calls[c].wallet
      BY <2>1, <2>10 DEF PayCall
    <3>2. calls'[c] = q /\ resources[r].by # None
      BY <1>1, <1>2, <2>8 DEF PayVerification, CallOK
    <3>3. CallOK(c)'
      BY <2>3, <2>5, <2>6, <3>1, <3>2 DEF CallOK
    <3>4. QED
      BY <1>1, <2>3, <2>5, <2>7, <2>8, <3>3, OneCall
  <2>11. QED
    BY <2>8, <2>9, <2>10
<1>3. CASE RegisterOnServer(c) \/ SubmitSigned(c)
  <2> DEFINE r == calls[c].resource
  <2>1. calls' = [calls EXCEPT ![c] = Idle]
    BY <1>3 DEF RegisterOnServer, SubmitSigned, Ends
  <2>2. r \in Resources
    BY <1>3, CallShapes DEF IInv, RegisterOnServer, SubmitSigned, PayCall, SignCall
  <2>3. CallOK(c)'
    BY <1>1, <2>1 DEF CallOK
  <2>4. resources' = resources \/ resources' = [resources EXCEPT ![r].onchain = TRUE]
    BY <1>3 DEF RegisterOnServer, SubmitSigned
  <2>5. /\ resources' \in [Resources -> Resource]
        /\ \A s \in Resources :
             /\ resources'[s].by = resources[s].by /\ resources'[s].paired = resources[s].paired
             /\ resources'[s].creator = resources[s].creator
             /\ resources'[s].payer = resources[s].payer
    <3>1. PICK done : done = [resources[r] EXCEPT !.onchain = TRUE]
      OBVIOUS
    <3>2. /\ done \in Resource /\ done.by = resources[r].by
          /\ done.paired = resources[r].paired /\ done.creator = resources[r].creator
          /\ done.payer = resources[r].payer
      BY <1>1, <2>2, <3>1 DEF Resource
    <3>3. resources' = resources \/ resources' = [resources EXCEPT ![r] = done]
      BY <2>4, <3>1
    <3>4. QED
      BY <1>1, <2>2, <3>2, <3>3
  <2>6. PaidByItsCreator'
    BY <2>5 DEF IInv, PaidByItsCreator
  <2>7. QED
    BY <1>1, <2>1, <2>3, <2>5, <2>6, OneCall
<1>4. QED
  BY <1>2, <1>3

----------------------------------------------------------------------------
LEMMA StepIInv == IInv /\ [AgentNext]_agentVars => IInv'
<1>1. SUFFICES ASSUME IInv, [AgentNext]_agentVars PROVE IInv'
  OBVIOUS
<1>2. ASSUME NEW p \in Procs, SetupWallet(p) \/ Reset(p) \/ Restart(p) PROVE IInv'
  BY <1>1, <1>2, SetupWalletPreserves, ResetPreserves, RestartPreserves
<1>3. ASSUME NEW p \in Procs, NEW c \in Calls,
             RegisterStart(p, c) \/ PublishStart(p, c) \/ SignStart(p, c)
      PROVE  IInv'
  BY <1>1, <1>3, StartPreserves
<1>4. ASSUME NEW c \in Calls,
             RegisterReturns(c) \/ Create(c) \/ Unfunded(c) \/ PayVerification(c)
               \/ RegisterOnServer(c) \/ SubmitSigned(c) \/ CallFails(c)
      PROVE  IInv'
  BY <1>1, <1>4, RegisterReturnsPreserves, CreatePreserves, EndPreserves, FollowUpPreserves
<1>5. CASE UNCHANGED agentVars
  BY <1>1, <1>5 DEF IInv, TypeInv, Sound, CallOK, PaidByItsCreator, agentVars
<1>6. QED
  BY <1>1, <1>2, <1>3, <1>4, <1>5 DEF AgentNext

LEMMA SafetyOfIInv == IInv => PairedCredentials /\ ResetIsForGood /\ PaidByItsCreator
BY DEF IInv, Sound, PairedCredentials, ResetIsForGood

(* saveState and loadState, for any number of processes that overwrite     *)
(* each other's file: the key is kept beside the wallet it was made for.   *)
THEOREM CredentialsPaired == AgentSpec => []PairedCredentials
BY InitIInv, StepIInv, SafetyOfIInv, PTL DEF AgentSpec

(* mindbox_reset: what it removed stays removed.                           *)
THEOREM ResetForGood == AgentSpec => []ResetIsForGood
BY InitIInv, StepIInv, SafetyOfIInv, PTL DEF AgentSpec

(* mindbox_publish pays with the wallet that will be paid.                 *)
THEOREM CreatorPays == AgentSpec => []PaidByItsCreator
BY InitIInv, StepIInv, SafetyOfIInv, PTL DEF AgentSpec

----------------------------------------------------------------------------
(* The web client.  A run of the effect that was not aborted is of the     *)
(* filters on screen; a retry, and what a publish will call, is of these   *)
(* or was there when they were last changed.                               *)

BrowserFetch == [kind : {"effect", "retry"}, filters : Filters, aborted : BOOLEAN]

FetchInv ==
  /\ filters \in Filters /\ copies \subseteq Filters
  /\ waiting \subseteq Filters /\ late \subseteq Filters
  /\ fetches \in [Fetches -> BrowserFetch \cup {NoFetch}]
  /\ catalog \in [status : {"loading", "success", "error"}, stale : BOOLEAN,
                  rows : Filters \cup {Nobody}]
  /\ \A k \in Fetches : fetches[k].kind = "effect" /\ ~fetches[k].aborted => fetches[k].filters = filters
  /\ \A k \in Fetches : fetches[k].kind = "retry" => fetches[k].filters \in {filters} \cup late
  /\ waiting \subseteq {filters} \cup late
  /\ RowsMatchFilters

(* A stored address and a connect under way are of the user's choosing.    *)
WalletInv ==
  /\ wallet \in [status : {"disconnected", "restoring", "connected", "error"},
                 address : Addresses \cup {Nobody}]
  /\ account \in Addresses /\ connects \in Nat
  /\ connects > 0 \/ stored # Nobody => wanted \in {"connect", "both"}
  /\ wallet.status = "connected" => wallet.address = stored /\ stored # Nobody

(* The ref of the hook is set while the dialog is paying, and then one      *)
(* purchase is under way, whose outcome will show.                          *)
BuyInv ==
  /\ purchases \in [Payments -> {"none", "shown", "unseen"}]
  /\ \A p \in Payments : purchases[p] # "unseen"
  /\ inFlight = (dialog = "paying")
  /\ OnePaymentAtATime

BrowserInv == FetchInv /\ WalletInv /\ BuyInv

LEMMA BrowserInitInv == BrowserInit => BrowserInv
<1> SUFFICES ASSUME BrowserInit PROVE BrowserInv
  OBVIOUS
<1>1. PICK k \in Fetches : fetches = [j \in Fetches |-> IF j = k THEN Fetch("effect", filters) ELSE NoFetch]
  BY DEF BrowserInit
<1>2. /\ filters \in Filters /\ copies = {} /\ waiting = {} /\ late = {} /\ catalog = Fresh(filters)
      /\ Fetch("effect", filters) \in BrowserFetch /\ Fetch("effect", filters).filters = filters
      /\ Fetch("effect", filters).kind = "effect"
  BY DEF BrowserInit, Fetch, BrowserFetch
<1>3. fetches \in [Fetches -> BrowserFetch \cup {NoFetch}]
  BY <1>1, <1>2
<1>4. \A j \in Fetches : /\ fetches[j].kind = "effect" => fetches[j].filters = filters
                         /\ fetches[j].kind # "retry"
  BY <1>1, <1>2 DEF NoFetch
<1>5. FetchInv
  BY <1>2, <1>3, <1>4 DEF FetchInv, Fresh, RowsMatchFilters
<1>6. WalletInv
  BY DEF BrowserInit, WalletInv
<1>7. /\ inFlight = FALSE /\ dialog = "closed"
      /\ purchases = [p \in Payments |-> "none"]
  BY DEF BrowserInit
<1>8. inFlight = (dialog = "paying")
  BY <1>7
<1>9. BuyInv
  BY <1>7, <1>8 DEF BuyInv, OnePaymentAtATime
<1>10. QED
  BY <1>5, <1>6, <1>9 DEF BrowserInv

(* What a run that ends shows.                                             *)
LEMMA ShownKeepsRows ==
  ASSUME FetchInv, NEW k \in Fetches, ~Free(k), NEW stale \in BOOLEAN, Shown(fetches[k], stale),
         fetches' = [fetches EXCEPT ![k] = NoFetch], UNCHANGED <<filters, waiting, late>>,
         copies' \subseteq Filters
  PROVE  FetchInv'
<1>1. fetches[k] \in BrowserFetch
  BY DEF FetchInv, Free
<1>2. fetches' \in [Fetches -> BrowserFetch \cup {NoFetch}]
  BY DEF FetchInv
<1>3. \A j \in Fetches :
        /\ fetches'[j].kind = "effect" /\ ~fetches'[j].aborted => fetches'[j].filters = filters'
        /\ fetches'[j].kind = "retry" => fetches'[j].filters \in {filters'} \cup late'
  BY DEF FetchInv, NoFetch
<1>4. CASE fetches[k].aborted
  <2>1. catalog' = [catalog EXCEPT !.stale = stale]
    BY <1>4 DEF Shown
  <2>2. QED
    BY <1>2, <1>3, <2>1 DEF FetchInv, RowsMatchFilters
<1>5. CASE ~fetches[k].aborted
  <2>1. catalog' = [status |-> "success", rows |-> fetches[k].filters, stale |-> stale]
    BY <1>5 DEF Shown
  <2>2. fetches[k].filters \in Filters /\ fetches[k].filters \in {filters} \cup late
    BY <1>1, <1>5 DEF BrowserFetch, FetchInv
  <2>3. QED
    BY <1>2, <1>3, <2>1, <2>2 DEF FetchInv, RowsMatchFilters
<1>6. QED
  BY <1>4, <1>5

(* A retry that begins is of the filters on screen, or of late ones.        *)
LEMMA RetryKeepsRows ==
  ASSUME FetchInv, NEW k \in Fetches, NEW f \in Filters, RetryOf(k, f), f \in {filters} \cup late,
         UNCHANGED <<filters, copies, late>>, waiting' \subseteq waiting
  PROVE  FetchInv'
<1>1. /\ fetches' = [fetches EXCEPT ![k] = Fetch("retry", f)]
      /\ catalog' = [catalog EXCEPT !.status = "loading"]
  BY DEF RetryOf
<1>2. /\ Fetch("retry", f) \in BrowserFetch /\ Fetch("retry", f).kind = "retry"
      /\ Fetch("retry", f).filters = f
  BY DEF Fetch, BrowserFetch
<1>3. fetches' \in [Fetches -> BrowserFetch \cup {NoFetch}]
  BY <1>1, <1>2 DEF FetchInv
<1>4. \A j \in Fetches :
        /\ fetches'[j].kind = "effect" /\ ~fetches'[j].aborted => fetches'[j].filters = filters
        /\ fetches'[j].kind = "retry" => fetches'[j].filters \in {filters} \cup late
  BY <1>1, <1>2 DEF FetchInv
<1>5. catalog'.status = "loading"
      /\ catalog' \in [status : {"loading", "success", "error"}, stale : BOOLEAN,
                       rows : Filters \cup {Nobody}]
  BY <1>1 DEF FetchInv
<1>6. QED
  BY <1>3, <1>4, <1>5 DEF FetchInv, RowsMatchFilters

LEMMA CatalogPageStep ==
  ASSUME FetchInv, NEW k \in Fetches,
         ChangeFilters(k) \/ Retry(k) \/ OnPublished(k) \/ FetchReturns(k) \/ FetchFails(k)
  PROVE  FetchInv'
<1>1. CASE ChangeFilters(k)
  <2>1. PICK f \in Filters :
          /\ filters' = f
          /\ fetches' = [j \in Fetches |->
               IF j = k THEN Fetch("effect", f)
               ELSE IF fetches[j].kind = "effect" THEN [fetches[j] EXCEPT !.aborted = TRUE]
               ELSE fetches[j]]
    BY <1>1 DEF ChangeFilters
  <2>2. late' = waiting \cup {fetches[j].filters : j \in {i \in Fetches : fetches[i].kind = "retry"}}
    BY <1>1 DEF ChangeFilters
  <2>3. /\ Fetch("effect", f) \in BrowserFetch /\ Fetch("effect", f).kind = "effect"
        /\ Fetch("effect", f).filters = f
    BY DEF Fetch, BrowserFetch
  <2>4. ASSUME NEW j \in Fetches
        PROVE  /\ fetches'[j] \in BrowserFetch \cup {NoFetch}
               /\ fetches'[j].kind = "effect" /\ ~fetches'[j].aborted => fetches'[j].filters = f
               /\ fetches'[j].kind = "retry" => fetches'[j].filters \in late'
    <3>1. CASE j = k
      BY <2>1, <2>3, <3>1
    <3>2. CASE j # k /\ fetches[j].kind = "effect"
      <4>1. fetches[j] \in BrowserFetch /\ fetches'[j] = [fetches[j] EXCEPT !.aborted = TRUE]
        BY <2>1, <3>2 DEF FetchInv, NoFetch
      <4>2. fetches'[j] \in BrowserFetch /\ fetches'[j].aborted /\ fetches'[j].kind = "effect"
        BY <3>2, <4>1 DEF BrowserFetch
      <4>3. QED
        BY <4>2
    <3>3. CASE j # k /\ fetches[j].kind # "effect"
      <4>1. fetches'[j] = fetches[j]
        BY <2>1, <3>3
      <4>2. QED
        BY <2>2, <3>3, <4>1 DEF FetchInv
    <3>4. QED
      BY <3>1, <3>2, <3>3
  <2>5. fetches' \in [Fetches -> BrowserFetch \cup {NoFetch}]
    BY <2>1, <2>4
  <2>6. late' \subseteq Filters
    <3>1. ASSUME NEW j \in Fetches, fetches[j].kind = "retry" PROVE fetches[j].filters \in Filters
      BY <3>1 DEF FetchInv, BrowserFetch, NoFetch
    <3>2. QED
      BY <2>2, <3>1 DEF FetchInv
  <2>7. /\ catalog' = [catalog EXCEPT !.status = "loading"] /\ copies' = copies
        /\ waiting' = waiting
    BY <1>1 DEF ChangeFilters
  <2>8. catalog'.status = "loading"
        /\ catalog' \in [status : {"loading", "success", "error"}, stale : BOOLEAN,
                         rows : Filters \cup {Nobody}]
    BY <2>7 DEF FetchInv
  <2>9. waiting' \subseteq {filters'} \cup late'
    BY <2>2, <2>7
  <2>10. QED
    BY <2>1, <2>4, <2>5, <2>6, <2>7, <2>8, <2>9 DEF FetchInv, RowsMatchFilters
<1>2. CASE Retry(k)
  BY <1>2, RetryKeepsRows DEF Retry, retryVars, FetchInv
<1>3. CASE OnPublished(k)
  <2>1. PICK f \in waiting : RetryOf(k, f) /\ waiting' \in {waiting, waiting \ {f}}
    BY <1>3 DEF OnPublished
  <2>2. f \in Filters /\ f \in {filters} \cup late
    BY <2>1 DEF FetchInv
  <2>3. UNCHANGED <<filters, copies, late>> /\ waiting' \subseteq waiting
    BY <1>3, <2>1 DEF OnPublished
  <2>4. QED
    BY <2>1, <2>2, <2>3, RetryKeepsRows
<1>4. CASE FetchReturns(k)
  <2>1. fetches[k].filters \in Filters
    BY <1>4 DEF FetchReturns, FetchInv, Free, BrowserFetch
  <2>2. QED
    BY <1>4, <2>1, ShownKeepsRows DEF FetchReturns, FetchInv, retryVars
<1>5. CASE FetchFails(k)
  <2>1. CASE fetches[k].filters \in copies
    BY <1>5, <2>1, ShownKeepsRows DEF FetchFails, FetchInv, retryVars
  <2>2. CASE fetches[k].filters \notin copies
    <3>1. catalog' \in {catalog, [catalog EXCEPT !.status = "error"]}
      BY <1>5, <2>2 DEF FetchFails
    <3>2. fetches' = [fetches EXCEPT ![k] = NoFetch] /\ UNCHANGED <<filters, copies, waiting, late>>
      BY <1>5 DEF FetchFails, retryVars
    <3>3. catalog'.rows = catalog.rows /\ catalog'.status \in {catalog.status, "error"}
          /\ catalog' \in [status : {"loading", "success", "error"}, stale : BOOLEAN,
                           rows : Filters \cup {Nobody}]
      BY <3>1 DEF FetchInv
    <3>4. \A j \in Fetches : fetches'[j] = fetches[j] \/ fetches'[j] = NoFetch
      BY <3>2 DEF FetchInv
    <3>5. fetches' \in [Fetches -> BrowserFetch \cup {NoFetch}]
      BY <3>2 DEF FetchInv
    <3>6. QED
      BY <3>2, <3>3, <3>4, <3>5 DEF FetchInv, RowsMatchFilters, NoFetch
  <2>3. QED
    BY <2>1, <2>2
<1>6. QED
  BY <1>1, <1>2, <1>3, <1>4, <1>5

LEMMA LoadStep == ASSUME BrowserInv, Load PROVE BrowserInv'
<1>1. FetchInv'
  <2>1. PICK k \in Fetches :
          fetches' = [j \in Fetches |->
            IF j = k THEN Fetch("effect", filters') ELSE NoFetch]
    BY DEF Load
  <2>2. filters' \in Filters /\ catalog' = Fresh(filters') /\ copies' \subseteq Filters
        /\ waiting' = {} /\ late' = {}
    BY DEF Load, BrowserInv, FetchInv
  <2>3. fetches' \in [Fetches -> BrowserFetch \cup {NoFetch}]
    BY <2>1, <2>2 DEF BrowserFetch, Fetch
  <2>4. \A j \in Fetches : /\ fetches'[j].kind = "effect" => fetches'[j].filters = filters'
                           /\ fetches'[j].kind # "retry"
    BY <2>1 DEF NoFetch, Fetch
  <2>5. catalog'.status = "loading"
        /\ catalog' \in [status : {"loading", "success", "error"}, stale : BOOLEAN,
                         rows : Filters \cup {Nobody}]
    BY <2>2 DEF Fresh
  <2>6. QED
    BY <2>2, <2>3, <2>4, <2>5 DEF FetchInv, RowsMatchFilters
<1>2. WalletInv'
  BY DEF BrowserInv, WalletInv, Load, Restored
<1>3. BuyInv'
  BY DEF BrowserInv, BuyInv, OnePaymentAtATime, Load, Abandon
<1>4. QED
  BY <1>1, <1>2, <1>3 DEF BrowserInv

(* One purchase at a time: its dialog cannot be closed under it, and the   *)
(* ref is what a second click finds.                                       *)
LEMMA BuyStep ==
  ASSUME BuyInv,
         \/ OpenDialog \/ CloseDialog \/ PreviewBeneath
         \/ \E p \in Payments : Buy(p) \/ Delivered(p) \/ NotDelivered(p)
  PROVE  BuyInv'
<1>1. CASE OpenDialog
  BY <1>1 DEF OpenDialog, BuyInv, OnePaymentAtATime
<1>2. CASE CloseDialog
  <2>1. \A p \in Payments : purchases[p] = "none"
    BY <1>2 DEF CloseDialog, BuyInv, OnePaymentAtATime
  <2>2. dialog' = "closed" /\ inFlight' = FALSE /\ purchases' = purchases
    BY <1>2, <2>1 DEF CloseDialog, Closed, BuyInv
  <2>3. QED
    BY <2>1, <2>2 DEF BuyInv, OnePaymentAtATime
<1>3. CASE PreviewBeneath
  BY <1>3 DEF PreviewBeneath, Abandon, BuyInv, OnePaymentAtATime
<1>4. ASSUME NEW p \in Payments, Buy(p) PROVE BuyInv'
  <2>1. \A q \in Payments : purchases[q] = "none"
    BY <1>4 DEF Buy, BuyInv, OnePaymentAtATime
  <2>2. /\ purchases' = [purchases EXCEPT ![p] = "shown"]
        /\ inFlight' = TRUE /\ dialog' = "paying"
    BY <1>4 DEF Buy
  <2>3. QED
    BY <2>1, <2>2 DEF BuyInv, OnePaymentAtATime
<1>5. ASSUME NEW p \in Payments, NEW status \in {"success", "error"}, Ended(p, status)
      PROVE  BuyInv'
  <2>1. purchases[p] = "shown" /\ \A q \in Payments \ {p} : purchases[q] = "none"
    BY <1>5 DEF Ended, BuyInv, OnePaymentAtATime
  <2>2. /\ purchases' = [purchases EXCEPT ![p] = "none"]
        /\ dialog' = status /\ inFlight' = FALSE
    BY <1>5, <2>1 DEF Ended
  <2>3. QED
    BY <2>1, <2>2 DEF BuyInv, OnePaymentAtATime
<1>6. QED
  BY <1>1, <1>2, <1>3, <1>4, <1>5 DEF Delivered, NotDelivered

LEMMA SessionStep == ASSUME WalletInv, BuyInv, SessionNext PROVE WalletInv' /\ BuyInv'
<1>1. CASE Restore \/ Connect \/ ConnectReturns \/ Disconnect \/ SwitchAccount
  <2>1. UNCHANGED buyVars
    BY <1>1 DEF Restore, Connect, ConnectReturns, Disconnect, SwitchAccount
  <2>2. BuyInv'
    BY <2>1 DEF buyVars, BuyInv, OnePaymentAtATime
  <2>3. CASE Restore
    BY <2>2, <2>3, BrowserAssumption DEF Restore, WalletInv
  <2>4. CASE Connect
    BY <2>2, <2>4 DEF Connect, WalletInv
  <2>5. CASE ConnectReturns
    BY <2>2, <2>5, BrowserAssumption DEF ConnectReturns, WalletInv
  <2>6. CASE Disconnect
    BY <2>2, <2>6 DEF Disconnect, WalletInv, Undone
  <2>7. CASE SwitchAccount
    BY <2>2, <2>7 DEF SwitchAccount, WalletInv
  <2>8. QED
    BY <1>1, <2>3, <2>4, <2>5, <2>6, <2>7
<1>2. CASE \/ OpenDialog \/ CloseDialog \/ PreviewBeneath
           \/ \E p \in Payments : Buy(p) \/ Delivered(p) \/ NotDelivered(p)
  <2>1. UNCHANGED walletVars
    BY <1>2 DEF OpenDialog, CloseDialog, Closed, PreviewBeneath, Buy, Delivered, NotDelivered, Ended
  <2>2. WalletInv'
    BY <2>1 DEF walletVars, WalletInv
  <2>3. BuyInv'
    BY <1>2, BuyStep
  <2>4. QED
    BY <2>2, <2>3
<1>3. QED
  BY <1>1, <1>2 DEF SessionNext

LEMMA BrowserStep == BrowserInv /\ [BrowserNext]_browserVars => BrowserInv'
<1>1. SUFFICES ASSUME BrowserInv, [BrowserNext]_browserVars PROVE BrowserInv'
  OBVIOUS
<1>2. ASSUME UNCHANGED catalogVars PROVE FetchInv'
  BY <1>1, <1>2 DEF catalogVars, retryVars, BrowserInv, FetchInv, RowsMatchFilters
<1>3. ASSUME UNCHANGED <<walletVars, buyVars>> PROVE WalletInv' /\ BuyInv'
  BY <1>1, <1>3 DEF walletVars, buyVars, BrowserInv, WalletInv, BuyInv, OnePaymentAtATime
<1>4. CASE CatalogNext
  <2>1. UNCHANGED <<walletVars, buyVars>>
    BY <1>4 DEF CatalogNext, ChangeFilters, Retry, PublishStarts, OnPublished, FetchReturns, FetchFails
  <2>2. CASE PublishStarts
    <3>1. waiting' = waiting \cup {filters} /\ UNCHANGED <<filters, fetches, catalog, copies, late>>
      BY <2>2 DEF PublishStarts
    <3>2. FetchInv'
      BY <1>1, <3>1 DEF BrowserInv, FetchInv, RowsMatchFilters
    <3>3. QED
      BY <1>3, <2>1, <3>2 DEF BrowserInv
  <2>3. CASE ~PublishStarts
    <3>1. FetchInv'
      BY <1>1, <1>4, <2>3, CatalogPageStep DEF CatalogNext, BrowserInv
    <3>2. QED
      BY <1>3, <2>1, <3>1 DEF BrowserInv
  <2>4. QED
    BY <2>2, <2>3
<1>5. CASE SessionNext
  <2>1. UNCHANGED catalogVars
    BY <1>5 DEF SessionNext, Restore, Connect, ConnectReturns, Disconnect, SwitchAccount,
       OpenDialog, CloseDialog, Closed, PreviewBeneath, Buy, Delivered, NotDelivered, Ended
  <2>2. QED
    BY <1>1, <1>2, <1>5, <2>1, SessionStep DEF BrowserInv
<1>6. CASE Load
  BY <1>1, <1>6, LoadStep
<1>7. CASE UNCHANGED browserVars
  BY <1>2, <1>3, <1>7 DEF browserVars, BrowserInv
<1>8. QED
  BY <1>1, <1>4, <1>5, <1>6, <1>7 DEF BrowserNext

LEMMA BrowserSafety == BrowserInv => RowsMatchFilters /\ ConnectedByChoice /\ OnePaymentAtATime
BY DEF BrowserInv, FetchInv, WalletInv, BuyInv, ConnectedByChoice

(* Rows shown as a result are those of the filters on screen, or of filters *)
(* for which a retry was out or a publish waited when these were chosen,    *)
(* however many fetches are under way (useAsync, useCatalog, PublishModal). *)
THEOREM RowsMatch == BrowserSpec => []RowsMatchFilters
BY BrowserInitInv, BrowserStep, BrowserSafety, PTL DEF BrowserSpec

(* A session is connected as its user last asked, whatever Freighter       *)
(* answers late and however often the page is loaded (useWalletConnection).*)
THEOREM ChosenConnection == BrowserSpec => []ConnectedByChoice
BY BrowserInitInv, BrowserStep, BrowserSafety, PTL DEF BrowserSpec

(* No purchase begins, or is offered, while one is under way that the user *)
(* waits for, for any number of clicks, dialogs and purchases (BuyModal,   *)
(* useBuyResource): BuyInv ties the call to the ref and to the status.     *)
THEOREM OnePayment == BrowserSpec => []OnePaymentAtATime
BY BrowserInitInv, BrowserStep, BrowserSafety, PTL DEF BrowserSpec

----------------------------------------------------------------------------
(* The publisher's dialogs.  A form that is shown is busy while it runs;   *)
(* it is for the resource it shows, unless it was pointed elsewhere.       *)

DialogOp ==
  [kind : Kinds, for : Owned, tx : Owned \cup {NoOne}, of : {"shown", "closed", "replaced"},
   step : {"prepare", "sign", "submit", "done"}]

Dialog ==
  [kind : Kinds \cup {"other"}, r : Owned \cup {NoOne}, xdr : Owned \cup {NoOne},
   status : {"idle", "preparing", "ready", "busy", "error", "failed"}]

DialogTypeOK ==
  /\ made \in [Owned -> SUBSET Kinds] /\ overrides \in [Owned -> SUBSET Kinds]
  /\ unheard \in [Owned -> SUBSET Kinds] /\ mistaken \subseteq Owned \cup {NoOne}
  /\ ops \in [Ops -> DialogOp \cup {NoOp}]
  /\ modal \in Dialog \cup {NoDialog} /\ (modal.kind \in Kinds => modal.r \in Owned)

ShownInv ==
  \A o \in Ops : ops[o] # NoOp =>
    /\ ops[o].of = "closed" => ops[o].kind = "onchain"
    /\ ops[o].of = "shown" =>
         /\ modal.kind = ops[o].kind
         /\ ops[o].kind # "onchain" =>
              /\ modal.status = "busy"
              /\ ops[o].for = modal.r \/ {ops[o].for, modal.r} \subseteq mistaken
              /\ \A p \in Ops : ops[p] # NoOp /\ ops[p].of = "shown" => p = o

(* A column that was changed is said to be, or its operation is done and   *)
(* not over.                                                               *)
DoneInv ==
  /\ \A o \in Ops : ops[o] # NoOp /\ ops[o].step = "done" => ops[o].kind \in made[ops[o].for]
  /\ \A r \in Owned \ mistaken :
       /\ overrides[r] \subseteq made[r]
       /\ \A column \in made[r] \ (overrides[r] \cup unheard[r]) :
            \E o \in Ops : /\ ops[o] # NoOp /\ ops[o].for = r /\ ops[o].kind = column
                           /\ ops[o].step = "done"

DialogInv == DialogTypeOK /\ ShownInv /\ DoneInv

(* What a publish dialog may still make is paid for by its opening, or by  *)
(* the error it showed.                                                    *)
MayPublish == IF publish \in {"form", "error"} THEN 1 ELSE 0

PublishInv ==
  /\ pubs \in [open : Nat, closed : Nat]
  /\ rowsMade \in Nat /\ openings \in Nat /\ failures \in Nat
  /\ rowsMade + pubs.open + pubs.closed + MayPublish <= openings + failures

LEMMA OpIsNotNone ==
  ASSUME NEW op \in DialogOp
  PROVE  op # NoOp
BY DEF DialogOp, NoOp

LEMMA DialogInitInv == DashboardInit => DialogInv
BY DashboardAssumption DEF DashboardInit, DialogInv, DialogTypeOK, ShownInv, DoneInv, NoDialog, Kinds

(* The operations of a dialog that goes run on with nobody to see them.    *)
LEMMA PartedOps ==
  ASSUME DialogTypeOK, NEW how \in {"closed", "replaced"}
  PROVE  /\ Parted(how) \in [Ops -> DialogOp \cup {NoOp}]
         /\ \A o \in Ops : Parted(how)[o] # NoOp <=> ops[o] # NoOp
         /\ \A o \in Ops : ops[o] # NoOp =>
              /\ Parted(how)[o].kind = ops[o].kind /\ Parted(how)[o].for = ops[o].for
              /\ Parted(how)[o].step = ops[o].step
              /\ Parted(how)[o].of = IF ops[o].of = "shown" THEN how ELSE ops[o].of
<1>1. ASSUME NEW o \in Ops
      PROVE  /\ Parted(how)[o] \in DialogOp \cup {NoOp}
             /\ Parted(how)[o] # NoOp <=> ops[o] # NoOp
             /\ ops[o] # NoOp =>
                  /\ Parted(how)[o].kind = ops[o].kind /\ Parted(how)[o].for = ops[o].for
                  /\ Parted(how)[o].step = ops[o].step
                  /\ Parted(how)[o].of = IF ops[o].of = "shown" THEN how ELSE ops[o].of
  <2>1. CASE ops[o] # NoOp /\ ops[o].of = "shown"
    <3>1. Parted(how)[o] = [ops[o] EXCEPT !.of = how] /\ ops[o] \in DialogOp
      BY <2>1 DEF Parted, DialogTypeOK
    <3>2. Parted(how)[o] \in DialogOp
      BY <3>1 DEF DialogOp
    <3>3. QED
      BY <2>1, <3>1, <3>2, OpIsNotNone DEF DialogOp
  <2>2. CASE ~(ops[o] # NoOp /\ ops[o].of = "shown")
    BY <2>2 DEF Parted, DialogTypeOK
  <2>3. QED
    BY <2>1, <2>2
<1>2. QED
  BY <1>1 DEF Parted

(* An operation that is done stays so until it is over and reported.       *)
LEMMA DoneKept ==
  ASSUME DialogTypeOK, DialogTypeOK', DoneInv, mistaken \subseteq mistaken',
         UNCHANGED <<made, overrides>>, \A r \in Owned : unheard[r] \subseteq unheard'[r],
         \A o \in Ops : ops'[o] # NoOp /\ ops'[o].step = "done" =>
           /\ ops[o] # NoOp /\ ops[o].step = "done"
           /\ ops'[o].kind = ops[o].kind /\ ops'[o].for = ops[o].for,
         \A o \in Ops : ops[o] # NoOp /\ ops[o].step = "done" =>
           \/ ops'[o] # NoOp /\ ops'[o].step = "done"
           \/ ops[o].kind \in unheard'[ops[o].for]
  PROVE  DoneInv'
<1>1. \A o \in Ops : ops'[o] # NoOp /\ ops'[o].step = "done" => ops'[o].kind \in made'[ops'[o].for]
  BY DEF DoneInv
<1>2. ASSUME NEW r \in Owned \ mistaken', NEW column \in made'[r] \ (overrides'[r] \cup unheard'[r])
      PROVE  \E o \in Ops : /\ ops'[o] # NoOp /\ ops'[o].for = r /\ ops'[o].kind = column
                            /\ ops'[o].step = "done"
  <2>1. r \in Owned \ mistaken /\ column \in made[r] \ (overrides[r] \cup unheard[r])
    BY <1>2
  <2>2. PICK o \in Ops : /\ ops[o] # NoOp /\ ops[o].for = r /\ ops[o].kind = column
                         /\ ops[o].step = "done"
    BY <2>1 DEF DoneInv
  <2>3. ops'[o] # NoOp /\ ops'[o].step = "done"
    BY <1>2, <2>2
  <2>4. QED
    BY <2>2, <2>3
<1>3. QED
  BY <1>1, <1>2 DEF DoneInv

(* A dialog goes, and with it what was shown.                              *)
LEMMA ReplacedKeeps ==
  ASSUME DialogInv, NEW how \in {"closed", "replaced"}, UNCHANGED <<made, overrides, mistaken, unheard>>,
         modal' \in Dialog \cup {NoDialog}, modal'.kind \in Kinds => modal'.r \in Owned,
         how = "closed" => modal.status # "busy",
         \/ ops' = Parted(how)
         \/ \E o \in Ops : /\ ops[o] = NoOp /\ modal'.kind = "onchain"
                           /\ ops' = [Parted(how) EXCEPT ![o] = Op("onchain", modal'.r)]
  PROVE  DialogInv'
<1>1. DialogTypeOK /\ ShownInv /\ DoneInv
  BY DEF DialogInv
<1> PICK parted : parted = Parted(how)
  OBVIOUS
<1>2. /\ parted \in [Ops -> DialogOp \cup {NoOp}]
      /\ \A o \in Ops : parted[o] # NoOp <=> ops[o] # NoOp
      /\ \A o \in Ops : ops[o] # NoOp =>
           /\ parted[o].kind = ops[o].kind /\ parted[o].for = ops[o].for
           /\ parted[o].step = ops[o].step
           /\ parted[o].of = IF ops[o].of = "shown" THEN how ELSE ops[o].of
  BY <1>1, PartedOps
<1>3. \A o \in Ops : ops[o] # NoOp /\ ops[o].of = "shown" /\ how = "closed" => ops[o].kind = "onchain"
  BY <1>1 DEF ShownInv
<1>4. CASE ops' = parted
  <2>1. DialogTypeOK'
    BY <1>1, <1>2, <1>4 DEF DialogTypeOK
  <2>2. ShownInv'
    BY <1>1, <1>2, <1>3, <1>4 DEF ShownInv
  <2>3. DoneInv'
    BY <1>1, <1>2, <1>4, <2>1, DoneKept
  <2>4. QED
    BY <2>1, <2>2, <2>3 DEF DialogInv
<1>5. ASSUME NEW o \in Ops, ops[o] = NoOp, modal'.kind = "onchain",
             ops' = [parted EXCEPT ![o] = Op("onchain", modal'.r)]
      PROVE  DialogInv'
  <2> PICK op : op = Op("onchain", modal'.r)
    OBVIOUS
  <2>1. /\ op \in DialogOp /\ op.kind = "onchain" /\ op.step = "prepare" /\ op.of = "shown"
    BY <1>5 DEF Op, DialogOp, Kinds
  <2>2. ops'[o] = op /\ \A p \in Ops \ {o} : ops'[p] = parted[p]
    BY <1>2, <1>5
  <2>3. DialogTypeOK'
    BY <1>1, <1>2, <1>5, <2>1 DEF DialogTypeOK
  <2>4. ShownInv'
    BY <1>1, <1>2, <1>3, <1>5, <2>1, <2>2 DEF ShownInv
  <2>5. DoneInv'
    <3>1. \A p \in Ops : ops'[p] # NoOp /\ ops'[p].step = "done" =>
            /\ ops[p] # NoOp /\ ops[p].step = "done"
            /\ ops'[p].kind = ops[p].kind /\ ops'[p].for = ops[p].for
      BY <1>2, <2>1, <2>2
    <3>2. \A p \in Ops : ops[p] # NoOp /\ ops[p].step = "done" => ops'[p] # NoOp /\ ops'[p].step = "done"
      BY <1>2, <1>5, <2>2
    <3>3. QED
      BY <1>1, <2>3, <3>1, <3>2, DoneKept
  <2>6. QED
    BY <2>3, <2>4, <2>5 DEF DialogInv
<1>6. QED
  BY <1>4, <1>5

LEMMA OpenKeeps ==
  ASSUME DialogInv,
         \/ OpenOther \/ Close
         \/ \E r \in Owned, kind \in Kinds : OpenForm(kind, r)
         \/ \E r \in Owned, o \in Ops : OpenRegister(r, o)
  PROVE  DialogInv'
<1>1. CASE OpenOther
  <2>1. modal' = [kind |-> "other", r |-> NoOne, xdr |-> NoOne, status |-> "idle"]
    BY <1>1 DEF OpenOther, Opened
  <2>2. modal' \in Dialog /\ modal'.kind \notin Kinds
    BY <2>1 DEF Dialog, Kinds
  <2>3. UNCHANGED <<made, overrides, mistaken, unheard>> /\ ops' = Parted("replaced")
    BY <1>1 DEF OpenOther
  <2>4. QED
    BY <2>2, <2>3, ReplacedKeeps
<1>2. CASE Close
  <2>1. modal' = NoDialog /\ modal'.kind \notin Kinds /\ modal.status # "busy"
    BY <1>2 DEF Close, Cancellable, NoDialog, Kinds
  <2>2. UNCHANGED <<made, overrides, mistaken, unheard>> /\ ops' = Parted("closed")
    BY <1>2 DEF Close
  <2>3. QED
    BY <2>1, <2>2, ReplacedKeeps
<1>3. ASSUME NEW r \in Owned, NEW kind \in Kinds, OpenForm(kind, r) PROVE DialogInv'
  <2>1. modal' = Opened(kind, r) /\ modal' \in Dialog /\ modal'.r = r
    BY <1>3 DEF OpenForm, Opened, Dialog
  <2>2. UNCHANGED <<made, overrides, mistaken, unheard>> /\ ops' = Parted("replaced")
    BY <1>3 DEF OpenForm
  <2>3. QED
    BY <2>1, <2>2, ReplacedKeeps
<1>4. ASSUME NEW r \in Owned, NEW o \in Ops, OpenRegister(r, o) PROVE DialogInv'
  <2>1. modal' = Opened("onchain", r) /\ modal' \in Dialog /\ modal'.r = r /\ modal'.kind = "onchain"
    BY <1>4 DEF OpenRegister, Opened, Dialog, Kinds
  <2>2. /\ UNCHANGED <<made, overrides, mistaken, unheard>> /\ ops[o] = NoOp
        /\ ops' = [Parted("replaced") EXCEPT ![o] = Op("onchain", r)]
    BY <1>4 DEF OpenRegister, FreeOp
  <2>3. QED
    BY <2>1, <2>2, ReplacedKeeps
<1>5. QED
  BY <1>1, <1>2, <1>3, <1>4

LEMMA RepointKeeps ==
  ASSUME DialogInv, NEW r \in Owned, NEW kind \in Kinds, Repoint(kind, r)
  PROVE  DialogInv'
<1>1. DialogTypeOK /\ ShownInv /\ DoneInv
  BY DEF DialogInv
<1>2. /\ modal.kind = kind /\ modal' = [modal EXCEPT !.r = r]
      /\ UNCHANGED <<made, overrides, unheard, ops>>
  BY DEF Repoint
<1>3. modal \in Dialog /\ modal.r \in Owned
  BY <1>1, <1>2 DEF DialogTypeOK, NoDialog, Kinds
<1>4. /\ modal' \in Dialog /\ modal'.r = r /\ modal'.kind = modal.kind /\ modal'.status = modal.status
  BY <1>2, <1>3 DEF Dialog
<1>5. /\ mistaken \subseteq mistaken' /\ mistaken' \subseteq Owned \cup {NoOne}
      /\ \A o \in Ops : ops[o] # NoOp /\ ops[o].of = "shown" => {modal.r, r} \subseteq mistaken'
  BY <1>1, <1>3 DEF Repoint, DialogTypeOK
<1>6. DialogTypeOK'
  BY <1>1, <1>2, <1>4, <1>5 DEF DialogTypeOK
<1>7. ShownInv'
  BY <1>1, <1>2, <1>4, <1>5 DEF ShownInv
<1>8. DoneInv'
  BY <1>1, <1>2, <1>5, <1>6, DoneKept
<1>9. QED
  BY <1>6, <1>7, <1>8 DEF DialogInv

LEMMA BegunKeeps ==
  ASSUME DialogInv, NEW o \in Ops, Start(o) \/ SignPrepared(o)
  PROVE  DialogInv'
<1>1. DialogTypeOK /\ ShownInv /\ DoneInv
  BY DEF DialogInv
<1>2. modal.kind \in Kinds /\ ops[o] = NoOp /\ UNCHANGED <<made, overrides, mistaken, unheard>>
  BY DEF Start, SignPrepared, FreeOp, Kinds
<1>3. modal \in Dialog /\ modal.r \in Owned
  BY <1>1, <1>2 DEF DialogTypeOK, NoDialog, Kinds
<1>4. PICK op \in DialogOp :
        /\ ops' = [ops EXCEPT ![o] = op] /\ op.kind = modal.kind /\ op.for = modal.r
        /\ op.step # "done" /\ op.of = "shown"
  <2>1. CASE Start(o)
    <3>1. Op(modal.kind, modal.r) \in DialogOp
      BY <1>2, <1>3 DEF Op, DialogOp
    <3>2. QED
      BY <2>1, <3>1 DEF Start, Op
  <2>2. CASE SignPrepared(o)
    <3> PICK op : op = [Op("onchain", modal.r) EXCEPT !.tx = modal.xdr, !.step = "sign"]
      OBVIOUS
    <3>1. op = [kind |-> "onchain", for |-> modal.r, tx |-> modal.xdr, step |-> "sign", of |-> "shown"]
      BY DEF Op
    <3>2. op \in DialogOp
      BY <1>3, <3>1 DEF DialogOp, Dialog, Kinds
    <3>3. ops' = [ops EXCEPT ![o] = op] /\ modal.kind = "onchain"
      BY <2>2 DEF SignPrepared
    <3>4. op.kind = "onchain" /\ op.for = modal.r /\ op.step # "done" /\ op.of = "shown"
      <4>1. PICK r : r = modal.r
        OBVIOUS
      <4>2. PICK tx : tx = modal.xdr
        OBVIOUS
      <4>3. op = [kind |-> "onchain", for |-> r, tx |-> tx, step |-> "sign", of |-> "shown"]
        BY <3>1, <4>1, <4>2
      <4>4. op.kind = "onchain" /\ op.for = r /\ op.step = "sign" /\ op.of = "shown"
        BY ONLY <4>3
      <4>5. QED
        BY <4>1, <4>4
    <3>5. QED
      BY <3>2, <3>3, <3>4
  <2>3. QED
    BY <2>1, <2>2
<1>5. /\ modal' \in Dialog /\ modal'.kind = modal.kind /\ modal'.r = modal.r
      /\ modal.kind # "onchain" => modal.status \in {"idle", "error"} /\ modal'.status = "busy"
  BY <1>3 DEF Start, SignPrepared, Dialog
<1>6. ops'[o] = op /\ \A p \in Ops \ {o} : ops'[p] = ops[p]
  BY <1>1, <1>4 DEF DialogTypeOK
<1>7. DialogTypeOK'
  BY <1>1, <1>2, <1>3, <1>4, <1>5 DEF DialogTypeOK
<1>8. ShownInv'
  <2>1. modal.kind # "onchain" => \A p \in Ops : ops[p] # NoOp => ops[p].of # "shown"
    BY <1>1, <1>5 DEF ShownInv
  <2>2. QED
    BY <1>1, <1>2, <1>4, <1>5, <1>6, <2>1 DEF ShownInv
<1>9. DoneInv'
  <2>1. \A p \in Ops : ops'[p] # NoOp /\ ops'[p].step = "done" =>
            /\ ops[p] # NoOp /\ ops[p].step = "done"
            /\ ops'[p].kind = ops[p].kind /\ ops'[p].for = ops[p].for
    BY <1>4, <1>6
  <2>2. \A p \in Ops : ops[p] # NoOp /\ ops[p].step = "done" => ops'[p] # NoOp /\ ops'[p].step = "done"
    BY <1>2, <1>6
  <2>3. QED
    BY <1>1, <1>2, <1>7, <2>1, <2>2, DoneKept
<1>10. QED
  BY <1>7, <1>8, <1>9 DEF DialogInv

(* One more step of an operation; once it is done its column is changed.   *)
LEMMA SteppedKeeps ==
  ASSUME DialogInv, NEW o \in Ops, PreparedForm(o) \/ Signed(o) \/ Serve(o)
  PROVE  DialogInv'
<1>1. DialogTypeOK /\ ShownInv /\ DoneInv
  BY DEF DialogInv
<1>2. PICK step \in {"sign", "submit", "done"} :
        /\ ops' = [ops EXCEPT ![o].step = step]
        /\ step # "done" => made' = made
        /\ step = "done" => made' = [made EXCEPT ![ops[o].for] = @ \cup {ops[o].kind}]
  BY DEF PreparedForm, Signed, Serve
<1>3. /\ UNCHANGED <<modal, overrides, mistaken, unheard>> /\ ops[o] # NoOp
      /\ ops[o].step # "done" /\ ops[o] \in DialogOp
  BY <1>1 DEF PreparedForm, Signed, Serve, DialogTypeOK
<1>4. /\ ops'[o] \in DialogOp /\ ops'[o].kind = ops[o].kind /\ ops'[o].for = ops[o].for
      /\ ops'[o].of = ops[o].of /\ ops'[o].step = step
      /\ \A p \in Ops \ {o} : ops'[p] = ops[p]
  BY <1>1, <1>2, <1>3 DEF DialogTypeOK, DialogOp
<1>5. ops[o].kind \in Kinds /\ ops[o].for \in Owned
  BY <1>3 DEF DialogOp
<1>6. DialogTypeOK'
  <2>1. made' \in [Owned -> SUBSET Kinds]
    BY <1>1, <1>2, <1>5 DEF DialogTypeOK
  <2>2. ops' \in [Ops -> DialogOp \cup {NoOp}]
    BY <1>1, <1>2, <1>4 DEF DialogTypeOK
  <2>3. QED
    BY <1>1, <1>3, <2>1, <2>2 DEF DialogTypeOK
<1>7. ShownInv'
  BY <1>1, <1>3, <1>4, OpIsNotNone DEF ShownInv
<1>8. DoneInv'
  <2>1. /\ \A r \in Owned : made[r] \subseteq made'[r]
        /\ \A r \in Owned, column \in Kinds : column \in made'[r] \ made[r] =>
             step = "done" /\ r = ops[o].for /\ column = ops[o].kind
        /\ step = "done" => ops[o].kind \in made'[ops[o].for]
    BY <1>1, <1>2, <1>5 DEF DialogTypeOK
  <2>2. ASSUME NEW p \in Ops, ops'[p] # NoOp, ops'[p].step = "done"
        PROVE  ops'[p].kind \in made'[ops'[p].for]
    <3>1. CASE p = o
      BY <1>4, <2>1, <2>2, <3>1
    <3>2. CASE p # o
      <4>1. ops'[p] = ops[p] /\ ops[p] \in DialogOp
        BY <1>1, <1>4, <2>2, <3>2 DEF DialogTypeOK
      <4>2. ops[p].kind \in made[ops[p].for] /\ ops[p].for \in Owned
        BY <1>1, <2>2, <4>1 DEF DoneInv, DialogOp
      <4>3. QED
        BY <2>1, <4>1, <4>2
    <3>3. QED
      BY <3>1, <3>2
  <2>3. ASSUME NEW r \in Owned \ mistaken, NEW column \in made'[r] \ (overrides[r] \cup unheard[r])
        PROVE  \E p \in Ops : /\ ops'[p] # NoOp /\ ops'[p].for = r /\ ops'[p].kind = column
                              /\ ops'[p].step = "done"
    <3>1. CASE column \in made[r]
      <4>1. PICK p \in Ops : /\ ops[p] # NoOp /\ ops[p].for = r /\ ops[p].kind = column
                             /\ ops[p].step = "done"
        BY <1>1, <2>3, <3>1 DEF DoneInv
      <4>2. p # o
        BY <1>3, <4>1
      <4>3. QED
        BY <1>4, <4>1, <4>2
    <3>2. CASE column \notin made[r]
      <4>1. column \in Kinds
        BY <1>6, <2>3 DEF DialogTypeOK
      <4>2. step = "done" /\ r = ops[o].for /\ column = ops[o].kind
        BY <2>1, <2>3, <3>2, <4>1
      <4>3. QED
        BY <1>4, <4>2, OpIsNotNone
    <3>3. QED
      BY <3>1, <3>2
  <2>4. \A r \in Owned \ mistaken : overrides[r] \subseteq made'[r]
    BY <1>1, <2>1 DEF DoneInv
  <2>5. QED
    BY <1>3, <2>2, <2>3, <2>4 DEF DoneInv
<1>9. QED
  BY <1>6, <1>7, <1>8 DEF DialogInv

(* An operation that is over is reported, if it was done and unseen.       *)
LEMMA OverKeeps ==
  ASSUME DialogInv, NEW o \in Ops, ops[o] # NoOp, Over(o), UNCHANGED <<made, overrides, mistaken>>,
         unheard' \in [Owned -> SUBSET Kinds], \A r \in Owned : unheard[r] \subseteq unheard'[r],
         ops[o].step = "done" => ops[o].kind \in unheard'[ops[o].for],
         \/ modal' = modal
         \/ /\ ops[o].of = "shown" /\ modal' \in Dialog
            /\ modal'.kind = modal.kind /\ modal'.r = modal.r
  PROVE  DialogInv'
<1>1. DialogTypeOK /\ ShownInv /\ DoneInv
  BY DEF DialogInv
<1>2. ops'[o] = NoOp /\ \A p \in Ops \ {o} : ops'[p] = ops[p]
  BY <1>1 DEF Over, DialogTypeOK
<1>3. DialogTypeOK'
  <2>1. ops' \in [Ops -> DialogOp \cup {NoOp}]
    BY <1>1 DEF Over, DialogTypeOK
  <2>2. modal' \in Dialog \cup {NoDialog} /\ (modal'.kind \in Kinds => modal'.r \in Owned)
    BY <1>1 DEF DialogTypeOK
  <2>3. QED
    BY <1>1, <2>1, <2>2 DEF DialogTypeOK
<1>4. ShownInv'
  BY <1>1, <1>2 DEF ShownInv
<1>5. DoneInv'
  <2>1. \A p \in Ops : ops'[p] # NoOp /\ ops'[p].step = "done" =>
          /\ ops[p] # NoOp /\ ops[p].step = "done"
          /\ ops'[p].kind = ops[p].kind /\ ops'[p].for = ops[p].for
    BY <1>2
  <2>2. \A p \in Ops : ops[p] # NoOp /\ ops[p].step = "done" =>
          \/ ops'[p] # NoOp /\ ops'[p].step = "done"
          \/ ops[p].kind \in unheard'[ops[p].for]
    BY <1>2
  <2>3. QED
    BY <1>1, <1>3, <2>1, <2>2, DoneKept
<1>6. QED
  BY <1>3, <1>4, <1>5 DEF DialogInv

LEMMA EndedKeeps ==
  ASSUME DialogInv, NEW o \in Ops,
         PreparedRegister(o) \/ WrongNetwork(o) \/ Fails(o) \/ ConfirmedUnseen(o)
  PROVE  DialogInv'
<1>1. DialogTypeOK /\ ShownInv /\ DoneInv
  BY DEF DialogInv
<1>2. /\ ops[o] # NoOp /\ Over(o) /\ UNCHANGED <<made, overrides, mistaken>> /\ ops[o] \in DialogOp
  BY <1>1 DEF PreparedRegister, WrongNetwork, Fails, ConfirmedUnseen, DialogTypeOK
<1>3. ops[o].kind \in Kinds /\ ops[o].for \in Owned
  BY <1>2 DEF DialogOp
<1>4. ops[o].of = "shown" => modal \in Dialog
  BY <1>1, <1>2, <1>3 DEF ShownInv, DialogTypeOK, NoDialog, Kinds
<1> DEFINE reported == [unheard EXCEPT ![ops[o].for] = @ \cup {ops[o].kind}]
<1>5. /\ reported \in [Owned -> SUBSET Kinds] /\ ops[o].kind \in reported[ops[o].for]
      /\ \A r \in Owned : unheard[r] \subseteq reported[r]
  BY <1>1, <1>3 DEF DialogTypeOK
<1>6. unheard' \in {unheard, reported} /\ (ops[o].step = "done" => unheard' = reported)
  <2>1. CASE PreparedRegister(o) \/ WrongNetwork(o)
    BY <2>1 DEF PreparedRegister, WrongNetwork
  <2>2. CASE Fails(o)
    BY <2>2 DEF Fails
  <2>3. CASE ConfirmedUnseen(o)
    <3>1. ops[o].of = "replaced"
      BY <1>1, <1>2, <2>3 DEF ConfirmedUnseen, ShownInv, DialogOp
    <3>2. QED
      BY <2>3, <3>1 DEF ConfirmedUnseen
  <2>4. QED
    BY <2>1, <2>2, <2>3
<1>7. \/ modal' = modal
      \/ /\ ops[o].of = "shown" /\ modal' \in Dialog
         /\ modal'.kind = modal.kind /\ modal'.r = modal.r
  <2>1. CASE ops[o].of # "shown"
    BY <2>1 DEF PreparedRegister, WrongNetwork, Fails, ConfirmedUnseen
  <2>2. CASE ops[o].of = "shown"
    <3>1. modal \in Dialog
      BY <1>4, <2>2
    <3>2. CASE PreparedRegister(o)
      BY <1>3, <2>2, <3>1, <3>2 DEF PreparedRegister, Dialog
    <3>3. CASE WrongNetwork(o)
      BY <2>2, <3>1, <3>3 DEF WrongNetwork, Dialog
    <3>4. CASE Fails(o)
      BY <2>2, <3>1, <3>4 DEF Fails, Dialog
    <3>5. CASE ConfirmedUnseen(o)
      BY <3>5 DEF ConfirmedUnseen
    <3>6. QED
      BY <3>2, <3>3, <3>4, <3>5
  <2>3. QED
    BY <2>1, <2>2
<1>8. QED
  BY <1>1, <1>2, <1>5, <1>6, <1>7, OverKeeps DEF DialogTypeOK

(* What is confirmed has been done; in the name of another resource only   *)
(* after the dialog was pointed at it.                                     *)
LEMMA ConfirmKeeps ==
  ASSUME DialogInv, NEW o \in Ops, ConfirmedRegister(o) \/ ConfirmedForm(o)
  PROVE  DialogInv'
<1>1. DialogTypeOK /\ ShownInv /\ DoneInv
  BY DEF DialogInv
<1>2. /\ ops[o] # NoOp /\ ops[o].step = "done" /\ ops[o] \in DialogOp
      /\ ops[o].kind \in Kinds /\ ops[o].for \in Owned
      /\ UNCHANGED <<made, mistaken, unheard>>
  BY <1>1 DEF ConfirmedRegister, ConfirmedForm, DialogTypeOK, DialogOp
<1>3. PICK r \in Owned : /\ Confirm(o, r)
                         /\ r = ops[o].for \/ {ops[o].for, r} \subseteq mistaken
  <2>1. CASE ConfirmedRegister(o)
    BY <1>2, <2>1 DEF ConfirmedRegister
  <2>2. CASE ConfirmedForm(o)
    <3>1. ops[o].of = "shown" /\ Confirm(o, modal.r)
      BY <2>2 DEF ConfirmedForm
    <3>2. modal.kind = ops[o].kind /\ (ops[o].for = modal.r \/ {ops[o].for, modal.r} \subseteq mistaken)
      BY <1>1, <1>2, <2>2, <3>1 DEF ShownInv, ConfirmedForm
    <3>3. modal.r \in Owned
      BY <1>1, <1>2, <3>2 DEF DialogTypeOK
    <3>4. QED
      BY <3>1, <3>2, <3>3
  <2>3. QED
    BY <2>1, <2>2
<1> PICK parted : parted = Parted("replaced")
  OBVIOUS
<1>4. /\ parted \in [Ops -> DialogOp \cup {NoOp}]
      /\ \A p \in Ops : parted[p] # NoOp <=> ops[p] # NoOp
      /\ \A p \in Ops : ops[p] # NoOp =>
           /\ parted[p].kind = ops[p].kind /\ parted[p].for = ops[p].for
           /\ parted[p].step = ops[p].step
           /\ parted[p].of = IF ops[p].of = "shown" THEN "replaced" ELSE ops[p].of
  BY <1>1, PartedOps
<1>5. /\ overrides' = [overrides EXCEPT ![r] = @ \cup {ops[o].kind}] /\ modal' = NoDialog
      /\ ops' = [parted EXCEPT ![o] = NoOp]
  BY <1>3 DEF Confirm
<1>6. ops'[o] = NoOp /\ \A p \in Ops \ {o} : ops'[p] = parted[p]
  BY <1>4, <1>5
<1>7. DialogTypeOK'
  <2>1. overrides' \in [Owned -> SUBSET Kinds]
    BY <1>1, <1>2, <1>5 DEF DialogTypeOK
  <2>2. ops' \in [Ops -> DialogOp \cup {NoOp}]
    BY <1>4, <1>5
  <2>3. modal'.kind \notin Kinds
    BY <1>5 DEF NoDialog, Kinds
  <2>4. QED
    BY <1>1, <1>2, <1>5, <2>1, <2>2, <2>3 DEF DialogTypeOK
<1>8. ShownInv'
  BY <1>1, <1>4, <1>6 DEF ShownInv
<1>9. DoneInv'
  <2>1. \A p \in Ops : ops'[p] # NoOp /\ ops'[p].step = "done" => ops'[p].kind \in made[ops'[p].for]
    BY <1>1, <1>4, <1>6 DEF DoneInv
  <2>2. ASSUME NEW s \in Owned \ mistaken
        PROVE  /\ overrides[s] \subseteq overrides'[s]
               /\ overrides'[s] \subseteq made[s]
               /\ s = ops[o].for => ops[o].kind \in overrides'[s]
    <3>1. overrides[s] \subseteq made[s] /\ ops[o].kind \in made[ops[o].for]
      BY <1>1, <1>2, <2>2 DEF DoneInv
    <3>2. CASE s = r
      BY <1>1, <1>3, <1>5, <2>2, <3>1, <3>2 DEF DialogTypeOK
    <3>3. CASE s # r
      BY <1>1, <1>3, <1>5, <2>2, <3>1, <3>3 DEF DialogTypeOK
    <3>4. QED
      BY <3>2, <3>3
  <2>3. ASSUME NEW s \in Owned \ mistaken, NEW column \in made[s] \ (overrides'[s] \cup unheard[s])
        PROVE  \E p \in Ops : /\ ops'[p] # NoOp /\ ops'[p].for = s /\ ops'[p].kind = column
                              /\ ops'[p].step = "done"
    <3>1. column \notin overrides[s]
      BY <2>2, <2>3
    <3>2. PICK p \in Ops : /\ ops[p] # NoOp /\ ops[p].for = s /\ ops[p].kind = column
                           /\ ops[p].step = "done"
      BY <1>1, <2>3, <3>1 DEF DoneInv
    <3>3. p # o
      BY <2>2, <2>3, <3>2
    <3>4. QED
      BY <1>4, <1>6, <3>2, <3>3
  <2>4. QED
    BY <1>2, <2>1, <2>2, <2>3 DEF DoneInv
<1>10. QED
  BY <1>7, <1>8, <1>9 DEF DialogInv

LEMMA DialogStep == DialogInv /\ [DashboardNext]_dashboardVars => DialogInv'
<1>1. SUFFICES ASSUME DialogInv, [DashboardNext]_dashboardVars PROVE DialogInv'
  OBVIOUS
<1>2. ASSUME UNCHANGED <<made, modal, ops, overrides, mistaken, unheard>> PROVE DialogInv'
  BY <1>1, <1>2 DEF DialogInv, DialogTypeOK, ShownInv, DoneInv
<1>3. CASE DialogNext
  <2>1. CASE (\E t \in {"catalog", "dashboard"} : ShowTab(t)) \/ ListReturns \/ RetryList
    BY <1>2, <2>1 DEF ShowTab, ListReturns, RetryList
  <2>2. QED
    BY <1>1, <1>3, <2>1, OpenKeeps, RepointKeeps, BegunKeeps, SteppedKeeps, EndedKeeps, ConfirmKeeps
       DEF DialogNext
<1>4. CASE PublishNext
  BY <1>2, <1>4 DEF PublishNext, OpenPublish, ClosePublish, SubmitPublish, Published, PublishFails,
     dialogVars
<1>5. CASE UNCHANGED dashboardVars
  BY <1>2, <1>5 DEF dashboardVars, dialogVars
<1>6. QED
  BY <1>1, <1>3, <1>4, <1>5 DEF DashboardNext

(* What the page says was changed was, and what was changed is said, will   *)
(* be, or was reported, for any number of resources and operations          *)
(* (usePublisherDashboard and the dialogs).                                 *)
THEOREM PageSays == DashboardSpec => []PageSaysWhatWasDone
<1>1. DialogInv => PageSaysWhatWasDone
  BY DEF DialogInv, DoneInv, PageSaysWhatWasDone
<1>2. QED
  BY <1>1, DialogInitInv, DialogStep, PTL DEF DashboardSpec

(* The publish dialog. *)
LEMMA PublishInitInv == DashboardInit => PublishInv
BY DEF DashboardInit, PublishInv, MayPublish

LEMMA PublishStep == PublishInv /\ [DashboardNext]_dashboardVars => PublishInv'
<1>1. SUFFICES ASSUME PublishInv, [DashboardNext]_dashboardVars PROVE PublishInv'
  OBVIOUS
<1>2. CASE UNCHANGED publishVars
  BY <1>1, <1>2 DEF publishVars, PublishInv, MayPublish
<1>3. CASE OpenPublish \/ ClosePublish \/ SubmitPublish
  BY <1>1, <1>3 DEF OpenPublish, ClosePublish, SubmitPublish, PublishInv, MayPublish
<1>4. ASSUME NEW whose \in {"open", "closed"}, Published(whose) \/ PublishFails(whose) PROVE PublishInv'
  <2>1. PICK open \in Nat, closed \in Nat : pubs = [open |-> open, closed |-> closed]
    BY <1>1 DEF PublishInv
  <2>2. /\ rowsMade \in Nat /\ openings \in Nat /\ failures \in Nat /\ openings' = openings
        /\ rowsMade + open + closed + MayPublish <= openings + failures
    BY <1>1, <1>4, <2>1 DEF PublishInv, Published, PublishFails
  <2>3. /\ rowsMade' = rowsMade \/ rowsMade' = rowsMade + 1
        /\ \/ failures' = failures /\ (whose = "open" => publish' = "success")
           \/ failures' = failures + 1 /\ (whose = "open" => publish' = "error")
        /\ whose = "closed" => publish' = publish
        /\ pubs[whose] > 0 /\ pubs' = [pubs EXCEPT ![whose] = @ - 1]
    <3>1. CASE Published(whose)
      BY <3>1 DEF Published
    <3>2. CASE PublishFails(whose)
      BY <3>2 DEF PublishFails
    <3>3. QED
      BY <1>4, <3>1, <3>2
  <2>4. CASE whose = "open"
    <3>1. open > 0 /\ pubs' = [open |-> open - 1, closed |-> closed]
      BY <2>1, <2>3, <2>4
    <3>2. \/ failures' = failures /\ MayPublish' = 0
          \/ failures' = failures + 1 /\ MayPublish' = 1
      BY <2>3, <2>4 DEF MayPublish
    <3>3. MayPublish = 0 \/ MayPublish = 1
      BY DEF MayPublish
    <3>4. rowsMade' + (open - 1) + closed + MayPublish' <= openings + failures'
      BY <2>2, <2>3, <3>1, <3>2, <3>3
    <3>5. QED
      BY <2>2, <2>3, <3>1, <3>2, <3>4 DEF PublishInv
  <2>5. CASE whose = "closed"
    <3>1. closed > 0 /\ pubs' = [open |-> open, closed |-> closed - 1]
      BY <2>1, <2>3, <2>5
    <3>2. (MayPublish = 0 \/ MayPublish = 1) /\ MayPublish' = MayPublish
      BY <2>3, <2>5 DEF MayPublish
    <3>3. rowsMade' + open + (closed - 1) + MayPublish' <= openings + failures'
      BY <2>2, <2>3, <3>1, <3>2
    <3>4. QED
      BY <2>2, <2>3, <3>1, <3>3 DEF PublishInv
  <2>6. QED
    BY <2>4, <2>5
<1>5. CASE DialogNext
  BY <1>2, <1>5 DEF DialogNext, ShowTab, ListReturns, RetryList, OpenOther, Close, Repoint, OpenForm,
     OpenRegister, Start, PreparedForm, PreparedRegister, WrongNetwork, SignPrepared, Signed, Serve,
     Fails, ConfirmedRegister, ConfirmedForm, ConfirmedUnseen
<1>6. QED
  BY <1>1, <1>2, <1>3, <1>4, <1>5 DEF DashboardNext, PublishNext, dashboardVars

(* Each opening makes one row, and each failure one more, however many     *)
(* dialogs are opened and closed on requests that run on (PublishModal).   *)
THEOREM OneRowEach == DashboardSpec => []OneRowPerOpening
<1>1. PublishInv => OneRowPerOpening
  BY DEF PublishInv, MayPublish, OneRowPerOpening
<1>2. QED
  BY <1>1, PublishInitInv, PublishStep, PTL DEF DashboardSpec
=============================================================================
