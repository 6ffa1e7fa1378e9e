--------------------------------- MODULE Agent --------------------------------
(***************************************************************************)
(* The MCP servers (src/mcp) of one user: each process keeps an agent's    *)
(* wallet and publisher key in memory, and all of them share one state     *)
(* file.  A tool call awaits the API server between its steps; the client  *)
(* may run several at once, and reset or replace the credentials meanwhile.*)
(***************************************************************************)
EXTENDS Integers, FiniteSets

CONSTANTS
  Procs,           \* MCP server processes
  Wallets, Keys,   \* wallets and publisher keys that can be issued
  Resources,       \* resources that can be published
  Calls,           \* bound: calls that wait for an answer
  Elsewhere,       \* a walletAddress named in mindbox_register
  None,
  MaxRestarts, MaxResets  \* bounds

ASSUME AgentAssumption ==
  /\ MaxRestarts \in Nat /\ MaxResets \in Nat
  /\ None \notin Wallets \cup Keys
  /\ Elsewhere \notin Wallets \cup {None}
  /\ Wallets \cap Keys = {}

VARIABLES
  memory,          \* agentWallet and agentApiKey of each process
  file,            \* what loadState finds in ~/.mindbox/state.json
  calls,           \* the calls under way
  owner,           \* the wallet each key's publisher was registered with
  resources,       \* the resources published, and who paid to verify them
  outrun,          \* history: keys whose wallet was replaced or named elsewhere
  gone,            \* history: credentials a reset has removed
  resets, restarts

agentVars == <<memory, file, calls, owner, resources, outrun, gone, resets, restarts>>

Empty == [wallet |-> None, key |-> None]
Credentials(m) == {m.wallet, m.key} \ {None}
Idle == [tool |-> "none"]
Unmade == [creator |-> None, payer |-> None, by |-> None, paired |-> FALSE, onchain |-> FALSE]

AgentInit ==
  /\ memory = [p \in Procs |-> Empty] /\ file = Empty
  /\ calls = [c \in Calls |-> Idle]
  /\ owner = [k \in Keys |-> None]
  /\ resources = [r \in Resources |-> Unmade]
  /\ outrun = {} /\ gone = {} /\ resets = 0 /\ restarts = 0

Ends(c) == calls' = [calls EXCEPT ![c] = Idle]

(* Faulty variant: what this process lacks is kept from the file. *)
SaveMerged(m) ==
  file' = [wallet |-> IF m.wallet = None THEN file.wallet ELSE m.wallet,
           key |-> IF m.key = None THEN file.key ELSE m.key]

(* saveState writes what this process holds, and only logs a failure: the  *)
(* file is the old one, or cut short, which loadState takes for none.      *)
Save(m) == file' \in {m, file, Empty}

(* mindbox_setup_wallet, when the service that makes wallets has answered. *)
SetupWallet(p) ==
  \E w \in Wallets :
    /\ \A q \in Procs : memory[q].wallet # w
    /\ file.wallet # w /\ w \notin gone
    /\ \A k \in Keys : owner[k] # w
    /\ \A r \in Resources : resources[r].payer # w
    /\ \A c \in Calls : calls[c] # Idle => calls[c].wallet # w
    /\ memory' = [memory EXCEPT ![p].wallet = w]
    /\ Save(memory'[p])
    /\ outrun' = outrun \cup ({memory[p].key} \ {None})
    /\ calls' = [c \in Calls |->
         IF calls[c].tool = "register" /\ calls[c].proc = p
           THEN [calls[c] EXCEPT !.paired = FALSE] ELSE calls[c]]
    /\ UNCHANGED <<owner, resources, gone, resets, restarts>>

(* mindbox_register: the agent's wallet, or the address that was named. *)
RegisterStart(p, c) ==
  /\ calls[c] = Idle
  /\ memory[p].wallet # None
  /\ \E w \in {memory[p].wallet, Elsewhere} :
       calls' = [calls EXCEPT ![c] = [tool |-> "register", proc |-> p, wallet |-> w,
                                      paired |-> w = memory[p].wallet]]
  /\ UNCHANGED <<memory, file, owner, resources, outrun, gone, resets, restarts>>

RegisterReturns(c) ==
  /\ calls[c].tool = "register"
  /\ LET p == calls[c].proc IN
     \E k \in Keys :
       /\ owner[k] = None
       /\ owner' = [owner EXCEPT ![k] = calls[c].wallet]
       /\ memory' = [memory EXCEPT ![p].key = k]
       /\ Save(memory'[p])
       /\ outrun' = IF calls[c].paired THEN outrun ELSE outrun \cup {k}
  /\ Ends(c)
  /\ UNCHANGED <<resources, gone, resets, restarts>>

(* An error of any tool, with no answer or a refusal. *)
CallFails(c) ==
  /\ calls[c] # Idle
  /\ Ends(c)
  /\ UNCHANGED <<memory, file, owner, resources, outrun, gone, resets, restarts>>

(* What a reset removes, if no other process holds it and it left the file. *)
Removed(p, left) ==
  (Credentials(memory[p]) \cup Credentials(file))
    \ (Credentials(left) \cup UNION {Credentials(memory[q]) : q \in Procs \ {p}})

(* Faulty variant: the publisher key stays in memory. *)
ResetKeepsKey(p) ==
  /\ resets < MaxResets
  /\ resets' = resets + 1
  /\ memory' = [memory EXCEPT ![p].wallet = None]
  /\ file' \in {Empty, file}
  /\ gone' = gone \cup Removed(p, file')
  /\ UNCHANGED <<calls, owner, resources, outrun, restarts>>

(* mindbox_reset: the file may not let itself be deleted. *)
Reset(p) ==
  /\ resets < MaxResets
  /\ resets' = resets + 1
  /\ memory' = [memory EXCEPT ![p] = Empty]
  /\ file' \in {Empty, file}
  /\ gone' = gone \cup Removed(p, file')
  /\ UNCHANGED <<calls, owner, resources, outrun, restarts>>

(* The client stops a process and starts it again: loadState. *)
Restart(p) ==
  /\ restarts < MaxRestarts
  /\ restarts' = restarts + 1
  /\ memory' = [memory EXCEPT ![p] = file]
  /\ calls' = [c \in Calls |->
       IF calls[c] # Idle /\ calls[c].proc = p THEN Idle ELSE calls[c]]
  /\ UNCHANGED <<file, owner, resources, outrun, gone, resets>>

----------------------------------------------------------------------------
(* mindbox_publish: create, pay the verification, register on chain. *)

PublishStart(p, c) ==
  /\ calls[c] = Idle
  /\ memory[p].wallet # None /\ memory[p].key # None
  /\ calls' = [calls EXCEPT ![c] =
       [tool |-> "create", proc |-> p, wallet |-> memory[p].wallet, key |-> memory[p].key,
        paired |-> memory[p].key \notin outrun]]
  /\ UNCHANGED <<memory, file, owner, resources, outrun, gone, resets, restarts>>

(* The server makes the resource of the key's publisher, and its answer    *)
(* may be lost.                                                            *)
Create(c) ==
  /\ calls[c].tool = "create"
  /\ \E r \in Resources :
       /\ resources[r] = Unmade
       /\ resources' = [resources EXCEPT ![r] =
            [Unmade EXCEPT !.creator = owner[calls[c].key], !.by = calls[c].key,
                           !.paired = calls[c].paired]]
       /\ \/ Ends(c)
          \/ calls' = [calls EXCEPT ![c] =
               [tool |-> "pay", proc |-> calls[c].proc, wallet |-> calls[c].wallet,
                resource |-> r]]
  /\ UNCHANGED <<memory, file, owner, outrun, gone, resets, restarts>>

(* insufficientFundsMessage: the call ends, and the resource stays. *)
Unfunded(c) ==
  /\ calls[c].tool = "pay"
  /\ Ends(c)
  /\ UNCHANGED <<memory, file, owner, resources, outrun, gone, resets, restarts>>

(* Faulty variant: the wallet is looked up when the payment is made. *)
PayerNow(c) == memory[calls[c].proc].wallet

(* The wallet the call began with, whatever has replaced it. *)
Payer(c) == calls[c].wallet

PayVerification(c) ==
  /\ calls[c].tool = "pay"
  /\ Payer(c) # None
  /\ resources' = [resources EXCEPT ![calls[c].resource].payer = Payer(c)]
  /\ \/ Ends(c)
     \/ calls' = [calls EXCEPT ![c] = [calls[c] EXCEPT !.tool = "onchain"]]
  /\ UNCHANGED <<memory, file, owner, outrun, gone, resets, restarts>>

(* The key this time is the one in memory; the server refuses another      *)
(* publisher's.                                                            *)
RegisterOnServer(c) ==
  /\ calls[c].tool = "onchain"
  /\ LET r == calls[c].resource IN
     \/ /\ memory[calls[c].proc].key = resources[r].by
        /\ resources' = [resources EXCEPT ![r].onchain = TRUE]
     \/ UNCHANGED resources
  /\ Ends(c)
  /\ UNCHANGED <<memory, file, owner, outrun, gone, resets, restarts>>

(* mindbox_register_onchain: the transaction that was prepared is signed   *)
(* by the wallet the call began with, and the contract takes the           *)
(* creator's signature only.                                               *)
SignStart(p, c) ==
  /\ calls[c] = Idle
  /\ memory[p].wallet # None
  /\ \E r \in Resources :
       /\ resources[r].payer # None /\ ~resources[r].onchain
       /\ memory[p].key = resources[r].by
       /\ calls' = [calls EXCEPT ![c] =
            [tool |-> "sign", proc |-> p, wallet |-> memory[p].wallet, resource |-> r]]
  /\ UNCHANGED <<memory, file, owner, resources, outrun, gone, resets, restarts>>

SubmitSigned(c) ==
  /\ calls[c].tool = "sign"
  /\ LET r == calls[c].resource IN
     /\ memory[calls[c].proc].key = resources[r].by
     /\ calls[c].wallet = resources[r].creator
     /\ resources' = [resources EXCEPT ![r].onchain = TRUE]
  /\ Ends(c)
  /\ UNCHANGED <<memory, file, owner, outrun, gone, resets, restarts>>

AgentNext ==
  \/ \E p \in Procs : SetupWallet(p) \/ Reset(p) \/ Restart(p)
  \/ \E p \in Procs, c \in Calls :
       RegisterStart(p, c) \/ PublishStart(p, c) \/ SignStart(p, c)
  \/ \E c \in Calls :
       RegisterReturns(c) \/ Create(c) \/ Unfunded(c) \/ PayVerification(c) \/ RegisterOnServer(c)
         \/ SubmitSigned(c) \/ CallFails(c)

AgentSpec == AgentInit /\ [][AgentNext]_agentVars

----------------------------------------------------------------------------
(* Properties. *)

(* The key kept beside a wallet is that of the publisher the wallet is     *)
(* paid as, in every process and in the file they overwrite for each       *)
(* other, unless the wallet was replaced, or another named, for that key.  *)
PairedCredentials ==
  \A m \in {memory[p] : p \in Procs} \cup {file} :
    m.wallet # None /\ m.key # None /\ m.key \notin outrun => owner[m.key] = m.wallet

(* Credentials a reset has removed, no other process holding them, never   *)
(* come back: not from the file, nor from a call that was under way.       *)
ResetIsForGood ==
  \A m \in {memory[p] : p \in Procs} \cup {file} : Credentials(m) \cap gone = {}

(* Whatever happens to the credentials while mindbox_publish waits, the    *)
(* wallet that pays to verify a resource is the one its sales will pay,    *)
(* if the call began with a wallet and a key that belong together.         *)
PaidByItsCreator ==
  \A r \in Resources :
    resources[r].payer # None /\ resources[r].paired
      => resources[r].payer = resources[r].creator
=============================================================================
