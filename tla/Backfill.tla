------------------------------- MODULE Backfill -------------------------------
(***************************************************************************)
(* scripts/backfill-registry.ts beside the running server of Registration: *)
(* an operator's one-off registration, in the platform's name, of every    *)
(* listed resource that is not marked as registered.  Every row of         *)
(* Registration is verified, hence listed.  Nobody stops the script from   *)
(* working on a row that a handler or the worker is busy with, or one that *)
(* its publisher has not asked to register yet.                            *)
(***************************************************************************)
EXTENDS Registration

VARIABLES
  script,          \* the control state of main
  scripted         \* history: the rows the script sent a registration of

backfillVars == <<vars, script, scripted>>

ScriptInit ==
  /\ script = [pc |-> "idle", todo |-> {}, id |-> NoValue]
  /\ scripted = {}

(* needsRegistration: one query, worked off row by row. *)
Start ==
  /\ script.pc = "idle"
  /\ script' = [script EXCEPT !.pc = "next", !.todo = {id \in Ids : status[id] # "registered"}]
  /\ UNCHANGED <<vars, scripted>>

TakeRow ==
  /\ script.pc = "next"
  /\ \E id \in script.todo :
       script' = [pc |-> "register", todo |-> script.todo \ {id}, id |-> id]
  /\ UNCHANGED <<vars, scripted>>

ScriptGoto(pc) == script' = [script EXCEPT !.pc = pc]

(* register simulates, which throws for an id that is taken; nothing asks  *)
(* the registry first, as the worker does.                                 *)
Submitted ==
  /\ script.pc = "register"
  /\ ~Chain!Exists(script.id)
  /\ txs' = txs \cup {Tx(script.id, Platform, Script)}
  /\ scripted' = scripted \cup {script.id}
  /\ ScriptGoto("await")
  /\ UNCHANGED <<status, old, reqs, ticks, retryCounts, outcome, up, misled, chain>>

(* Faulty variant: the wait ends before the transaction is final. *)
FinalAtOnce ==
  /\ script.pc = "await"
  /\ ScriptGoto("won")
  /\ UNCHANGED <<vars, scripted>>

(* signAndSend returns once the transaction is final; its result is not    *)
(* looked at.                                                              *)
Final ==
  /\ script.pc = "await"
  /\ outcome[Script] # "unknown"
  /\ ScriptGoto("won")
  /\ Forget(Script)
  /\ UNCHANGED <<status, old, reqs, ticks, retryCounts, txs, up, misled, chain, scripted>>

ScriptWrites(s) ==
  /\ status' = [status EXCEPT ![script.id] = s]
  /\ script' = [script EXCEPT !.pc = "next", !.id = NoValue]
  /\ UNCHANGED <<old, reqs, ticks, retryCounts, txs, outcome, up, misled, chain, scripted>>

WriteRegistered == script.pc = "won" /\ ScriptWrites("registered")

(* The script stops waiting; what it sent goes its way. *)
ScriptLeaves(pc) ==
  /\ ScriptGoto(pc)
  /\ txs' = Orphaned(Script)
  /\ Forget(Script)
  /\ UNCHANGED <<status, old, reqs, ticks, retryCounts, up, misled, chain, scripted>>

(* Any await throws into the catch block. *)
Throws == script.pc \in {"register", "await", "won"} /\ ScriptLeaves("catch")

WriteFailed == script.pc = "catch" /\ ScriptWrites("failed")

(* The update in the catch block throws, or the operator stops the script. *)
Quit == script.pc \notin {"idle", "done"} /\ ScriptLeaves("done")

ScriptStep ==
  \/ Start
  \/ TakeRow
  \/ Submitted
  \/ Final
  \/ WriteRegistered
  \/ Throws
  \/ WriteFailed
  \/ Quit

BackfillNext ==
  \/ Next /\ UNCHANGED <<script, scripted>>
  \/ ScriptStep

BackfillSpec == Init /\ ScriptInit /\ [][BackfillNext]_backfillVars

FairBackfillSpec == BackfillSpec /\ Fairness

(* Beside the script the rule of PlatformTakesOnlyStuckRows has one more   *)
(* exception: what the script registered, asked for or not.                *)
OnlyScriptTakesMore ==
  \A id \in PlatformRegistrations \ scripted :
    status[id] # "none" /\ (Wallet[id] = Platform \/ old[id])
=============================================================================
