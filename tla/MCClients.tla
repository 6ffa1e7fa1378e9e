------------------------------- MODULE MCClients ------------------------------
(* The clients of the API server, each explored alone: the catalogue of    *)
(* the web client, its wallet and purchase dialog (which share nothing     *)
(* with the catalogue but the page loads), the publisher's dialogs, the    *)
(* publish dialog; or the MCP servers of a user.                           *)
EXTENDS Agent, Browser, Dashboard, TLC

VARIABLE client

Init ==
  /\ AgentInit /\ BrowserInit /\ DashboardInit
  /\ client \in {"agent", "catalogue", "session", "dialogs", "publish"}
  (* an initial state of what a run leaves alone is enough *)
  /\ client # "catalogue" => filters = "all" /\ fetches["a"] # NoFetch
  /\ client # "session" => account = "first"
  /\ client # "dialogs" => config.absolute
  /\ client # "publish" => ~config.signatures

Next ==
  \/ client = "agent" /\ AgentNext /\ UNCHANGED <<browserVars, dashboardVars, client>>
  \/ /\ (* one page load is enough for the catalogue *)
        \/ client = "catalogue" /\ (CatalogNext \/ (loads = 0 /\ Load))
        \/ client = "session" /\ (SessionNext \/ Load)
     /\ UNCHANGED <<agentVars, dashboardVars, client>>
  \/ /\ \/ client = "dialogs" /\ DialogNext
        \/ client = "publish" /\ PublishNext
     /\ UNCHANGED <<agentVars, browserVars, client>>

Spec == Init /\ [][Next]_<<agentVars, browserVars, dashboardVars, client>>

(* Ops are the model values of Calls, and Owned of Procs: one symmetry    *)
(* serves both parts.                                                      *)
Interchangeable ==
  Permutations(Procs) \cup Permutations(Wallets) \cup Permutations(Keys)
    \cup Permutations(Calls)
=============================================================================
