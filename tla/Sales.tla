-------------------------------- MODULE Sales --------------------------------
(***************************************************************************)
(* What publishers are told they have earned: the accounts of publishers,  *)
(* the payments rows, and the two reports computed from them, the          *)
(* leaderboard and a publisher's analytics.  A report reads publishers,    *)
(* resources and payments one after the other, with no transaction, while  *)
(* resources are published, transferred and paid for.                      *)
(***************************************************************************)
CONSTANTS
  Publishers,      \* publishers that may register
  Accounts,        \* Stellar accounts
  Sellable,        \* resources that may be published
  Purchases,       \* purchases that may be made
  Reports,         \* reports under way
  Unknown

ASSUME SalesAssumption ==
  Unknown \notin Accounts \cup Publishers \cup [of : Sellable, to : Accounts]

VARIABLES
  walletOf,        \* the publishers table: walletAddress
  publisherOf,     \* the resources table: publisherId,
  paidTo,          \*                      walletAddress
  sale,            \* the resource of each purchase, and the account it read
  paid,            \* the payments table: the purchases with a row
  report,          \* how far each report has come, and what it has read
  told             \* history: the payments each publisher has been told of

salesVars == <<walletOf, publisherOf, paidTo, sale, paid, report, told>>

NoReport == [read |-> "nothing"]
Enrolled == {p \in Publishers : walletOf[p] # Unknown}
OnSale == {r \in Sellable : publisherOf[r] # Unknown}

SalesInit ==
  /\ walletOf = [p \in Publishers |-> Unknown]
  /\ publisherOf = [r \in Sellable |-> Unknown]
  /\ paidTo = [r \in Sellable |-> Unknown]
  /\ sale = [s \in Purchases |-> Unknown] /\ paid = {}
  /\ report = [q \in Reports |-> NoReport]
  /\ told = [p \in Publishers |-> {}]

(* registerPublisher: the e-mail address is unique, the account is not. *)
RegisterPublisher(p) ==
  /\ walletOf[p] = Unknown
  /\ \E a \in Accounts : walletOf' = [walletOf EXCEPT ![p] = a]
  /\ UNCHANGED <<publisherOf, paidTo, sale, paid, report, told>>

(* A new resource pays the account its publisher names, or the publisher's; *)
PublishResource(p, r) ==
  /\ walletOf[p] # Unknown /\ r \notin OnSale
  /\ publisherOf' = [publisherOf EXCEPT ![r] = p]
  /\ \E a \in Accounts : paidTo' = [paidTo EXCEPT ![r] = a]
  /\ UNCHANGED <<walletOf, sale, paid, report, told>>

(* one that is transferred pays another account, and its publisher stays. *)
TransferResource(r, a) ==
  /\ r \in OnSale /\ paidTo[r] # a
  /\ paidTo' = [paidTo EXCEPT ![r] = a]
  /\ UNCHANGED <<walletOf, publisherOf, sale, paid, report, told>>

(* A purchase reads the resource first and inserts its payments row last,  *)
(* with the account it was to be paid to when it was read.                 *)
Order(s, r) ==
  /\ sale[s] = Unknown /\ r \in OnSale
  /\ sale' = [sale EXCEPT ![s] = [of |-> r, to |-> paidTo[r]]]
  /\ UNCHANGED <<walletOf, publisherOf, paidTo, paid, report, told>>

Sell(s) ==
  /\ sale[s] # Unknown /\ s \notin paid
  /\ paid' = paid \cup {s}
  /\ UNCHANGED <<walletOf, publisherOf, paidTo, sale, report, told>>

----------------------------------------------------------------------------
(* Reports. *)

(* The leaderboard reads all publishers; the analytics of one are given    *)
(* its row by apiKeyAuth.                                                  *)
BeginReport(q) ==
  /\ report[q] = NoReport
  /\ \E of \in {Enrolled} \cup {{p} : p \in Enrolled} :
       report' = [report EXCEPT ![q] = [read |-> "publishers", of |-> of, atLeast |-> told]]
  /\ UNCHANGED <<walletOf, publisherOf, paidTo, sale, paid, told>>

ReadResources(q) ==
  /\ report[q].read = "publishers"
  /\ report' = [report EXCEPT ![q] =
       [read |-> "resources", of |-> @.of, atLeast |-> @.atLeast,
        theirs |-> [p \in @.of |-> {r \in OnSale : publisherOf[r] = p}]]]
  /\ UNCHANGED <<walletOf, publisherOf, paidTo, sale, paid, told>>

(* Faulty variant: what was paid to the resource's present owner. *)
EarnedByOwner(p, rs) == {s \in paid : sale[s].of \in rs /\ sale[s].to = paidTo[sale[s].of]}

(* A payment counts for the publisher of its resource, if it was paid to   *)
(* the account the publisher is registered with.                           *)
Earned(p, rs) == {s \in paid : sale[s].of \in rs /\ sale[s].to = walletOf[p]}

AnswerReport(q) ==
  /\ report[q].read = "resources"
  /\ LET earned == [p \in report[q].of |-> Earned(p, report[q].theirs[p])]
     IN /\ report' = [report EXCEPT ![q] =
             [read |-> "payments", of |-> @.of, atLeast |-> @.atLeast, earned |-> earned]]
        /\ told' = [p \in Publishers |->
             IF p \in report[q].of THEN told[p] \cup earned[p] ELSE told[p]]
  /\ UNCHANGED <<walletOf, publisherOf, paidTo, sale, paid>>

EndReport(q) ==
  /\ report[q].read = "payments"
  /\ report' = [report EXCEPT ![q] = NoReport]
  /\ UNCHANGED <<walletOf, publisherOf, paidTo, sale, paid, told>>

SalesNext ==
  \/ \E p \in Publishers : RegisterPublisher(p)
  \/ \E p \in Publishers, r \in Sellable : PublishResource(p, r)
  \/ \E r \in Sellable, a \in Accounts : TransferResource(r, a)
  \/ \E s \in Purchases : Sell(s) \/ \E r \in Sellable : Order(s, r)
  \/ \E q \in Reports : BeginReport(q) \/ ReadResources(q) \/ AnswerReport(q) \/ EndReport(q)

SalesSpec == SalesInit /\ [][SalesNext]_salesVars

----------------------------------------------------------------------------
(* Properties. *)

(* Whatever is sold, transferred or published between the reads of a       *)
(* report, a publisher is told of every payment that a report answered     *)
(* before this one was asked for told it of, of none that was not made,    *)
(* and no payment is counted for two publishers.                           *)
EarningsAddUp ==
  \A q \in Reports : report[q].read = "payments" =>
    /\ \A p \in report[q].of : /\ report[q].atLeast[p] \subseteq report[q].earned[p]
                               /\ report[q].earned[p] \subseteq paid
    /\ \A p, o \in report[q].of : p # o => report[q].earned[p] \cap report[q].earned[o] = {}
=============================================================================
