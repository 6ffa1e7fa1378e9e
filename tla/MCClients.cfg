SPECIFICATION Spec
SYMMETRY Interchangeable
CONSTANTS
  Procs = {p1, p2}
  Wallets = {w1, w2}
  Keys = {k1, k2}
  Resources = {r1}
  Calls = {c1, c2}
  Elsewhere = elsewhere
  None = none
  MaxRestarts = 1
  MaxResets = 1
  Filters = {"all", "some"}
  Fetches = {"a", "b", "c"}
  MaxConnects = 2
  Addresses = {"first", "second"}
  Payments = {"one", "two"}
  MaxLoads = 2
  Nobody = nobody
  Owned = {p1, p2}
  Ops = {c1, c2}
  MaxOps = 3
  MaxOpenings = 2
  MaxFailures = 3
  NoOne = noone
INVARIANT RowsMatchFilters
INVARIANT ConnectedByChoice
INVARIANT OnePaymentAtATime
INVARIANT PairedCredentials
INVARIANT ResetIsForGood
INVARIANT PaidByItsCreator
INVARIANT PageSaysWhatWasDone
INVARIANT OneRowPerOpening
CHECK_DEADLOCK FALSE
