SPECIFICATION FairSpec
CONSTANTS
  x = x
  alice = alice
  Ids = {x}
  Accounts = {alice}
  Prices = {1}
  Owner <- MCOwner
  StartPrice = 1
  Content = Content
  MaxEvents = 3
  MaxLedger = 4
  Retention = 2
  PageLimit = 2
  Polls = {k1, k2}
  MaxFailures = 1
  NoValue = NoValue
CHECK_DEADLOCK FALSE
INVARIANT NothingElsePassedOver
PROPERTY EventuallyPassed
