SPECIFICATION OwnerSpec
CONSTANTS
  x = x
  alice = alice
  server = server
  Ids = {x}
  Accounts = {alice, server}
  Platform = server
  Prices = {1}
  Owner <- MCOwner
  StartPrice = 1
  Content = Content
  MaxEvents = 3
  MaxLedger = 3
  Retention = 2
  PageLimit = 3
  Polls = {k1}
  MaxFailures = 0
  Tasks = {t1}
  t1 = t1
  NoValue = NoValue
CHECK_DEADLOCK FALSE
INVARIANT AgreesAfterChanges
INVARIANT AllClearMeansAgreement
