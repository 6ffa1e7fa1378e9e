SPECIFICATION FairBackfillSpec
CONSTANTS
  a = a
  server = server
  q1 = q1
  t1 = t1
  Ids = {a}
  Accounts = {server}
  Wallet <- MCWallet
  Platform = server
  Requests = {q1}
  Script = Script
  Ticks = {t1}
  MaxRetry = 1
  Terms = Terms
  NoValue = NoValue
INVARIANT RegisteredIsOnChain
PROPERTY PendingSettles
