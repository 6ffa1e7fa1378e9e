SPECIFICATION Spec
CONSTANTS
  a = a
  alice = alice
  server = server
  q1 = q1
  q2 = q2
  t1 = t1
  t2 = t2
  Ids = {a}
  Accounts = {alice, server}
  Wallet <- MCWallet
  Platform = server
  Requests = {q1, q2}
  Script = Script
  Ticks = {t1, t2}
  MaxRetry = 1
  Terms = Terms
  NoValue = NoValue
SYMMETRY Symmetry
 
PROPERTY SettledForGood
