SPECIFICATION Spec
SYMMETRY Interchangeable
CONSTANTS
  Request = {a1, a2, a3, b1}
  b1 = b1
  A = A
  B = B
  k = k
  Nil = Nil
  PubOf <- MCPubOf
  KeyOf <- MCKeyOf
  KindOf <- MCKindOf
  MaxExpiries = 1
  MaxRestarts = 1
  Nothing = Nothing
  Resource = {r1}
  Verification = {v1, v2}
  Query = {g1, g2}
  SharedKey = {page}
  SearchKey = {search}
  MaxKeys = 1
  TTL = 2
  QueryTime = 1
  MaxEvents = 1
  Publishers = {g1, g2}
  Accounts = {s1, s2}
  Sellable = {v1, v2}
  Purchases = {b1}
  Reports = {q1, q2}
  Unknown = Unknown
INVARIANT OneRowPerHeldKey
INVARIANT RepliesAreYours
INVARIANT MarkerHasRunner
INVARIANT PagesAreRecent
INVARIANT DelistedLeavesAnswers
INVARIANT ListedIsSound
INVARIANT EarningsAddUp
CHECK_DEADLOCK FALSE
