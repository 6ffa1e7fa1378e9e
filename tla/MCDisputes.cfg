SPECIFICATION Spec
CONSTANTS
  Pairs = {p}
  Rows = {d1, d2}
  Amounts = {3}
  Cap = 2
  HasRefundWallet = TRUE
  Filers = {f1, f2}
  Rulers = {r1, r2}
  MaxDeaths = 1
  NoValue = NoValue
SYMMETRY Symmetry
CHECK_DEADLOCK FALSE
INVARIANT RefundTxIsReal
INVARIANT RefundedOnceInTurn
INVARIANT OneOpenDisputePerPair
