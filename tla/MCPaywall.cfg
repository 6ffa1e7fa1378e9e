SPECIFICATION Spec
CONSTANTS
  Prices = {p1, p2}
  Wallets = {alice, bob}
  Buyers = {b1, b2}
  Ttl = 1
  Grace = 1
  MwTtl = 1
  Duration = 1
  MaxTime = 4
  MaxChanges = 2
  NoValue = NoValue
SYMMETRY Symmetry
CHECK_DEADLOCK FALSE
INVARIANT ChargedPriceIsRecent
INVARIANT PaidToRecentWallet
INVARIANT ReceiptsTrueWhenCalm
