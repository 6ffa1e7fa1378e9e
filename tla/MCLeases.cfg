SPECIFICATION Spec
CONSTANTS
  tier = tier
  Holders = {alice}
  Leases = {l1, l2}
  Tiers = {tier}
  Length <- MCLength
  Multiplier <- MCMultiplier
  Prices = {1, 2}
  Buyers = {b1}
  Readers = {r1}
  Revokers = {v1}
  Duration = 1
  MaxTime = 2
  MaxChanges = 1
  NoValue = NoValue
SYMMETRY Symmetry
CHECK_DEADLOCK FALSE
INVARIANT AccessEnds
INVARIANT ChargedOnlyWhenInactive
INVARIANT LeasedAsPaid
