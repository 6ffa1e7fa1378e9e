\* The vault registry contract with rent.
CONSTANTS
  Accounts = {alice, bob}
  Ids = {x, y, z}
  Prices = {p0, p1, p2}
  ValidPrices = {p1, p2}
  Metadata = {m0, m1}
  ValidMetadata = {m1}
  Tags = {t0, t1}
  ValidTags = {t1}
  U32Max = 2
  PageCap = 1
  NoValue = NoValue
  BumpAmount = 2
  LifetimeThreshold = 1
  MinTtl = 1
  MaxEvents = 4
  MaxDay = 2
SPECIFICATION StorageSpec
SYMMETRY Symmetry
INVARIANT IndexIsEnumeration
INVARIANT EventsReproduceState
INVARIANT PagesFollowRegistrationOrder
INVARIANT ManagedEntryLives
CHECK_DEADLOCK FALSE
