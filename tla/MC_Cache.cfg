SPECIFICATION Spec
CONSTANTS
  BlockSize = 64
  MaxAccesses = 6
  Addresses <- MCAddresses
  SetCounts <- MCSetCounts
INVARIANTS
  CacheTypeOK
  TagsInOwnSet
  StatisticsOfTrace
  MoreSetsNeverMissMore
PROPERTY
  RefinesPromise
CHECK_DEADLOCK FALSE
