SPECIFICATION Spec
CONSTANTS
  cacheSize = 144
  blockSize = 16
  ways = 3
  Addr <- MCAddr
  CounterModulus = 16
  MaxAccess = 6
INVARIANTS
  TypeOK
  NoDuplicates
  LRUOrder
PROPERTIES
  HitsAsLRU
  ImplementsLRU
