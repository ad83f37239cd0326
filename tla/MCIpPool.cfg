SPECIFICATION Spec
CONSTANTS
    Base <- MCBase
    Size <- MCSize
    AddrTop <- MCAddrTop
    None = None
INVARIANTS TypeOK AvailableIsExact
PROPERTIES LowestFreeFirst PoolSpec
