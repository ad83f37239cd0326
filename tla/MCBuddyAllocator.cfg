SPECIFICATION BuddySpec
CONSTANTS
    MaxOrder = 3
    FrameLists <- MCFrameLists
    Counts = {1, 2, 3, 5}
    None = None
INVARIANTS FullyMerged PanicsWhileBuilt
PROPERTY PoolSpec
CHECK_DEADLOCK FALSE
