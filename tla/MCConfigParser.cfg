SPECIFICATION BootSpec
CONSTANTS
    Docs <- MCDocs
    DefaultMemory = 6
    DefaultPids = 100
    Kilo = 2
    SizeMax = 15
    Overflow = Overflow
    None = None
    Procs = {p1, p2, p3}
    Requests = {2, 3, 14}
    MachineMemory = 9
    UsizeMax = 15
    DefaultLimit = 6
    CgroupPids = 2
    Nothing = Nothing
INVARIANTS PortsStayWithContainer DeclaredLimitBinds
PROPERTY ReadsEverything
CHECK_DEADLOCK FALSE
