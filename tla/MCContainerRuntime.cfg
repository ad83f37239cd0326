SPECIFICATION Spec
CONSTANTS
    Declared <- MCDeclared
    Lines <- MCLines
    MaxContainers = 4
    Numeral <- MCNumeral
    U16Max = 65535
    OptionWords <- MCOptionWords
    MaxOptions = 5
    Bytes <- MCBytes
    RootUser <- MCRootUser
    RootPass <- MCRootPass
    MaxLine = 3
INVARIANTS PsNumberIsId DeclaredAreServed OptionsReadOnce ScreenShowsLine
PROPERTIES RoutesAreStable
