SPECIFICATION Spec
CONSTANTS
    Lower <- MCLower
    Home <- MCHome
    Args <- MCArgs
    Paths <- MCPaths
    Contents <- MCContents
    Empty <- MCEmpty
INVARIANT TypeOK
PROPERTY FlatSpec
