\* One service, which only the environment configures; with Inputs <- TwoFiles, a
\* user and a project file may state its address.
CONSTANTS
    s1 = s1
    Services = {s1}
    Inputs <- NoFiles
    Paths <- MCPaths
    Holds <- MCHolds
    MaxChanges = 0
SPECIFICATION Spec
INVARIANT
    PrecedenceAsDocumented
CHECK_DEADLOCK FALSE
