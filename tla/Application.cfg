\* Two callers, one call each, a key file that changes once.
CONSTANTS
    a = a
    b = b
    Callers = {a, b}
    Menu <- MCMenu
    MaxCalls = 1
    Expressions = {"or"}
    KeyFiles <- MCKeyFiles
    MaxChanges = 1
SPECIFICATION FairSpec
INVARIANTS
    TypeOK
    NoClientLeft
    ClosedByAnother
    PolicyBeforeClients
    ZeroWaitSendsNothing
PROPERTIES
    ImplementsLease
    EndsUnlessOrdererSilent
CHECK_DEADLOCK FALSE
