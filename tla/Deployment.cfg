\* A create with any flags, and two submissions or updates.
CONSTANTS
    d1 = d1
    s1 = s1
    s2 = s2
    Commands = {d1, s1, s2}
    Menu <- MCMenu
    NsIDs = {"ns"}
    Signer <- MCSigner
    MaxConfig = 1
SPECIFICATION Spec
INVARIANTS
    TypeOK
    ExitCodeIsTrue
    OnlyAskedForIsOrdered
    NoUpdateLost
PROPERTIES
    DecidedWhileSubscribed
    DecidedAsStated
CHECK_DEADLOCK FALSE
