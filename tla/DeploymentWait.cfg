\* One create with any flags and one submission.
CONSTANTS
    d1 = d1
    s1 = s1
    s2 = s2
    Commands = {d1, s1}
    Menu <- MCMenu
    NsIDs = {"ns"}
    Signer <- MCSigner
    MaxConfig = 0
SPECIFICATION Spec
INVARIANT
    WaitExitsZeroOnlyIfCommitted
CHECK_DEADLOCK FALSE
