\* Two runs at the same time over six files.
CONSTANTS
    r1 = r1
    r2 = r2
    c1 = c1
    c2 = c2
    Runs = {r1, r2}
    Menu <- MCMenu
    Files = {"old.pb", "old.json", "new.json", "new.pb", "update.pb", "block.pb"}
    Initial <- MCInitial
    Configs = {c1, c2}
    Profiles = {"P", "B"}
SPECIFICATION Spec
INVARIANTS
    TypeOK
    NothingWrittenUnlessLoaded
PROPERTIES
    
    InPlaceYieldsNothing
    FailureLeavesNothingStale
SYMMETRY Symmetry
CHECK_DEADLOCK FALSE
