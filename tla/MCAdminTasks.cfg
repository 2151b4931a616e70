SPECIFICATION MenusSpec
CONSTANTS
    Operators = {o1, o2}
    Menu <- MCMenu
    Keys = {"deployer", "poolAdmin", "emergencyAdmin"}
    Feed <- MCFeed
    MaxTasks = 4
CHECK_DEADLOCK FALSE
SYMMETRY MCSymmetry
INVARIANTS
    LastWordHolds
    InUseIsActive
