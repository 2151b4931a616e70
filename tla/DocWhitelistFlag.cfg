SPECIFICATION MenusSpec
CONSTANTS
    Operators = {o1, o2}
    Menu <- MCMenu
    Keys = {"deployer", "poolAdmin", "emergencyAdmin"}
    Feed <- MCFeed
    MaxTasks = 3
CHECK_DEADLOCK FALSE
SYMMETRY MCSymmetry
INVARIANTS
    FlagZeroRemoves
