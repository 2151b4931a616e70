SPECIFICATION Spec
CONSTANTS
    Scenarios <- WrappedScenarios
CHECK_DEADLOCK FALSE
INVARIANTS
    FlagUpgrades
