SPECIFICATION FairSpec
CONSTANTS
    Scenarios <- MCScenarios
CHECK_DEADLOCK FALSE
INVARIANTS
    OverIsSound
    
PROPERTIES
    DeploymentResumes
