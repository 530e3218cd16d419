CONSTANTS
    Validators = {"v1", "v2", "v3"}
    ValidatorSets <- MCSets
    Times = {0}
    Scenarios <- MCBlockScenarios
    None = None
SPECIFICATION MCSpec
INVARIANTS WitnessesComplete BlocksChained  
PROPERTIES MCBlocksFollowShards OldEventsPruned
CHECK_DEADLOCK FALSE
