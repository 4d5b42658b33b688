SPECIFICATION FairSpec
CONSTANTS
    Names = {"a", "b", "c"}
    Scopes = {"t1", "t2"}
    Given <- MCGiven
    Definitions <- MCDefinitions
    Schemas <- MCSchemas
    MaxCompiles = 2
    MaxRevisions = 2
    MaxDepth = 6
INVARIANTS TypeOK Coherent RecursionCaught
PROPERTIES KeysStick NoFalseCycle EveryCompileReturns
CHECK_DEADLOCK FALSE
