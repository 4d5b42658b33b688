SPECIFICATION Spec
CONSTANTS
    Names = {"a", "b"}
    Scopes = {"t1", "t2"}
    Given <- MCTenantGiven
    Definitions <- MCRecursive
    Schemas <- MCSchemas
    MaxCompiles = 2
    MaxRevisions = 2
    MaxDepth = 6
INVARIANTS RecursionCaught
CHECK_DEADLOCK FALSE
