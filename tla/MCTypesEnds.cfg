SPECIFICATION Spec
CONSTANTS
    Points <- MCPoints
    Step = 4
    FloatMax <- MCFloatMax
    Strings <- MCStrings
    MaxLen = 2
    TupleLen = 1
    Sources <- MCSourcesEnds
    Probes <- MCProbes
    Paths <- MCPaths
    MaxTypes = 2
INVARIANTS SemanticEquivalence
CHECK_DEADLOCK FALSE
