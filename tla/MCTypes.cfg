SPECIFICATION Spec
CONSTANTS
    Points <- MCPoints
    Step = 4
    FloatMax <- MCFloatMax
    Strings <- MCStrings
    MaxLen = 2
    TupleLen = 1
    Sources <- MCSources
    Probes <- MCProbes
    Paths <- MCPaths
    MaxTypes = 3
INVARIANTS TypeOK SubtypeSound SubtypeTransitive SumMeaning SumOrderFree PathsAgree TypeCheckBetween LabelsIrrelevant OverlayLookup OverlayPrints
CHECK_DEADLOCK FALSE
