SPECIFICATION PrintSpec
CONSTANTS
    Sources <- MCSources
    MaxDepth = 4
    None = None
INVARIANTS TypeOK PrintsAsWritten ParsedTree PrintParses PrintIsStable
CHECK_DEADLOCK FALSE
