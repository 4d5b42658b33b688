SPECIFICATION Spec
CONSTANTS
    Points <- MCPoints
    Step = 4
    FloatMax <- MCFloatMax
    Strings <- MCStrings
    MaxLen = 2
    TupleLen = 1
    Bases = {"Int"}
    Ops = {"Gt", "Ge", "Lt", "Le"}
    Literals <- MCLiterals
    LenLiterals <- MCLenLiterals
    Aliases <- MCAliases
    EnumAliases = TRUE
    MaxEnum = 2
    MaxClauses = 1
    MaxTypes = 5
PROPERTY NamedTypePreserved
CHECK_DEADLOCK FALSE
