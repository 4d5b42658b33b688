SPECIFICATION Spec
CONSTANTS
    Points <- MCPoints
    Step = 4
    FloatMax <- MCFloatMax
    Strings <- MCStrings
    MaxLen = 2
    TupleLen = 1
    Bases = {"Any", "Bool", "Int", "Real", "String", "List", "Tuple"}
    Ops = {"Gt", "Ge", "Lt", "Le"}
    Literals <- MCLiterals
    LenLiterals <- MCLenLiterals
    Aliases <- MCAliases
    EnumAliases = FALSE
    MaxEnum = 2
    MaxClauses = 2
    MaxTypes = 5
INVARIANTS TypeOK OneNormalForm SubsetIsSound SubsetIsComplete NeverIsExact
PROPERTY ImplementsMeaning
CHECK_DEADLOCK FALSE
