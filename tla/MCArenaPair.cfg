SPECIFICATION PairSpec
CONSTANTS
    Hash <- MCHash
    Builtins <- MCBuiltins
    Atoms <- MCAtoms
    FieldNames = {}
    TypeNames = {}
    Flags = {0}
    Metas = {}
    Bounds <- MCBounds
    MaxWidth = 0
    MaxTypes = 6
    MaxConstraints = 0
INVARIANTS OrderFreeFingerprints
