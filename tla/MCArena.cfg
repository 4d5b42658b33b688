SPECIFICATION Spec
CONSTANTS
    Hash <- MCHash
    Builtins <- MCBuiltins
    Atoms <- MCAtoms
    FieldNames = {1, 2}
    TypeNames = {1}
    Flags = {0}
    Metas = {1}
    Bounds <- MCBounds
    MaxWidth = 2
    MaxTypes = 4
    MaxConstraints = 2
INVARIANTS IInv OrderIrrelevant SemanticErasure NoEmptyTuple
PROPERTY ImplementsStore
