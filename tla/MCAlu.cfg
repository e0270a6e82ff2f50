SPECIFICATION Spec
CONSTANTS
    ByteBits = 2
    WordBytes = 2
    PtrBytes = 4
    BufBytes = 8
    Attrs <- MCAttrs
    Literals <- MCLiterals
    Targets <- MCTargets
    MaxOps = 2
INVARIANTS
    ValuesRight
    StoredRight
CHECK_DEADLOCK FALSE
