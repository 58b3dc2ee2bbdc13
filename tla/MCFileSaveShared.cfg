SPECIFICATION Spec
CONSTANTS
    Savers = {rust1, rust2}
    RustSavers = {rust1, rust2}
    Readers = {}
    Path = path
    Shared = shared
    Old = old
    Left = left
    Hole = hole
    None = none
    Chunks = 2
SYMMETRY MCSymmetry
INVARIANTS
    NeverTruncated
CHECK_DEADLOCK FALSE
