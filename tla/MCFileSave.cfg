SPECIFICATION Spec
CONSTANTS
    Savers = {rust1, go1, go2}
    RustSavers = {rust1}
    Readers = {load1}
    Path = path
    Shared = shared
    Old = old
    Left = left
    Hole = hole
    None = none
    Chunks = 2
SYMMETRY MCSymmetry
INVARIANTS
    LoadsAreWhole
    TempsRemoved
    ModeKept
PROPERTIES
    SaveIsAtomic
CHECK_DEADLOCK FALSE
