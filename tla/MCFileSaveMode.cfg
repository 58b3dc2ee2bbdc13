SPECIFICATION Spec
CONSTANTS
    Savers = {rust1}
    RustSavers = {rust1}
    Readers = {}
    Path = path
    Shared = shared
    Old = old
    Left = left
    Hole = hole
    None = none
    Chunks = 2
INVARIANTS
    PermissionsPreserved
CHECK_DEADLOCK FALSE
