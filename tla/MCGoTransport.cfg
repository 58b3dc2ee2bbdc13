SPECIFICATION Spec
CONSTANTS
    Calls = {c1, c2}
    Requests = {r1}
    InitialFiles <- MCFiles
SYMMETRY MCSymmetry
INVARIANTS
    CloseTellsTheTruth
    MemoryIsDisk
    FileInIssueOrder
PROPERTIES
    ClosedIsFinal
CHECK_DEADLOCK FALSE
