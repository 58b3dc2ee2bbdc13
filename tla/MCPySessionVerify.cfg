SPECIFICATION Spec
CONSTANTS
    Methods <- MCMethods
    AsciiFold <- MCFold
    UpperFold <- MCFold
    LowerFold <- MCLowerFold
    Requests <- MCRequests
    Normalize <- MCNormalize
    MatchOn <- MCMatchOn
    InitialFiles <- MCFiles
    Threads = {t1, t2}
    NoThread = none
SYMMETRY MCSymmetry
PROPERTIES
    VerifyNeverWrites
CHECK_DEADLOCK FALSE
