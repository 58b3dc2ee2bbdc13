SPECIFICATION FairSpec
CONSTANTS
    Methods <- MCMethods
    AsciiFold <- MCFold
    UpperFold <- MCFold
    LowerFold <- MCLowerFold
    Requests <- MCRequests
    Normalize <- MCNormalize
    MatchOn <- MCMatchOn
    InitialFiles <- MCFiles
    Threads = {t1, t2}
    NoThread = none
INVARIANTS
    OrdersPaired
    RecordingReplaysOnce
    PlayedInSync
    DueSaved
    FileInIssueOrder
PROPERTY
    SessionEnds
CHECK_DEADLOCK FALSE
