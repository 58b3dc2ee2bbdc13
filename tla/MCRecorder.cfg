SPECIFICATION FairSpec
CONSTANTS
    Methods <- MCMethods
    AsciiFold <- MCFold
    UpperFold <- MCFold
    LowerFold <- MCLowerFold
    HttpRequests <- MCHttp
    GrpcRequests <- MCGrpc
    Scrub <- MCScrub
    MatchOn <- MCMatchOn
    InitialFiles <- MCFiles
    Tasks = {t1, t2}
    Finishers = {f1, f2}
INVARIANTS
    TapeInIssueOrder
    NoOrderLost
    ReturnedIsDurable
    FinishOkMeansSaved
    RecordingReplaysOnce
PROPERTIES
    SavesNeverLoseRecordings
    OkIsFinal
    FinishEnds
CHECK_DEADLOCK FALSE
