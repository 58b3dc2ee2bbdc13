SPECIFICATION Spec
CONSTANTS
    Methods <- MCMethods
    AsciiFold <- MCFold
    UpperFold <- MCFold
    LowerFold <- MCLowerFold
    Http <- MCHttp
    Grpc <- MCGrpc
    Ws <- MCWs
    Requests <- MCRequests
    MatchConfigs <- MCMatchConfigs
    MaxLen = 3
INVARIANT PlayedFollowsInteraction
PROPERTIES
    TakeIgnoresCache
    FileHoldsAll
