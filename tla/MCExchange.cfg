SPECIFICATION Spec
CONSTANTS
    Width <- MCWidth
    IndexNames <- MCIndexNames
    Number <- MCNumber
    Lower <- MCLower
    Contains <- MCContains
    DEFAULT_FILTER_HEADERS = {"authorization"}
    DEFAULT_FILTER_QUERY_PARAMS = {"token", "access_token"}
    DEFAULT_BODY_SCRUB_PATTERNS = {"password", "access_token"}
    ParseStatus <- MCParseStatus
    PercentDecode <- MCPercentDecode
    Security <- MCSecurity
    Compare <- MCCompare
    MatchOn = {"method", "uri", "body"}
    SessionModes = {"None", "Once", "NewEpisodes", "All", "Rewrite", "Verify"}
    HttpCalls <- MCHttpCalls
    GrpcCalls <- MCGrpcCalls
    NodeHttp <- MCNodeHttp
    NodeGrpc <- MCNodeGrpc
    NodeWs <- MCNodeWs
    InitialFiles <- MCInitialFiles
    Secrets <- MCSecrets
    MaxInteractions = 2
INVARIANTS
    RecordedIsReplayed
    ReplayReadsAsTheLiveResponse
    GrpcReplayTellsTheSame
    VerifyAcceptsItsOwnRecording
    SecretsStayOut
    ReservationSettled
PROPERTY
    SavesKeepTheRest
