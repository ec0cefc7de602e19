CONSTANTS
    sdk = sdk
    other = other
    Client <- MCClient
    Sdk <- MCSdk
    Config <- MCConfig
    Name <- MCName
    Route = {"read"}
    RawRequest <- MCRawRequest
    Torn = Torn
    AllowedOrigins = {"trusted"}
    Sentinel <- MCSentinel
    Carried <- MCCarried
    MaxBoots = 2
    MaxKeys = 2
SPECIFICATION Spec
INVARIANT NameIsTheHeaders
 
INVARIANT ProtocolErrorMeansUnevaluated
INVARIANT DroppedIsUntouched
INVARIANT ServingIsGoverned
PROPERTY KeyIsNeverReplaced
PROPERTY TermEndsServe
CHECK_DEADLOCK FALSE
