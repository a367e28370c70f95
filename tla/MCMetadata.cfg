CONSTANTS
    Words <- MCWords
    HeaderWord = "***header"
    FooterWord = "***footer"
    VersionWord = "aerospike-server-version"
    ToolWord = "asconfig-version"
    ConfigText <- MCConfigText
    Disclaimer <- MCDisclaimer
    FlagVersions <- MCFlagVersions
    ToolVersion <- MCToolVersion
    Sources <- MCSources
    MaxRuns = 3
    MaxTokens = 5
SPECIFICATION Spec
INVARIANTS
    TypeOK
    RoundTrip
    HeaderIsStable
    BlankVersionTable
    UserMetadataSurvives
CHECK_DEADLOCK FALSE
