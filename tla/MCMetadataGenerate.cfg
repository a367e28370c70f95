CONSTANTS
    Words <- MCWords
    HeaderWord = "***header"
    FooterWord = "***footer"
    VersionWord = "aerospike-server-version"
    ToolWord = "asconfig-version"
    ConfigText <- MCConfigText
    Disclaimer <- MCDisclaimer
    FlagVersions <- MCFlagVersions
    ToolVersion <- MCToolVersion
    Sources <- MCSources
    MaxRuns = 3
    MaxTokens = 2
SPECIFICATION Spec
INVARIANT
    GeneratedVersionReadsBack
