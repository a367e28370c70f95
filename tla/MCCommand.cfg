CONSTANTS
    Unset = Unset
    Body <- MCBody
    EmptyBody = "empty"
    Unparsable = Unparsable
    Version <- MCVersion
    Supported <- MCSupported
    Malformed <- MCMalformed
    Garbled = "#"
    NoVersion = NoVersion
    Blank = Blank
    ValidFor <- MCValidFor
    Nil = Nil
    Stdin = Stdin
    CommandLines <- MCCommandLines
    Sources <- MCSources
    Levels <- MCLevels
    BadLevel = "bad_level"
SPECIFICATION Spec
INVARIANTS
    TypeOK
    FailureIsExplained
    VerdictsAgree
    SilenceIsSuccess
CHECK_DEADLOCK FALSE
