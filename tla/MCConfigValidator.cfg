CONSTANTS
    Nil = Nil
    num = num
    IndexOf <- MCIndexOf
    Value <- MCValue
    Configs <- MCConfigs
    Contexts <- MCContexts
    Texts <- MCTexts
    OneOf <- MCOneOf
    TextBefore <- MCTextBefore
    MaxErrors = 2
SPECIFICATION Spec
INVARIANTS
    TypeOK
    ContextsAreNamed
    EveryErrorIsShown
CHECK_DEADLOCK FALSE
