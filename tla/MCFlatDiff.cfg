CONSTANTS
    Key <- MCKey
    Before <- MCBefore
    IndexKey = {"logging.{f}.<index>"}
    LoggingKey = {"logging.{f}.any", "logging.{f}.<index>"}
    Value <- MCValue
    Text <- MCText
    Lower <- MCLower
    LoggingEnum = {"info"}
    Missing = Missing
    Maps <- MCMaps
    Pending = Pending
    num = num
SPECIFICATION Spec
INVARIANTS
    TypeOK
    NoFalseDifference
    ReportMirrors
PROPERTY
    ImplementsComparison
CHECK_DEADLOCK FALSE
