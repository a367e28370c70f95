CONSTANTS
    Unset = Unset
    Key <- MCKey
    Before <- MCBefore
    IndexKey = {}
    LoggingKey = {"logging.{f}.any"}
    Value <- MCValue
    Text <- MCText
    Lower <- MCLower
    LoggingEnum = {"info", "debug"}
    Missing = Missing
    Maps <- MCMaps
    Unparsable = Unparsable
    Absent = Absent
    Nil = Nil
    num = num
    Invocations <- MCInvocations
    Files <- MCFiles
    MaxEdits = 1
SPECIFICATION Spec
INVARIANTS
    TypeOK
    StatusIsTheAnswer
CHECK_DEADLOCK FALSE
