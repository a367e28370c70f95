CONSTANTS
    Run = {r1, r2}
    Case = {"foo"}
    r1 = r1
    r2 = r2
    Outside = Outside
    NoSource = NoSource
    Nobody = Nobody
    Absent = Absent
    Empty = Empty
    Torn = Torn
    Unset = Unset
    EmptyBody = "empty"
    Declarations <- MCDeclarations
    Unparsable = Unparsable
    Garbled = "#"
    NoVersion = NoVersion
    Blank = Blank
    Nil = Nil
    Stdin = Stdin
    Body <- MCBody
    Version <- MCVersion
    Supported <- MCSupported
    Malformed <- MCMalformed
    ValidFor <- MCValidFor
    Commands <- MCCommands
    InitialFiles <- MCFiles
SYMMETRY Interchangeable
SPECIFICATION Spec
INVARIANTS
    TypeOK
    CasesAreKept
    DescribedCasePasses
    SuccessLeavesACase
    SuiteLoadsUnlessCut
    NamesStayApart
