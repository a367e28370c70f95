CONSTANTS
    Proc = {p1}
    Dirs = {cwd, outdir}
    p1 = p1
    p2 = p2
    cwd = cwd
    outdir = outdir
    NoProc = NoProc
    Unset = Unset
    EmptyBody = "empty"
    Unparsable = Unparsable
    Supported <- MCSupported
    Garbled = "#"
    NoVersion = NoVersion
    Blank = Blank
    ValidFor <- MCValidFor
    Parent <- MCParent
    Bases = {"a", "config", ""}
    EmptyBase = ""
    Exts = {"", "yaml", "conf"}
    Stdin = Stdin
    Stdout = Stdout
    Unstatable = Unstatable
    Absent = Absent
    Empty = Empty
    Torn = Torn
    Nil = Nil
    Upstream <- NoUpstream
    Version <- MCVersion
    Malformed <- MCMalformed
    Body <- MCBody
    InitialFiles <- FlagsFiles
    Invocations <- FlagsInvocations
    EditPaths = {}
    EditNodes = {}
    MaxEdits = 0
SPECIFICATION Spec
INVARIANTS
    RefusedRunsTouchNothing
    SourceSurvives
