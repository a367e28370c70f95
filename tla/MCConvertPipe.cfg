CONSTANTS
    Proc = {p1, p2}
    Dirs = {cwd}
    p1 = p1
    p2 = p2
    cwd = cwd
    outdir = outdir
    NoProc = NoProc
    Unset = Unset
    EmptyBody = "empty"
    Unparsable = Unparsable
    Supported <- MCSupported
    Garbled = "#"
    NoVersion = NoVersion
    Blank = Blank
    ValidFor <- PipeValidFor
    Parent <- MCParent
    Bases = {"a", "config", ""}
    EmptyBase = ""
    Exts = {"", "yaml", "conf"}
    Stdin = Stdin
    Stdout = Stdout
    Unstatable = Unstatable
    Absent = Absent
    Empty = Empty
    Torn = Torn
    Nil = Nil
    Upstream <- PipeUpstream
    Version <- FewVersion
    Malformed <- FewMalformed
    Body <- FewBody
    InitialFiles <- PipeFiles
    Invocations <- PipeInvocations
    EditPaths <- RacePaths
    EditNodes <- RaceNodes
    MaxEdits = 1
SPECIFICATION FairSpec
INVARIANT
    BrokenPipelineIsNoticed
PROPERTIES
    ImplementsPublication
    EveryRunEnds
