------------------------------ MODULE Convert ------------------------------
(***************************************************************************)
(* The command `asconfig convert' (cmd/convert.go): several runs of it, as *)
(* separate processes, over one file system and possibly joined by pipes.  *)
(* A run stats its source, reads it, checks the version and the flags,     *)
(* converts what it read, decides where the result goes, opens that file   *)
(* -- which truncates it -- and writes.  Between any two of these steps    *)
(* another run or another program may touch the same files, and the run    *)
(* may be killed.                                                          *)
(*                                                                         *)
(* A run may also be one of `asconfig generate' (cmd/generate.go), which   *)
(* fetches a configuration from a server, and opens and writes its output  *)
(* as convert does.                                                        *)
(*                                                                         *)
(* Module Conversion has what a run decides, module Contents what a text   *)
(* is.                                                                     *)
(***************************************************************************)
EXTENDS Conversion, Naturals, Sequences

CONSTANTS
    Proc,           \* the runs of the command
    Upstream,       \* the run whose stdout is a run's stdin, or NoProc
    NoProc,
    Invocations,    \* for each run, the command lines it may be started with
    Dirs, Parent,   \* directories, and the directory each one is in
    Bases,          \* file names without their extension
    EmptyBase,      \* the base of a file named ".conf" or ".yaml"
    Exts,           \* file extensions; "" is none
    Stdout,         \* "/dev/stdout"
    Unstatable,     \* an output path whose stat fails, yet not with ErrNotExist
    Absent,         \* no such file
    Empty,          \* a file of no bytes
    Torn,           \* a file holding part of what was written to it
    InitialFiles,   \* the file systems a session may start with
    EditPaths,      \* the files other programs may change
    EditNodes,      \* what another program may leave in a file
    MaxEdits        \* bound on what other programs do

defaultOutputFileName == "config"

FilePath == [dir : Dirs, base : Bases \cup Dirs, ext : Exts]

Node == Doc \cup {Absent, Empty, Torn}

Invocation == [cmd    : {"convert", "generate"},
               args   : Seq(FilePath),
               stdin  : Doc \cup {Empty},
               out    : FilePath \cup Dirs \cup {Stdout, Unstatable},
               ver    : Version \cup {Unset},
               force  : BOOLEAN,
               format : STRING \cup {Unset}]

ASSUME ConvertAssumption ==
    /\ Upstream \in [Proc -> Proc \cup {NoProc}]
    /\ NoProc \notin Proc
    /\ Invocations \in [Proc -> SUBSET Invocation]
    /\ Parent \in [Dirs -> Dirs]
    /\ {EmptyBase, defaultOutputFileName} \subseteq Bases
    /\ Bases \cap Dirs = {}
    /\ {"", "yaml", "conf"} \subseteq Exts
    /\ Exts \subseteq STRING
    /\ {Stdin, Stdout, Unstatable, Nil} \cap (FilePath \cup Dirs) = {}
    /\ Stdout # Unstatable /\ Stdout # Nil /\ Unstatable # Nil
    /\ {Absent, Empty, Torn, Nil} \cap Doc = {}
    /\ Absent # Empty /\ Absent # Torn /\ Empty # Torn
    /\ InitialFiles \subseteq [FilePath -> Node]
    /\ EditPaths \subseteq FilePath
    /\ EditNodes \subseteq Node
    /\ MaxEdits \in Nat

\* Files that were there before, or come from other programs, are the users'.
ASSUME ProvenanceAssumption ==
    /\ \A files \in InitialFiles, f \in FilePath :
          files[f] \in Doc => files[f].by = "user"
    /\ \A node \in EditNodes : node \in Doc => node.by = "user"
    /\ \A p \in Proc : \A i \in Invocations[p] :
          i.stdin \in Doc => i.stdin.by = "user"

VARIABLES
    fs,         \* the files
    stdout,     \* what each run has written to its standard output
    inv,        \* the command line of each run
    pc,         \* where each run is
    cfgData,    \* what the run read from its source
    out,        \* the converted bytes
    outPath,    \* the path the result goes to
    err,        \* the error the run reported
    writers,    \* history: who changed a file since it was last truncated
    edits       \* how often other programs changed a file

vars == <<fs, stdout, inv, pc, cfgData, out, outPath, err, writers, edits>>

Running == {"start", "fetch", "read", "check", "convert", "resolve", "open", "write"}
Ended   == {"done", "failed", "panicked", "killed"}

\* The errors of cmd/utils.go, and those passed on from the system and the library.
PreRunErrors  == {"errTooManyArguments", "errFileNotExist", "readError",
                  "errMissingAerospikeVersion", "errInvalidAerospikeVersion",
                  "errUnsupportedAerospikeVersion", "errInvalidFormat"}
RunErrors     == {"ErrInvalidFormat", "loadError", "ErrConfigValidation",
                  "ValidationErrors", "marshalError", "openError", "writeError"}
FetchErrors   == {"errUnableToCreateClientPolicy", "errUnableToGenerateConfigFile",
                  "errUnableToParseGeneratedConfFile", "errUnableToMarshalGeneratedConfFile"}
Errors        == PreRunErrors \cup RunErrors \cup FetchErrors

ASSUME ErrorAssumption == Nil \notin Errors

\* Another program, in the history kept in writers.
Other == "other"

ASSUME OtherAssumption == Other \notin Proc

TypeOK ==
    /\ fs \in [FilePath -> Node]
    /\ stdout \in [Proc -> Doc \cup {Empty, Torn}]
    /\ inv \in [Proc -> Invocation]
    /\ pc \in [Proc -> Running \cup Ended]
    /\ cfgData \in [Proc -> Doc \cup {Nil}]
    /\ out \in [Proc -> Doc \cup {Nil}]
    /\ outPath \in [Proc -> FilePath \cup {Stdout, Nil}]
    /\ err \in [Proc -> Errors \cup {Nil}]
    /\ writers \in [FilePath -> SUBSET (Proc \cup {Other})]
    /\ edits \in 0..MaxEdits

Init ==
    /\ fs \in InitialFiles
    /\ stdout = [p \in Proc |-> Empty]
    /\ inv \in [Proc -> UNION {Invocations[p] : p \in Proc}]
    /\ \A p \in Proc : inv[p] \in Invocations[p]
    /\ pc = [p \in Proc |-> "start"]
    /\ cfgData = [p \in Proc |-> Nil]
    /\ out = [p \in Proc |-> Nil]
    /\ outPath = [p \in Proc |-> Nil]
    /\ err = [p \in Proc |-> Nil]
    /\ writers = [f \in FilePath |-> {}]
    /\ edits = 0

-----------------------------------------------------------------------------
(* The source a run reads and the path it writes to.                        *)

\* What reading a node can yield.  Where a torn text ends is anyone's guess, so it
\* may still hold its metadata, and a configuration other than the one written.
Readings(node) ==
    IF node \in Doc THEN {node}
    ELSE IF node = Empty THEN {EmptyText(EmptyBody), EmptyText(Unparsable)}
    ELSE {d \in Doc : d.by = "user"}

\* Mutant of FileInDir: the result keeps the extension of the source's format.
FileWithSourceExt(d, i) ==
    [dir  |-> d,
     base |-> IF Source(i) = Stdin THEN defaultOutputFileName ELSE Source(i).base,
     ext  |-> OutputExt(SrcFormat(i))]

\* The file determineOutputPath names in directory d.  Joining an empty name to a
\* directory gives the directory, and the extension is appended to that.
FileInDir(d, i) ==
    LET base == IF Source(i) = Stdin THEN defaultOutputFileName ELSE Source(i).base
        ext  == OutputExt(determineOutputFormat(SrcFormat(i)))
    IN IF base = EmptyBase
       THEN [dir |-> Parent[d], base |-> d, ext |-> ext]
       ELSE [dir |-> d, base |-> base, ext |-> ext]

determineOutputPath(i) == IF i.out \in Dirs THEN FileInDir(i.out, i) ELSE i.out

-----------------------------------------------------------------------------
(* What generate decides.                                                   *)

generateArgMax == 1

GeneratePreRunError(i) ==
    IF Len(i.args) > generateArgMax THEN "errTooManyArguments"
    ELSE IF ParseFmtString(FormatFlag(i.format)) = Invalid /\ FormatFlag(i.format) # ""
    THEN "errInvalidFormat"
    ELSE Nil

\* The extension of the output decides, where convert has that of the source.
GeneratedFormat(i) ==
    getConfFileFormat(IF i.out \in FilePath THEN i.out.ext ELSE "", i.format)

\* Mutant of Generated: the format is that of the flag or its default.
GeneratedByFlag(i, body) ==
    [fmt |-> getConfFileFormat("", i.format), body |-> body, ver |-> NoVersion,
     by |-> "generated"]

\* The line with the version that generate writes is not read back as metadata
\* (MetadataLifecycle!GeneratedVersionReadsBack), so the text has none.
Generated(i, body) ==
    [fmt |-> GeneratedFormat(i), body |-> body, ver |-> NoVersion, by |-> "generated"]

-----------------------------------------------------------------------------
(* The steps of a run.                                                      *)

Goto(p, label) == pc' = [pc EXCEPT ![p] = label]

Fail(p, e) ==
    /\ Goto(p, "failed")
    /\ err' = [err EXCEPT ![p] = e]

\* validateConvertPreRun, up to the stat of the source.
StatSource(p) ==
    /\ pc[p] = "start" /\ inv[p].cmd = "convert"
    /\ IF Len(inv[p].args) > convertArgMax THEN Fail(p, "errTooManyArguments")
       ELSE IF Source(inv[p]) # Stdin /\ fs[Source(inv[p])] = Absent
       THEN Fail(p, "errFileNotExist")
       ELSE Goto(p, "read") /\ UNCHANGED err
    /\ UNCHANGED <<fs, stdout, inv, cfgData, out, outPath, writers, edits>>

\* The bytes at the source.  A pipe is at its end when its writer has ended.
SourceNode(p) ==
    IF Source(inv[p]) # Stdin THEN fs[Source(inv[p])]
    ELSE IF Upstream[p] = NoProc THEN inv[p].stdin
    ELSE stdout[Upstream[p]]

\* Mutant of PipeClosed: only a writer that succeeded closes its pipe.
PipeClosedBySuccess(p) ==
    Source(inv[p]) = Stdin /\ Upstream[p] # NoProc => pc[Upstream[p]] = "done"

PipeClosed(p) ==
    Source(inv[p]) = Stdin /\ Upstream[p] # NoProc => pc[Upstream[p]] \in Ended

\* os.ReadFile, the only time the source is read: RunE works on these bytes.
ReadSource(p) ==
    /\ pc[p] = "read"
    /\ PipeClosed(p)
    /\ SourceNode(p) # Absent
    /\ \E doc \in Readings(SourceNode(p)) : cfgData' = [cfgData EXCEPT ![p] = doc]
    /\ Goto(p, "check")
    /\ UNCHANGED <<fs, stdout, inv, out, outPath, err, writers, edits>>

\* The file went away since the stat, or cannot be read.
ReadSourceFails(p) ==
    /\ pc[p] = "read"
    /\ Source(inv[p]) # Stdin
    /\ Fail(p, "readError")
    /\ UNCHANGED <<fs, stdout, inv, cfgData, out, outPath, writers, edits>>

\* Mutant of CheckFlags: the output is created at once, to see that it can be.
CheckAndCreate(p) ==
    /\ pc[p] = "check"
    /\ LET e == PreRunError(inv[p], cfgData[p])
       IN IF e # Nil THEN Fail(p, e) ELSE Goto(p, "convert") /\ UNCHANGED err
    /\ IF inv[p].out \in FilePath
       THEN /\ fs' = [fs EXCEPT ![inv[p].out] = Empty]
            /\ writers' = [writers EXCEPT ![inv[p].out] = {p}]
       ELSE UNCHANGED <<fs, writers>>
    /\ UNCHANGED <<stdout, inv, cfgData, out, outPath, edits>>

\* The rest of PreRunE.
CheckFlags(p) ==
    /\ pc[p] = "check"
    /\ LET e == PreRunError(inv[p], cfgData[p])
       IN IF e # Nil THEN Fail(p, e) ELSE Goto(p, "convert") /\ UNCHANGED err
    /\ UNCHANGED <<fs, stdout, inv, cfgData, out, outPath, writers, edits>>

\* Mutant of ProcessConfig: what was checked is read again to be converted.
ProcessReread(p) ==
    /\ pc[p] = "convert"
    /\ LET e == ConversionError(inv[p], cfgData[p])
           doc == IF SourceNode(p) \in Doc THEN SourceNode(p) ELSE cfgData[p]
       IN \/ e # Nil /\ Fail(p, e) /\ UNCHANGED out
          \/ /\ e = Nil
             /\ out' = [out EXCEPT ![p] = Converted(inv[p], doc)]
             /\ Goto(p, "resolve")
             /\ UNCHANGED err
    /\ UNCHANGED <<fs, stdout, inv, cfgData, outPath, writers, edits>>

\* convertConfig, up to having the converted bytes.
ProcessConfig(p) ==
    /\ pc[p] = "convert"
    /\ LET e == ConversionError(inv[p], cfgData[p])
       IN \/ e # Nil /\ Fail(p, e) /\ UNCHANGED out
          \/ e = Nil /\ Fail(p, "marshalError") /\ UNCHANGED out
          \/ /\ e = Nil
             /\ out' = [out EXCEPT ![p] = Converted(inv[p], cfgData[p])]
             /\ Goto(p, "resolve")
             /\ UNCHANGED err
    /\ UNCHANGED <<fs, stdout, inv, cfgData, outPath, writers, edits>>

\* Mutant of ResolveOutput: a directory is taken for a file.
ResolveUnchanged(p) ==
    /\ pc[p] = "resolve"
    /\ outPath' = [outPath EXCEPT ![p] = inv[p].out]
    /\ Goto(p, IF outPath'[p] = Stdout THEN "write" ELSE "open")
    /\ UNCHANGED <<fs, stdout, inv, cfgData, out, err, writers, edits>>

\* determineOutputPath.  Its stat result is nil when the stat fails, which only
\* ErrNotExist is tested for.
ResolveOutput(p) ==
    /\ pc[p] = "resolve"
    /\ IF inv[p].out = Unstatable
       THEN Goto(p, "panicked") /\ UNCHANGED outPath
       ELSE /\ outPath' = [outPath EXCEPT ![p] = determineOutputPath(inv[p])]
            /\ Goto(p, IF outPath'[p] = Stdout THEN "write" ELSE "open")
    /\ UNCHANGED <<fs, stdout, inv, cfgData, out, err, writers, edits>>

\* generate's PreRunE.
StartGenerate(p) ==
    /\ pc[p] = "start" /\ inv[p].cmd = "generate"
    /\ LET e == GeneratePreRunError(inv[p])
       IN IF e # Nil THEN Fail(p, e) ELSE Goto(p, "fetch") /\ UNCHANGED err
    /\ UNCHANGED <<fs, stdout, inv, cfgData, out, outPath, writers, edits>>

\* A step on the way from the format to the bytes fails.
FetchFails(p) ==
    /\ pc[p] = "fetch"
    /\ \E e \in FetchErrors \cup {"ErrInvalidFormat"} :
          /\ e = "ErrInvalidFormat" <=> GeneratedFormat(inv[p]) = Invalid
          /\ Fail(p, e)
    /\ UNCHANGED <<fs, stdout, inv, cfgData, out, outPath, writers, edits>>

\* runGenerateCommand, up to the open: the server answers context by context while
\* it may be reconfigured, so the configuration can be any.  There is no
\* determineOutputPath here; a directory cannot be opened for writing.
FetchConfig(p) ==
    /\ pc[p] = "fetch"
    /\ GeneratedFormat(inv[p]) # Invalid
    /\ \E body \in Body : out' = [out EXCEPT ![p] = Generated(inv[p], body)]
    /\ IF inv[p].out \in Dirs \cup {Unstatable}
       THEN Fail(p, "openError") /\ UNCHANGED outPath
       ELSE /\ outPath' = [outPath EXCEPT ![p] = inv[p].out]
            /\ Goto(p, IF inv[p].out = Stdout THEN "write" ELSE "open")
            /\ UNCHANGED err
    /\ UNCHANGED <<fs, stdout, inv, cfgData, writers, edits>>

\* Mutant of OpenOutput: O_TRUNC is missing.
OpenWithoutTruncation(p) ==
    /\ pc[p] = "open"
    /\ fs' = [fs EXCEPT ![outPath[p]] = IF @ = Absent THEN Empty ELSE @]
    /\ writers' = [writers EXCEPT ![outPath[p]] = {p}]
    /\ Goto(p, "write")
    /\ UNCHANGED <<stdout, inv, cfgData, out, outPath, err, edits>>

\* os.OpenFile with O_CREATE and O_TRUNC.
OpenOutput(p) ==
    /\ pc[p] = "open"
    /\ fs' = [fs EXCEPT ![outPath[p]] = Empty]
    /\ writers' = [writers EXCEPT ![outPath[p]] = {p}]
    /\ Goto(p, "write")
    /\ UNCHANGED <<stdout, inv, cfgData, out, outPath, err, edits>>

OpenOutputFails(p) ==
    /\ pc[p] = "open"
    /\ Fail(p, "openError")
    /\ UNCHANGED <<fs, stdout, inv, cfgData, out, outPath, writers, edits>>

\* Writing doc from the start of an open file, over what has got into it since: a
\* removed file stays removed, and a longer text keeps its tail.
Overwritten(node, doc) ==
    IF node = Absent THEN {Absent}
    ELSE IF node = Empty THEN {doc}
    ELSE {doc, Torn}

WriteAll(p) ==
    \/ /\ outPath[p] = Stdout
       /\ stdout' = [stdout EXCEPT ![p] = out[p]]
       /\ UNCHANGED <<fs, writers>>
    \/ /\ outPath[p] # Stdout
       /\ \E node \in Overwritten(fs[outPath[p]], out[p]) :
             fs' = [fs EXCEPT ![outPath[p]] = node]
       /\ writers' = [writers EXCEPT ![outPath[p]] = @ \cup {p}]
       /\ UNCHANGED stdout

\* The write is interrupted: some of the bytes got there, or none.
WriteSome(p) ==
    \/ /\ outPath[p] = Stdout
       /\ \E node \in {Empty, Torn} : stdout' = [stdout EXCEPT ![p] = node]
       /\ UNCHANGED <<fs, writers>>
    \/ /\ outPath[p] # Stdout
       /\ \E node \in {fs[outPath[p]], IF fs[outPath[p]] = Absent THEN Absent ELSE Torn} :
             fs' = [fs EXCEPT ![outPath[p]] = node]
       /\ writers' = [writers EXCEPT ![outPath[p]] = @ \cup {p}]
       /\ UNCHANGED stdout

WriteOutput(p) ==
    /\ pc[p] = "write"
    /\ WriteAll(p)
    /\ Goto(p, "done")
    /\ UNCHANGED <<inv, cfgData, out, outPath, err, edits>>

WriteOutputFails(p) ==
    /\ pc[p] = "write"
    /\ WriteSome(p)
    /\ Fail(p, "writeError")
    /\ UNCHANGED <<inv, cfgData, out, outPath, edits>>

Step(p) ==
    \/ StatSource(p)
    \/ ReadSource(p) \/ ReadSourceFails(p)
    \/ CheckFlags(p)
    \/ ProcessConfig(p)
    \/ ResolveOutput(p)
    \/ StartGenerate(p)
    \/ FetchConfig(p) \/ FetchFails(p)
    \/ OpenOutput(p) \/ OpenOutputFails(p)
    \/ WriteOutput(p) \/ WriteOutputFails(p)

\* The process is killed, or the reader of its pipe has gone.
Kill(p) ==
    /\ pc[p] \in Running
    /\ IF pc[p] = "write" THEN WriteSome(p) \/ WriteAll(p)
       ELSE UNCHANGED <<fs, stdout, writers>>
    /\ Goto(p, "killed")
    /\ UNCHANGED <<inv, cfgData, out, outPath, err, edits>>

\* Another program changes a file.
Edit(f) ==
    /\ edits < MaxEdits
    /\ \E node \in EditNodes \ {fs[f]} : fs' = [fs EXCEPT ![f] = node]
    /\ writers' = [writers EXCEPT ![f] = @ \cup {Other}]
    /\ edits' = edits + 1
    /\ UNCHANGED <<stdout, inv, pc, cfgData, out, outPath, err>>

\* All runs have ended; nothing but this is left to do.
Finished ==
    /\ \A p \in Proc : pc[p] \in Ended
    /\ UNCHANGED vars

Next ==
    \/ \E p \in Proc : Step(p) \/ Kill(p)
    \/ \E f \in EditPaths : Edit(f)
    \/ Finished

Spec == Init /\ [][Next]_vars

\* The scheduler runs every process; nothing makes it be killed.
FairSpec == Spec /\ \A p \in Proc : WF_vars(Step(p))

-----------------------------------------------------------------------------
(* What a run promises.                                                     *)

\* A configuration that was written without --force is valid for the version that
\* its own metadata names.
Trustworthy(node) ==
    node \in Doc /\ node.by = "checked" =>
        /\ MetaVersion(node) \in Supported
        /\ node.body \in ValidFor[MetaVersion(node)]

\* Whatever interleaving of runs, edits and kills led here: a file or a pipe never
\* holds a configuration that an unforced run published and that the validation
\* for the version in its metadata would reject.
PublishedIsValid ==
    /\ \A f \in FilePath : Trustworthy(fs[f])
    /\ \A p \in Proc : Trustworthy(stdout[p])

VersionErrors == {"errMissingAerospikeVersion", "errInvalidAerospikeVersion",
                  "errUnsupportedAerospikeVersion", "ErrConfigValidation"}

AsksForVersion(p) == inv[p].ver = Unset /\ ~inv[p].force

\* A file an unforced run produced converts again without --aerospike-version
\* (convert's help text): it is never refused for its version or its validity.
ReconvertNeedsNoFlag ==
    \A p \in Proc :
        cfgData[p] # Nil /\ AsksForVersion(p) /\ cfgData[p].by = "checked"
            => err[p] \notin VersionErrors

\* A run that is refused -- for its arguments, its source, its version, its format
\* or its content, or because its output cannot be opened -- truncated no file.
RefusedRunsTouchNothing ==
    \A p \in Proc :
        pc[p] = "panicked" \/ (pc[p] = "failed" /\ err[p] # "writeError") =>
            /\ stdout[p] = Empty
            /\ \A f \in FilePath : p \notin writers[f]

\* When a run reports success and nobody else changed its output since it opened
\* it, the output holds all of the converted configuration.
SuccessMeansWhole ==
    \A p \in Proc : pc[p] = "done" =>
        IF outPath[p] = Stdout THEN stdout[p] = out[p]
        ELSE writers[outPath[p]] = {p} => fs[outPath[p]] = out[p]

\* Given a directory to write to and no --format, a conversion does not replace
\* its own source, in whichever directory that is.
SourceSurvives ==
    \A p \in Proc :
        outPath[p] # Nil /\ inv[p].out \in Dirs /\ inv[p].format = Unset
            => outPath[p] # Source(inv[p])

\* convert | convert: when the first run ends without writing anything, the second
\* does not turn the empty pipe into a configuration, unless its user names a
\* version or forces it.
BrokenPipelineIsNoticed ==
    \A p \in Proc :
        /\ inv[p].cmd = "convert" /\ Upstream[p] # NoProc /\ Source(inv[p]) = Stdin
        /\ pc[p] = "done" /\ AsksForVersion(p)
        => stdout[Upstream[p]] # Empty

\* What generate wrote without --format, into whichever file or pipe, is in the
\* format that a convert without --format takes it to be in.
GeneratedTextLoads ==
    \A p \in Proc :
        /\ cfgData[p] # Nil /\ inv[p].format = Unset
        /\ cfgData[p].by = "generated"
        /\ \A q \in Proc : inv[q].cmd = "generate" => inv[q].format = Unset
        => err[p] \notin {"ErrInvalidFormat", "loadError"}

\* A file changes only under the hands of a run that has finished converting and is
\* opening or writing that file, or of another program.
OnlyFinishedConversionsWrite ==
    [][\A f \in FilePath : fs'[f] # fs[f] =>
          \/ edits' # edits
          \/ \E p \in Proc : /\ outPath[p] = f /\ out[p] # Nil
                            /\ pc[p] \in {"open", "write"}]_vars

\* To the users of the files and pipes, a run has its output open while it writes,
\* and how it failed is all one.
Handle == [p \in Proc |-> IF pc[p] = "write" THEN outPath[p] ELSE Nil]

Fate == [p \in Proc |-> IF pc[p] \in Running THEN "working"
                        ELSE IF pc[p] = "done" THEN "succeeded" ELSE "failed"]

Promise == INSTANCE Publication WITH
    File   <- FilePath,
    files  <- fs,
    pipes  <- stdout,
    cmd    <- inv,
    heard  <- cfgData,
    handle <- Handle,
    fate   <- Fate

\* Whatever interleaves with the steps of a run, it comes to this: it hears its
\* source at one moment and puts a conversion of just that into its output, whole and
\* at one moment, unless it fails or somebody else has the same file open; what it
\* cannot convert costs no file its content.
ImplementsPublication == Promise!Spec

\* Every run ends, also at the end of a pipe whose writer failed or was killed.
EveryRunEnds == \A p \in Proc : <>(pc[p] \in Ended)
=============================================================================
