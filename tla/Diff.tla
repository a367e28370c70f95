-------------------------------- MODULE Diff --------------------------------
(***************************************************************************)
(* The commands `diff files' and `diff server' (cmd/diff.go): a run reads  *)
(* two configurations at two moments, from files that others may change,   *)
(* or the second one from a running node, context by context, and reports  *)
(* their differences.  Module FlatDiff shows that the report the loop of   *)
(* diffFlatMaps makes is the one module Differences defines.               *)
(***************************************************************************)
EXTENDS Differences, Formats, FiniteSets

CONSTANTS
    Invocations,    \* the command lines
    Files,          \* names of files, records with a field ext
    Maps,           \* flattened configurations
    Unparsable,     \* bytes the library cannot load
    Absent,         \* no such file
    Nil,
    MaxEdits        \* bound on what other programs do

diffArgMin       == 2
diffArgMax       == 2
diffServerArgMin == 1
diffServerArgMax == 1

Doc == [fmt : Format, map : Maps \cup {Unparsable}]

Invocation == [mode : {"files", "server"}, args : Seq(Files), format : STRING \cup {Unset}]

ASSUME DiffAssumption ==
    /\ Invocations \subseteq Invocation
    /\ Maps \subseteq FlatMap
    /\ Unparsable \notin Maps
    /\ {Absent, Nil} \cap Doc = {}
    /\ MaxEdits \in Nat

VARIABLES
    inv,        \* the command line
    fs,         \* the files
    node,       \* the configuration of the running node
    pc,         \* where the run is
    first,      \* what has been read of the first configuration
    second,     \* of the second one
    fetched,    \* the keys asked of the node so far
    report,     \* the differences, or Nil
    err,        \* the error returned
    edits,      \* how often other programs changed something
    past        \* history: what the files and the node have been during the run

vars == <<inv, fs, node, pc, first, second, fetched, report, err, edits, past>>

Errors == {"errDiffTooFewArgs", "errDiffTooManyArgs", "errDiffServerTooFewArgs",
           "errDiffServerTooManyArgs", "ErrInvalidFormat", "errMismatchedFileFormats",
           "readError", "loadError", "errUnableToCreateClientPolicy",
           "errUnableToGenerateConfigFromServer", "errUnableToParseGeneratedServerConf",
           "errUnableToMarshalServerConfig", "errUnableToParseServerConfigBytes",
           "errDiffConfigsDiffer"}

ASSUME NilAssumption ==
    Nil \notin Errors \cup [fmt : Format, map : FlatMap]

Moment == [fs : [Files -> Doc \cup {Absent}], node : Maps]

\* What the node answers for is not a configuration of Maps before it has answered.
TypeOK ==
    /\ inv \in Invocations
    /\ fs \in [Files -> Doc \cup {Absent}]
    /\ node \in Maps
    /\ pc \in {"start", "readFirst", "readSecond", "load", "connect", "fetch",
               "compare", "ended"}
    /\ first \in Doc \cup {Nil}
    /\ second \in [fmt : Format, map : FlatMap \cup {Unparsable}] \cup {Nil}
    /\ fetched \subseteq Key
    /\ report \subseteq Line
    /\ err \in Errors \cup {Nil}
    /\ edits \in 0..MaxEdits
    /\ past \subseteq Moment

Init ==
    /\ inv \in Invocations
    /\ fs \in [Files -> Doc \cup {Absent}]
    /\ node \in Maps
    /\ pc = "start"
    /\ first = Nil /\ second = Nil
    /\ fetched = {}
    /\ report = {}
    /\ err = Nil
    /\ edits = 0
    /\ past = {[fs |-> fs, node |-> node]}

Fail(e) == err' = e /\ pc' = "ended"

Goto(label) == pc' = label /\ UNCHANGED err

FileFormat(n) == getConfFileFormat(inv.args[n].ext, inv.format)

Loads(doc, fmt) == doc.map # Unparsable /\ doc.fmt = fmt

-----------------------------------------------------------------------------
(* runFileDiff.                                                             *)

FileArgsError ==
    IF Len(inv.args) < diffArgMin THEN "errDiffTooFewArgs"
    ELSE IF Len(inv.args) > diffArgMax THEN "errDiffTooManyArgs"
    ELSE IF \E n \in 1..2 : FileFormat(n) = Invalid THEN "ErrInvalidFormat"
    ELSE IF FileFormat(1) # FileFormat(2) THEN "errMismatchedFileFormats"
    ELSE Nil

ServerArgsError ==
    IF Len(inv.args) < diffServerArgMin THEN "errDiffServerTooFewArgs"
    ELSE IF Len(inv.args) > diffServerArgMax THEN "errDiffServerTooManyArgs"
    ELSE IF FileFormat(1) = Invalid THEN "ErrInvalidFormat"
    ELSE Nil

CheckArgs ==
    /\ pc = "start"
    /\ LET e == IF inv.mode = "files" THEN FileArgsError ELSE ServerArgsError
       IN IF e # Nil THEN Fail(e) ELSE Goto("readFirst")
    /\ UNCHANGED <<inv, fs, node, first, second, fetched, report, edits, past>>

\* The first file, or the only one.
ReadFirst ==
    /\ pc = "readFirst"
    /\ IF fs[inv.args[1]] = Absent THEN Fail("readError") /\ UNCHANGED first
       ELSE /\ first' = fs[inv.args[1]]
            /\ Goto(IF inv.mode = "files" THEN "readSecond" ELSE "load")
    /\ UNCHANGED <<inv, fs, node, second, fetched, report, edits, past>>

ReadSecond ==
    /\ pc = "readSecond"
    /\ IF fs[inv.args[2]] = Absent THEN Fail("readError") /\ UNCHANGED second
       ELSE second' = fs[inv.args[2]] /\ Goto("load")
    /\ UNCHANGED <<inv, fs, node, first, fetched, report, edits, past>>

\* NewASConfigFromBytes on what has been read.
Load ==
    /\ pc = "load"
    /\ IF \/ ~Loads(first, FileFormat(1))
          \/ inv.mode = "files" /\ ~Loads(second, FileFormat(2))
       THEN Fail("loadError")
       ELSE Goto(IF inv.mode = "files" THEN "compare" ELSE "connect")
    /\ UNCHANGED <<inv, fs, node, first, second, fetched, report, edits, past>>

-----------------------------------------------------------------------------
(* runServerDiff, after the local file.                                     *)

\* The second configuration starts empty.
Connect ==
    /\ pc = "connect"
    /\ \/ /\ second' = [fmt |-> FileFormat(1), map |-> [k \in {} |-> Missing]]
          /\ Goto("fetch")
       \/ Fail("errUnableToCreateClientPolicy") /\ UNCHANGED second
    /\ UNCHANGED <<inv, fs, node, first, fetched, report, edits, past>>

\* Mutant of Fetch: what the node does not have gets the zero value.
FetchZero ==
    /\ pc = "fetch"
    /\ \E k \in Key \ fetched :
          /\ fetched' = fetched \cup {k}
          /\ second' = [second EXCEPT !.map =
                           [l \in DOMAIN @ \cup {k} |->
                              IF l # k THEN @[l] ELSE IF k \in DOMAIN node THEN node[k] ELSE Missing]]
    /\ UNCHANGED <<inv, fs, node, pc, first, report, err, edits, past>>

\* GenerateConf asks the node for one context after the other.
Fetch ==
    /\ pc = "fetch"
    /\ \E k \in Key \ fetched :
          /\ fetched' = fetched \cup {k}
          /\ second' = IF k \in DOMAIN node
                       THEN [second EXCEPT !.map =
                               [l \in DOMAIN @ \cup {k} |-> IF l = k THEN node[k] ELSE @[l]]]
                       ELSE second
    /\ UNCHANGED <<inv, fs, node, pc, first, report, err, edits, past>>

\* What was fetched goes to text and back, to be in the form the file is in.
\* Each of the steps can fail.
FetchEnds ==
    /\ pc = "fetch"
    /\ \/ fetched = Key /\ Goto("compare")
       \/ Fail("errUnableToGenerateConfigFromServer")
       \/ fetched = Key /\ \E e \in {"errUnableToParseGeneratedServerConf",
                                     "errUnableToMarshalServerConfig",
                                     "errUnableToParseServerConfigBytes"} : Fail(e)
    /\ UNCHANGED <<inv, fs, node, first, second, fetched, report, edits, past>>

-----------------------------------------------------------------------------
\* Mutant of Compare: what the first configuration does not have is not compared.
CompareCommon ==
    /\ pc = "compare"
    /\ report' = {d \in Differences(first.map, second.map) : d.sign # ">"}
    /\ IF report' # {} THEN Fail("errDiffConfigsDiffer") ELSE Goto("ended")
    /\ UNCHANGED <<inv, fs, node, first, second, fetched, edits, past>>

\* diffFlatMaps; differences are printed and make the run fail.
Compare ==
    /\ pc = "compare"
    /\ report' = Differences(first.map, second.map)
    /\ IF report' # {} THEN Fail("errDiffConfigsDiffer") ELSE Goto("ended")
    /\ UNCHANGED <<inv, fs, node, first, second, fetched, edits, past>>

\* Somebody changes a file, or the configuration of the node.
Edit ==
    /\ pc # "ended"
    /\ edits < MaxEdits
    /\ \/ \E f \in Files, n \in Doc \cup {Absent} :
             fs' = [fs EXCEPT ![f] = n] /\ UNCHANGED node
       \/ node' \in Maps /\ UNCHANGED fs
    /\ edits' = edits + 1
    /\ past' = past \cup {[fs |-> fs', node |-> node']}
    /\ UNCHANGED <<inv, pc, first, second, fetched, report, err>>

Next ==
    \/ CheckArgs
    \/ ReadFirst \/ ReadSecond \/ Load
    \/ Connect \/ Fetch \/ FetchEnds
    \/ Compare
    \/ Edit

Spec == Init /\ [][Next]_vars

-----------------------------------------------------------------------------
Compared == pc = "ended" /\ err \in {Nil, "errDiffConfigsDiffer"}

\* The two configurations as they were at two moments of the run.
Given(m) == m.fs[inv.args[1]]

Other(m) == IF inv.mode = "files" THEN m.fs[inv.args[2]]
            ELSE [fmt |-> FileFormat(1), map |-> m.node]

Readable(doc) == doc # Absent /\ doc.map # Unparsable

DifferencesThen ==
    {Differences(Given(m).map, Other(n).map) :
       m \in {p \in past : Readable(Given(p))}, n \in {p \in past : Readable(Other(p))}}

\* The answer of a run: every line it prints was a difference between the two
\* configurations at some moments of the run, and a difference that was there all
\* the time is printed.  So with nobody changing anything the lines are exactly the
\* differences, from two files or from a file and a node that is asked for one
\* context after the other; and the status is 0 if and only if there are none.  Two
\* formats, whose values have other types, are never compared with each other.
StatusIsTheAnswer ==
    Compared => /\ report \subseteq UNION DifferencesThen
                /\ \A line \in UNION DifferencesThen :
                      (\A D \in DifferencesThen : line \in D) => line \in report
                /\ err = Nil <=> report = {}
                /\ first.fmt = second.fmt
=============================================================================
