------------------------------ MODULE TestCases ------------------------------
(***************************************************************************)
(* The tool that adds cases to the integration tests                       *)
(* (testutils/main/testgen.go): runs of it, as separate processes, over    *)
(* one directory of test cases.  A run takes a directory for its case,     *)
(* which is named after its source, copies the source into it, has the     *)
(* program under test convert the copy into the other format beside it,    *)
(* and describes the two conversions that the integration tests are to     *)
(* repeat in three JSON files.  Between any two steps another run may act  *)
(* on the same directory, or this one may be cut off.                       *)
(*                                                                         *)
(* The integration tests (integration_test.go) take in whatever directory  *)
(* they find.  The conversion is that of module Conversion; as comments    *)
(* are not copied, it always starts from a text without metadata.          *)
(***************************************************************************)
EXTENDS Conversion, Obfuscation

CONSTANTS
    Run,            \* the runs of testgen
    Commands,       \* for each run, the command lines it may be started with
    Case,           \* the names of sources, and of the directories made for them
    Outside,        \* the directory of the sources that are not in a test case
    NoSource,       \* no argument was given
    Declarations,   \* the lines of a configuration
    Nobody,         \* the owner of what no run has written
    Absent, Empty, Torn,    \* no file, a file of no bytes, a part of a text
    InitialFiles    \* the file systems the runs may start with

JsonName == {"yaml-tests", "conf-tests", "versions"}

FilePath == [dir : Case \cup {Outside}, base : Case, ext : {"yaml", "conf", "txt"}]
            \cup [dir : Case, base : JsonName, ext : {"json"}]

\* A test: to convert source, which is in the given format, with --aerospike-version
\* gives expected.  A whole *-tests.json holds one, a whole versions.json a version.
TestData == [source : FilePath, expected : FilePath, format : {"yaml", "asconfig"},
             ver : Version]
Versions == [testedVersion : Version]

Node == Doc \cup TestData \cup Versions \cup {Absent, Empty, Torn}

Command == [source    : [dir : Case \cup {Outside}, base : Case,
                         ext : {"yaml", "conf", "txt"}] \cup {NoSource},
            overwrite : BOOLEAN,
            obfuscate : BOOLEAN,
            ver       : Version]

\* A configuration with the lines that processFileData makes of those of another.
Processed == [o \in BOOLEAN |-> [b \in Body |->
                CHOOSE c \in Body : Declarations[c] = processFileData(Declarations[b], o)]]

ASSUME DeclarationsAssumption ==
    /\ Declarations \in [Body -> Seq(Line)]
    /\ \A b \in Body, o \in BOOLEAN :
          \E c \in Body : Declarations[c] = processFileData(Declarations[b], o)

ASSUME TestCasesAssumption ==
    /\ Commands \in [Run -> SUBSET Command]
    /\ Outside \notin Case /\ Case \cap JsonName = {}
    /\ Nobody \notin Run
    /\ {Absent, Empty, Torn} \cap (Doc \cup TestData \cup Versions) = {}
    /\ Absent # Empty /\ Absent # Torn /\ Empty # Torn
    /\ Nil \notin Doc
    /\ InitialFiles \subseteq [FilePath -> Node]
    /\ \A files \in InitialFiles, f \in FilePath : files[f] \notin {Empty, Torn}

\* The case directories there are when a run starts can be taken in by the tests, as
\* those of the repository (testdata/cases) can.
ASSUME InitialCasesAssumption ==
    \A files \in InitialFiles, c \in Case, name \in {"yaml-tests", "conf-tests"} :
        (\E f \in FilePath : f.dir = c /\ files[f] # Absent)
            => files[[dir |-> c, base |-> name, ext |-> "json"]] \in TestData

\* No error is none of the errors of convert; to give a format is not to leave it unset.
ASSUME ErrorAssumption ==
    /\ Nil \notin {"ErrInvalidFormat", "loadError", "errMissingAerospikeVersion",
                   "errInvalidAerospikeVersion", "errUnsupportedAerospikeVersion",
                   "ErrConfigValidation", "ValidationErrors"}
    /\ Unset \notin {"yaml", "asconfig"}

VARIABLES
    fs,         \* the files
    dirs,       \* the case directories that exist
    cmd,        \* the command line of each run
    pc,         \* where each run is
    file,       \* what each run has open
    text,       \* the configuration it is about to write
    owner       \* history: who wrote a file last

vars == <<fs, dirs, cmd, pc, file, text, owner>>

\* The files a run writes, in this order; "convert" comes between the first two.
Written == {"copy", "result", "yaml-tests", "conf-tests", "versions"}
Running == {"remove", "mkdir", "read", "convert"} \cup Written
Ended   == {"done", "refused", "cut"}

\* Nothing, a file or directory that is there, or one that has been removed since.
Handle == {"none", "linked", "unlinked"}

CaseOf(p) == cmd[p].source.base

\* A directory has no file without being there.
TypeOK ==
    /\ fs \in [FilePath -> Node]
    /\ dirs \in SUBSET Case
    /\ cmd \in [Run -> Command]
    /\ pc \in [Run -> {"setup"} \cup Running \cup Ended]
    /\ file \in [Run -> Handle]
    /\ text \in [Run -> Doc \cup {Nil}]
    /\ owner \in [FilePath -> Run \cup {Nobody}]
    /\ \A f \in FilePath : fs[f] # Absent => f.dir \in dirs \cup {Outside}
    /\ \A p \in Run : file[p] = "linked" => CaseOf(p) \in dirs

Init ==
    /\ fs \in InitialFiles
    /\ dirs = {f.dir : f \in {g \in FilePath : fs[g] # Absent}} \ {Outside}
    /\ cmd \in [Run -> UNION {Commands[p] : p \in Run}]
    /\ \A p \in Run : cmd[p] \in Commands[p]
    /\ pc = [p \in Run |-> "setup"]
    /\ file = [p \in Run |-> "none"]
    /\ text = [p \in Run |-> Nil]
    /\ owner = [f \in FilePath |-> Nobody]

-----------------------------------------------------------------------------
(* What a run writes, and where.                                            *)

ConfigFile(c, ext) == [dir |-> c, base |-> c, ext |-> ext]
JsonFile(c, name)  == [dir |-> c, base |-> name, ext |-> "json"]

CopiedSrcPath(p) == ConfigFile(CaseOf(p), cmd[p].source.ext)

\* Mutant of ChildArgs: the source itself is converted.
ChildArgsOfSource(p) ==
    [args |-> <<cmd[p].source>>, ver |-> cmd[p].ver, force |-> FALSE,
     format |-> IF cmd[p].source.ext = "yaml" THEN "yaml" ELSE "asconfig"]

\* The command line of the program that main runs; its output is the case directory.
ChildArgs(p) ==
    [args |-> <<CopiedSrcPath(p)>>, ver |-> cmd[p].ver, force |-> FALSE,
     format |-> IF cmd[p].source.ext = "yaml" THEN "yaml" ELSE "asconfig"]

\* Where convert puts its result, given that directory.
ResultPath(p) ==
    ConfigFile(CaseOf(p), OutputExt(determineOutputFormat(SrcFormat(ChildArgs(p)))))

\* Mutant of Target: the second test goes to the file of the first.
TargetOfFirstTest(p) ==
    CASE pc[p] = "copy"       -> CopiedSrcPath(p)
      [] pc[p] = "result"     -> ResultPath(p)
      [] pc[p] = "conf-tests" -> JsonFile(CaseOf(p), "yaml-tests")
      [] OTHER                -> JsonFile(CaseOf(p), pc[p])

Target(p) ==
    CASE pc[p] = "copy"   -> CopiedSrcPath(p)
      [] pc[p] = "result" -> ResultPath(p)
      [] OTHER            -> JsonFile(CaseOf(p), pc[p])

\* The two tests generateTestFiles describes: from either format to the other.
Test(p, format) ==
    LET yamlPath == ConfigFile(CaseOf(p), "yaml")
        confPath == ConfigFile(CaseOf(p), "conf")
    IN IF format = "yaml"
       THEN [source |-> yamlPath, expected |-> confPath, format |-> format, ver |-> cmd[p].ver]
       ELSE [source |-> confPath, expected |-> yamlPath, format |-> format, ver |-> cmd[p].ver]

Data(p) ==
    CASE pc[p] \in {"copy", "result"} -> text[p]
      [] pc[p] = "yaml-tests"         -> Test(p, "yaml")
      [] pc[p] = "conf-tests"         -> Test(p, "asconfig")
      [] pc[p] = "versions"           -> [testedVersion |-> cmd[p].ver]

\* The step after each write.
Following(step) ==
    CASE step = "copy"       -> "convert"
      [] step = "result"     -> "yaml-tests"
      [] step = "yaml-tests" -> "conf-tests"
      [] step = "conf-tests" -> "versions"
      [] step = "versions"   -> "done"

-----------------------------------------------------------------------------
(* The steps of a run.                                                      *)

Goto(p, label) == pc' = [pc EXCEPT ![p] = label]

\* setupTestEnvironment, up to the stat of the case directory.
Setup(p) ==
    /\ pc[p] = "setup"
    /\ IF cmd[p].source = NoSource THEN Goto(p, "refused")
       ELSE IF CaseOf(p) \notin dirs THEN Goto(p, "mkdir")
       ELSE IF cmd[p].overwrite THEN Goto(p, "remove")
       ELSE Goto(p, "refused")
    /\ UNCHANGED <<fs, dirs, cmd, file, text, owner>>

\* Those whose open file or directory f is.
Unlinked(f) ==
    [q \in Run |-> IF file[q] = "linked" /\ pc[q] \in Written /\ Target(q) = f
                   THEN "unlinked" ELSE file[q]]

\* os.RemoveAll opens the directory and removes what it finds there, in any order.
RemoveFile(p) ==
    /\ pc[p] = "remove" /\ file[p] # "unlinked"
    /\ CaseOf(p) \in dirs
    /\ \E f \in FilePath :
          /\ f.dir = CaseOf(p) /\ fs[f] # Absent
          /\ fs' = [fs EXCEPT ![f] = Absent]
          /\ owner' = [owner EXCEPT ![f] = Nobody]
          /\ file' = [Unlinked(f) EXCEPT ![p] = "linked"]
    /\ UNCHANGED <<dirs, cmd, pc, text>>

\* Mutant of RemoveDir: the directory goes, whatever others have put there since.
RemoveDirAnyway(p) ==
    /\ pc[p] = "remove"
    /\ dirs' = dirs \ {CaseOf(p)}
    /\ file' = [q \in Run |-> IF q = p THEN "none"
                              ELSE IF pc[q] = "remove" /\ file[q] = "linked"
                                      /\ CaseOf(q) = CaseOf(p)
                              THEN "unlinked" ELSE file[q]]
    /\ Goto(p, "mkdir")
    /\ UNCHANGED <<fs, cmd, text, owner>>

\* Then it removes the directory, by its name.
RemoveDir(p) ==
    /\ pc[p] = "remove"
    /\ \A f \in FilePath : f.dir = CaseOf(p) => fs[f] = Absent
    /\ dirs' = dirs \ {CaseOf(p)}
    /\ file' = [q \in Run |-> IF q = p THEN "none"
                              ELSE IF pc[q] = "remove" /\ file[q] = "linked"
                                      /\ CaseOf(q) = CaseOf(p)
                              THEN "unlinked" ELSE file[q]]
    /\ Goto(p, "mkdir")
    /\ UNCHANGED <<fs, cmd, text, owner>>

\* Mutant of Mkdir: os.MkdirAll, which takes a directory that is there.
MkdirAll(p) ==
    /\ pc[p] = "mkdir"
    /\ dirs' = dirs \cup {CaseOf(p)}
    /\ Goto(p, "read")
    /\ UNCHANGED <<fs, cmd, file, text, owner>>

\* os.Mkdir, which fails if somebody else has made the directory since the stat.
Mkdir(p) ==
    /\ pc[p] = "mkdir"
    /\ CaseOf(p) \notin dirs
    /\ dirs' = dirs \cup {CaseOf(p)}
    /\ Goto(p, "read")
    /\ UNCHANGED <<fs, cmd, file, text, owner>>

\* What reading a node can yield; where a torn text ends is anyone's guess.
Readings(node) ==
    IF node \in Doc THEN {node}
    ELSE IF node = Empty THEN {EmptyText(EmptyBody), EmptyText(Unparsable)}
    ELSE {d \in Doc : d.by = "user"}

\* The patterns look for a keyword and a space: they find nothing in yaml, where
\* keywords end in a colon.
Obfuscates(p, doc) == cmd[p].obfuscate /\ doc.fmt = AeroConfig

\* Without its comments, a text has no metadata left.
Copied(p, doc) ==
    [doc EXCEPT !.ver = NoVersion,
                !.body = IF @ = Unparsable THEN @ ELSE Processed[Obfuscates(p, doc)][@]]

\* processSourceFile, up to the copy.  The source is opened only now.
ReadSource(p) ==
    /\ pc[p] = "read"
    /\ fs[cmd[p].source] # Absent
    /\ \E doc \in Readings(fs[cmd[p].source]) :
          text' = [text EXCEPT ![p] = Copied(p, doc)]
    /\ Goto(p, "copy")
    /\ UNCHANGED <<fs, dirs, cmd, file, owner>>

\* convert, run on the copy, up to the open of its output.  A source with another
\* extension gets no further than to be copied.
ConvertCopy(p) ==
    /\ pc[p] = "convert"
    /\ cmd[p].source.ext \in {"yaml", "conf"}
    /\ LET i == ChildArgs(p)
       IN /\ fs[Source(i)] # Absent
          /\ \E doc \in Readings(fs[Source(i)]) :
                /\ PreRunError(i, doc) = Nil
                /\ ConversionError(i, doc) = Nil
                /\ text' = [text EXCEPT ![p] = Converted(i, doc)]
    /\ Goto(p, "result")
    /\ UNCHANGED <<fs, dirs, cmd, file, owner>>

\* os.Create, os.OpenFile and os.WriteFile all create or truncate the file.
CreateFile(p) ==
    /\ pc[p] \in Written /\ file[p] = "none"
    /\ CaseOf(p) \in dirs
    /\ fs' = [fs EXCEPT ![Target(p)] = Empty]
    /\ owner' = [owner EXCEPT ![Target(p)] = p]
    /\ file' = [file EXCEPT ![p] = "linked"]
    /\ UNCHANGED <<dirs, cmd, pc, text>>

\* Writing over what another run has got into the file since.
Overwritten(node, data) == IF node = Empty THEN {data} ELSE {data, Torn}

Write(p, nodes) ==
    IF file[p] = "linked"
    THEN /\ \E node \in nodes : fs' = [fs EXCEPT ![Target(p)] = node]
         /\ owner' = [owner EXCEPT ![Target(p)] = p]
    ELSE UNCHANGED <<fs, owner>>

\* The configuration is needed no more after its second write.
WriteFile(p) ==
    /\ pc[p] \in Written /\ file[p] # "none"
    /\ Write(p, Overwritten(fs[Target(p)], Data(p)))
    /\ file' = [file EXCEPT ![p] = "none"]
    /\ text' = [text EXCEPT ![p] = IF pc[p] = "copy" THEN @ ELSE Nil]
    /\ Goto(p, Following(pc[p]))
    /\ UNCHANGED <<dirs, cmd>>

\* Mutant of Cut: the error of the program under test is reported, and main goes on.
CutUnnoticed(p) ==
    /\ pc[p] \in Running
    /\ IF pc[p] \in Written /\ file[p] # "none"
       THEN Write(p, {fs[Target(p)], Torn})
       ELSE UNCHANGED <<fs, owner>>
    /\ file' = [file EXCEPT ![p] = "none"]
    /\ text' = [text EXCEPT ![p] = Nil]
    /\ Goto(p, IF pc[p] = "convert" THEN "yaml-tests" ELSE "cut")
    /\ UNCHANGED <<dirs, cmd>>

\* A call to the system fails, the conversion is refused, or the tool is killed --
\* by Ctrl-C, together with the program it runs.  Of what it was writing, some of
\* the bytes got there, or none.
Cut(p) ==
    /\ pc[p] \in Running
    /\ IF pc[p] \in Written /\ file[p] # "none"
       THEN Write(p, {fs[Target(p)], Torn})
       ELSE UNCHANGED <<fs, owner>>
    /\ file' = [file EXCEPT ![p] = "none"]
    /\ text' = [text EXCEPT ![p] = Nil]
    /\ Goto(p, "cut")
    /\ UNCHANGED <<dirs, cmd>>

Finished ==
    /\ \A p \in Run : pc[p] \in Ended
    /\ UNCHANGED vars

Next ==
    \/ \E p \in Run :
          \/ Setup(p)
          \/ RemoveFile(p) \/ RemoveDir(p) \/ Mkdir(p)
          \/ ReadSource(p) \/ ConvertCopy(p)
          \/ CreateFile(p) \/ WriteFile(p)
          \/ Cut(p)
    \/ Finished

Spec == Init /\ [][Next]_vars

-----------------------------------------------------------------------------
(* What the tool and the tests that use its cases rely on.                  *)

RunsOn(c) == {p \in Run : cmd[p].source # NoSource /\ CaseOf(p) = c}

\* Nothing in case c is removed while somebody else may be writing there.
Undisturbed(c) ==
    \A p, q \in RunsOn(c) : cmd[p].overwrite => q = p

\* Where no run overwrites, a case belongs to one: whatever was there before stays,
\* and the files of two runs never meet in a directory, although each of them
\* looks for the directory first and makes it later.
CasesAreKept ==
    \A c \in Case : (\A p \in RunsOn(c) : ~cmd[p].overwrite) =>
        \A f, g \in FilePath :
            f.dir = c /\ g.dir = c /\ fs[f] # Absent /\ fs[g] # Absent
                => owner[f] = owner[g]

\* TestYamlToConf and TestConfToYaml on one test: the file is converted as the test
\* says, and `diff', which does not look at metadata, loads the result and what is
\* expected in one format and finds them to be the same.
Passes(t) ==
    LET i   == [args |-> <<t.source>>, ver |-> t.ver, force |-> FALSE, format |-> t.format]
        doc == fs[t.source]
    IN /\ doc \in Doc /\ fs[t.expected] \in Doc
       /\ PreRunError(i, doc) = Nil /\ ConversionError(i, doc) = Nil
       /\ Loads(fs[t.expected], Converted(i, doc).fmt)
       /\ Converted(i, doc).body = fs[t.expected].body

\* versions.json comes last: wherever a run wrote all of it, however it ended, both
\* tests are described and the program as it was then passes them.
DescribedCasePasses ==
    \A c \in Case :
        LET versions == JsonFile(c, "versions")
        IN Undisturbed(c) /\ owner[versions] # Nobody /\ fs[versions] \in Versions =>
              \A name \in {"yaml-tests", "conf-tests"} :
                  /\ fs[JsonFile(c, name)] \in TestData
                  /\ fs[JsonFile(c, name)].ver = fs[versions].testedVersion
                  /\ Passes(fs[JsonFile(c, name)])

\* A run that comes to its end has left its case whole and its own, whatever other runs
\* did before, between and after its writes, and wherever they were cut off: its two
\* tests, which pass, its version, and no file of an earlier case or of another run.
SuccessLeavesACase ==
    \A p \in Run : pc[p] = "done" /\ Undisturbed(CaseOf(p)) =>
        /\ \A f \in FilePath : f.dir = CaseOf(p) /\ fs[f] # Absent => owner[f] = p
        /\ fs[JsonFile(CaseOf(p), "yaml-tests")] = Test(p, "yaml")
        /\ fs[JsonFile(CaseOf(p), "conf-tests")] = Test(p, "asconfig")
        /\ fs[JsonFile(CaseOf(p), "versions")] = [testedVersion |-> cmd[p].ver]
        /\ Passes(Test(p, "yaml")) /\ Passes(Test(p, "asconfig"))

\* getExtraTests, which gives up on every case when it cannot read one.
ExtraTests(testType) ==
    \A c \in dirs : fs[JsonFile(c, testType)] \in TestData

\* Unless a run is underway, or has failed or been killed after it was let in, the
\* tests take in every case there is: being refused costs none of them.
SuiteLoadsUnlessCut ==
    /\ \A c \in Case : Undisturbed(c)
    /\ \A p \in Run : pc[p] \in {"setup", "done", "refused"}
    => ExtraTests("yaml-tests") /\ ExtraTests("conf-tests")

\* With -obfuscate, no two declarations of one kind in a conf file, of two namespaces
\* say, become declarations of the same one: the numbers of a kind do not repeat,
\* although they are cut off and put back as text and other kinds share the counter.
NamesStayApart ==
    \A p \in Run :
        pc[p] = "copy" /\ Obfuscates(p, text[p]) /\ text[p].body # Unparsable =>
            LET lines == Declarations[text[p].body]
            IN \A m, n \in 1..Len(lines) :
                  m # n /\ lines[m].key = lines[n].key /\ lines[m].key \in DOMAIN Numbered
                     => lines[m].name # lines[n].name
=============================================================================
