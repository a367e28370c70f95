------------------------------ MODULE MCConvert ------------------------------
(* Small instances of Convert: the flags of one run; runs that race over the
   same two files; a shell pipeline.                                          *)
EXTENDS Convert, FiniteSets

CONSTANTS p1, p2, cwd, outdir

\* Two supported versions, one that is not, and one that is no version at all.
\* `new' is a configuration only the later version accepts, `bad' one none does.
MCVersion   == {"6.4.0", "7.0.0", "3.0.0", "7", "#"}
MCSupported == {"6.4.0", "7.0.0"}
MCMalformed == {"7", "#"}
MCBody      == {"empty", "both", "new", "bad"}
MCValidFor  == [v \in MCSupported |-> IF v = "7.0.0" THEN {"both", "new"} ELSE {"both"}]

\* The same, without what only the flags of a single run can tell apart.
FewVersion   == {"6.4.0", "7.0.0", "#"}
FewMalformed == {"#"}
FewBody      == {"empty", "both", "new"}

NoUpstream == [p \in Proc |-> NoProc]

MCParent == [d \in Dirs |-> cwd]

File(b, e) == [dir |-> cwd, base |-> b, ext |-> e]

UserDoc(f, b, v) == [fmt |-> f, body |-> b, ver |-> v, by |-> "user"]

Cmd(args, stdin, o, v, force, format) ==
    [cmd |-> "convert", args |-> args, stdin |-> stdin, out |-> o, ver |-> v,
     force |-> force, format |-> format]

Generate(args, o, format) ==
    [cmd |-> "generate", args |-> args, stdin |-> Empty, out |-> o, ver |-> Unset,
     force |-> FALSE, format |-> format]

Missing == [f \in FilePath |-> Absent]

-----------------------------------------------------------------------------
(* One run, with every combination of its flags.                            *)

\* Sources named with and without an extension, and by their extension only.
FlagsSources == {File("a", "yaml"), File("a", "conf"), File("a", ""), File("", "yaml")}

\* The source is absent, empty, of the other format than its name says, not valid,
\* valid for one version, valid for both; with metadata or without.
FlagsFiles ==
    {[Missing EXCEPT ![src] = node] :
        src \in FlagsSources,
        node \in {Absent, Empty}
                 \cup {UserDoc(YAML, b, v) : b \in {"both", "new", "bad", Unparsable},
                                              v \in {NoVersion, "6.4.0", "3.0.0"}}}

FlagsCommands ==
    {Cmd(args, Empty, o, v, force, format) :
       args \in {<<src>> : src \in FlagsSources}
                \cup {<<>>, <<File("a", "yaml"), File("a", "conf")>>},
       o \in {Stdout, cwd, outdir, Unstatable, File("a", "yaml")},
       v \in {Unset, "7.0.0", "3.0.0", "7"},
       force \in BOOLEAN,
       format \in {Unset, "", "yaml", "asconf", "toml"}}
    \cup
    {Generate(args, o, format) :
       args \in {<<>>, <<File("a", "yaml"), File("a", "conf")>>},
       o \in {Stdout, outdir, Unstatable, File("a", "yaml"), File("a", "")},
       format \in {Unset, "", "asconf", "toml"}}

FlagsInvocations == [p \in Proc |-> FlagsCommands]

-----------------------------------------------------------------------------
(* Two runs over a.yaml and a.conf, which another program may change too.   *)

Yaml == File("a", "yaml")
Conf == File("a", "conf")

RaceFiles ==
    {[Missing EXCEPT ![Yaml] = y, ![Conf] = c] :
        y \in {UserDoc(YAML, "both", NoVersion), UserDoc(YAML, "new", "7.0.0")},
        c \in {Absent, UserDoc(AeroConfig, "new", "6.4.0")}}

\* To a file of the other name, in place, into the directory of the source.
RaceInvocations ==
    [p \in Proc |->
        {Cmd(<<src>>, Empty, o, v, FALSE, Unset) :
           src \in {Yaml, Conf}, o \in {Yaml, Conf, cwd}, v \in {Unset, "7.0.0"}}
        \cup {Cmd(<<Yaml>>, Empty, Conf, Unset, TRUE, Unset)}
        \cup {Generate(<<>>, o, Unset) : o \in {Yaml, Conf}}]

RacePaths == {Yaml, Conf}
RaceNodes == {Absent, UserDoc(AeroConfig, "both", "6.4.0")}

-----------------------------------------------------------------------------
(* asconfig convert or generate | asconfig convert, or the two one after the  *)
(* other over shared files, and another program.                             *)

PipeUpstream == [p \in Proc |-> IF p = p1 THEN NoProc ELSE p1]

\* The empty configuration is valid, so that only the missing version can stop a
\* run at the end of an empty pipe.
PipeValidFor == [v \in MCSupported |-> MCValidFor[v] \cup {"empty"}]

PipeFiles ==
    {[Missing EXCEPT ![Yaml] = UserDoc(YAML, b, "7.0.0")] : b \in {"both", "new"}}

\* In place, to a file of the other name, to the pipe; from there into the directory
\* or over the file that was first.
PipeInvocations ==
    [p \in Proc |->
        IF p = p1
        THEN {Cmd(<<Yaml>>, Empty, o, v, force, Unset) :
                o \in {Yaml, Conf, Stdout}, v \in {Unset, "6.4.0"}, force \in BOOLEAN}
             \cup {Generate(<<>>, o, Unset) : o \in {Conf, Stdout}}
        ELSE {Cmd(<<>>, Empty, o, Unset, FALSE, "asconf") : o \in {Yaml, cwd}}
             \cup {Cmd(<<Conf>>, Empty, o, Unset, FALSE, Unset) : o \in {cwd, Conf}}]
=============================================================================
