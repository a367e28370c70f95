----------------------------- MODULE MCTestCases -----------------------------
(* Two runs of testgen over the directory of test cases.                      *)
EXTENDS TestCases, TLC

CONSTANTS r1, r2

Own(n)     == [stem |-> "own", cut |-> 0, num |-> n]
Decl(k, n) == [key |-> k, name |-> Own(n)]

\* Twelve datacenters, declared and referred to in turn, so that the counter they
\* share gets a second digit between two uses of either pattern; some names whose
\* lines match one pattern or more; and one behind a line the scanner stops at.
Lines ==
    [n \in 1..12 |-> Decl(IF n \in {1, 2, 9, 12} THEN "xdr_remote_datacenter"
                          ELSE "datacenter", n)]
    \o <<Decl("namespace", 1), Decl("feature_key_file", 2), Decl("file", 3),
         Decl("feature_key_file", 4), Decl("ca_file", 5), Decl("namespace", 7),
         Decl("port", 8), Decl(Overlong, 9), Decl("namespace", 10)>>

MCBody == {"empty", "lines", "scanned", "obfuscated"}

MCDeclarations ==
    [b \in MCBody |-> CASE b = "empty"      -> <<>>
                        [] b = "lines"      -> Lines
                        [] b = "scanned"    -> processFileData(Lines, FALSE)
                        [] b = "obfuscated" -> processFileData(Lines, TRUE)]

MCVersion   == {"7.0.0", "#"}
MCSupported == {"7.0.0"}
MCMalformed == {"#"}
MCValidFor  == [v \in MCSupported |-> MCBody \ {"empty"}]

Source1(d, c, e) == [dir |-> d, base |-> c, ext |-> e]

UserDoc(f) == [fmt |-> f, body |-> "lines", ver |-> NoVersion, by |-> "user"]

\* A complete case that was made earlier.
Made(files, c) ==
    LET test(src, exp, format) ==
            [source |-> ConfigFile(c, src), expected |-> ConfigFile(c, exp),
             format |-> format, ver |-> "7.0.0"]
    IN [files EXCEPT
          ![ConfigFile(c, "yaml")] = UserDoc(YAML),
          ![ConfigFile(c, "conf")] = UserDoc(AeroConfig),
          ![JsonFile(c, "yaml-tests")] = test("yaml", "conf", "yaml"),
          ![JsonFile(c, "conf-tests")] = test("conf", "yaml", "asconfig"),
          ![JsonFile(c, "versions")] = [testedVersion |-> "7.0.0"]]

\* A source as yaml, as conf, and one that is not what its extension says.
Sources ==
    [f \in FilePath |->
        IF f.dir # Outside THEN Absent
        ELSE IF f.ext = "yaml" THEN UserDoc(YAML)
        ELSE UserDoc(AeroConfig)]

MCFiles ==
    {Sources, Made(Sources, "foo")}
    \cup {[Sources EXCEPT ![Source1(Outside, "foo", "yaml")] = node] :
            node \in {Absent, UserDoc(AeroConfig)}}

\* foo.yaml and foo.conf make the same case; the copy in it may be taken for the
\* source; and there are the arguments that are refused, early or late.
MCCommands ==
    [p \in Run |->
        {[source |-> Source1(Outside, "foo", e), overwrite |-> o, obfuscate |-> b,
          ver |-> "7.0.0"] : e \in {"yaml", "conf"}, o \in BOOLEAN, b \in BOOLEAN}
        \cup
        {[source |-> s, overwrite |-> TRUE, obfuscate |-> FALSE, ver |-> "#"] :
           s \in {NoSource, Source1("foo", "foo", "conf"), Source1(Outside, "foo", "txt"),
                  Source1(Outside, "foo", "conf")}}]

Interchangeable == Permutations(Run)
=============================================================================
