-------------------------- MODULE MetadataLifecycle --------------------------
(***************************************************************************)
(* The text of one configuration file as asconfig rewrites it: what the    *)
(* metadata comments say after one conversion, after the next, and after   *)
(* a configuration was generated from a server.  Only the metadata and     *)
(* what is needed to delimit it are in the text; module Convert models the *)
(* rest of a conversion and uses the results of this one.                  *)
(***************************************************************************)
EXTENDS Metadata

CONSTANTS
    Sources,        \* the texts a user may start from
    ConfigText,     \* a marshalled configuration: no comment in it
    Disclaimer,     \* the message generate puts before its metadata
    FlagVersions,   \* values given to --aerospike-version
    ToolVersion,    \* VERSION, the value recorded under asconfig-version
    MaxRuns         \* bound on the number of commands run

ASSUME LifecycleAssumption ==
    /\ Sources \subseteq Seq(Token)
    /\ ConfigText \in Seq(Token \ {Hash})
    /\ Disclaimer \in Seq(Token)
    /\ FlagVersions \subseteq Seq(ToSet(Words)) \ {<<>>}
    /\ ToolVersion \in Seq(ToSet(Words)) \ {<<>>}
    /\ MaxRuns \in Nat

VARIABLES
    text,       \* the file
    source,     \* history: the file as the last command found it
    wrote,      \* the command that wrote it last: "user", "convert" or "generate"
    mdata,      \* the metadata that command handed to Marshal
    runs        \* how many commands have run

vars == <<text, source, wrote, mdata, runs>>

TypeOK ==
    /\ text \in Seq(Token)
    /\ source \in Seq(Token)
    /\ wrote \in {"user", "convert", "generate"}
    /\ \A k \in DOMAIN mdata : k \in Seq(Token) /\ mdata[k] \in Seq(Token)
    /\ runs \in 0..MaxRuns

Init ==
    /\ text \in Sources
    /\ source = text
    /\ wrote = "user"
    /\ mdata = NoMetadata
    /\ runs = 0

\* The map both callers of genMetaDataText build.
Recorded(version) ==
    [k \in {metaKeyAerospikeVersion, metaKeyAsconfigVersion} |->
        IF k = metaKeyAerospikeVersion THEN version ELSE ToolVersion]

Put(src, msg, version) ==
    /\ source' = text
    /\ mdata' = Unmarshal(src, Recorded(version))
    /\ text' = genMetaDataText(src, msg, Recorded(version)) \o ConfigText

\* asconfig convert on the file, the result replacing it.  An absent flag is the
\* empty version: the file's own is used, and without one only --force goes on.
Convert(flag, force) ==
    LET version == IF flag = <<>>
                   THEN getMetaDataItemOptional(text, metaKeyAerospikeVersion)
                   ELSE flag
    IN /\ runs < MaxRuns
       /\ \/ force
          \/ flag # <<>>
          \/ ~getMetaDataItemFails(text, metaKeyAerospikeVersion)
       /\ Put(text, <<>>, version)
       /\ wrote' = "convert"
       /\ runs' = runs + 1

\* asconfig generate into the file: the old text is not read, the metadata is
\* looked for in the generated configuration.
Generate(version) ==
    /\ runs < MaxRuns
    /\ Put(ConfigText, Disclaimer, version)
    /\ wrote' = "generate"
    /\ runs' = runs + 1

Next ==
    \/ \E flag \in FlagVersions \cup {<<>>}, force \in BOOLEAN : Convert(flag, force)
    \/ \E version \in FlagVersions : Generate(version)

Spec == Init /\ [][Next]_vars

-----------------------------------------------------------------------------
ReadBack == Unmarshal(text, NoMetadata)

\* A value Marshal can be trusted with: it is not empty and has no colon.
PlainValue(v) == v # <<>> /\ \A i \in DOMAIN v : v[i] # Colon

Plain(m) == \A k \in DOMAIN m : PlainValue(m[k])

UserKeys(m) == DOMAIN m \ {metaKeyAerospikeVersion, metaKeyAsconfigVersion}

\* What a conversion writes is what the next command reads: every item, no more
\* (genMetaDataText against Unmarshal, over arbitrary comments in the source).
RoundTrip ==
    wrote = "convert" /\ Plain(mdata) => ReadBack = mdata

\* Converting a converted file again for the same version leaves its metadata
\* block as it is, so repeated conversions do not make the header grow.
HeaderIsStable ==
    wrote = "convert" /\ Plain(mdata) =>
        genMetaDataText(text, <<>>, Recorded(mdata[metaKeyAerospikeVersion]))
            \o ConfigText = text

\* How an absent version is read back.  Recorded empty by --force, the next line
\* is read as the version; that value recorded again hides the key altogether.
\* (The other items plain; module Convert's MetaVersion is this table.)
BlankVersionTable ==
    LET others == [k \in UserKeys(mdata) |-> mdata[k]]
        read == getMetaDataItemOptional(text, metaKeyAerospikeVersion)
    IN wrote = "convert" /\ Plain(others) =>
        LET version == mdata[metaKeyAerospikeVersion]
        IN /\ version = <<>> => read # <<>> /\ Head(read) = Hash
           /\ version # <<>> /\ ~PlainValue(version) => read = <<>>

\* A comment of the form key: value in the source is still there, with its value,
\* after a conversion (the promise TestConvertMetaData checks on one file).
UserMetadataSurvives ==
    LET before == Unmarshal(source, NoMetadata)
    IN wrote = "convert" /\ Plain(mdata) =>
          \A k \in UserKeys(before) :
             k \in DOMAIN ReadBack /\ ReadBack[k] = before[k]

\* The version generate records can be read by the other commands, the metadata
\* line having the form findComments is documented to match.
GeneratedVersionReadsBack ==
    wrote = "generate" =>
        getMetaDataItemOptional(text, metaKeyAerospikeVersion)
            = mdata[metaKeyAerospikeVersion]
=============================================================================
