------------------------------ MODULE Contents ------------------------------
(***************************************************************************)
(* What is in a configuration text, as far as asconfig's commands depend   *)
(* on it: the format it is in, the configuration it holds, the server      *)
(* version its metadata names, and who produced it.                        *)
(*                                                                         *)
(* A configuration is abstracted to a body; what the management library    *)
(* makes of it (does it load, is it valid for a server version) is given   *)
(* by constants.  Comments survive a conversion only as metadata, of which *)
(* the server version is kept here; module MetadataLifecycle checks the    *)
(* text of the block that carries it.                                      *)
(***************************************************************************)
EXTENDS Formats

CONSTANTS
    Body,           \* configurations, as the library sees them
    EmptyBody,      \* the configuration an empty file stands for
    Unparsable,     \* bytes the library cannot load
    Version,        \* values of a server version, as text
    Supported,      \* the versions the embedded schemas cover
    Malformed,      \* the versions that are not of the form <a>.<b>.<c>
    Garbled,        \* what is read back where an empty version was recorded
    NoVersion,      \* the text has no version metadata
    Blank,          \* the text has a version line without a value
    ValidFor,       \* the bodies that are valid for a supported version
    Nil             \* no error

\* A complete configuration text.  `by' is a history: who produced it -- a user,
\* a run that validated it, a run with --force, or `generate'.
Doc == [fmt  : Format,
        body : Body \cup {Unparsable},
        ver  : Version \cup {NoVersion, Blank},
        by   : {"user", "checked", "forced", "generated"}]

ASSUME ContentsAssumption ==
    /\ EmptyBody \in Body
    /\ Unparsable \notin Body
    /\ Supported \subseteq Version
    /\ Malformed \subseteq Version
    /\ Supported \cap Malformed = {}
    /\ Garbled \in Malformed
    /\ {NoVersion, Blank, Unset} \cap Version = {}
    /\ NoVersion # Blank
    /\ ValidFor \in [Supported -> SUBSET Body]

\* A text of no bytes is in every format and has no metadata.
EmptyText(body) ==
    [fmt |-> YAML, body |-> body, ver |-> NoVersion, by |-> "user"]

\* Mutant of MetaVersion: a text that names no version is of a supported one.
DefaultedVersion(doc) ==
    IF doc.ver = NoVersion THEN CHOOSE v \in Supported : TRUE ELSE doc.ver

\* The value Unmarshal finds under aerospike-server-version, or NoVersion
\* (MetadataLifecycle!BlankVersionTable).
MetaVersion(doc) ==
    IF doc.ver = Blank THEN Garbled
    ELSE IF doc.ver = Garbled THEN NoVersion
    ELSE doc.ver

\* NewASConfigFromBytes succeeds.
Loads(doc, fmt) ==
    /\ doc.body # Unparsable
    /\ doc.fmt = fmt \/ doc.body = EmptyBody

\* conf.ConfigValidator.Validate: the schema errors are returned together with
\* ErrConfigValidation; an unknown version yields the latter alone.
Validate(body, version) ==
    IF version \in Supported /\ body \in ValidFor[version]
    THEN [verrs |-> FALSE, err |-> Nil]
    ELSE [verrs |-> version \in Supported, err |-> "ErrConfigValidation"]
=============================================================================
