----------------------------- MODULE Conversion -----------------------------
(***************************************************************************)
(* The decisions `asconfig convert' takes (cmd/convert.go), as functions   *)
(* of its command line i and of the text it has read: which check refuses  *)
(* it, and what it is converted to.  Module Convert places them in the     *)
(* steps of a run; module Command compares them with those of `validate'.  *)
(***************************************************************************)
EXTENDS Contents, Sequences

CONSTANT Stdin      \* "/dev/stdin"

convertArgMax == 1

Source(i) == IF i.args = <<>> THEN Stdin ELSE i.args[1]

SourceExt(i) == IF Source(i) = Stdin THEN "" ELSE Source(i).ext

\* Mutant of VersionFlagError: the metadata does not replace the flag.
FlagAlwaysRequired(i, doc) ==
    IF i.force THEN Nil
    ELSE IF i.ver = Unset THEN "errMissingAerospikeVersion"
    ELSE IF i.ver \in Malformed THEN "errInvalidAerospikeVersion"
    ELSE IF i.ver \notin Supported THEN "errUnsupportedAerospikeVersion"
    ELSE Nil

\* handleAerospikeVersionValidation: the flag is looked at only when required.
VersionFlagError(i, doc) ==
    IF i.force \/ MetaVersion(doc) # NoVersion THEN Nil
    ELSE IF i.ver = Unset THEN "errMissingAerospikeVersion"
    ELSE IF i.ver \in Malformed THEN "errInvalidAerospikeVersion"
    ELSE IF i.ver \notin Supported THEN "errUnsupportedAerospikeVersion"
    ELSE Nil

\* The rest of validateAerospikeVersion; an empty --format passes here.
PreRunError(i, doc) ==
    IF VersionFlagError(i, doc) # Nil THEN VersionFlagError(i, doc)
    ELSE IF ParseFmtString(FormatFlag(i.format)) = Invalid /\ FormatFlag(i.format) # ""
    THEN "errInvalidFormat"
    ELSE Nil

SrcFormat(i) == getConfFileFormat(SourceExt(i), i.format)

\* The version the run validates against and records; NoVersion is "".
ResolvedVersion(i, doc) == IF i.ver = Unset THEN MetaVersion(doc) ELSE i.ver

\* Mutant of ValidationError: the flag is recorded, the metadata validated against.
ValidatedByMetadata(i, doc) ==
    IF i.force THEN Nil ELSE Validate(doc.body, MetaVersion(doc)).err

ValidationError(i, doc) ==
    LET result == Validate(doc.body, ResolvedVersion(i, doc))
    IN IF i.force THEN Nil
       ELSE IF result.err # Nil THEN result.err
       ELSE IF result.verrs THEN "ValidationErrors"
       ELSE Nil

\* convertConfig up to MarshalText, in the order of its checks.
ConversionError(i, doc) ==
    IF SrcFormat(i) = Invalid THEN "ErrInvalidFormat"
    ELSE IF ResolvedVersion(i, doc) = NoVersion /\ ~i.force
    THEN "errMissingAerospikeVersion"
    ELSE IF ~Loads(doc, SrcFormat(i)) THEN "loadError"
    ELSE ValidationError(i, doc)

\* processConfigConversion's result: the metadata block, then the other format.
Converted(i, doc) ==
    [fmt  |-> determineOutputFormat(SrcFormat(i)),
     body |-> doc.body,
     ver  |-> IF ResolvedVersion(i, doc) = NoVersion THEN Blank
              ELSE ResolvedVersion(i, doc),
     by   |-> IF i.force THEN "forced" ELSE "checked"]
=============================================================================
