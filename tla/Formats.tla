------------------------------ MODULE Formats ------------------------------
(***************************************************************************)
(* How asconfig decides the format of a file: the words of the --format    *)
(* flag and of file extensions, the default between them, and the format   *)
(* and file extension a conversion produces.                               *)
(*                                                                         *)
(* A word is taken after strings.ToLower, so "YML" and "yml" are the same  *)
(* word.  The empty word stands for an empty flag or a missing extension.  *)
(***************************************************************************)
CONSTANT Unset       \* the flag was not given on the command line

YAML       == "YAML"
AeroConfig == "AeroConfig"
Invalid    == "Invalid"

\* The formats a file can be in.
Format == {YAML, AeroConfig}

ParseFmtString(in) ==
    IF in \in {"yaml", "yml"} THEN YAML
    ELSE IF in \in {"asconfig", "conf", "asconf"} THEN AeroConfig
    ELSE Invalid

\* The default value of --format (convert, diff and generate declare the same).
DefaultFormat == "conf"

\* What GetString("format") returns: the default unless the user gave a value.
FormatFlag(flag) == IF flag = Unset THEN DefaultFormat ELSE flag

\* A flag given by the user wins; else the extension; else the flag's default.
getConfFileFormat(ext, flag) ==
    ParseFmtString(IF flag = Unset /\ ext # "" THEN ext ELSE FormatFlag(flag))

determineOutputFormat(srcFormat) ==
    IF srcFormat = AeroConfig THEN YAML
    ELSE IF srcFormat = YAML THEN AeroConfig
    ELSE Invalid

\* The extension determineOutputPath appends to a file it names itself.
OutputExt(outFmt) == IF outFmt = YAML THEN "yaml" ELSE "conf"
=============================================================================
