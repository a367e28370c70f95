------------------------------- MODULE Command -------------------------------
(***************************************************************************)
(* One invocation of asconfig, from main() to its exit status: Execute and *)
(* the hooks of the root command (cmd/root.go) in the order cobra calls    *)
(* them, around the command `validate' (cmd/validate.go).  A command of    *)
(* which only the outcome matters -- convert, generate, diff, list -- is   *)
(* run as "other".                                                         *)
(***************************************************************************)
EXTENDS Conversion, Naturals

CONSTANTS
    CommandLines,   \* the command lines it may be started with
    Sources,        \* the texts its source may hold
    Levels,         \* the log levels by name, the least talkative first
    BadLevel        \* a level that is none

\* Values of logrus.Level.
PanicLevel == 0
ErrorLevel == 2
InfoLevel  == 4
DebugLevel == 5

ASSUME LevelsAssumption ==
    /\ Levels = <<"panic", "fatal", "error", "warning", "info", "debug", "trace">>
    /\ \A i \in DOMAIN Levels : Levels[i] # BadLevel

\* What a command line asks for.  parse: does it parse, fail to, or ask for help
\* where no such flag is defined; config: the tools' configuration file.
CommandLine == [sub    : {"validate", "other"},
                parse  : {"ok", "bad", "help"},
                level  : {Levels[i] : i \in DOMAIN Levels} \cup {BadLevel},
                config : {"none", "used", "bad"},
                args   : Seq([ext : STRING]),
                ver    : Version \cup {Unset},
                force  : {FALSE},
                format : STRING \cup {Unset}]

ASSUME CommandAssumption ==
    /\ CommandLines \subseteq CommandLine
    /\ Sources \subseteq Doc

ErrSilent == "ErrSilent"

VARIABLES
    i,          \* the command line
    pc,         \* the hook that is called next, or "exited"
    level,      \* the logger's level
    required,   \* the flags marked required
    fdata,      \* what validate read, or Nil
    errs,       \* the errors joined into the one returned
    shown,      \* what has been written for the user to read
    status      \* the exit status

vars == <<i, pc, level, required, fdata, errs, shown, status>>

Errors == {"schemaMapError", "flagError", "help requested", "configError",
           "errInvalidLogLevel", "requiredFlagError", "errTooManyArguments",
           "ErrInvalidFormat", "readError", "loadError", "ErrConfigValidation",
           "someError", ErrSilent}

ASSUME NilAssumption == Nil \notin Doc \cup Errors \cup {"errMissingAerospikeVersion"}

TypeOK ==
    /\ i \in CommandLines
    /\ pc \in {"initialize", "parse", "persistentPreRun", "preRun",
               "requiredFlags", "run", "report", "exited"}
    /\ level \in PanicLevel..Len(Levels) - 1
    /\ required \subseteq {"aerospike-version"}
    /\ fdata \in Doc \cup {Nil}
    /\ errs \subseteq Errors
    /\ shown \subseteq {"stderr", "usage", "log", "notice", "verrs", "diffs"}
    /\ status \in {0, 1}

Init ==
    /\ i \in CommandLines
    /\ pc = "initialize"
    /\ level = InfoLevel
    /\ required = {}
    /\ fdata = Nil
    /\ errs = {}
    /\ shown = {}
    /\ status = 0

\* What the logger shows of a message of level l.
Logged(l, what) == IF level >= l THEN {what} ELSE {}

\* To hook, unless this one returned errors.
Proceed(hook, es) ==
    /\ errs' = es
    /\ pc' = IF es = {} THEN hook ELSE "report"

-----------------------------------------------------------------------------
(* Execute, and what cobra does before the hooks.                           *)

\* InitializeGlobals; without schemas there is nothing to run.
Initialize ==
    /\ pc = "initialize"
    /\ pc' = "parse"
    /\ UNCHANGED <<i, level, required, fdata, errs, shown, status>>

InitializeFails ==
    /\ pc = "initialize"
    /\ pc' = "exited"
    /\ errs' = {"schemaMapError"}
    /\ shown' = shown \cup {"stderr"}
    /\ status' = 1
    /\ UNCHANGED <<i, level, required, fdata>>

\* Cobra parses the flags; its errors go through the function given to
\* SetFlagErrorFunc, which shows them.
ParseFlags ==
    /\ pc = "parse"
    /\ CASE i.parse = "ok" ->
              Proceed("persistentPreRun", {}) /\ UNCHANGED shown
         [] i.parse = "bad" ->
              /\ Proceed("report", {"flagError", ErrSilent})
              /\ shown' = shown \cup Logged(ErrorLevel, "log") \cup {"usage"}
         [] i.parse = "help" ->
              /\ Proceed("report", {"help requested", ErrSilent})
              /\ shown' = shown \cup {"usage"}
    /\ UNCHANGED <<i, level, required, fdata, status>>

\* logrus.ParseLevel: the level returned with an error is the zero one, panic.
ParsedLevel(word) ==
    IF word = BadLevel THEN PanicLevel
    ELSE (CHOOSE n \in DOMAIN Levels : Levels[n] = word) - 1

\* PersistentPreRunE of the root command: configuration file, then log level.
PersistentPreRun ==
    /\ pc = "persistentPreRun"
    /\ level' = ParsedLevel(i.level)
    /\ shown' = IF i.config = "used" /\ level' >= InfoLevel
                THEN shown \cup {"notice"} ELSE shown
    /\ Proceed("preRun",
               (IF i.config = "bad" THEN {"configError"} ELSE {})
               \cup (IF i.level = BadLevel THEN {"errInvalidLogLevel"} ELSE {}))
    /\ UNCHANGED <<i, required, fdata, status>>

\* PreRunE: validate has none, the others check their arguments and flags.
PreRun ==
    /\ pc = "preRun"
    /\ \E es \in {{}} \cup (IF i.sub = "other" THEN {{"someError"}} ELSE {}) :
          Proceed("requiredFlags", es)
    /\ UNCHANGED <<i, level, required, fdata, shown, status>>

\* Cobra: the flags marked required by now must have been given.
RequiredFlags ==
    /\ pc = "requiredFlags"
    /\ Proceed("run", IF "aerospike-version" \in required /\ i.ver = Unset
                      THEN {"requiredFlagError"} ELSE {})
    /\ UNCHANGED <<i, level, required, fdata, shown, status>>

-----------------------------------------------------------------------------
(* runValidateCommand.                                                      *)

\* Mutant of VersionToValidate: the metadata wins over the flag.
MetadataFirst(doc) ==
    IF MetaVersion(doc) # NoVersion \/ i.ver = Unset THEN MetaVersion(doc) ELSE i.ver

\* The version flag, or else the metadata's; NoVersion is "".
VersionToValidate(doc) == IF i.ver = Unset THEN MetaVersion(doc) ELSE i.ver

\* Up to the bytes: arguments, format, read.
ReadToValidate ==
    /\ pc = "run" /\ i.sub = "validate" /\ fdata = Nil
    /\ shown' = shown \cup Logged(DebugLevel, "log")
    /\ IF Len(i.args) > convertArgMax
       THEN Proceed("report", {"errTooManyArguments"}) /\ UNCHANGED fdata
       ELSE IF SrcFormat(i) = Invalid
       THEN Proceed("report", {"ErrInvalidFormat"}) /\ UNCHANGED fdata
       ELSE \/ Proceed("report", {"readError"}) /\ UNCHANGED fdata
            \/ fdata' \in Sources /\ UNCHANGED <<pc, errs>>
    /\ UNCHANGED <<i, level, required, status>>

\* Mutants of Verdict: any refusal is a silent one; schema errors are shown, yet
\* not returned; a nil result is returned as an error.
SilentVerdict(doc) ==
    LET result == Validate(doc.body, VersionToValidate(doc))
    IN IF ~Loads(doc, SrcFormat(i)) THEN {"loadError"}
       ELSE IF result.err # Nil THEN {"ErrConfigValidation", ErrSilent}
       ELSE {}

ShownVerdict(doc) ==
    LET result == Validate(doc.body, VersionToValidate(doc))
    IN IF ~Loads(doc, SrcFormat(i)) THEN {"loadError"}
       ELSE IF result.verrs \/ result.err = Nil THEN {}
       ELSE {result.err}

NilVerdict(doc) ==
    LET result == Validate(doc.body, VersionToValidate(doc))
    IN IF ~Loads(doc, SrcFormat(i)) THEN {"loadError"}
       ELSE IF result.verrs THEN {"ErrConfigValidation", ErrSilent}
       ELSE {result.err}

\* Schema errors, when there are any, go before the error of the validation.
Verdict(doc) ==
    LET result == Validate(doc.body, VersionToValidate(doc))
    IN IF ~Loads(doc, SrcFormat(i)) THEN {"loadError"}
       ELSE IF result.verrs THEN {"ErrConfigValidation", ErrSilent}
       ELSE IF result.err # Nil THEN {result.err}
       ELSE {}

\* The rest.  Schema errors are printed, not logged.
ValidateRead ==
    /\ pc = "run" /\ i.sub = "validate" /\ fdata # Nil
    /\ required' = IF MetaVersion(fdata) = NoVersion
                   THEN {"aerospike-version"} ELSE required
    /\ errs' = Verdict(fdata)
    /\ shown' = IF Loads(fdata, SrcFormat(i))
                   /\ Validate(fdata.body, VersionToValidate(fdata)).verrs
                THEN shown \cup {"verrs"} ELSE shown
    /\ pc' = "report"
    /\ UNCHANGED <<i, level, fdata, status>>

\* RunE of another command; diff prints the differences and fails silently.
RunOther ==
    /\ pc = "run" /\ i.sub = "other"
    /\ \/ errs' \in {{}, {"someError"}} /\ UNCHANGED shown
       \/ errs' = {"someError", ErrSilent} /\ shown' = shown \cup {"diffs"}
    /\ pc' = "report"
    /\ UNCHANGED <<i, level, required, fdata, status>>

\* The end of Execute and of main: errors nobody has shown are logged, line by
\* line.  Cobra turns a request for help into success.
Report ==
    /\ pc = "report"
    /\ shown' = IF errs # {} /\ ErrSilent \notin errs
                THEN shown \cup Logged(ErrorLevel, "log") ELSE shown
    /\ status' = IF errs = {} \/ "help requested" \in errs THEN 0 ELSE 1
    /\ pc' = "exited"
    /\ UNCHANGED <<i, level, required, fdata, errs>>

Next ==
    \/ Initialize \/ InitializeFails
    \/ ParseFlags
    \/ PersistentPreRun \/ PreRun \/ RequiredFlags
    \/ ReadToValidate \/ ValidateRead
    \/ RunOther
    \/ Report

Spec == Init /\ [][Next]_vars

-----------------------------------------------------------------------------
(* What an invocation promises.                                             *)

\* A failure is explained: a run that exits with status 1 has shown something, if
\* it must at the log level its user chose.  That some errors are not logged, for
\* they were shown before, is no exception to this (Execute and ErrSilent).
FailureIsExplained ==
    pc = "exited" /\ status = 1 /\ shown = {} =>
        /\ ErrSilent \notin errs
        /\ i.level \in {"panic", "fatal", BadLevel}

\* validate accepts a file exactly if convert, without --force and with the same
\* flags, would go on to convert it (runValidateCommand against the two hooks of
\* convert, which take the version and check it in different orders).
VerdictsAgree ==
    pc = "exited" /\ fdata # Nil =>
        (status = 0) = (PreRunError(i, fdata) = Nil /\ ConversionError(i, fdata) = Nil)

\* "If a file passes validation nothing is output", at the default level and with
\* no configuration file of the tools to be told about; and nothing is the sign of
\* success: whatever validate did not read and accept has output.
SilenceIsSuccess ==
    /\ pc = "exited" /\ i.sub = "validate"
    /\ i.level = "info" /\ i.config = "none"
    => (shown = {}) = (status = 0 /\ i.parse = "ok")
=============================================================================
