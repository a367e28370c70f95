---------------------------- MODULE CommandProofs ----------------------------
(***************************************************************************)
(* Theorems about Command, for any command lines, texts and schemas: type  *)
(* correctness, and what the exit status and the output of an invocation   *)
(* say.  The invariant follows the hooks: which of them has run is known   *)
(* from the label, and what it found from the errors.                      *)
(***************************************************************************)
EXTENDS Command, TLAPS

-----------------------------------------------------------------------------
(* What the steps compute.                                                  *)

\* A word for a level, known or not, yields one; of those that do not log errors
\* only the two names of such levels are words for them.
LEMMA ParsedLevelType ==
    ASSUME NEW word \in {Levels[n] : n \in DOMAIN Levels} \cup {BadLevel}
    PROVE  /\ ParsedLevel(word) \in PanicLevel..Len(Levels) - 1
           /\ ParsedLevel(word) < ErrorLevel => word \in {"panic", "fatal", BadLevel}
           /\ word = "info" => ParsedLevel(word) = InfoLevel
  <1>1. DOMAIN Levels = 1..7 /\ Len(Levels) = 7
    BY LevelsAssumption
  <1>2. CASE word = BadLevel
    <2>1. ParsedLevel(word) = 0
      BY <1>2 DEF ParsedLevel, PanicLevel
    <2>2. word # "info"
      <3>1. Levels[6] = "debug" /\ Levels[5] = "info" /\ Levels[5] # BadLevel
        BY <1>1, LevelsAssumption
      <3> QED BY <1>2, <3>1
    <2> QED BY <1>1, <1>2, <2>1, <2>2 DEF PanicLevel
  <1>3. CASE word # BadLevel
    <2> DEFINE n == CHOOSE m \in DOMAIN Levels : Levels[m] = word
    <2>1. n \in DOMAIN Levels /\ Levels[n] = word
      BY <1>3
    <2> HIDE DEF n
    <2>2. ParsedLevel(word) = n - 1
      BY <1>3 DEF ParsedLevel, n
    <2>3. n \in 1..7
      BY <1>1, <2>1
    <2>4. n = 1 => word = "panic"
      BY <2>1, LevelsAssumption
    <2>5. n = 2 => word = "fatal"
      BY <2>1, LevelsAssumption
    <2>6. word = "info" => n = 5
      <3>1. \A m \in 1..7 : Levels[m] = "info" => m = 5
        BY LevelsAssumption
      <3> QED BY <2>1, <2>3, <3>1
    <2> QED
      BY <1>1, <2>2, <2>3, <2>4, <2>5, <2>6 DEF PanicLevel, ErrorLevel, InfoLevel
  <1> QED BY <1>2, <1>3

\* The errors of a verdict; it is silent only where there are schema errors.
LEMMA VerdictType ==
    ASSUME NEW doc
    PROVE  /\ Verdict(doc) \subseteq Errors \ {"help requested"}
           /\ ErrSilent \in Verdict(doc) =>
                Loads(doc, SrcFormat(i)) /\ Validate(doc.body, VersionToValidate(doc)).verrs
           /\ Loads(doc, SrcFormat(i)) /\ Validate(doc.body, VersionToValidate(doc)).verrs =>
                Verdict(doc) # {}
  <1> DEFINE result == Validate(doc.body, VersionToValidate(doc))
  <1>1. result.err \in {Nil, "ErrConfigValidation"}
    BY DEF Validate
  <1> QED
    BY <1>1 DEF Verdict, Errors, ErrSilent

\* The verdict of validate on a text is the decision convert takes without --force.
LEMMA VerdictIsConversion ==
    ASSUME i \in CommandLine, NEW doc \in Doc, SrcFormat(i) # Invalid
    PROVE  Verdict(doc) = {} <=> PreRunError(i, doc) = Nil /\ ConversionError(i, doc) = Nil
  <1> DEFINE v == VersionToValidate(doc)
             Accepted == v \in Supported /\ doc.body \in ValidFor[v]
  <1>1. v = ResolvedVersion(i, doc) /\ i.force = FALSE
    BY DEF VersionToValidate, ResolvedVersion, CommandLine
  <1>2. /\ Accepted => Validate(doc.body, v) = [verrs |-> FALSE, err |-> Nil]
        /\ ~Accepted => Validate(doc.body, v).err = "ErrConfigValidation"
    BY DEF Validate
  <1>3. "ErrConfigValidation" # Nil /\ "loadError" # Nil /\ "errMissingAerospikeVersion" # Nil
    BY NilAssumption DEF Errors
  <1> HIDE DEF v
  <1>4. Verdict(doc) = {} <=> Loads(doc, SrcFormat(i)) /\ Accepted
    BY <1>2, <1>3 DEF Verdict, v
  <1>5. v \in Supported => v # NoVersion
    BY ContentsAssumption
  <1>6. ConversionError(i, doc) = Nil <=> Loads(doc, SrcFormat(i)) /\ Accepted
    BY <1>1, <1>2, <1>3, <1>5 DEF ConversionError, ValidationError
  <1>7. v \in Supported => VersionFlagError(i, doc) = Nil
    BY <1>1, <1>5, ContentsAssumption DEF VersionFlagError, ResolvedVersion
  <1>8. ~(ParseFmtString(FormatFlag(i.format)) = Invalid /\ FormatFlag(i.format) # "")
    <2>1. ParseFmtString("conf") # Invalid
      BY DEF ParseFmtString, YAML, AeroConfig, Invalid
    <2> QED
      BY <2>1 DEF SrcFormat, getConfFileFormat, FormatFlag, DefaultFormat
  <1>9. v \in Supported => PreRunError(i, doc) = Nil
    BY <1>7, <1>8 DEF PreRunError
  <1> QED
    BY <1>4, <1>6, <1>9

-----------------------------------------------------------------------------
(* The invariant.                                                           *)

Hooks == {"persistentPreRun", "preRun", "requiredFlags", "run"}

\* The level is the default one until the hook that reads the flag.
LevelIsDated == level \in {InfoLevel, ParsedLevel(i.level)}

\* No hook is called after an error, nor after a command line that did not parse.
ErrorsEndRuns ==
    /\ pc \in {"initialize", "parse"} \cup Hooks => errs = {}
    /\ pc \in {"initialize", "parse"} => shown = {}
    /\ pc \in Hooks => i.parse = "ok"
    /\ pc # "exited" => status = 0
    /\ "help requested" \in errs => i.parse = "help"

\* The errors nobody is told of again have been shown; so has any other at the end,
\* unless the log level says no.
ErrorsAreShown ==
    /\ ErrSilent \in errs => shown # {}
    /\ pc = "exited" /\ errs # {} /\ shown = {} => level < ErrorLevel
    /\ pc = "exited" /\ status = 1 => errs # {}
    /\ pc \in {"report", "exited"} /\ i.parse # "ok" => shown # {}

\* At the default level, validate shows nothing but what goes with an error.
SilentSoFar ==
    i.sub = "validate" /\ i.parse = "ok" /\ i.level = "info" /\ i.config = "none"
    /\ shown # {} =>
        errs # {} /\ (pc = "exited" => status = 1)

\* What validate has read it judges, whatever is done with the verdict.
ReadIsJudged ==
    fdata # Nil =>
        /\ pc \in {"run", "report", "exited"}
        /\ i.sub = "validate" /\ SrcFormat(i) # Invalid
        /\ pc \in {"report", "exited"} => errs = Verdict(fdata)
        /\ pc = "exited" => (status = 0 <=> errs = {})

Inv == TypeOK /\ LevelIsDated /\ ErrorsEndRuns /\ ErrorsAreShown /\ SilentSoFar /\ ReadIsJudged

LEMMA InvInit == Init => Inv
  <1> SUFFICES ASSUME Init PROVE Inv OBVIOUS
  <1>1. TypeOK
    <2>1. level \in PanicLevel..Len(Levels) - 1
      BY LevelsAssumption DEF Init, InfoLevel, PanicLevel
    <2> QED BY <2>1 DEF Init, TypeOK
  <1> QED
    BY <1>1 DEF Init, Inv, LevelIsDated, ErrorsEndRuns, ErrorsAreShown, SilentSoFar, ReadIsJudged, Hooks

\* Each hook keeps the invariant.
LEMMA InvNext == Inv /\ [Next]_vars => Inv'
  <1> SUFFICES ASSUME Inv, [Next]_vars PROVE Inv'
    OBVIOUS
  <1> USE DEF Inv
  <1>0. /\ i \in CommandLine /\ i.level \in {Levels[n] : n \in DOMAIN Levels} \cup {BadLevel}
        /\ Nil \notin Doc /\ Sources \subseteq Doc
    BY CommandAssumption, NilAssumption DEF TypeOK, CommandLine
  <1>1. CASE Initialize
    BY <1>1 DEF Initialize, TypeOK, LevelIsDated, ErrorsEndRuns, ErrorsAreShown, SilentSoFar, ReadIsJudged, Hooks, Verdict, VersionToValidate, ParsedLevel
  <1>2. CASE InitializeFails
    BY <1>2 DEF InitializeFails, TypeOK, Errors, ErrSilent, LevelIsDated, ErrorsEndRuns, ErrorsAreShown, SilentSoFar, ReadIsJudged, Hooks, ParsedLevel
  <1>3. CASE ParseFlags
    <2>1. i.parse \in {"ok", "bad", "help"}
      BY <1>0 DEF CommandLine
    <2>2. TypeOK'
      BY <1>3, <2>1 DEF ParseFlags, Proceed, Logged, TypeOK, Errors, ErrSilent
    <2>3. LevelIsDated'
      BY <1>3 DEF ParseFlags, LevelIsDated, ParsedLevel
    <2>4. fdata' = Nil
      BY <1>3 DEF ParseFlags, ReadIsJudged
    <2>5. /\ pc = "parse" /\ UNCHANGED <<i, level, required, fdata, status>>
          /\ \/ i.parse = "ok" /\ pc' = "persistentPreRun" /\ errs' = {} /\ shown' = shown
             \/ /\ i.parse # "ok" /\ pc' = "report" /\ "usage" \in shown'
                /\ "help requested" \in errs' => i.parse = "help"
      <3>1. CASE i.parse = "ok"
        BY <1>3, <3>1 DEF ParseFlags, Proceed
      <3>2. CASE i.parse = "bad"
        <4>1. /\ Proceed("report", {"flagError", ErrSilent})
              /\ shown' = shown \cup Logged(ErrorLevel, "log") \cup {"usage"}
              /\ pc = "parse" /\ UNCHANGED <<i, level, required, fdata, status>>
          BY <1>3, <3>2 DEF ParseFlags
        <4>2. errs' = {"flagError", ErrSilent} /\ pc' = "report"
          BY <4>1 DEF Proceed
        <4> QED BY <3>2, <4>1, <4>2 DEF ErrSilent
      <3>3. CASE i.parse = "help"
        BY <1>3, <3>3 DEF ParseFlags, Proceed
      <3> QED BY <2>1, <3>1, <3>2, <3>3
    <2>6. ErrorsEndRuns' /\ ErrorsAreShown'
      BY <2>5 DEF ErrorsEndRuns, ErrorsAreShown, Hooks
    <2>7. SilentSoFar' /\ ReadIsJudged'
      BY <2>4, <2>5 DEF SilentSoFar, ErrorsEndRuns, ReadIsJudged
    <2> QED BY <2>2, <2>3, <2>6, <2>7
  <1>4. CASE PersistentPreRun
    <2>1. ParsedLevel(i.level) \in PanicLevel..Len(Levels) - 1
      BY <1>0, ParsedLevelType
    <2>2. TypeOK'
      BY <1>4, <2>1 DEF PersistentPreRun, Proceed, TypeOK, Errors
    <2>3. LevelIsDated'
      BY <1>4 DEF PersistentPreRun, LevelIsDated, ParsedLevel
    <2>4. fdata' = Nil
      BY <1>4 DEF PersistentPreRun, ReadIsJudged
    <2> QED
      BY <1>4, <2>2, <2>3, <2>4 DEF PersistentPreRun, Proceed, ErrSilent, ErrorsEndRuns, ErrorsAreShown, SilentSoFar, ReadIsJudged, Hooks
  <1>5. CASE PreRun
    <2>1. fdata' = Nil /\ errs' \in {{}, {"someError"}} /\ pc' \in {"requiredFlags", "report"}
          /\ (pc' = "requiredFlags" => errs' = {})
          /\ UNCHANGED <<i, level, required, fdata, shown, status>> /\ pc = "preRun"
      BY <1>5 DEF PreRun, Proceed, ReadIsJudged
    <2>2. LevelIsDated'
      BY <2>1 DEF LevelIsDated, ParsedLevel
    <2> QED
      BY <2>1, <2>2 DEF TypeOK, Errors, ErrSilent, ErrorsEndRuns, ErrorsAreShown, SilentSoFar, ReadIsJudged, Hooks
  <1>6. CASE RequiredFlags
    <2>1. fdata' = Nil /\ errs' \in {{}, {"requiredFlagError"}} /\ pc' \in {"run", "report"}
          /\ (pc' = "run" => errs' = {})
          /\ UNCHANGED <<i, level, required, fdata, shown, status>> /\ pc = "requiredFlags"
      BY <1>6 DEF RequiredFlags, Proceed, ReadIsJudged
    <2>2. LevelIsDated'
      BY <2>1 DEF LevelIsDated, ParsedLevel
    <2> QED
      BY <2>1, <2>2 DEF TypeOK, Errors, ErrSilent, ErrorsEndRuns, ErrorsAreShown, SilentSoFar, ReadIsJudged, Hooks
  <1>7. CASE ReadToValidate
    <2>1. /\ UNCHANGED <<i, level, required, status>> /\ pc = "run" /\ i.sub = "validate" /\ fdata = Nil
          /\ shown' = shown \cup Logged(DebugLevel, "log")
      BY <1>7 DEF ReadToValidate
    <2>2. \/ /\ errs' \in {{"errTooManyArguments"}, {"ErrInvalidFormat"}, {"readError"}}
             /\ pc' = "report" /\ fdata' = Nil
          \/ SrcFormat(i) # Invalid /\ fdata' \in Sources /\ pc' = "run" /\ errs' = errs
      BY <1>7 DEF ReadToValidate, Proceed
    <2>3. LevelIsDated'
      BY <2>1 DEF LevelIsDated, ParsedLevel
    <2>4. i.level = "info" => level = InfoLevel
      BY <1>0, ParsedLevelType DEF LevelIsDated
    <2>5. i.level = "info" => shown' = shown
      BY <2>1, <2>4 DEF Logged, InfoLevel, DebugLevel
    <2>6. TypeOK'
      BY <1>0, <2>1, <2>2 DEF TypeOK, Errors, Logged
    <2>7. ErrorsEndRuns' /\ ErrorsAreShown'
      BY <2>1, <2>2 DEF ErrorsEndRuns, ErrorsAreShown, ErrSilent, Hooks
    <2>8. SilentSoFar'
      BY <2>1, <2>2, <2>5 DEF SilentSoFar, ErrorsEndRuns, Hooks
    <2>9. ReadIsJudged'
      <3>1. SrcFormat(i)' = SrcFormat(i)
        BY <2>1 DEF SrcFormat, SourceExt, Source
      <3> QED BY <2>1, <2>2, <3>1 DEF ReadIsJudged
    <2> QED BY <2>3, <2>6, <2>7, <2>8, <2>9
  <1>8. CASE ValidateRead
    <2>1. /\ UNCHANGED <<i, level, fdata, status>> /\ pc = "run" /\ i.sub = "validate" /\ fdata # Nil
          /\ pc' = "report" /\ errs' = Verdict(fdata)
          /\ required' \in {required, {"aerospike-version"}}
          /\ shown' = IF Loads(fdata, SrcFormat(i)) /\ Validate(fdata.body, VersionToValidate(fdata)).verrs
                      THEN shown \cup {"verrs"} ELSE shown
      BY <1>8 DEF ValidateRead
    <2>2. LevelIsDated'
      BY <2>1 DEF LevelIsDated, ParsedLevel
    <2>3. TypeOK'
      BY <2>1, VerdictType DEF TypeOK
    <2>4. /\ "help requested" \notin errs'
          /\ ErrSilent \in errs' => shown' # {}
          /\ shown' # shown => errs' # {}
      BY <2>1, VerdictType
    <2>5. ErrorsEndRuns' /\ ErrorsAreShown'
      BY <2>1, <2>4 DEF ErrorsEndRuns, ErrorsAreShown, Hooks
    <2>6. SilentSoFar'
      BY <2>1, <2>4 DEF SilentSoFar, ErrorsEndRuns, Hooks
    <2>7. ReadIsJudged'
      <3>1. SrcFormat(i)' = SrcFormat(i)
        BY <2>1 DEF SrcFormat, SourceExt, Source
      <3>2. Verdict(fdata)' = Verdict(fdata)
        BY <2>1, <3>1 DEF Verdict, VersionToValidate
      <3> QED BY <2>1, <3>1, <3>2 DEF ReadIsJudged
    <2> QED BY <2>2, <2>3, <2>5, <2>6, <2>7
  <1>9. CASE RunOther
    <2>1. /\ UNCHANGED <<i, level, required, fdata, status>> /\ pc = "run" /\ i.sub = "other"
          /\ pc' = "report" /\ fdata = Nil
          /\ \/ errs' \in {{}, {"someError"}} /\ shown' = shown
             \/ errs' = {"someError", ErrSilent} /\ shown' = shown \cup {"diffs"}
      BY <1>9 DEF RunOther, ReadIsJudged
    <2>2. LevelIsDated'
      BY <2>1 DEF LevelIsDated, ParsedLevel
    <2> QED
      BY <2>1, <2>2 DEF TypeOK, Errors, ErrSilent, ErrorsEndRuns, ErrorsAreShown, SilentSoFar, ReadIsJudged, Hooks
  <1>10. CASE Report
    <2>1. /\ UNCHANGED <<i, level, required, fdata, errs>> /\ pc = "report" /\ pc' = "exited"
          /\ status' \in {0, 1} /\ shown' \subseteq shown \cup {"log"} /\ shown \subseteq shown'
      BY <1>10 DEF Report, Logged
    <2>2. errs = {} => shown' = shown /\ status' = 0
      BY <1>10 DEF Report
    <2>3. errs # {} /\ "help requested" \notin errs => status' = 1
      BY <1>10 DEF Report
    <2>4. "help requested" \in errs => status' = 0
      BY <1>10 DEF Report
    <2>5. errs # {} /\ ErrSilent \notin errs /\ ~(level < ErrorLevel) => "log" \in shown'
      <3>1. level \in Nat
        BY LevelsAssumption DEF TypeOK, PanicLevel
      <3>2. ~(level < ErrorLevel) => Logged(ErrorLevel, "log") = {"log"}
        BY <3>1 DEF Logged, ErrorLevel
      <3>3. errs # {} /\ ErrSilent \notin errs => shown' = shown \cup Logged(ErrorLevel, "log")
        BY <1>10 DEF Report
      <3> QED BY <3>2, <3>3
    <2>6. LevelIsDated'
      BY <2>1 DEF LevelIsDated, ParsedLevel
    <2>7. TypeOK'
      BY <2>1 DEF TypeOK
    <2>8. "help requested" \in errs => i.parse = "help"
      BY DEF ErrorsEndRuns
    <2>9. ErrorsEndRuns'
      BY <2>1, <2>8 DEF ErrorsEndRuns, Hooks
    <2>10. ErrorsAreShown'
      BY <2>1, <2>2, <2>5 DEF ErrorsAreShown
    <2>11. SilentSoFar'
      BY <2>1, <2>2, <2>3, <2>8 DEF SilentSoFar
    <2>12. ReadIsJudged'
      <3>1. SrcFormat(i)' = SrcFormat(i)
        BY <2>1 DEF SrcFormat, SourceExt, Source
      <3>2. Verdict(fdata)' = Verdict(fdata)
        BY <2>1, <3>1 DEF Verdict, VersionToValidate
      <3>3. fdata # Nil => i.sub = "validate" /\ SrcFormat(i) # Invalid /\ errs = Verdict(fdata)
        BY <2>1 DEF ReadIsJudged
      <3>4. fdata # Nil => (status' = 0 <=> errs = {})
        <4>1. fdata # Nil => "help requested" \notin errs
          BY <3>3, VerdictType
        <4>2. status' = 1 => status' # 0
          OBVIOUS
        <4> QED BY <2>2, <2>3, <4>1, <4>2
      <3>5. /\ fdata' # Nil => i'.sub = "validate" /\ SrcFormat(i)' # Invalid /\ errs' = Verdict(fdata)'
            /\ fdata' # Nil => (status' = 0 <=> errs' = {})
        BY <2>1, <3>1, <3>2, <3>3, <3>4
      <3> QED BY <2>1, <3>5 DEF ReadIsJudged
    <2> QED BY <2>6, <2>7, <2>9, <2>10, <2>11, <2>12
  <1>11. CASE UNCHANGED vars
    <2>1. SrcFormat(i)' = SrcFormat(i)
      BY <1>11 DEF SrcFormat, SourceExt, Source, vars
    <2>2. Verdict(fdata)' = Verdict(fdata)
      BY <1>11, <2>1 DEF Verdict, VersionToValidate, vars
    <2> QED
      <3>1. TypeOK' /\ LevelIsDated' /\ ErrorsEndRuns'
        BY <1>11 DEF vars, TypeOK, LevelIsDated, ErrorsEndRuns, ParsedLevel
      <3>2. ErrorsAreShown' /\ SilentSoFar'
        BY <1>11 DEF vars, ErrorsAreShown, SilentSoFar
      <3>3. ReadIsJudged'
        BY <1>11, <2>1, <2>2 DEF vars, ReadIsJudged
      <3> QED
        BY <3>1, <3>2, <3>3
  <1> QED
    BY <1>1, <1>2, <1>3, <1>4, <1>5, <1>6, <1>7, <1>8, <1>9, <1>10, <1>11 DEF Next

\* The inductive invariant.
LEMMA Invariance == Spec => []Inv
  BY InvInit, InvNext, PTL DEF Spec

-----------------------------------------------------------------------------
\* TypeOK: every state of an invocation is one of those the code describes.
THEOREM TypeCorrect == Spec => []TypeOK
  BY Invariance, PTL DEF Inv

\* FailureIsExplained: an invocation that fails has shown something, if it must at
\* the level its user chose (Execute, ErrSilent).
THEOREM FailuresAreExplained == Spec => []FailureIsExplained
  <1>1. Inv => FailureIsExplained
    <2> SUFFICES ASSUME Inv, pc = "exited", status = 1, shown = {}
                 PROVE  ErrSilent \notin errs /\ i.level \in {"panic", "fatal", BadLevel}
      BY DEF FailureIsExplained
    <2>1. ErrSilent \notin errs /\ level < ErrorLevel
      BY DEF Inv, ErrorsAreShown
    <2>2. level = ParsedLevel(i.level)
      BY <2>1 DEF Inv, LevelIsDated, InfoLevel, ErrorLevel
    <2>3. i.level \in {Levels[n] : n \in DOMAIN Levels} \cup {BadLevel}
      BY CommandAssumption DEF Inv, TypeOK, CommandLine
    <2> QED BY <2>1, <2>2, <2>3, ParsedLevelType
  <1> QED BY <1>1, Invariance, PTL

\* VerdictsAgree: validate accepts exactly what convert would go on to convert
\* (runValidateCommand against the hooks of convert).
THEOREM ValidateAgreesWithConvert == Spec => []VerdictsAgree
  <1>1. Inv => VerdictsAgree
    <2> SUFFICES ASSUME Inv, pc = "exited", fdata # Nil
                 PROVE  (status = 0) = (PreRunError(i, fdata) = Nil /\ ConversionError(i, fdata) = Nil)
      BY DEF VerdictsAgree
    <2>1. i \in CommandLine /\ fdata \in Doc /\ SrcFormat(i) # Invalid
      BY CommandAssumption DEF Inv, TypeOK, ReadIsJudged
    <2>2. status = 0 <=> Verdict(fdata) = {}
      BY DEF Inv, ReadIsJudged
    <2> QED BY <2>1, <2>2, VerdictIsConversion
  <1> QED BY <1>1, Invariance, PTL

\* SilenceIsSuccess: nothing is output exactly for a file that was read and accepted
\* (runValidateCommand, at the default level).
THEOREM SilenceMeansSuccess == Spec => []SilenceIsSuccess
  <1>1. Inv => SilenceIsSuccess
    <2> SUFFICES ASSUME Inv, pc = "exited", i.sub = "validate", i.level = "info", i.config = "none"
                 PROVE  (shown = {}) = (status = 0 /\ i.parse = "ok")
      BY DEF SilenceIsSuccess
    <2>1. level = InfoLevel
      <3>1. i.level \in {Levels[n] : n \in DOMAIN Levels} \cup {BadLevel}
        BY CommandAssumption DEF Inv, TypeOK, CommandLine
      <3> QED BY <3>1, ParsedLevelType DEF Inv, LevelIsDated
    <2>2. shown = {} => errs = {} /\ status # 1 /\ i.parse = "ok"
      BY <2>1 DEF Inv, ErrorsAreShown, InfoLevel, ErrorLevel
    <2>3. status = 0 /\ i.parse = "ok" => shown = {}
      BY DEF Inv, SilentSoFar
    <2> QED BY <2>2, <2>3 DEF Inv, TypeOK
  <1> QED BY <1>1, Invariance, PTL
=============================================================================
