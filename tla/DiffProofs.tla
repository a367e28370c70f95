----------------------------- MODULE DiffProofs -----------------------------
(***************************************************************************)
(* Theorems about Diff, for any files, configurations and number of edits: *)
(* type correctness, and that the report of a run is about configurations  *)
(* that were there while it ran.                                           *)
(*                                                                         *)
(* The invariant dates what a run has read: the files are as they were at  *)
(* one moment each, and what came from the node is, key by key, as the     *)
(* node was at some moment -- another one for each key.                    *)
(***************************************************************************)
EXTENDS Diff, TLAPS

-----------------------------------------------------------------------------
(* A difference is a line of its key, and depends on the values at it only. *)

\* A flattened configuration has keys and values.
LEMMA MapsHaveValues ==
    ASSUME NEW m \in FlatMap, NEW k \in DOMAIN m
    PROVE  k \in Key /\ m[k] \in Value
  BY DEF FlatMap

\* A difference is reported by a line of its key.
LEMMA LineAtIsLine ==
    ASSUME NEW a \in FlatMap, NEW b \in FlatMap, NEW k \in DOMAIN a \cup DOMAIN b
    PROVE  LineAt(a, b, k) \in Line /\ LineAt(a, b, k).key = k
  BY MapsHaveValues DEF LineAt, OnlySecond, OnlyFirst, Changed, Line

\* Two maps that agree at key k.
AgreeAt(a, b, k) == /\ k \in DOMAIN a <=> k \in DOMAIN b
                    /\ k \in DOMAIN a => a[k] = b[k]

\* The difference at k of a map to two others that agree at k is the same.
LEMMA DifferenceAtKey ==
    ASSUME NEW a, NEW b, NEW c, NEW k, AgreeAt(b, c, k)
    PROVE  /\ k \in DOMAIN a \cup DOMAIN b <=> k \in DOMAIN a \cup DOMAIN c
           /\ DifferAt(a, b, k) <=> DifferAt(a, c, k)
           /\ LineAt(a, b, k) = LineAt(a, c, k)
  BY DEF AgreeAt, DifferAt, LineAt

\* A line that is among the differences of two maps is the one of its key.
LEMMA DifferenceOfKey ==
    ASSUME NEW a \in FlatMap, NEW b \in FlatMap, NEW line
    PROVE  line \in Differences(a, b) <=>
             \E k \in DOMAIN a \cup DOMAIN b :
                 DifferAt(a, b, k) /\ line = LineAt(a, b, k) /\ line.key = k
  BY LineAtIsLine DEF Differences

\* Differences are lines.
LEMMA DifferencesAreLines ==
    ASSUME NEW a \in FlatMap, NEW b \in FlatMap
    PROVE  Differences(a, b) \subseteq Line
  BY LineAtIsLine DEF Differences

-----------------------------------------------------------------------------
(* The invariant.                                                           *)

\* The run has compared, or can still come to.
Active ==
    pc \in {"readFirst", "readSecond", "load", "connect", "fetch", "compare"} \/ Compared

\* Both sides are complete.
Ready == pc = "compare" \/ Compared

\* What the check of the arguments leaves through.
ArgsAccepted ==
    /\ Len(inv.args) \in {1, 2}
    /\ FileFormat(1) \in Format
    /\ inv.mode = "files" => Len(inv.args) = 2 /\ FileFormat(2) = FileFormat(1)

\* What is known of a run from the label it is at.
Progress ==
    /\ pc # "ended" => err = Nil
    /\ Active => ArgsAccepted
    /\ pc = "readSecond" => inv.mode = "files"
    /\ pc \in {"connect", "fetch"} => inv.mode = "server"
    /\ Active /\ pc # "readFirst" => first \in Doc
    /\ (pc = "load" \/ Ready) /\ inv.mode = "files" => second \in Doc
    /\ Ready /\ inv.mode = "files" => second.map # Unparsable
    /\ pc \in {"connect", "fetch"} \/ Ready => Loads(first, FileFormat(1))
    /\ pc = "fetch" \/ Ready => second # Nil /\ second.map \in FlatMap /\ second.fmt = FileFormat(1)
    /\ pc \notin {"fetch", "compare", "ended"} => fetched = {}
    /\ pc = "fetch" => DOMAIN second.map \subseteq fetched
    /\ Ready /\ inv.mode = "server" => fetched = Key

\* Everything that has been read was there at some moment of the run.
Dated ==
    /\ [fs |-> fs, node |-> node] \in past
    /\ first # Nil => \E m \in past : Given(m) = first
    /\ inv.mode = "files" /\ second # Nil => \E m \in past : Other(m) = second
    /\ inv.mode = "server" =>
         \A k \in fetched : \E m \in past : AgreeAt(second.map, m.node, k)

\* The report is the differences of what has been read.
Reported ==
    Compared => /\ report = Differences(first.map, second.map)
                /\ err = Nil <=> report = {}

Inv == TypeOK /\ Progress /\ Dated /\ Reported

-----------------------------------------------------------------------------
(* What the steps compute.                                                  *)

\* A map with values for some keys is a flattened configuration.
LEMMA MapType ==
    ASSUME NEW S \in SUBSET Key, NEW f \in [S -> Value]
    PROVE  f \in FlatMap
  BY DEF FlatMap

\* A complete configuration.
LEMMA DocType ==
    ASSUME NEW doc \in Doc, doc.map # Unparsable
    PROVE  doc.map \in FlatMap
  BY DiffAssumption DEF Doc

\* The names on a command line whose arguments are accepted.
LEMMA ArgsType ==
    ASSUME inv \in Invocation, ArgsAccepted
    PROVE  /\ inv.args[1] \in Files
           /\ inv.mode = "files" => inv.args[2] \in Files
  <1>1. inv.args \in Seq(Files)
    BY DEF Invocation
  <1> QED
    BY <1>1 DEF ArgsAccepted

\* The check of the arguments lets none but these through.
LEMMA ArgsChecked ==
    ASSUME inv \in Invocation
    PROVE  LET e == IF inv.mode = "files" THEN FileArgsError ELSE ServerArgsError
           IN e \in Errors \cup {Nil} /\ (e = Nil => ArgsAccepted)
  <1>1. Len(inv.args) \in Nat /\ inv.mode \in {"files", "server"}
    BY DEF Invocation
  <1>2. \A n \in {1, 2} : FileFormat(n) \in Format \cup {Invalid}
    BY DEF FileFormat, getConfFileFormat, ParseFmtString, Format
  <1>3. CASE inv.mode = "files"
    <2>1. FileArgsError \in Errors \cup {Nil}
      BY DEF FileArgsError, Errors
    <2>2. CASE Len(inv.args) # 2
      <3>1. FileArgsError \in {"errDiffTooFewArgs", "errDiffTooManyArgs"}
        <4>1. Len(inv.args) < 2 \/ (~(Len(inv.args) < 2) /\ Len(inv.args) > 2)
          <5>1. \A n \in Nat : n # 2 => n < 2 \/ (~(n < 2) /\ n > 2)
            OBVIOUS
          <5> QED BY <1>1, <2>2, <5>1
        <4>2. Len(inv.args) < 2 => FileArgsError = "errDiffTooFewArgs"
          BY DEF FileArgsError, diffArgMin
        <4>3. ~(Len(inv.args) < 2) /\ Len(inv.args) > 2 => FileArgsError = "errDiffTooManyArgs"
          BY DEF FileArgsError, diffArgMin, diffArgMax
        <4> QED BY <4>1, <4>2, <4>3
      <3> QED BY <1>3, <2>1, <3>1, NilAssumption DEF Errors
    <2>3. CASE Len(inv.args) = 2 /\ (FileFormat(1) = Invalid \/ FileFormat(2) # FileFormat(1))
      <3>1. FileArgsError \in {"ErrInvalidFormat", "errMismatchedFileFormats"}
        BY <2>3 DEF FileArgsError, diffArgMin, diffArgMax
      <3> QED BY <1>3, <2>1, <3>1, NilAssumption DEF Errors
    <2>4. CASE Len(inv.args) = 2 /\ FileFormat(1) # Invalid /\ FileFormat(2) = FileFormat(1)
      BY <1>2, <1>3, <2>1, <2>4 DEF ArgsAccepted
    <2> QED BY <2>2, <2>3, <2>4
  <1>4. CASE inv.mode = "server"
    <2>1. ServerArgsError \in Errors \cup {Nil}
      BY DEF ServerArgsError, Errors
    <2>2. CASE Len(inv.args) # 1 \/ FileFormat(1) = Invalid
      <3>1. ServerArgsError \in {"errDiffServerTooFewArgs", "errDiffServerTooManyArgs", "ErrInvalidFormat"}
        <4>1. \/ Len(inv.args) < 1
              \/ ~(Len(inv.args) < 1) /\ Len(inv.args) > 1
              \/ ~(Len(inv.args) < 1) /\ ~(Len(inv.args) > 1) /\ FileFormat(1) = Invalid
          <5>1. \A n \in Nat : n # 1 => n < 1 \/ (~(n < 1) /\ n > 1)
            OBVIOUS
          <5>2. 1 \in Nat /\ ~(1 < 1) /\ ~(1 > 1)
            OBVIOUS
          <5> QED BY <1>1, <2>2, <5>1, <5>2
        <4>2. Len(inv.args) < 1 => ServerArgsError = "errDiffServerTooFewArgs"
          BY DEF ServerArgsError, diffServerArgMin
        <4>3. ~(Len(inv.args) < 1) /\ Len(inv.args) > 1 => ServerArgsError = "errDiffServerTooManyArgs"
          BY DEF ServerArgsError, diffServerArgMin, diffServerArgMax
        <4>4. ~(Len(inv.args) < 1) /\ ~(Len(inv.args) > 1) /\ FileFormat(1) = Invalid =>
                ServerArgsError = "ErrInvalidFormat"
          BY DEF ServerArgsError, diffServerArgMin, diffServerArgMax
        <4> QED BY <4>1, <4>2, <4>3, <4>4
      <3> QED BY <1>4, <2>1, <3>1, NilAssumption DEF Errors
    <2>3. CASE Len(inv.args) = 1 /\ FileFormat(1) # Invalid
      BY <1>2, <1>4, <2>1, <2>3 DEF ArgsAccepted
    <2> QED BY <2>2, <2>3
  <1> QED BY <1>1, <1>3, <1>4

-----------------------------------------------------------------------------
(* The invariant is kept.                                                   *)

\* At the start nothing has been read, and the first moment is recorded.
LEMMA InvInit == Init => Inv
  <1> SUFFICES ASSUME Init PROVE Inv OBVIOUS
  <1>1. TypeOK
    BY DiffAssumption DEF Init, TypeOK, Moment
  <1>2. Progress
    BY DEF Init, Progress, Active, Ready, Compared
  <1>3. Dated
    BY DEF Init, Dated
  <1>4. Reported
    BY DEF Init, Reported, Compared
  <1> QED BY <1>1, <1>2, <1>3, <1>4 DEF Inv

\* No step changes the command line.
LEMMA SameCommandLine ==
    ASSUME inv' = inv
    PROVE  /\ ArgsAccepted' = ArgsAccepted
           /\ FileFormat(1)' = FileFormat(1) /\ FileFormat(2)' = FileFormat(2)
           /\ \A m : Given(m)' = Given(m) /\ Other(m)' = Other(m)
  BY DEF ArgsAccepted, FileFormat, Given, Other

\* What was dated stays so, however many moments are added.
LEMMA DatesStay ==
    ASSUME Dated, inv' = inv, past \subseteq past', [fs |-> fs', node |-> node'] \in past',
           first' = first, second' = second, fetched' = fetched
    PROVE  Dated'
  BY SameCommandLine DEF Dated

\* A run that fails has nothing more to keep.
LEMMA FailureKeeps ==
    ASSUME Inv, NEW e \in Errors \ {"errDiffConfigsDiffer"}, Fail(e),
           UNCHANGED <<inv, fs, node, first, second, fetched, report, edits, past>>
    PROVE  Inv'
  <1>1. pc' = "ended" /\ err' = e /\ e # Nil
    BY NilAssumption DEF Fail
  <1>2. ~Compared' /\ ~Active' /\ ~Ready'
    BY <1>1 DEF Compared, Active, Ready
  <1>3. TypeOK'
    BY <1>1 DEF Inv, TypeOK
  <1>4. Progress'
    BY <1>1, <1>2 DEF Progress
  <1>5. Dated'
    BY DatesStay DEF Inv, Dated
  <1>6. Reported'
    BY <1>2 DEF Reported
  <1> QED BY <1>3, <1>4, <1>5, <1>6 DEF Inv

\* Each step keeps the invariant.
LEMMA InvNext == Inv /\ [Next]_vars => Inv'
  <1> SUFFICES ASSUME Inv, [Next]_vars PROVE Inv'
    OBVIOUS
  <1>0. inv \in Invocation /\ Absent \notin Doc /\ Nil \notin Doc
    BY DiffAssumption DEF Inv, TypeOK
  <1>1. CASE CheckArgs
    <2> DEFINE e == IF inv.mode = "files" THEN FileArgsError ELSE ServerArgsError
    <2>1. e \in Errors \cup {Nil} /\ (e = Nil => ArgsAccepted)
      BY <1>0, ArgsChecked
    <2>2. e # "errDiffConfigsDiffer"
      BY NilAssumption DEF FileArgsError, ServerArgsError, Errors
    <2>3. /\ pc = "start" /\ IF e # Nil THEN Fail(e) ELSE Goto("readFirst")
          /\ UNCHANGED <<inv, fs, node, first, second, fetched, report, edits, past>>
      BY <1>1 DEF CheckArgs
    <2> HIDE DEF e
    <2>4. CASE e # Nil
      BY <2>1, <2>2, <2>3, <2>4, FailureKeeps
    <2>5. CASE e = Nil
      <3>1. pc' = "readFirst" /\ err' = err
        BY <2>3, <2>5 DEF Goto
      <3>2. TypeOK'
        BY <2>3, <3>1 DEF Inv, TypeOK
      <3>3. Progress'
        BY <2>1, <2>3, <2>5, <3>1, SameCommandLine DEF Inv, Progress, Active, Ready, Compared
      <3>4. Dated'
        BY <2>3, DatesStay DEF Inv, Dated
      <3> QED BY <3>1, <3>2, <3>3, <3>4 DEF Inv, Reported, Compared
    <2> QED BY <2>4, <2>5
  <1>2. CASE ReadFirst
    <2>1. /\ pc = "readFirst" /\ UNCHANGED <<inv, fs, node, second, fetched, report, edits, past>>
          /\ ArgsAccepted
      BY <1>2 DEF ReadFirst, Inv, Progress, Active
    <2>2. CASE fs[inv.args[1]] = Absent
      BY <1>2, <2>1, <2>2, FailureKeeps DEF ReadFirst, Errors
    <2>3. CASE fs[inv.args[1]] # Absent
      <3>1. /\ first' = fs[inv.args[1]] /\ err' = err
            /\ pc' = IF inv.mode = "files" THEN "readSecond" ELSE "load"
        BY <1>2, <2>3 DEF ReadFirst, Goto
      <3>2. first' \in Doc
        BY <1>0, <2>1, <2>3, <3>1, ArgsType DEF Inv, TypeOK
      <3>3. TypeOK'
        BY <2>1, <3>1, <3>2 DEF Inv, TypeOK
      <3>4. Progress'
        BY <2>1, <3>1, <3>2, SameCommandLine DEF Inv, Progress, Active, Ready, Compared
      <3>5. Given([fs |-> fs, node |-> node])' = first'
        BY <2>1, <3>1 DEF Given
      <3>6. Dated'
        BY <2>1, <3>5, SameCommandLine DEF Inv, Dated
      <3> QED BY <2>1, <3>1, <3>3, <3>4, <3>6 DEF Inv, Reported, Compared
    <2> QED BY <2>2, <2>3
  <1>3. CASE ReadSecond
    <2>1. /\ pc = "readSecond" /\ UNCHANGED <<inv, fs, node, first, fetched, report, edits, past>>
          /\ ArgsAccepted /\ inv.mode = "files" /\ first \in Doc
      BY <1>3 DEF ReadSecond, Inv, Progress, Active
    <2>2. CASE fs[inv.args[2]] = Absent
      BY <1>3, <2>1, <2>2, FailureKeeps DEF ReadSecond, Errors
    <2>3. CASE fs[inv.args[2]] # Absent
      <3>1. second' = fs[inv.args[2]] /\ err' = err /\ pc' = "load"
        BY <1>3, <2>3 DEF ReadSecond, Goto
      <3>2. second' \in Doc
        BY <1>0, <2>1, <2>3, <3>1, ArgsType DEF Inv, TypeOK
      <3>3. second' \in [fmt : Format, map : FlatMap \cup {Unparsable}]
        BY <3>2, DiffAssumption DEF Doc
      <3>4. TypeOK'
        BY <2>1, <3>1, <3>3 DEF Inv, TypeOK
      <3>5. Progress'
        BY <2>1, <3>1, <3>2, SameCommandLine DEF Inv, Progress, Active, Ready, Compared
      <3>6. Other([fs |-> fs, node |-> node])' = second'
        BY <2>1, <3>1 DEF Other
      <3>7. Dated'
        BY <2>1, <3>6, SameCommandLine DEF Inv, Dated
      <3> QED BY <2>1, <3>1, <3>4, <3>5, <3>7 DEF Inv, Reported, Compared
    <2> QED BY <2>2, <2>3
  <1>4. CASE Load
    <2>1. /\ pc = "load" /\ UNCHANGED <<inv, fs, node, first, second, fetched, report, edits, past>>
          /\ ArgsAccepted /\ first \in Doc /\ (inv.mode = "files" => second \in Doc)
      BY <1>4 DEF Load, Inv, Progress, Active
    <2> DEFINE Loaded == /\ Loads(first, FileFormat(1))
                         /\ inv.mode = "files" => Loads(second, FileFormat(2))
    <2>2. CASE ~Loaded
      <3>1. Fail("loadError")
        BY <1>4, <2>2 DEF Load
      <3> QED BY <2>1, <3>1, FailureKeeps DEF Errors
    <2>3. CASE Loaded
      <3>1. err' = err /\ pc' = IF inv.mode = "files" THEN "compare" ELSE "connect"
        BY <1>4, <2>3 DEF Load, Goto
      <3>2. inv.mode = "files" => second # Nil /\ second.map \in FlatMap /\ second.fmt = FileFormat(1)
        BY <1>0, <2>1, <2>3, DocType DEF Loads, ArgsAccepted
      <3>3. TypeOK'
        BY <2>1, <3>1 DEF Inv, TypeOK
      <3>4. inv.mode \in {"files", "server"}
        BY <1>0 DEF Invocation
      <3>5. /\ Loads(first, FileFormat(1))' /\ ArgsAccepted'
            /\ inv.mode = "files" => second' # Nil /\ second'.map \in FlatMap /\ second'.fmt = FileFormat(1)'
            /\ inv.mode = "files" => second' \in Doc /\ second'.map # Unparsable
        BY <2>1, <2>3, <3>2, SameCommandLine DEF Loads
      <3>6. Progress'
        BY <2>1, <3>1, <3>4, <3>5 DEF Inv, Progress, Active, Ready, Compared
      <3>7. Dated'
        BY <2>1, DatesStay DEF Inv, Dated
      <3> QED BY <2>1, <3>1, <3>3, <3>6, <3>7 DEF Inv, Reported, Compared
    <2> QED BY <2>2, <2>3
  <1>5. CASE Connect
    <2>1. /\ pc = "connect" /\ UNCHANGED <<inv, fs, node, first, fetched, report, edits, past>>
          /\ ArgsAccepted /\ inv.mode = "server" /\ first \in Doc /\ Loads(first, FileFormat(1))
      BY <1>5 DEF Connect, Inv, Progress, Active
    <2>2. CASE Fail("errUnableToCreateClientPolicy") /\ UNCHANGED second
      BY <2>1, <2>2, FailureKeeps DEF Errors
    <2>3. CASE /\ second' = [fmt |-> FileFormat(1), map |-> [k \in {} |-> Missing]]
               /\ Goto("fetch")
      <3> DEFINE empty == [k \in {} |-> Missing]
      <3>1. empty \in FlatMap /\ DOMAIN empty = {}
        <4>1. empty \in [{} -> Value] /\ {} \in SUBSET Key
          OBVIOUS
        <4> QED BY <4>1, MapType
      <3> HIDE DEF empty
      <3>2. /\ second' = [fmt |-> FileFormat(1), map |-> empty]
            /\ pc' = "fetch" /\ err' = err
        BY <2>3 DEF Goto, empty
      <3>3. /\ second' \in [fmt : Format, map : FlatMap \cup {Unparsable}]
            /\ second'.map = empty /\ second'.fmt = FileFormat(1)
        BY <2>1, <3>1, <3>2 DEF ArgsAccepted
      <3>4. fetched' = {} /\ Loads(first, FileFormat(1))' /\ ArgsAccepted' /\ FileFormat(1)' = FileFormat(1)
        BY <2>1, SameCommandLine DEF Inv, Progress, Loads
      <3>5. TypeOK'
        BY <2>1, <3>2, <3>3 DEF Inv, TypeOK
      <3>6. second' # Nil /\ DOMAIN second'.map = {}
        BY <3>1, <3>3, DiffAssumption, NilAssumption
      <3>7. Progress'
        BY <2>1, <3>1, <3>2, <3>3, <3>4, <3>6 DEF Inv, Progress, Active, Ready, Compared
      <3>8. Dated'
        BY <2>1, <3>4, SameCommandLine DEF Inv, Dated
      <3> QED BY <2>1, <3>2, <3>5, <3>7, <3>8 DEF Inv, Reported, Compared
    <2> QED BY <1>5, <2>2, <2>3 DEF Connect
  <1>6. CASE Fetch
    <2>1. /\ pc = "fetch" /\ UNCHANGED <<inv, fs, node, pc, first, report, err, edits, past>>
          /\ ArgsAccepted /\ inv.mode = "server" /\ first \in Doc /\ Loads(first, FileFormat(1))
          /\ second # Nil /\ second.map \in FlatMap /\ second.fmt = FileFormat(1)
          /\ second \in [fmt : Format, map : FlatMap \cup {Unparsable}]
          /\ DOMAIN second.map \subseteq fetched /\ fetched \subseteq Key
      BY <1>6 DEF Fetch, Inv, TypeOK, Progress, Active
    <2>2. node \in FlatMap
      BY DiffAssumption DEF Inv, TypeOK
    <2>3. PICK k \in Key \ fetched :
            /\ fetched' = fetched \cup {k}
            /\ second' = IF k \in DOMAIN node
                         THEN [second EXCEPT !.map =
                                 [l \in DOMAIN @ \cup {k} |-> IF l = k THEN node[k] ELSE @[l]]]
                         ELSE second
      BY <1>6 DEF Fetch
    <2> DEFINE longer == [l \in DOMAIN second.map \cup {k} |-> IF l = k THEN node[k] ELSE second.map[l]]
    <2>4. k \in DOMAIN node => longer \in FlatMap
      <3> SUFFICES ASSUME k \in DOMAIN node PROVE longer \in FlatMap
        OBVIOUS
      <3>1. longer \in [DOMAIN second.map \cup {k} -> Value]
        BY <2>1, <2>2, MapsHaveValues
      <3>2. DOMAIN second.map \cup {k} \in SUBSET Key
        BY <2>1
      <3> QED BY <3>1, <3>2, MapType
    <2>5. /\ second'.fmt = FileFormat(1)
          /\ second'.map = IF k \in DOMAIN node THEN longer ELSE second.map
          /\ second' \in [fmt : Format, map : FlatMap \cup {Unparsable}]
          /\ second'.map \in FlatMap
      <3>1. CASE k \in DOMAIN node
        <4>1. second' = [second EXCEPT !.map = longer]
          BY <2>3, <3>1
        <4> HIDE DEF longer
        <4> QED BY <2>1, <2>4, <3>1, <4>1
      <3>2. CASE k \notin DOMAIN node
        BY <2>1, <2>3, <3>2
      <3> QED BY <3>1, <3>2
    <2>6. /\ AgreeAt(second'.map, node, k)
          /\ \A l \in fetched : AgreeAt(second'.map, second.map, l)
          /\ DOMAIN second'.map \subseteq fetched'
      BY <2>1, <2>3, <2>5 DEF AgreeAt
    <2> HIDE DEF longer
    <2>7. second' # Nil
      BY <2>5, NilAssumption
    <2>8. TypeOK'
      BY <2>1, <2>3, <2>5 DEF Inv, TypeOK
    <2>9. Loads(first, FileFormat(1))' /\ ArgsAccepted' /\ FileFormat(1)' = FileFormat(1)
      BY <2>1, SameCommandLine DEF Loads
    <2>10. Progress'
      BY <2>1, <2>5, <2>6, <2>7, <2>9 DEF Inv, Progress, Active, Ready, Compared
    <2>11. Dated'
      <3>1. \A l \in fetched' : \E m \in past' : AgreeAt(second'.map, m.node, l)
        <4> SUFFICES ASSUME NEW l \in fetched' PROVE \E m \in past : AgreeAt(second'.map, m.node, l)
          BY <2>1
        <4>1. CASE l = k
          BY <2>6, <4>1 DEF Inv, Dated
        <4>2. CASE l # k
          <5>1. PICK m \in past : AgreeAt(second.map, m.node, l)
            BY <2>1, <2>3, <4>2 DEF Inv, Dated
          <5> QED BY <2>3, <2>6, <4>2, <5>1 DEF AgreeAt
        <4> QED BY <4>1, <4>2
      <3> QED BY <2>1, <3>1, SameCommandLine DEF Inv, Dated
    <2> QED BY <2>1, <2>8, <2>10, <2>11 DEF Inv, Reported, Compared
  <1>7. CASE FetchEnds
    <2>1. /\ pc = "fetch" /\ UNCHANGED <<inv, fs, node, first, second, fetched, report, edits, past>>
          /\ ArgsAccepted /\ inv.mode = "server" /\ first \in Doc /\ Loads(first, FileFormat(1))
          /\ second # Nil /\ second.map \in FlatMap /\ second.fmt = FileFormat(1)
      BY <1>7 DEF FetchEnds, Inv, Progress, Active
    <2>2. CASE fetched = Key /\ Goto("compare")
      <3>1. pc' = "compare" /\ err' = err
        BY <2>2 DEF Goto
      <3>2. TypeOK'
        BY <2>1, <3>1 DEF Inv, TypeOK
      <3>3. Loads(first, FileFormat(1))' /\ ArgsAccepted' /\ FileFormat(1)' = FileFormat(1)
        BY <2>1, SameCommandLine DEF Loads
      <3>4. Progress'
        BY <2>1, <2>2, <3>1, <3>3 DEF Inv, Progress, Active, Ready, Compared
      <3>5. Dated'
        BY <2>1, DatesStay DEF Inv, Dated
      <3> QED BY <3>1, <3>2, <3>4, <3>5 DEF Inv, Reported, Compared
    <2>3. ASSUME NEW e \in {"errUnableToGenerateConfigFromServer", "errUnableToParseGeneratedServerConf",
                            "errUnableToMarshalServerConfig", "errUnableToParseServerConfigBytes"},
                 Fail(e)
          PROVE  Inv'
      BY <2>1, <2>3, FailureKeeps DEF Errors
    <2> QED BY <1>7, <2>2, <2>3 DEF FetchEnds
  <1>8. CASE Compare
    <2>1. /\ pc = "compare" /\ UNCHANGED <<inv, fs, node, first, second, fetched, edits, past>>
          /\ ArgsAccepted /\ first \in Doc /\ Loads(first, FileFormat(1))
          /\ second # Nil /\ second.map \in FlatMap /\ second.fmt = FileFormat(1) /\ err = Nil
          /\ report' = Differences(first.map, second.map)
      BY <1>8 DEF Compare, Inv, Progress, Active, Ready
    <2>2. /\ pc' = "ended" /\ err' \in {Nil, "errDiffConfigsDiffer"}
          /\ err' = Nil <=> report' = {}
      <3>1. "errDiffConfigsDiffer" # Nil
        BY NilAssumption DEF Errors
      <3> QED BY <1>8, <2>1, <3>1 DEF Compare, Fail, Goto
    <2>3. report' \subseteq Line
      BY <2>1, DocType, DifferencesAreLines DEF Loads
    <2>4. TypeOK'
      BY <2>1, <2>2, <2>3 DEF Inv, TypeOK, Errors
    <2>5. Loads(first, FileFormat(1))' /\ ArgsAccepted' /\ FileFormat(1)' = FileFormat(1)
      BY <2>1, SameCommandLine DEF Loads
    <2>6. Progress'
      BY <2>1, <2>2, <2>5 DEF Inv, Progress, Active, Ready, Compared
    <2>7. Dated'
      BY <2>1, DatesStay DEF Inv, Dated
    <2> QED BY <2>1, <2>2, <2>4, <2>6, <2>7 DEF Inv, Reported
  <1>9. CASE Edit
    <2>1. /\ pc # "ended" /\ UNCHANGED <<inv, pc, first, second, fetched, report, err>>
          /\ past' = past \cup {[fs |-> fs', node |-> node']}
          /\ edits < MaxEdits /\ edits' = edits + 1
      BY <1>9 DEF Edit
    <2>2. fs' \in [Files -> Doc \cup {Absent}] /\ node' \in Maps
      BY <1>9 DEF Edit, Inv, TypeOK
    <2>3. TypeOK'
      BY <2>1, <2>2, DiffAssumption DEF Inv, TypeOK, Moment
    <2>4. Loads(first, FileFormat(1))' = Loads(first, FileFormat(1))
      BY <2>1, SameCommandLine DEF Loads
    <2>5. Progress'
      BY <2>1, <2>4, SameCommandLine DEF Inv, Progress, Active, Ready, Compared
    <2>6. Dated'
      BY <2>1, DatesStay DEF Inv
    <2> QED BY <2>1, <2>3, <2>5, <2>6 DEF Inv, Reported, Compared
  <1>10. CASE UNCHANGED vars
    <2>1. Loads(first, FileFormat(1))' = Loads(first, FileFormat(1))
      BY <1>10, SameCommandLine DEF Loads, vars
    <2>2. TypeOK' /\ Reported'
      BY <1>10 DEF vars, Inv, TypeOK, Reported, Compared
    <2>3. Progress'
      BY <1>10, <2>1, SameCommandLine DEF vars, Inv, Progress, Active, Ready, Compared
    <2>4. Dated'
      BY <1>10, DatesStay DEF vars, Inv, Dated
    <2> QED BY <2>2, <2>3, <2>4 DEF Inv
  <1> QED
    BY <1>1, <1>2, <1>3, <1>4, <1>5, <1>6, <1>7, <1>8, <1>9, <1>10 DEF Next

\* The inductive invariant.
LEMMA Invariance == Spec => []Inv
  BY InvInit, InvNext, PTL DEF Spec

-----------------------------------------------------------------------------
(* What a run answers.                                                      *)

\* TypeOK: what a run has read and reported is of the types the code gives it.
THEOREM TypeCorrect == Spec => []TypeOK
  BY Invariance, PTL DEF Inv

\* The other configuration at a moment can be compared with.
LEMMA ReadableThen ==
    ASSUME Inv, ArgsAccepted, NEW m \in past
    PROVE  /\ Readable(Given(m)) => Given(m).map \in FlatMap
           /\ Readable(Other(m)) => Other(m).map \in FlatMap
           /\ inv.mode = "server" => Readable(Other(m)) /\ Other(m).map = m.node
  <1>1. inv \in Invocation /\ m.fs \in [Files -> Doc \cup {Absent}] /\ m.node \in Maps
    BY DiffAssumption DEF Inv, TypeOK, Moment
  <1>2. Given(m) \in Doc \cup {Absent}
    BY <1>1, ArgsType DEF Given
  <1>3. inv.mode = "files" => Other(m) \in Doc \cup {Absent}
    BY <1>1, ArgsType DEF Other
  <1>4. CASE inv.mode = "server"
    <2>1. Other(m) = [fmt |-> FileFormat(1), map |-> m.node]
      BY <1>4 DEF Other
    <2>2. Other(m) \in Doc /\ Other(m).map = m.node /\ m.node # Unparsable
      BY <1>1, <2>1, DiffAssumption DEF ArgsAccepted, Doc
    <2> QED BY <1>2, <1>4, <2>2, DiffAssumption, DocType DEF Readable
  <1>5. CASE inv.mode = "files"
    BY <1>2, <1>3, <1>5, DiffAssumption, DocType DEF Readable
  <1> QED BY <1>1, <1>4, <1>5 DEF Invocation

\* What has been read agrees at every key with what was there at some moment.
LEMMA ReadThen ==
    ASSUME Inv, Compared
    PROVE  /\ first.map \in FlatMap /\ second.map \in FlatMap /\ first.fmt = second.fmt
           /\ \E m \in past : Readable(Given(m)) /\ Given(m) = first
           /\ \A k \in Key : \E n \in past : Readable(Other(n)) /\ AgreeAt(second.map, Other(n).map, k)
  <1>1. /\ ArgsAccepted /\ first \in Doc /\ Loads(first, FileFormat(1))
        /\ second # Nil /\ second.map \in FlatMap /\ second.fmt = FileFormat(1)
        /\ first # Nil /\ first # Absent
    BY DiffAssumption DEF Inv, Progress, Active, Ready, Compared
  <1>2. first.map \in FlatMap
    BY <1>1, DocType DEF Loads
  <1>3. \E m \in past : Readable(Given(m)) /\ Given(m) = first
    BY <1>1 DEF Inv, Dated, Readable, Loads
  <1>4. ASSUME NEW k \in Key
        PROVE  \E n \in past : Readable(Other(n)) /\ AgreeAt(second.map, Other(n).map, k)
    <2>1. CASE inv.mode = "files"
      <3>1. PICK n \in past : Other(n) = second
        BY <1>1, <2>1 DEF Inv, Dated
      <3>2. second # Absent /\ second.map # Unparsable
        BY <1>1, <2>1, DiffAssumption DEF Inv, Progress, Ready
      <3> QED BY <3>1, <3>2 DEF Readable, AgreeAt
    <2>2. CASE inv.mode = "server"
      <3>1. PICK n \in past : AgreeAt(second.map, n.node, k)
        BY <1>1, <1>4, <2>2 DEF Inv, Dated, Progress, Ready
      <3> QED BY <1>1, <2>2, <3>1, ReadableThen
    <2> QED BY <2>1, <2>2, DiffAssumption DEF Inv, TypeOK, Invocation
  <1> QED BY <1>1, <1>2, <1>3, <1>4 DEF Loads

\* StatusIsTheAnswer: the lines of a report were differences at some moments of the
\* run, what differed all the time is in it, and the status says whether there are
\* any (runFileDiff, runServerDiff).
THEOREM ReportsAreDated == Spec => []StatusIsTheAnswer
  <1>1. ASSUME Inv, Compared
        PROVE  /\ report \subseteq UNION DifferencesThen
               /\ \A line \in UNION DifferencesThen :
                     (\A D \in DifferencesThen : line \in D) => line \in report
               /\ err = Nil <=> report = {}
               /\ first.fmt = second.fmt
    <2>1. report = Differences(first.map, second.map) /\ (err = Nil <=> report = {})
      BY <1>1 DEF Inv, Reported
    <2>2. first.map \in FlatMap /\ second.map \in FlatMap /\ first.fmt = second.fmt
      BY <1>1, ReadThen
    <2>3. PICK m \in past : Readable(Given(m)) /\ Given(m) = first
      BY <1>1, ReadThen
    <2>4. ASSUME NEW n \in past, Readable(Other(n))
          PROVE  /\ Other(n).map \in FlatMap
                 /\ Differences(first.map, Other(n).map) \in DifferencesThen
      <3>1. ArgsAccepted
        BY <1>1 DEF Inv, Progress, Active
      <3> QED BY <1>1, <2>3, <2>4, <3>1, ReadableThen DEF DifferencesThen
    <2>5. ASSUME NEW line \in report PROVE line \in UNION DifferencesThen
      <3>1. PICK k \in DOMAIN first.map \cup DOMAIN second.map :
              DifferAt(first.map, second.map, k) /\ line = LineAt(first.map, second.map, k)
        BY <2>1, <2>2, <2>5, DifferenceOfKey
      <3>2. k \in Key
        BY <2>2, MapsHaveValues
      <3>3. PICK n \in past : Readable(Other(n)) /\ AgreeAt(second.map, Other(n).map, k)
        BY <1>1, <3>2, ReadThen
      <3>4. line \in Differences(first.map, Other(n).map)
        BY <3>1, <3>3, DifferenceAtKey DEF Differences
      <3> QED BY <2>4, <3>3, <3>4
    <2>6. ASSUME NEW line \in UNION DifferencesThen, \A D \in DifferencesThen : line \in D
          PROVE  line \in report
      <3>1. PICK p \in past, q \in past : /\ Readable(Given(p)) /\ Readable(Other(q))
                                          /\ line \in Differences(Given(p).map, Other(q).map)
        BY <2>6 DEF DifferencesThen
      <3>2. Given(p).map \in FlatMap /\ Other(q).map \in FlatMap
        <4>1. ArgsAccepted
          BY <1>1 DEF Inv, Progress, Active
        <4> QED BY <1>1, <3>1, <4>1, ReadableThen
      <3>3. line.key \in Key
        BY <3>1, <3>2, DifferenceOfKey, MapsHaveValues
      <3>4. PICK n \in past : Readable(Other(n)) /\ AgreeAt(second.map, Other(n).map, line.key)
        BY <1>1, <3>3, ReadThen
      <3>5. line \in Differences(first.map, Other(n).map) /\ Other(n).map \in FlatMap
        BY <2>4, <2>6, <3>4
      <3>6. PICK k \in DOMAIN first.map \cup DOMAIN Other(n).map :
              /\ DifferAt(first.map, Other(n).map, k) /\ line = LineAt(first.map, Other(n).map, k)
              /\ line.key = k
        BY <2>2, <3>5, DifferenceOfKey
      <3>7. AgreeAt(second.map, Other(n).map, k)
        BY <3>4, <3>6
      <3>8. /\ k \in DOMAIN first.map \cup DOMAIN second.map
            /\ DifferAt(first.map, second.map, k) /\ line = LineAt(first.map, second.map, k)
        BY <3>6, <3>7, DifferenceAtKey
      <3>9. line \in Differences(first.map, second.map)
        BY <3>8 DEF Differences
      <3> QED BY <2>1, <3>9
    <2> QED BY <2>1, <2>2, <2>5, <2>6
  <1>2. Inv => StatusIsTheAnswer
    BY <1>1 DEF StatusIsTheAnswer
  <1> QED BY <1>2, Invariance, PTL
=============================================================================
