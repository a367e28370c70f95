----------------------------- MODULE Differences -----------------------------
(***************************************************************************)
(* What it means for two flattened configurations to differ, and what is   *)
(* reported of a difference (diffFlatMaps of cmd/diff.go and the           *)
(* comparison of log levels of cmd/utils.go), without the loop that finds  *)
(* them.  A flattened configuration is a function from keys to values.     *)
(***************************************************************************)
EXTENDS Integers, Sequences

CONSTANTS
    Key,            \* keys of flattened configurations
    Before(_, _),   \* the byte order of keys
    IndexKey,       \* the keys that end in ".<index>"
    LoggingKey,     \* the keys that start with "logging."
    Value,          \* values of any type; two are equal when DeepEqual says so
    Text,           \* the values that are strings
    Lower,          \* strings.ToLower
    LoggingEnum,    \* the log levels, in lower case
    Missing         \* no value

ASSUME OrderAssumption ==
    /\ \A k \in Key : ~Before(k, k)
    /\ \A k, l, m \in Key : Before(k, l) /\ Before(l, m) => Before(k, m)
    /\ \A k, l \in Key : k = l \/ Before(k, l) \/ Before(l, k)

ASSUME ValueAssumption ==
    /\ IndexKey \subseteq Key
    /\ LoggingKey \subseteq Key
    /\ Text \subseteq Value
    /\ Lower \in [Text -> Text]
    /\ LoggingEnum \subseteq Text
    /\ Missing \notin Value

FlatMap == UNION {[ks -> Value] : ks \in SUBSET Key}

Line == [sign : {"<", ">", "<>"}, key : Key,
         from : Value \cup {Missing}, to : Value \cup {Missing}]

-----------------------------------------------------------------------------
\* Two strings that are the same log level, in whatever case.
isValidLoggingEnumCompare(v1, v2) ==
    /\ v1 \in Text /\ v2 \in Text
    /\ Lower[v1] = Lower[v2]
    /\ Lower[v1] \in LoggingEnum

\* Two values of key k that are not worth reporting.
SameValue(k, v1, v2) ==
    (k \in LoggingKey /\ isValidLoggingEnumCompare(v1, v2)) \/ v1 = v2

\* A key one of the maps does not have is reported without the other's value.
OnlySecond(k) == [sign |-> ">", key |-> k, from |-> Missing, to |-> Missing]

OnlyFirst(k) == [sign |-> "<", key |-> k, from |-> Missing, to |-> Missing]

Changed(k, v1, v2) == [sign |-> "<>", key |-> k, from |-> v1, to |-> v2]

\* The maps differ at k, which is a key of one of them or of both.
DifferAt(m1, m2, k) ==
    /\ k \notin IndexKey
    /\ k \in DOMAIN m1 /\ k \in DOMAIN m2 => ~SameValue(k, m1[k], m2[k])

LineAt(m1, m2, k) ==
    IF k \notin DOMAIN m1 THEN OnlySecond(k)
    ELSE IF k \notin DOMAIN m2 THEN OnlyFirst(k)
    ELSE Changed(k, m1[k], m2[k])

Differences(m1, m2) ==
    {LineAt(m1, m2, k) : k \in {l \in DOMAIN m1 \cup DOMAIN m2 : DifferAt(m1, m2, l)}}

\* A report: the differences, once each, in the order of their keys.
IsReport(lines, m1, m2) ==
    /\ lines \in Seq(Line)
    /\ {lines[n] : n \in 1..Len(lines)} = Differences(m1, m2)
    /\ \A n, o \in 1..Len(lines) : n < o => Before(lines[n].key, lines[o].key)

\* What a line says, read from the other side.
Mirror(line) ==
    [sign |-> CASE line.sign = "<" -> ">" [] line.sign = ">" -> "<"
                [] line.sign = "<>" -> "<>",
     key |-> line.key, from |-> line.to, to |-> line.from]

\* Equivalent maps: nothing to report.
Equivalent(m1, m2) == Differences(m1, m2) = {}
=============================================================================
