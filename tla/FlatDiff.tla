------------------------------ MODULE FlatDiff ------------------------------
(***************************************************************************)
(* diffFlatMaps (cmd/diff.go): the keys of both maps are collected, listed *)
(* in the order Go happens to iterate over them, sorted, and visited one   *)
(* by one.  The loop implements module Comparison.                         *)
(***************************************************************************)
EXTENDS Differences, FiniteSets

CONSTANTS
    Maps,       \* the flattened configurations to compare
    Pending

ASSUME MapsAssumption ==
    /\ Maps \subseteq FlatMap
    /\ \A m \in Maps : IsFiniteSet(DOMAIN m)
    /\ Pending \notin Seq(Line)

VARIABLES
    m1, m2,     \* the arguments
    pc,         \* "collect", "list", "sort", "loop" or "done"
    allKeys,    \* the set of keys
    keysList,   \* the keys in a sequence
    next,       \* the position in keysList that is visited next
    res         \* the lines so far

vars == <<m1, m2, pc, allKeys, keysList, next, res>>

TypeOK ==
    /\ m1 \in FlatMap /\ m2 \in FlatMap
    /\ pc \in {"collect", "list", "sort", "loop", "done"}
    /\ allKeys \subseteq Key
    /\ keysList \in Seq(Key)
    /\ next \in 1..Len(keysList) + 1
    /\ res \in Seq(Line)

Init ==
    /\ m1 \in Maps
    /\ m2 \in Maps
    /\ pc = "collect"
    /\ allKeys = {}
    /\ keysList = <<>>
    /\ next = 1
    /\ res = <<>>

\* Mutant of CollectKeys: the second map's keys are forgotten.
CollectFirst ==
    /\ pc = "collect"
    /\ allKeys' = DOMAIN m1
    /\ pc' = "list"
    /\ UNCHANGED <<m1, m2, keysList, next, res>>

\* The two loops over the maps.
CollectKeys ==
    /\ pc = "collect"
    /\ allKeys' = DOMAIN m1 \cup DOMAIN m2
    /\ pc' = "list"
    /\ UNCHANGED <<m1, m2, keysList, next, res>>

\* The ways to put the members of ks in a sequence.
Listings(ks) ==
    {s \in [1..Cardinality(ks) -> ks] : \A k \in ks : \E n \in DOMAIN s : s[n] = k}

\* Mutant of ListKeys: appended to a slice that is made with a length.
ListPadded ==
    /\ pc = "list"
    /\ keysList' \in {[n \in 1..Cardinality(allKeys) |-> ""] \o s : s \in Listings(allKeys)}
    /\ pc' = "sort"
    /\ UNCHANGED <<m1, m2, allKeys, next, res>>

\* Ranging over a map yields its keys in any order.
ListKeys ==
    /\ pc = "list"
    /\ keysList' \in Listings(allKeys)
    /\ pc' = "sort"
    /\ UNCHANGED <<m1, m2, allKeys, next, res>>

\* Mutant of SortKeys: the keys stay as they came.
LeaveKeys ==
    /\ pc = "sort"
    /\ pc' = "loop"
    /\ UNCHANGED <<m1, m2, allKeys, keysList, next, res>>

\* sort.Strings.
SortKeys ==
    /\ pc = "sort"
    /\ keysList' \in Listings({keysList[n] : n \in DOMAIN keysList})
    /\ \A n, o \in DOMAIN keysList' : n < o => Before(keysList'[n], keysList'[o])
    /\ pc' = "loop"
    /\ UNCHANGED <<m1, m2, allKeys, next, res>>

\* Mutant of LinesFor: only the first map's keys are looked up, and log levels
\* are compared as they are written.
LinesForFirst(k) ==
    IF k \in IndexKey \/ k \notin DOMAIN m1 THEN <<>>
    ELSE IF k \notin DOMAIN m2 THEN <<OnlyFirst(k)>>
    ELSE IF m1[k] # m2[k] THEN <<Changed(k, m1[k], m2[k])>>
    ELSE <<>>

\* What the body of the loop appends for key k, in the order of its tests.
LinesFor(k) ==
    IF k \in IndexKey THEN <<>>
    ELSE IF k \notin DOMAIN m1 THEN <<OnlySecond(k)>>
    ELSE IF k \notin DOMAIN m2 THEN <<OnlyFirst(k)>>
    ELSE IF k \in LoggingKey /\ isValidLoggingEnumCompare(m1[k], m2[k]) THEN <<>>
    ELSE IF m1[k] # m2[k] THEN <<Changed(k, m1[k], m2[k])>>
    ELSE <<>>

VisitKey ==
    /\ pc = "loop"
    /\ next <= Len(keysList)
    /\ res' = res \o LinesFor(keysList[next])
    /\ next' = next + 1
    /\ UNCHANGED <<m1, m2, pc, allKeys, keysList>>

Return ==
    /\ pc = "loop"
    /\ next = Len(keysList) + 1
    /\ pc' = "done"
    /\ UNCHANGED <<m1, m2, allKeys, keysList, next, res>>

Next == CollectKeys \/ ListKeys \/ SortKeys \/ VisitKey \/ Return

Spec == Init /\ [][Next]_vars

-----------------------------------------------------------------------------
\* The report is what has been returned.
Promise == INSTANCE Comparison WITH report <- IF pc = "done" THEN res ELSE Pending

\* diffFlatMaps reports exactly the differences, each once and in order, whatever
\* order Go iterates in.
ImplementsComparison == Promise!Spec

\* Nothing is reported, at any time, of a key whose values the two maps agree on,
\* log levels in either case included (#TOOLS-2979), or of the library's index keys.
NoFalseDifference ==
    \A n \in 1..Len(res) : DifferAt(m1, m2, res[n].key)

\* Who compares b with a reads the report of a with b from the other side.
ReportMirrors ==
    pc = "done" =>
        {Mirror(res[n]) : n \in 1..Len(res)} = Differences(m2, m1)
=============================================================================
