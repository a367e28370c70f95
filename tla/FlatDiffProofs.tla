--------------------------- MODULE FlatDiffProofs ---------------------------
(***************************************************************************)
(* Proofs about diffFlatMaps: for any keys, values and maps, the loop      *)
(* implements module Comparison, and what its report says of two maps is   *)
(* symmetric.                                                              *)
(***************************************************************************)
EXTENDS FlatDiff, TLAPS, FiniteSetTheorems, SequenceTheorems

-----------------------------------------------------------------------------
(* What differs, whatever finds it: swapping the maps swaps the report, and *)
(* silence is transitive.                                                   *)

\* A flattened configuration has keys and values.
LEMMA MapsHaveValues ==
    ASSUME NEW m \in FlatMap, NEW k \in DOMAIN m
    PROVE  k \in Key /\ m[k] \in Value
  BY DEF FlatMap

\* A difference is reported by a line of its key.
LEMMA LineAtIsLine ==
    ASSUME NEW a \in FlatMap, NEW b \in FlatMap, NEW k \in DOMAIN a \cup DOMAIN b
    PROVE  LineAt(a, b, k) \in Line /\ LineAt(a, b, k).key = k
  BY MapsHaveValues DEF LineAt, OnlySecond, OnlyFirst, Changed, Line

\* Two spellings of a log level are the same from either side.
LEMMA SameValueSymmetric ==
    ASSUME NEW k, NEW v, NEW w
    PROVE  SameValue(k, v, w) <=> SameValue(k, w, v)
  BY DEF SameValue, isValidLoggingEnumCompare

\* Folding the case of log levels is transitive.
LEMMA SameValueTransitive ==
    ASSUME NEW k, NEW u, NEW v, NEW w, SameValue(k, u, v), SameValue(k, v, w)
    PROVE  SameValue(k, u, w)
  BY DEF SameValue, isValidLoggingEnumCompare

\* The line of a key, read from the other side, is the line of the swapped maps.
LEMMA MirroredLine ==
    ASSUME NEW a \in FlatMap, NEW b \in FlatMap, NEW k \in DOMAIN a \cup DOMAIN b
    PROVE  Mirror(LineAt(a, b, k)) = LineAt(b, a, k)
  BY DEF Mirror, LineAt, OnlySecond, OnlyFirst, Changed

\* Swapping the files swaps the two sides of the report and nothing else (the
\* tests of diffFlatMaps treat its arguments one after the other, not alike).
THEOREM DifferencesMirror ==
    ASSUME NEW a \in FlatMap, NEW b \in FlatMap
    PROVE  Differences(b, a) = {Mirror(d) : d \in Differences(a, b)}
  <1>1. \A k \in DOMAIN a \cup DOMAIN b : DifferAt(a, b, k) <=> DifferAt(b, a, k)
    BY SameValueSymmetric DEF DifferAt
  <1>2. \A k \in DOMAIN a \cup DOMAIN b : Mirror(LineAt(a, b, k)) = LineAt(b, a, k)
    BY MirroredLine
  <1> QED
    BY <1>1, <1>2 DEF Differences

\* No difference: but for the index keys, the same keys and the same values.
LEMMA EquivalentMaps ==
    ASSUME NEW a \in FlatMap, NEW b \in FlatMap
    PROVE  Equivalent(a, b) <=>
             \A k \in (DOMAIN a \cup DOMAIN b) \ IndexKey :
                 k \in DOMAIN a /\ k \in DOMAIN b /\ SameValue(k, a[k], b[k])
  BY DEF Equivalent, Differences, DifferAt

\* If diff is silent about a and b, and about b and c, it is about a and c: the
\* case folding of log levels does not spoil that.
THEOREM SilenceIsTransitive ==
    ASSUME NEW a \in FlatMap, NEW b \in FlatMap, NEW c \in FlatMap,
           Equivalent(a, b), Equivalent(b, c)
    PROVE  Equivalent(a, c)
  <1> SUFFICES ASSUME NEW k \in (DOMAIN a \cup DOMAIN c) \ IndexKey
               PROVE  k \in DOMAIN a /\ k \in DOMAIN c /\ SameValue(k, a[k], c[k])
    BY EquivalentMaps
  <1>1. k \in DOMAIN a /\ k \in DOMAIN b /\ k \in DOMAIN c
    BY EquivalentMaps
  <1>2. SameValue(k, a[k], b[k]) /\ SameValue(k, b[k], c[k])
    BY <1>1, EquivalentMaps
  <1> QED
    BY <1>1, <1>2, SameValueTransitive

-----------------------------------------------------------------------------
(* The loop.                                                                *)

\* A listing of finitely many keys is a sequence of all of them.
LEMMA ListingsAreSequences ==
    ASSUME NEW ks \in SUBSET Key, IsFiniteSet(ks), NEW s \in Listings(ks)
    PROVE  /\ s \in Seq(Key)
           /\ {s[n] : n \in 1..Len(s)} = ks
  <1>1. Cardinality(ks) \in Nat
    BY FS_CardinalityType
  <1>2. s \in [1..Cardinality(ks) -> Key] /\ Len(s) = Cardinality(ks)
    BY <1>1 DEF Listings
  <1>3. s \in Seq(Key)
    BY <1>1, <1>2
  <1>4. DOMAIN s = 1..Len(s)
    BY <1>3
  <1> QED
    BY <1>3, <1>4 DEF Listings

\* The body of the loop appends the line of a difference, and nothing else.
LEMMA LinesForDifference ==
    ASSUME NEW k \in DOMAIN m1 \cup DOMAIN m2
    PROVE  LinesFor(k) = IF DifferAt(m1, m2, k) THEN <<LineAt(m1, m2, k)>> ELSE <<>>
  BY DEF LinesFor, DifferAt, LineAt, SameValue

Visited == {keysList[n] : n \in 1..next - 1}

\* The lines so far are those of the keys visited, in order, and before whatever
\* is still to come.
LoopInv ==
    /\ {res[n] : n \in 1..Len(res)}
         = {LineAt(m1, m2, k) : k \in {l \in Visited : DifferAt(m1, m2, l)}}
    /\ \A n, o \in 1..Len(res) : n < o => Before(res[n].key, res[o].key)
    /\ \A n \in 1..Len(res), o \in next..Len(keysList) : Before(res[n].key, keysList[o])

Progress ==
    /\ m1 \in Maps /\ m2 \in Maps
    /\ pc # "collect" => allKeys = DOMAIN m1 \cup DOMAIN m2
    /\ pc \in {"collect", "list", "sort"} => next = 1 /\ res = <<>>
    /\ pc \in {"sort", "loop", "done"} => {keysList[n] : n \in 1..Len(keysList)} = allKeys
    /\ pc \in {"loop", "done"} =>
         \A n, o \in 1..Len(keysList) : n < o => Before(keysList[n], keysList[o])
    /\ pc = "done" => next = Len(keysList) + 1

IInv == TypeOK /\ Progress /\ LoopInv

\* The keys of the two arguments can be listed.
LEMMA KeysAreFinite ==
    ASSUME Progress
    PROVE  /\ m1 \in FlatMap /\ m2 \in FlatMap
           /\ DOMAIN m1 \cup DOMAIN m2 \subseteq Key
           /\ IsFiniteSet(DOMAIN m1 \cup DOMAIN m2)
  <1>1. m1 \in FlatMap /\ m2 \in FlatMap
    BY MapsAssumption DEF Progress
  <1>2. IsFiniteSet(DOMAIN m1) /\ IsFiniteSet(DOMAIN m2)
    BY MapsAssumption DEF Progress
  <1>3. IsFiniteSet(DOMAIN m1 \cup DOMAIN m2)
    BY <1>2, FS_Union
  <1> QED
    BY <1>1, <1>3, MapsHaveValues

\* The loop's invariant before the first step.
LEMMA InitIInv == Init => IInv
  <1> SUFFICES ASSUME Init PROVE IInv
    OBVIOUS
  <1>1. m1 \in FlatMap /\ m2 \in FlatMap
    BY MapsAssumption DEF Init
  <1>2. TypeOK
    BY <1>1 DEF Init, TypeOK
  <1>3. Progress
    BY DEF Init, Progress
  <1>4. LoopInv
    BY DEF Init, LoopInv, Visited
  <1> QED
    BY <1>2, <1>3, <1>4 DEF IInv

\* While no key has been visited there is nothing to say of the lines.
LEMMA NothingVisited ==
    ASSUME next = 1, res = <<>>
    PROVE  LoopInv
  BY DEF LoopInv, Visited

\* A step that leaves the lines and the position alone keeps the loop's invariant.
LEMMA LoopInvKept ==
    ASSUME LoopInv, UNCHANGED <<m1, m2, keysList, next, res>>
    PROVE  LoopInv'
  <1>1. m1' = m1 /\ m2' = m2 /\ keysList' = keysList /\ next' = next /\ res' = res
    OBVIOUS
  <1>2. Visited' = Visited
    BY <1>1 DEF Visited
  <1>3. {res'[n] : n \in 1..Len(res')}
          = {LineAt(m1', m2', k) : k \in {l \in Visited' : DifferAt(m1', m2', l)}}
    BY <1>1, <1>2 DEF LoopInv
  <1> QED
    BY <1>1, <1>3 DEF LoopInv

\* One turn of the loop: the key visited is after all that have lines and before
\* all to come.
LEMMA VisitKeepsLoopInv ==
    ASSUME IInv, VisitKey
    PROVE  res' \in Seq(Line) /\ LoopInv'
  <1> DEFINE k == keysList[next]
  <1>1. /\ next \in 1..Len(keysList) /\ k \in Key
        /\ Visited' = Visited \cup {k}
    <2>1. next \in 1..Len(keysList) /\ keysList \in Seq(Key)
      BY DEF IInv, TypeOK, VisitKey
    <2>2. next' = next + 1 /\ keysList' = keysList
      BY DEF VisitKey
    <2> QED
      BY <2>1, <2>2 DEF Visited
  <1>2. k \in DOMAIN m1 \cup DOMAIN m2
    BY <1>1 DEF IInv, Progress, VisitKey
  <1>3. m1 \in FlatMap /\ m2 \in FlatMap
    BY DEF IInv, TypeOK
  <1>4. /\ UNCHANGED <<m1, m2, keysList>>
        /\ next' = next + 1
        /\ res' = res \o LinesFor(k)
    BY DEF VisitKey
  <1>5. /\ res \in Seq(Line)
        /\ \A n, o \in 1..Len(keysList) : n < o => Before(keysList[n], keysList[o])
    BY DEF IInv, TypeOK, Progress, VisitKey
  <1>6. CASE DifferAt(m1, m2, k)
    <2> DEFINE line == LineAt(m1, m2, k)
    <2>1. res' = Append(res, line) /\ line \in Line /\ line.key = k
      <3>1. LinesFor(k) = <<line>>
        BY <1>2, <1>6, LinesForDifference
      <3>2. line \in Line /\ line.key = k
        BY <1>2, <1>3, LineAtIsLine
      <3> HIDE DEF line
      <3> QED
        BY <1>4, <1>5, <3>1, <3>2
    <2> HIDE DEF line
    <2>2. /\ res' \in Seq(Line)
          /\ Len(res') = Len(res) + 1
          /\ \A n \in 1..Len(res) : res'[n] = res[n]
          /\ res'[Len(res) + 1] = line
      BY <1>5, <2>1
    <2>3. {res'[n] : n \in 1..Len(res')} = {res[n] : n \in 1..Len(res)} \cup {line}
      BY <1>5, <2>2
    <2>4. {LineAt(m1, m2, j) : j \in {l \in Visited' : DifferAt(m1, m2, l)}}
            = {LineAt(m1, m2, j) : j \in {l \in Visited : DifferAt(m1, m2, l)}} \cup {line}
      BY <1>1, <1>6 DEF line
    <2>5. \A n, o \in 1..Len(res') : n < o => Before(res'[n].key, res'[o].key)
      <3> SUFFICES ASSUME NEW n \in 1..Len(res'), NEW o \in 1..Len(res'), n < o
                   PROVE  Before(res'[n].key, res'[o].key)
        OBVIOUS
      <3>1. CASE o = Len(res) + 1
        <4>1. n \in 1..Len(res) /\ next \in next..Len(keysList)
          BY <3>1, <1>1, <1>5, <2>2
        <4>2. Before(res[n].key, k)
          BY <4>1 DEF IInv, LoopInv
        <4> QED
          BY <3>1, <4>1, <4>2, <2>1, <2>2
      <3>2. CASE o \in 1..Len(res)
        <4>1. n \in 1..Len(res)
          BY <3>2, <1>5
        <4> QED
          BY <3>2, <4>1, <2>2 DEF IInv, LoopInv
      <3> QED
        BY <3>1, <3>2, <2>2, <1>5
    <2>6. \A n \in 1..Len(res'), o \in next + 1..Len(keysList) :
             Before(res'[n].key, keysList[o])
      <3> SUFFICES ASSUME NEW n \in 1..Len(res'), NEW o \in next + 1..Len(keysList)
                   PROVE  Before(res'[n].key, keysList[o])
        OBVIOUS
      <3>1. o \in next..Len(keysList) /\ next < o /\ o \in 1..Len(keysList)
        BY <1>1
      <3>2. CASE n = Len(res) + 1
        BY <3>1, <3>2, <1>1, <1>5, <2>1, <2>2
      <3>3. CASE n \in 1..Len(res)
        BY <3>1, <3>3, <2>2 DEF IInv, LoopInv
      <3> QED
        BY <3>2, <3>3, <2>2, <1>5
    <2>7. {res'[n] : n \in 1..Len(res')}
            = {LineAt(m1, m2, j) : j \in {l \in Visited' : DifferAt(m1, m2, l)}}
      BY <2>3, <2>4 DEF IInv, LoopInv
    <2> QED
      BY <1>4, <2>2, <2>5, <2>6, <2>7 DEF LoopInv
  <1>7. CASE ~DifferAt(m1, m2, k)
    <2>1. res' = res
      BY <1>2, <1>4, <1>5, <1>7, LinesForDifference
    <2>2. {l \in Visited' : DifferAt(m1, m2, l)} = {l \in Visited : DifferAt(m1, m2, l)}
      BY <1>1, <1>7
    <2>3. \A n \in 1..Len(res), o \in next + 1..Len(keysList) :
             Before(res[n].key, keysList[o])
      BY <1>1 DEF IInv, LoopInv
    <2> QED
      BY <1>4, <1>5, <2>1, <2>2, <2>3 DEF IInv, LoopInv
  <1> QED
    BY <1>6, <1>7

\* Every phase of diffFlatMaps keeps the invariant.
LEMMA NextIInv == IInv /\ [Next]_vars => IInv'
  <1> SUFFICES ASSUME IInv, [Next]_vars PROVE IInv'
    OBVIOUS
  <1> USE DEF IInv
  <1>1. CASE CollectKeys
    <2>1. TypeOK'
      BY <1>1, KeysAreFinite DEF CollectKeys, TypeOK
    <2>2. Progress'
      BY <1>1 DEF CollectKeys, Progress
    <2>3. LoopInv'
      BY <1>1, LoopInvKept DEF CollectKeys
    <2> QED
      BY <2>1, <2>2, <2>3
  <1>2. CASE ListKeys
    <2>1. keysList' \in Seq(Key) /\ {keysList'[n] : n \in 1..Len(keysList')} = allKeys
      BY <1>2, KeysAreFinite, ListingsAreSequences DEF ListKeys, Progress
    <2>2. next = 1 /\ res = <<>>
      BY <1>2 DEF ListKeys, Progress
    <2>3. TypeOK'
      BY <1>2, <2>1, <2>2 DEF ListKeys, TypeOK
    <2>4. Progress'
      BY <1>2, <2>1, <2>2 DEF ListKeys, Progress
    <2>5. LoopInv'
      BY <1>2, <2>2 DEF ListKeys, LoopInv, Visited
    <2> QED
      BY <2>3, <2>4, <2>5
  <1>3. CASE SortKeys
    <2>1. {keysList[n] : n \in DOMAIN keysList} = allKeys
      BY <1>3 DEF SortKeys, Progress, TypeOK
    <2>2. keysList' \in Listings(allKeys)
      BY <1>3, <2>1 DEF SortKeys
    <2>3. keysList' \in Seq(Key) /\ {keysList'[n] : n \in 1..Len(keysList')} = allKeys
      BY <1>3, <2>2, KeysAreFinite, ListingsAreSequences DEF SortKeys, Progress
    <2>4. \A n, o \in 1..Len(keysList') : n < o => Before(keysList'[n], keysList'[o])
      BY <1>3, <2>3 DEF SortKeys
    <2>5. next = 1 /\ res = <<>>
      BY <1>3 DEF SortKeys, Progress
    <2>6. TypeOK'
      BY <1>3, <2>3, <2>5 DEF SortKeys, TypeOK
    <2>7. Progress'
      BY <1>3, <2>3, <2>4, <2>5 DEF SortKeys, Progress
    <2>8. LoopInv'
      BY <1>3, <2>5 DEF SortKeys, LoopInv, Visited
    <2> QED
      BY <2>6, <2>7, <2>8
  <1>4. CASE VisitKey
    <2>1. res' \in Seq(Line) /\ LoopInv'
      BY <1>4, VisitKeepsLoopInv
    <2>2. TypeOK'
      BY <1>4, <2>1 DEF VisitKey, TypeOK
    <2>3. Progress'
      BY <1>4 DEF VisitKey, Progress
    <2> QED
      BY <2>1, <2>2, <2>3
  <1>5. CASE Return
    <2>1. TypeOK'
      BY <1>5 DEF Return, TypeOK
    <2>2. Progress'
      BY <1>5 DEF Return, Progress
    <2>3. UNCHANGED <<m1, m2, keysList, next, res>>
      BY <1>5 DEF Return
    <2>4. LoopInv'
      BY <2>3, LoopInvKept
    <2> QED
      BY <2>1, <2>2, <2>4
  <1>6. CASE UNCHANGED vars
    <2>1. UNCHANGED <<m1, m2, pc, allKeys, keysList, next, res>>
      BY <1>6 DEF vars
    <2>2. TypeOK' /\ Progress'
      BY <2>1 DEF TypeOK, Progress
    <2>3. LoopInv'
      BY <2>1, LoopInvKept
    <2> QED
      BY <2>2, <2>3
  <1> QED
    BY <1>1, <1>2, <1>3, <1>4, <1>5, <1>6 DEF Next

\* The invariant of diffFlatMaps' loop holds throughout, for all keys and maps.
THEOREM Invariance == Spec => []IInv
  BY InitIInv, NextIInv, PTL DEF Spec

\* Every variable keeps its type, for all keys and maps.
THEOREM TypeCorrect == Spec => []TypeOK
  BY Invariance, PTL DEF IInv

\* Nothing is reported of a key on whose values the maps agree.
THEOREM OnlyDifferencesReported == Spec => []NoFalseDifference
  <1>1. IInv => NoFalseDifference
    <2> SUFFICES ASSUME IInv, NEW n \in 1..Len(res) PROVE DifferAt(m1, m2, res[n].key)
      BY DEF NoFalseDifference
    <2>1. PICK k \in Visited : DifferAt(m1, m2, k) /\ res[n] = LineAt(m1, m2, k)
      BY DEF IInv, LoopInv
    <2>2. m1 \in FlatMap /\ m2 \in FlatMap /\ k \in DOMAIN m1 \cup DOMAIN m2
      <3>1. \E o \in 1..Len(keysList) : k = keysList[o]
        BY <2>1 DEF Visited, IInv, TypeOK
      <3>2. pc \in {"loop", "done"}
        BY <2>1 DEF Visited, IInv, TypeOK, Progress
      <3> QED
        BY <3>1, <3>2 DEF IInv, TypeOK, Progress
    <2> QED
      BY <2>1, <2>2, LineAtIsLine
  <1> QED
    BY <1>1, Invariance, PTL

\* When the loop is over, the lines are the report that module Differences defines.
LEMMA ReturnedReport ==
    ASSUME IInv, pc \in {"loop", "done"}, next = Len(keysList) + 1
    PROVE  IsReport(res, m1, m2)
  <1>1. Visited = DOMAIN m1 \cup DOMAIN m2
    BY DEF IInv, TypeOK, Progress, Visited
  <1>2. {res[n] : n \in 1..Len(res)} = Differences(m1, m2)
    BY <1>1 DEF IInv, LoopInv, Differences
  <1> QED
    BY <1>2 DEF IsReport, IInv, TypeOK, LoopInv

\* Reading a report from the other side gives the report of the swapped comparison.
THEOREM ReportsMirror == Spec => []ReportMirrors
  <1>1. IInv => ReportMirrors
    <2> SUFFICES ASSUME IInv, pc = "done"
                 PROVE  {Mirror(res[n]) : n \in 1..Len(res)} = Differences(m2, m1)
      BY DEF ReportMirrors
    <2>1. {res[n] : n \in 1..Len(res)} = Differences(m1, m2)
      BY ReturnedReport DEF IInv, Progress, IsReport
    <2>2. Differences(m2, m1) = {Mirror(d) : d \in Differences(m1, m2)}
      BY DifferencesMirror DEF IInv, TypeOK
    <2> QED
      BY <2>1, <2>2
  <1> QED
    BY <1>1, Invariance, PTL

-----------------------------------------------------------------------------
(* Refinement.                                                              *)

\* The operators of the abstract module are those of module Differences.
LEMMA SameReport ==
    ASSUME NEW lines, NEW a, NEW b
    PROVE  Promise!IsReport(lines, a, b) <=> IsReport(lines, a, b)
  BY DEF IsReport, Promise!IsReport, Differences, Promise!Differences,
         DifferAt, Promise!DifferAt, SameValue, Promise!SameValue,
         isValidLoggingEnumCompare, Promise!isValidLoggingEnumCompare,
         LineAt, Promise!LineAt, OnlySecond, Promise!OnlySecond,
         OnlyFirst, Promise!OnlyFirst, Changed, Promise!Changed, Line, Promise!Line

\* The loop of diffFlatMaps, whatever order Go lists the keys in, is one step that
\* yields all differences, each once, in the order of their keys.
THEOREM LoopImplementsComparison == Spec => ImplementsComparison
  <1> DEFINE report == IF pc = "done" THEN res ELSE Pending
  <1>1. Init => Promise!Init
    BY MapsAssumption DEF Init, Promise!Init, FlatMap, Promise!FlatMap
  <1>2. IInv /\ [Next]_vars => [Promise!Compare]_(Promise!vars)
    <2> SUFFICES ASSUME IInv, [Next]_vars
                 PROVE  Promise!Compare \/ UNCHANGED <<m1, m2, report>>
      BY DEF Promise!vars
    <2>1. CASE Return
      <3>1. IsReport(res, m1, m2) /\ res \in Seq(Line)
        BY <2>1, ReturnedReport DEF Return, IInv, TypeOK
      <3>2. report = Pending /\ report' = res /\ UNCHANGED <<m1, m2>>
        BY <2>1 DEF Return
      <3>3. res # Pending
        BY <3>1, MapsAssumption
      <3> QED
        BY <3>1, <3>2, <3>3, SameReport DEF Promise!Compare
    <2>2. CASE CollectKeys \/ ListKeys \/ SortKeys \/ VisitKey
      BY <2>2 DEF CollectKeys, ListKeys, SortKeys, VisitKey
    <2>3. CASE UNCHANGED vars
      BY <2>3 DEF vars
    <2> QED
      BY <2>1, <2>2, <2>3 DEF Next
  <1> QED
    BY <1>1, <1>2, Invariance, PTL DEF Spec, ImplementsComparison, Promise!Spec
=============================================================================
