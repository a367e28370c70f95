------------------------ MODULE ConfigValidatorProofs ------------------------
(***************************************************************************)
(* Theorems about ConfigValidator, for any configurations, however deep,   *)
(* and any number of errors: type correctness, that each error is given    *)
(* the context of its own place, and that every error is printed once.     *)
(*                                                                         *)
(* What a path leads to is defined by recursion over the path.  That this  *)
(* defines something is the induction below; after it, the loops of the    *)
(* code are followed turn by turn, with what they have done so far in the  *)
(* invariant.                                                              *)
(***************************************************************************)
EXTENDS ConfigValidator, TLAPS, FiniteSetTheorems, SequenceTheorems

-----------------------------------------------------------------------------
(* Induction.                                                               *)

\* A set of numbers with zero and the successor of each of its members has them all:
\* were there one above it, what is below that one could be shifted by one into less.
LEMMA SetInduction ==
    ASSUME NEW S \in SUBSET Nat, 0 \in S, \A n \in S : n + 1 \in S
    PROVE  S = Nat
  <1> SUFFICES ASSUME NEW x \in Nat, x \notin S
               PROVE  FALSE
    OBVIOUS
  <1> DEFINE A == {n \in 0..x : n \in S}
             shift == [n \in A |-> n + 1]
  <1>1. IsFiniteSet(A)
    <2>1. IsFiniteSet(0..x)
      BY FS_Interval
    <2>2. A \in SUBSET (0..x)
      OBVIOUS
    <2> QED
      BY <2>1, <2>2, FS_Subset
  <1>2. 0 \in A
    OBVIOUS
  <1>3. IsFiniteSet(A \ {0}) /\ Cardinality(A \ {0}) = Cardinality(A) - 1
    BY <1>1, <1>2, FS_RemoveElement
  <1>4. shift \in Injection(A, A \ {0})
    <2>1. \A n \in A : n + 1 \in A \ {0}
      OBVIOUS
    <2>2. shift \in [A -> A \ {0}]
      BY <2>1
    <2>3. \A m, n \in A : shift[m] = shift[n] => m = n
      OBVIOUS
    <2> QED
      BY <2>2, <2>3 DEF Injection, IsInjective
  <1>5. Cardinality(A) <= Cardinality(A \ {0})
    BY <1>3, <1>4, FS_Injection
  <1>6. Cardinality(A) \in Nat
    BY <1>1, FS_CardinalityType
  <1> HIDE DEF A
  <1> QED
    BY <1>3, <1>5, <1>6

\* What NodesOn is defined by, up to a length.
IsWalkOn(f, json, context, m) ==
    f = [n \in 0..m |-> IF n = 0 THEN json ELSE processPathPart(f[n - 1], context[n])]

\* There is such a function, whatever the length.
LEMMA WalksExist ==
    ASSUME NEW json, NEW context, NEW m \in Nat
    PROVE  \E f : IsWalkOn(f, json, context, m)
  <1> DEFINE S == {k \in Nat : \E f : IsWalkOn(f, json, context, k)}
  <1>1. 0 \in S
    <2> DEFINE f == [n \in 0..0 |-> json]
    <2>1. IsWalkOn(f, json, context, 0)
      BY DEF IsWalkOn
    <2> QED
      BY <2>1
  <1>2. ASSUME NEW k \in S
        PROVE  k + 1 \in S
    <2>1. PICK f : IsWalkOn(f, json, context, k)
      OBVIOUS
    <2> DEFINE g == [n \in 0..(k + 1) |->
                       IF n <= k THEN f[n] ELSE processPathPart(f[k], context[k + 1])]
    <2>2. ASSUME NEW n \in 0..(k + 1)
          PROVE  g[n] = IF n = 0 THEN json ELSE processPathPart(g[n - 1], context[n])
      <3>1. CASE n <= k
        <4>1. f[n] = IF n = 0 THEN json ELSE processPathPart(f[n - 1], context[n])
          BY <2>1, <3>1 DEF IsWalkOn
        <4>2. n # 0 => g[n - 1] = f[n - 1]
          BY <3>1
        <4> QED
          BY <3>1, <4>1, <4>2
      <3>2. CASE n = k + 1
        BY <3>2
      <3> QED
        BY <3>1, <3>2
    <2>3. IsWalkOn(g, json, context, k + 1)
      BY <2>2 DEF IsWalkOn
    <2> QED
      BY <2>3
  <1> HIDE DEF S
  <1>3. S = Nat
    <2>1. S \in SUBSET Nat
      BY DEF S
    <2> QED
      BY <1>1, <1>2, <2>1, SetInduction, Zenon
  <1> QED
    BY <1>3 DEF S

\* NodesOn follows a path part by part.
LEMMA NodesFollow ==
    ASSUME NEW json, NEW context \in Seq(STRING)
    PROVE  /\ NodesOn(json, context)[0] = json
           /\ \A n \in 1..Len(context) :
                 NodesOn(json, context)[n]
                 = processPathPart(NodesOn(json, context)[n - 1], context[n])
  <1> DEFINE P(g) == g = [n \in 0..Len(context) |->
                            IF n = 0 THEN json ELSE processPathPart(g[n - 1], context[n])]
  <1>1. \E g : P(g)
    <2>1. Len(context) \in Nat
      OBVIOUS
    <2>2. PICK g : IsWalkOn(g, json, context, Len(context))
      BY <2>1, WalksExist, Zenon
    <2> QED
      BY <2>2 DEF IsWalkOn
  <1>2. NodesOn(json, context) = CHOOSE g : P(g)
    BY Zenon DEF NodesOn
  <1>3. P(NodesOn(json, context))
    <2> HIDE DEF P
    <2>1. P(CHOOSE g : P(g))
      BY <1>1
    <2> QED
      BY <1>2, <2>1
  <1> QED
    BY <1>3

-----------------------------------------------------------------------------
(* The walk to the place of an error.                                       *)

\* Part by part, values lead to values or to nothing.
LEMMA PartsAreValues ==
    ASSUME NEW v \in Value, NEW part
    PROVE  processPathPart(v, part) \in Value \cup {Nil}
  <1>1. ASSUME isNumeric(part), IsArray(v), IndexOf[part] < Len(v.array)
        PROVE  v.array[IndexOf[part] + 1] \in Value
    <2>1. IndexOf[part] \in Nat
      BY <1>1, JsonAssumption DEF isNumeric
    <2>2. v.array \in Seq(Value)
      BY <1>1, ValidatorAssumption
    <2> QED
      BY <1>1, <2>1, <2>2
  <1>2. ASSUME IsMap(v), part \in DOMAIN v.map
        PROVE  v.map[part] \in Value
    BY <1>2, ValidatorAssumption
  <1> QED
    BY <1>1, <1>2 DEF processPathPart, processArrayIndex, processMapKey

\* What jsonToConfigContext knows of a part of the context it has passed.
Passed(json, context, k, name) ==
    LET node == NodesOn(json, context)[k]
    IN /\ node # Nil
       /\ isNumeric(context[k]) => HasName(node)
       /\ name = IF isNumeric(context[k]) THEN NameOf(node) ELSE context[k]

\* A walk is where its parts have led it and has named them, or there is no way.
Follows(w, json, context) ==
    /\ w \in [ok : BOOLEAN, at : Value \cup {Nil}, res : Seq(STRING)]
    /\ w.ok => /\ Len(w.res) <= Len(context)
               /\ w.at \in Value
               /\ w.at = NodesOn(json, context)[Len(w.res)]
               /\ \A k \in 1..Len(w.res) : Passed(json, context, k, w.res[k])
    /\ ~w.ok => ~Nameable(json, context)

LEMMA WalkBegins ==
    ASSUME NEW json \in Value, NEW context \in Seq(STRING)
    PROVE  Follows(Walk(json), json, context)
  <1>1. NodesOn(json, context)[0] = json
    BY NodesFollow
  <1> QED
    BY <1>1 DEF Follows, Walk

\* One part further.
LEMMA WalkGoesOn ==
    ASSUME NEW json \in Value, NEW context \in Seq(STRING), NEW w,
           Follows(w, json, context), w.ok, Len(w.res) < Len(context)
    PROVE  Follows(ContextStep(w, context[Len(w.res) + 1]), json, context)
  <1> DEFINE m    == Len(w.res)
             part == context[m + 1]
             node == NodesOn(json, context)[m + 1]
             next == ContextStep(w, part)
  <1>1. /\ w \in [ok : BOOLEAN, at : Value \cup {Nil}, res : Seq(STRING)]
        /\ w.at \in Value /\ w.at = NodesOn(json, context)[m]
        /\ \A k \in 1..m : Passed(json, context, k, w.res[k])
    BY DEF Follows
  <1>2. m \in Nat /\ m + 1 \in 1..Len(context) /\ part \in STRING
    BY <1>1
  <1>3. node = processPathPart(w.at, part)
    <2>1. node = processPathPart(NodesOn(json, context)[(m + 1) - 1], context[m + 1])
      BY <1>2, NodesFollow
    <2>2. (m + 1) - 1 = m
      BY <1>2
    <2> QED
      BY <1>1, <2>1, <2>2
  <1>4. node \in Value \cup {Nil}
    BY <1>1, <1>3, PartsAreValues
  <1>5. ASSUME NEW name \in STRING, node # Nil,
               next = [ok |-> TRUE, at |-> node, res |-> Append(w.res, name)],
               Passed(json, context, m + 1, name)
        PROVE  Follows(next, json, context)
    <2> DEFINE res == Append(w.res, name)
    <2>1. /\ res \in Seq(STRING) /\ Len(res) = m + 1
          /\ res[m + 1] = name /\ \A k \in 1..m : res[k] = w.res[k]
      BY <1>1, <1>2
    <2>2. \A k \in 1..(m + 1) : Passed(json, context, k, res[k])
      <3>1. \A k \in 1..(m + 1) : k \in 1..m \/ k = m + 1
        BY <1>2
      <3> QED
        BY <1>1, <1>5, <2>1, <3>1
    <2>3. node \in Value
      BY <1>4, <1>5
    <2>4. /\ next.ok = TRUE /\ next.at = node /\ next.res = res
          /\ next \in [ok : BOOLEAN, at : Value \cup {Nil}, res : Seq(STRING)]
      BY <1>5, <2>1, <2>3
    <2> HIDE DEF next, res, node
    <2>5. Len(next.res) <= Len(context) /\ Len(next.res) = m + 1
      BY <1>2, <2>1, <2>4
    <2>6. next.at = NodesOn(json, context)[Len(next.res)]
      BY <2>4, <2>5 DEF node
    <2> QED
      BY <2>2, <2>3, <2>4, <2>5, <2>6 DEF Follows
  <1>6. ASSUME next = Lost, node # Nil => isNumeric(part) /\ ~HasName(node)
        PROVE  Follows(next, json, context)
    <2>1. ~Nameable(json, context)
      BY <1>2, <1>6 DEF Nameable
    <2> QED
      BY <1>6, <2>1 DEF Follows, Lost
  <1>7. CASE isNumeric(part)
    <2>1. node = processArrayIndex(w.at, part)
      BY <1>3, <1>7 DEF processPathPart
    <2>2. next = handleIndexedKey(w, part)
      BY <1>7 DEF ContextStep
    <2>3. CASE HasName(node)
      <3>1. node # Nil /\ NameOf(node) \in STRING
        BY <2>3 DEF HasName, IsMap, NameOf
      <3>2. next = [ok |-> TRUE, at |-> node, res |-> Append(w.res, NameOf(node))]
        BY <2>1, <2>2, <2>3 DEF handleIndexedKey
      <3>3. Passed(json, context, m + 1, NameOf(node))
        BY <1>7, <2>3, <3>1 DEF Passed
      <3> QED
        BY <1>5, <3>1, <3>2, <3>3
    <2>4. CASE ~HasName(node)
      <3>1. next = Lost
        BY <2>1, <2>2, <2>4 DEF handleIndexedKey
      <3> QED
        BY <1>6, <1>7, <2>4, <3>1
    <2> QED
      BY <2>3, <2>4
  <1>8. CASE ~isNumeric(part)
    <2>1. node = processMapKey(w.at, part)
      BY <1>3, <1>8 DEF processPathPart
    <2>2. next = KeyStep(w, part)
      BY <1>8 DEF ContextStep
    <2>3. CASE IsMap(w.at) /\ part \in DOMAIN w.at.map
      <3>1. node = w.at.map[part] /\ node \in Value
        BY <1>1, <2>1, <2>3, ValidatorAssumption DEF processMapKey
      <3>2. node # Nil
        BY <3>1, ValidatorAssumption
      <3>3. next = [ok |-> TRUE, at |-> node, res |-> Append(w.res, part)]
        BY <2>2, <2>3, <3>1 DEF KeyStep
      <3>4. Passed(json, context, m + 1, part)
        BY <1>8, <3>2 DEF Passed
      <3> QED
        BY <1>2, <1>5, <3>2, <3>3, <3>4
    <2>4. CASE ~(IsMap(w.at) /\ part \in DOMAIN w.at.map)
      <3>1. next = Lost /\ node = Nil
        BY <2>1, <2>2, <2>4 DEF KeyStep, processMapKey
      <3> QED
        BY <1>6, <3>1
    <2> QED
      BY <2>3, <2>4
  <1> QED
    BY <1>7, <1>8

\* At the end of the context its names are written.
LEMMA WalkArrives ==
    ASSUME NEW json, NEW context \in Seq(STRING), NEW w,
           Follows(w, json, context), w.ok, Len(w.res) = Len(context)
    PROVE  Nameable(json, context) /\ w.res = Renamed(json, context)
  <1>1. /\ w.res \in Seq(STRING)
        /\ \A k \in 1..Len(context) : Passed(json, context, k, w.res[k])
    BY DEF Follows
  <1>2. Nameable(json, context)
    BY <1>1 DEF Nameable, Passed
  <1>3. w.res = [k \in 1..Len(context) |-> w.res[k]]
    BY <1>1
  <1>4. Renamed(json, context) = [k \in 1..Len(context) |-> w.res[k]]
    BY <1>1 DEF Renamed, Passed
  <1> QED
    BY <1>2, <1>3, <1>4

-----------------------------------------------------------------------------
(* Counting.                                                                *)

\* How often e is in s.
Count(s, e) == Cardinality({k \in DOMAIN s : s[k] = e})

\* How often e is among the first m of s.
CountTo(s, m, e) == Cardinality({k \in 1..m : s[k] = e})

LEMMA CountsAreNumbers ==
    ASSUME NEW s, NEW m \in Nat, NEW e
    PROVE  /\ IsFiniteSet({k \in 1..m : s[k] = e})
           /\ CountTo(s, m, e) \in Nat
  <1>1. IsFiniteSet(1..m)
    BY FS_Interval
  <1>2. {k \in 1..m : s[k] = e} \in SUBSET (1..m)
    OBVIOUS
  <1>3. IsFiniteSet({k \in 1..m : s[k] = e})
    BY <1>1, <1>2, FS_Subset
  <1> QED
    BY <1>3, FS_CardinalityType DEF CountTo

LEMMA NothingCounted ==
    ASSUME NEW s, NEW e
    PROVE  CountTo(s, 0, e) = 0
  <1>1. {k \in 1..0 : s[k] = e} = {}
    OBVIOUS
  <1> QED
    BY <1>1, FS_EmptySet DEF CountTo

\* The next one counts or not.
LEMMA CountNext ==
    ASSUME NEW s, NEW m \in Nat, NEW e
    PROVE  CountTo(s, m + 1, e) = CountTo(s, m, e) + (IF s[m + 1] = e THEN 1 ELSE 0)
  <1> DEFINE A == {k \in 1..m : s[k] = e}
  <1>1. IsFiniteSet(A) /\ Cardinality(A) \in Nat /\ m + 1 \notin A
    <2>1. IsFiniteSet(A)
      BY CountsAreNumbers, Zenon
    <2>2. m + 1 \notin A
      OBVIOUS
    <2> QED
      BY <2>1, <2>2, FS_CardinalityType
  <1>2. CASE s[m + 1] = e
    <2>1. {k \in 1..(m + 1) : s[k] = e} = A \cup {m + 1}
      BY <1>2
    <2>2. Cardinality(A \cup {m + 1}) = Cardinality(A) + 1
      BY <1>1, FS_AddElement
    <2> QED
      BY <1>2, <2>1, <2>2 DEF CountTo
  <1>3. CASE s[m + 1] # e
    <2>1. {k \in 1..(m + 1) : s[k] = e} = A
      BY <1>3
    <2> QED
      BY <1>1, <1>3, <2>1 DEF CountTo
  <1> QED
    BY <1>2, <1>3

\* Counting depends on what is counted only.
LEMMA CountSame ==
    ASSUME NEW s, NEW t, NEW m \in Nat, NEW e, \A k \in 1..m : s[k] = t[k]
    PROVE  CountTo(s, m, e) = CountTo(t, m, e)
  <1>1. {k \in 1..m : s[k] = e} = {k \in 1..m : t[k] = e}
    OBVIOUS
  <1> QED
    BY <1>1 DEF CountTo

LEMMA CountAll ==
    ASSUME NEW T, NEW s \in Seq(T), NEW e
    PROVE  Count(s, e) = CountTo(s, Len(s), e) /\ Count(s, e) \in Nat
  <1>1. DOMAIN s = 1..Len(s) /\ Len(s) \in Nat
    OBVIOUS
  <1>2. Count(s, e) = CountTo(s, Len(s), e)
    BY <1>1 DEF Count, CountTo
  <1> QED
    BY <1>1, <1>2, CountsAreNumbers

\* One more at the end.
LEMMA CountAppend ==
    ASSUME NEW T, NEW s \in Seq(T), NEW x \in T, NEW e
    PROVE  Count(Append(s, x), e) = Count(s, e) + (IF x = e THEN 1 ELSE 0)
  <1> DEFINE r == Append(s, x)
             m == Len(s)
  <1>1. r \in Seq(T) /\ Len(r) = m + 1 /\ m \in Nat /\ r[m + 1] = x
        /\ \A k \in 1..m : r[k] = s[k]
    OBVIOUS
  <1>2. Count(r, e) = CountTo(r, m + 1, e) /\ Count(s, e) = CountTo(s, m, e)
    BY <1>1, CountAll
  <1>3. CountTo(r, m, e) = CountTo(s, m, e)
    <2> HIDE DEF r
    <2> QED BY <1>1, CountSame
  <1>4. CountTo(r, m + 1, e) = CountTo(r, m, e) + (IF r[m + 1] = e THEN 1 ELSE 0)
    <2>1. m \in Nat
      BY <1>1
    <2> HIDE DEF r, m
    <2> QED
      BY <2>1, CountNext
  <1> QED
    BY <1>1, <1>2, <1>3, <1>4

\* How often e is at the places S of s.
CountIn(S, s, e) == Cardinality({k \in S : s[k] = e})

\* Exchanging places changes no count.
LEMMA CountPermuted ==
    ASSUME NEW S, IsFiniteSet(S), NEW order \in Bijection(S, S), NEW s, NEW t, NEW e,
           \A k \in S : t[k] = s[order[k]]
    PROVE  CountIn(S, t, e) = CountIn(S, s, e)
  <1> DEFINE A == {k \in S : t[k] = e}
             B == {k \in S : s[k] = e}
             f == [k \in A |-> order[k]]
  <1>1. /\ order \in [S -> S]
        /\ \A j, k \in S : order[j] = order[k] => j = k
        /\ \A k \in S : \E j \in S : order[j] = k
    BY DEF Bijection, Injection, Surjection, IsInjective
  <1>2. f \in [A -> B]
    BY <1>1
  <1>3. \A j, k \in A : f[j] = f[k] => j = k
    BY <1>1
  <1>4. \A k \in B : \E j \in A : f[j] = k
    BY <1>1
  <1>5. f \in Bijection(A, B)
    BY <1>2, <1>3, <1>4 DEF Bijection, Injection, Surjection, IsInjective
  <1>6. IsFiniteSet(A)
    <2>1. A \in SUBSET S
      OBVIOUS
    <2> QED
      BY <2>1, FS_Subset
  <1>7. ExistsBijection(A, B)
    BY <1>5 DEF ExistsBijection
  <1> HIDE DEF A, B
  <1>8. Cardinality(B) = Cardinality(A)
    BY <1>6, <1>7, FS_Bijection
  <1> QED
    BY <1>8 DEF A, B, CountIn

-----------------------------------------------------------------------------
(* One turn of each loop that prints.                                       *)

\* An error as ValidationErrors.Errors has it.
Record == [context : Seq(STRING), text : Texts]

LEMMA AppendInOrder ==
    ASSUME NEW T, NEW s \in Seq(T), NEW x \in T, InOrder(s),
           \A k \in DOMAIN s : ~TextBefore(x, s[k])
    PROVE  InOrder(Append(s, x))
  <1>1. /\ DOMAIN s = 1..Len(s) /\ Len(s) \in Nat
        /\ DOMAIN Append(s, x) = 1..(Len(s) + 1)
        /\ Append(s, x)[Len(s) + 1] = x
        /\ \A k \in 1..Len(s) : Append(s, x)[k] = s[k]
    OBVIOUS
  <1>2. SUFFICES ASSUME NEW n \in 1..(Len(s) + 1), NEW m \in 1..(Len(s) + 1), n < m
                 PROVE  ~TextBefore(Append(s, x)[m], Append(s, x)[n])
    BY <1>1 DEF InOrder
  <1>3. n \in 1..Len(s)
    BY <1>1, <1>2
  <1>4. CASE m = Len(s) + 1
    BY <1>1, <1>3, <1>4
  <1>5. CASE m \in 1..Len(s)
    BY <1>1, <1>2, <1>3, <1>5 DEF InOrder
  <1> QED
    BY <1>1, <1>4, <1>5

\* The list of a context after m errors.
IsGroup(texts, c, es, m) ==
    /\ texts \in Seq(Texts)
    /\ Len(texts) <= m
    /\ \A t \in Texts : Count(texts, t) = CountTo(es, m, [context |-> c, text |-> t])
    /\ InOrder(texts)
    /\ \A k \in DOMAIN texts, n \in (m + 1)..Len(es) : ~TextBefore(es[n].text, texts[k])

\* errorsByContext after m errors.
AreGroups(b, es, m) ==
    /\ DOMAIN b = {es[n].context : n \in 1..m}
    /\ \A c \in DOMAIN b : IsGroup(b[c], c, es, m) /\ b[c] # <<>>

\* No error of a context, no text.
LEMMA EmptyGroup ==
    ASSUME NEW es \in Seq(Record), NEW m \in Nat, NEW c,
           \A n \in 1..m : es[n].context # c
    PROVE  IsGroup(<<>>, c, es, m)
  <1>1. ASSUME NEW t \in Texts
        PROVE  Count(<<>>, t) = CountTo(es, m, [context |-> c, text |-> t])
    <2>1. {k \in 1..m : es[k] = [context |-> c, text |-> t]} = {}
      OBVIOUS
    <2>2. {k \in DOMAIN <<>> : <<>>[k] = t} = {}
      OBVIOUS
    <2> QED
      BY <2>1, <2>2 DEF Count, CountTo
  <1>2. InOrder(<<>>)
    BY DEF InOrder
  <1> QED
    BY <1>1, <1>2 DEF IsGroup

LEMMA GroupGrows ==
    ASSUME NEW es \in Seq(Record), InOrder([n \in DOMAIN es |-> es[n].text]),
           NEW m \in Nat, m < Len(es), NEW texts, IsGroup(texts, es[m + 1].context, es, m)
    PROVE  IsGroup(Append(texts, es[m + 1].text), es[m + 1].context, es, m + 1)
  <1> DEFINE c == es[m + 1].context
             x == es[m + 1].text
             r == Append(texts, x)
  <1>1. /\ m + 1 \in 1..Len(es) /\ DOMAIN es = 1..Len(es) /\ Len(es) \in Nat
        /\ es[m + 1] \in Record /\ x \in Texts
    <2>1. m + 1 \in 1..Len(es) /\ DOMAIN es = 1..Len(es) /\ Len(es) \in Nat
      OBVIOUS
    <2>2. es[m + 1] \in Record
      BY <2>1
    <2> QED
      BY <2>1, <2>2 DEF Record
  <1>2. /\ texts \in Seq(Texts) /\ Len(texts) <= m /\ InOrder(texts)
        /\ \A t \in Texts : Count(texts, t) = CountTo(es, m, [context |-> c, text |-> t])
        /\ \A k \in DOMAIN texts, n \in (m + 1)..Len(es) : ~TextBefore(es[n].text, texts[k])
    BY DEF IsGroup
  <1>3. /\ r \in Seq(Texts) /\ Len(r) = Len(texts) + 1 /\ r[Len(texts) + 1] = x
        /\ \A k \in 1..Len(texts) : r[k] = texts[k]
        /\ Len(texts) \in Nat
    BY <1>1, <1>2
  <1>4. InOrder(r)
    <2>1. \A k \in DOMAIN texts : ~TextBefore(x, texts[k])
      BY <1>1, <1>2
    <2> QED
      BY <1>1, <1>2, <2>1, AppendInOrder
  <1>5. ASSUME NEW t \in Texts
        PROVE  Count(r, t) = CountTo(es, m + 1, [context |-> c, text |-> t])
    <2>1. Count(r, t) = Count(texts, t) + (IF x = t THEN 1 ELSE 0)
      BY <1>1, <1>2, CountAppend
    <2>2. CountTo(es, m + 1, [context |-> c, text |-> t])
          = CountTo(es, m, [context |-> c, text |-> t])
            + (IF es[m + 1] = [context |-> c, text |-> t] THEN 1 ELSE 0)
      BY CountNext
    <2>3. es[m + 1] = [context |-> c, text |-> t] <=> x = t
      BY <1>1 DEF Record
    <2>4. Count(texts, t) = CountTo(es, m, [context |-> c, text |-> t])
      BY <1>2
    <2> QED
      BY <2>1, <2>2, <2>3, <2>4
  <1>6. ASSUME NEW k \in DOMAIN r, NEW n \in (m + 2)..Len(es)
        PROVE  ~TextBefore(es[n].text, r[k])
    <2>1. CASE k = Len(texts) + 1
      <3>1. r[k] = es[m + 1].text /\ n \in DOMAIN es /\ m + 1 \in DOMAIN es /\ m + 1 < n
        BY <1>1, <1>3, <2>1
      <3> QED
        BY <3>1 DEF InOrder
    <2>2. CASE k \in 1..Len(texts)
      <3>1. r[k] = texts[k] /\ k \in DOMAIN texts /\ n \in (m + 1)..Len(es)
        BY <1>2, <1>3, <2>2
      <3> QED
        BY <1>2, <3>1
    <2> QED
      BY <1>3, <2>1, <2>2
  <1>7. Len(r) <= m + 1 /\ (m + 1) + 1 = m + 2
    BY <1>2, <1>3
  <1> HIDE DEF r, c, x
  <1>8. IsGroup(r, c, es, m + 1)
    BY <1>3, <1>4, <1>5, <1>6, <1>7 DEF IsGroup
  <1> QED
    BY <1>8 DEF r, c, x

\* An error of another context.
LEMMA GroupStays ==
    ASSUME NEW es \in Seq(Record), NEW m \in Nat, m < Len(es), NEW c, c # es[m + 1].context,
           NEW texts, IsGroup(texts, c, es, m)
    PROVE  IsGroup(texts, c, es, m + 1)
  <1>1. ASSUME NEW t \in Texts
        PROVE  CountTo(es, m + 1, [context |-> c, text |-> t])
               = CountTo(es, m, [context |-> c, text |-> t])
    <2>1. es[m + 1] # [context |-> c, text |-> t]
      OBVIOUS
    <2>2. CountTo(es, m, [context |-> c, text |-> t]) \in Nat
      BY CountsAreNumbers
    <2>3. CountTo(es, m + 1, [context |-> c, text |-> t])
          = CountTo(es, m, [context |-> c, text |-> t])
            + (IF es[m + 1] = [context |-> c, text |-> t] THEN 1 ELSE 0)
      BY CountNext
    <2> QED
      BY <2>1, <2>2, <2>3
  <1>2. Len(texts) <= m + 1
    BY DEF IsGroup
  <1>3. \A n \in (m + 1 + 1)..Len(es) : n \in (m + 1)..Len(es)
    OBVIOUS
  <1> QED
    BY <1>1, <1>2, <1>3 DEF IsGroup

\* errorsByContext with the next error.
Grouped(b, error) ==
    [c \in DOMAIN b \cup {error.context} |->
       IF c = error.context THEN Append(IF c \in DOMAIN b THEN b[c] ELSE <<>>, error.text)
       ELSE b[c]]

LEMMA GroupTurn ==
    ASSUME NEW es \in Seq(Record), InOrder([n \in DOMAIN es |-> es[n].text]),
           NEW m \in Nat, m < Len(es), NEW b, AreGroups(b, es, m)
    PROVE  AreGroups(Grouped(b, es[m + 1]), es, m + 1)
  <1> DEFINE error == es[m + 1]
             next  == Grouped(b, error)
  <1>1. m + 1 \in 1..Len(es) /\ error \in Record
    OBVIOUS
  <1>2. DOMAIN next = {es[n].context : n \in 1..(m + 1)}
    <2>1. 1..(m + 1) = (1..m) \cup {m + 1}
      OBVIOUS
    <2>2. {es[n].context : n \in 1..(m + 1)} = {es[n].context : n \in 1..m} \cup {error.context}
      BY <2>1
    <2> QED
      BY <2>2 DEF Grouped, AreGroups
  <1>3. ASSUME NEW c \in DOMAIN next
        PROVE  IsGroup(next[c], c, es, m + 1) /\ next[c] # <<>>
    <2>1. CASE c = error.context
      <3> DEFINE old == IF c \in DOMAIN b THEN b[c] ELSE <<>>
      <3>1. next[c] = Append(old, error.text)
        BY <1>3, <2>1 DEF Grouped
      <3>2. IsGroup(old, c, es, m)
        <4>1. CASE c \in DOMAIN b
          BY <4>1 DEF AreGroups
        <4>2. CASE c \notin DOMAIN b
          <5>1. \A n \in 1..m : es[n].context # c
            BY <4>2 DEF AreGroups
          <5> QED
            BY <4>2, <5>1, EmptyGroup
        <4> QED
          BY <4>1, <4>2
      <3>3. old \in Seq(Texts) /\ error.text \in Texts
        BY <1>1, <3>2 DEF IsGroup, Record
      <3> HIDE DEF old
      <3>4. IsGroup(Append(old, error.text), c, es, m + 1)
        BY <2>1, <3>2, GroupGrows
      <3>5. Append(old, error.text) # <<>>
        BY <3>3
      <3> QED
        BY <3>1, <3>4, <3>5
    <2>2. CASE c # error.context
      <3>1. c \in DOMAIN b /\ next[c] = b[c]
        BY <1>3, <2>2 DEF Grouped
      <3>2. IsGroup(b[c], c, es, m) /\ b[c] # <<>>
        BY <3>1 DEF AreGroups
      <3> QED
        BY <2>2, <3>1, <3>2, GroupStays
    <2> QED
      BY <2>1, <2>2
  <1> HIDE DEF next
  <1>4. AreGroups(next, es, m + 1)
    BY <1>2, <1>3 DEF AreGroups
  <1> QED
    BY <1>4 DEF next

\* What is printed of a list of texts after m of them.
IsPrinted(texts, list, m) ==
    /\ texts \in Seq(Texts \ OneOf)
    /\ \A t \in Texts \ OneOf : Count(texts, t) = CountTo(list, m, t)
    /\ InOrder(texts)
    /\ \A k \in DOMAIN texts, n \in (m + 1)..Len(list) : ~TextBefore(list[n], texts[k])

LEMMA PrintingBegins ==
    ASSUME NEW list
    PROVE  IsPrinted(<<>>, list, 0)
  <1>1. ASSUME NEW t
        PROVE  Count(<<>>, t) = 0
    <2>1. {k \in DOMAIN <<>> : <<>>[k] = t} = {}
      OBVIOUS
    <2> QED
      BY <2>1, FS_EmptySet DEF Count
  <1>2. InOrder(<<>>)
    BY DEF InOrder
  <1> QED
    BY <1>1, <1>2, NothingCounted DEF IsPrinted

LEMMA PrintingTurn ==
    ASSUME NEW list \in Seq(Texts), InOrder(list), NEW m \in Nat, m < Len(list),
           NEW texts, IsPrinted(texts, list, m)
    PROVE  IsPrinted(IF list[m + 1] \in OneOf THEN texts ELSE Append(texts, list[m + 1]),
                     list, m + 1)
  <1> DEFINE x == list[m + 1]
             r == Append(texts, x)
  <1>1. m + 1 \in 1..Len(list) /\ x \in Texts /\ DOMAIN list = 1..Len(list) /\ Len(list) \in Nat
    OBVIOUS
  <1>2. /\ texts \in Seq(Texts \ OneOf) /\ InOrder(texts)
        /\ \A t \in Texts \ OneOf : Count(texts, t) = CountTo(list, m, t)
        /\ \A k \in DOMAIN texts, n \in (m + 1)..Len(list) : ~TextBefore(list[n], texts[k])
    BY DEF IsPrinted
  <1>3. \A n \in (m + 1 + 1)..Len(list) : n \in (m + 1)..Len(list)
    OBVIOUS
  <1>4. ASSUME NEW t \in Texts \ OneOf
        PROVE  /\ CountTo(list, m + 1, t) = CountTo(list, m, t) + (IF x = t THEN 1 ELSE 0)
               /\ CountTo(list, m, t) \in Nat
    BY CountNext, CountsAreNumbers
  <1>5. CASE x \in OneOf
    <2>1. \A t \in Texts \ OneOf : CountTo(list, m + 1, t) = CountTo(list, m, t)
      BY <1>4, <1>5
    <2>2. IsPrinted(texts, list, m + 1)
      BY <1>2, <1>3, <2>1 DEF IsPrinted
    <2> QED
      BY <1>5, <2>2
  <1>6. CASE x \notin OneOf
    <2>1. x \in Texts \ OneOf
      BY <1>1, <1>6
    <2>2. /\ r \in Seq(Texts \ OneOf) /\ Len(r) = Len(texts) + 1 /\ r[Len(texts) + 1] = x
          /\ \A k \in 1..Len(texts) : r[k] = texts[k]
          /\ Len(texts) \in Nat
      BY <1>2, <2>1
    <2>3. InOrder(r)
      <3>1. \A k \in DOMAIN texts : ~TextBefore(x, texts[k])
        BY <1>1, <1>2
      <3> QED
        BY <1>2, <2>1, <3>1, AppendInOrder
    <2>4. ASSUME NEW t \in Texts \ OneOf
          PROVE  Count(r, t) = CountTo(list, m + 1, t)
      <3>1. Count(r, t) = Count(texts, t) + (IF x = t THEN 1 ELSE 0)
        BY <1>2, <2>1, CountAppend
      <3> QED
        BY <1>2, <1>4, <3>1
    <2>5. ASSUME NEW k \in DOMAIN r, NEW n \in (m + 1 + 1)..Len(list)
          PROVE  ~TextBefore(list[n], r[k])
      <3>1. CASE k = Len(texts) + 1
        <4>1. r[k] = list[m + 1] /\ n \in DOMAIN list /\ m + 1 \in DOMAIN list /\ m + 1 < n
          BY <1>1, <2>2, <3>1
        <4> QED
          BY <4>1 DEF InOrder
      <3>2. CASE k \in 1..Len(texts)
        <4>1. r[k] = texts[k] /\ k \in DOMAIN texts /\ n \in (m + 1)..Len(list)
          BY <1>2, <2>2, <3>2
        <4> QED
          BY <1>2, <4>1
      <3> QED
        BY <2>2, <3>1, <3>2
    <2> HIDE DEF r
    <2>6. IsPrinted(r, list, m + 1)
      BY <2>2, <2>3, <2>4, <2>5 DEF IsPrinted
    <2> QED
      BY <1>6, <2>6 DEF r
  <1> QED
    BY <1>5, <1>6

-----------------------------------------------------------------------------
(* The invariant.                                                           *)

\* What each variable holds.
Typed ==
    /\ config \in Configs
    /\ reply \in Seq(VError(config)) /\ Len(reply) <= MaxErrors
    /\ verrs \in Seq(Record)
    /\ pc \in {"ask", "name", "sort", "group", "render", "ended"}
    /\ turn \in Nat
    /\ walk \in [ok : BOOLEAN, at : Value \cup {Nil}, res : Seq(STRING)]
    /\ lines \in Seq([context : DOMAIN byContext, texts : Seq(Texts \ OneOf)])
    /\ err \in BOOLEAN

\* Error() has sorted the errors.
Rendering == pc \in {"group", "render"} \/ (pc = "ended" /\ lines # <<>>)

\* What is not yet there, and how far a loop can be.
Progress ==
    /\ pc = "ask" => verrs = <<>> /\ walk = Walk(config)
    /\ ~Rendering => DOMAIN byContext = {}
    /\ pc \in {"ask", "name", "sort", "group"} => lines = <<>>
    /\ Len(verrs) \in {0, Len(reply)}
    /\ pc \in {"name", "sort"} \/ Rendering => Len(verrs) = Len(reply)
    /\ pc \in {"ask", "sort", "ended"} => turn = 0
    /\ pc \in {"name", "group"} => turn <= Len(verrs)
    /\ pc = "render" =>
          turn <= IF lines = <<>> THEN 0 ELSE Len(byContext[lines[Len(lines)].context])

\* The walk belongs to the error whose turn it is.
Walking ==
    pc = "name" /\ turn < Len(verrs) =>
        Follows(walk, config, WithoutRoot(reply[turn + 1].context))

\* The errors are the library's, in their places and in another order.
Permuted ==
    Rendering =>
        /\ \E order \in Bijection(DOMAIN reply, DOMAIN reply) :
              \A n \in DOMAIN reply : verrs[n] = Placed(reply[order[n]])
        /\ InOrder([n \in DOMAIN verrs |-> verrs[n].text])

Grouping ==
    Rendering => AreGroups(byContext, verrs, IF pc = "group" THEN turn ELSE Len(verrs))

\* How much of the list of its context has gone into a line.
PrintedTo(n) ==
    IF pc = "render" /\ n = Len(lines) THEN turn ELSE Len(byContext[lines[n].context])

Printing ==
    /\ \A m, n \in DOMAIN lines : lines[m].context = lines[n].context => m = n
    /\ \A n \in DOMAIN lines :
          IsPrinted(lines[n].texts, byContext[lines[n].context], PrintedTo(n))
    /\ pc = "ended" => Rendered = DOMAIN byContext

Inv ==
    /\ Typed
    /\ Progress
    /\ ContextsAreNamed
    /\ Walking
    /\ Permuted
    /\ Grouping
    /\ Printing

-----------------------------------------------------------------------------
(* The steps.                                                               *)

\* The library's errors are errors, and what follows "(root)." is a context.
LEMMA RepliesAreRecords ==
    ASSUME NEW c \in Configs
    PROVE  VError(c) \subseteq Record
  BY ValidatorAssumption DEF VError, Record

LEMMA WithoutRootType ==
    ASSUME NEW context \in Seq(STRING)
    PROVE  WithoutRoot(context) \in Seq(STRING)
  <1>1. Len(context) > 1 => context # <<>>
    OBVIOUS
  <1>2. context # <<>> => Tail(context) \in Seq(STRING)
    OBVIOUS
  <1> QED
    BY <1>1, <1>2 DEF WithoutRoot

LEMMA BoundedSeqs ==
    ASSUME NEW S, NEW m \in Nat, NEW s
    PROVE  s \in BoundedSeq(S, m) <=> s \in Seq(S) /\ Len(s) <= m
  <1>1. ASSUME s \in BoundedSeq(S, m)
        PROVE  s \in Seq(S) /\ Len(s) <= m
    <2>1. PICK k \in 0..m : s \in [1..k -> S]
      BY <1>1 DEF BoundedSeq, SeqOf
    <2>2. k \in Nat
      OBVIOUS
    <2>3. s \in Seq(S) /\ Len(s) = k
      BY <2>1, <2>2
    <2> QED
      BY <2>3
  <1>2. ASSUME s \in Seq(S), Len(s) <= m
        PROVE  s \in BoundedSeq(S, m)
    <2>1. Len(s) \in 0..m /\ s \in [1..Len(s) -> S]
      BY <1>2
    <2> QED
      BY <2>1 DEF BoundedSeq, SeqOf
  <1> QED
    BY <1>1, <1>2

LEMMA InvInit == Init => Inv
  <1> SUFFICES ASSUME Init
               PROVE  Inv
    OBVIOUS
  <1> USE DEF Init
  <1>1. Typed
    <2>1. walk \in [ok : BOOLEAN, at : Value \cup {Nil}, res : Seq(STRING)]
      BY ValidatorAssumption DEF Walk
    <2>2. reply \in Seq(VError(config)) /\ Len(reply) <= MaxErrors
      BY ValidatorAssumption
    <2>3. verrs \in Seq(Record) /\ lines \in Seq([context : DOMAIN byContext, texts : Seq(Texts \ OneOf)])
      <3> HIDE DEF Record
      <3>1. verrs = <<>> /\ lines = <<>>
        OBVIOUS
      <3> QED
        BY <3>1
    <2> QED
      BY <2>1, <2>2, <2>3 DEF Typed
  <1>2. Progress /\ ContextsAreNamed /\ Walking /\ Permuted /\ Grouping /\ Printing
    BY DEF Progress, Rendering, ContextsAreNamed, Walking, Permuted, Grouping, Printing
  <1> QED
    BY <1>1, <1>2 DEF Inv

LEMMA InvAsk == Inv /\ Ask => Inv'
  <1> SUFFICES ASSUME Inv, Ask
               PROVE  Inv'
    OBVIOUS
  <1>1. Typed /\ Progress
    BY DEF Inv
  <1>2. PICK errors \in BoundedSeq(VError(config), MaxErrors), valid \in BOOLEAN, failed \in BOOLEAN :
          /\ reply' = errors
          /\ IF valid /\ ~failed /\ errors = <<>>
             THEN Goto("ended") /\ UNCHANGED <<verrs, err>>
             ELSE \/ verrs' = errors /\ Goto("name") /\ UNCHANGED err
                  \/ Goto("ended") /\ err' = TRUE /\ UNCHANGED verrs
    BY DEF Ask
  <1>3. /\ pc = "ask" /\ verrs = <<>> /\ walk = Walk(config)
        /\ DOMAIN byContext = {} /\ lines = <<>> /\ config \in Configs
        /\ UNCHANGED <<config, walk, byContext, lines>>
    BY <1>1 DEF Ask, Progress, Typed, Rendering
  <1>4. errors \in Seq(VError(config)) /\ Len(errors) <= MaxErrors /\ errors \in Seq(Record)
    <2>1. errors \in Seq(VError(config)) /\ Len(errors) <= MaxErrors
      BY <1>2, ValidatorAssumption, BoundedSeqs
    <2> QED
      BY <1>3, <2>1, RepliesAreRecords
  <1>5. turn' = 0
    BY <1>2 DEF Goto
  <1>6. \/ pc' = "ended" /\ verrs' = <<>> /\ err' \in BOOLEAN
        \/ pc' = "name" /\ verrs' = errors /\ err' \in BOOLEAN
    BY <1>1, <1>2, <1>3 DEF Goto, Typed
  <1>7. Typed'
    BY <1>1, <1>2, <1>3, <1>4, <1>5, <1>6 DEF Typed
  <1>8. Progress'
    BY <1>2, <1>3, <1>5, <1>6 DEF Progress, Rendering
  <1>9. ContextsAreNamed'
    BY <1>2, <1>3, <1>4, <1>5, <1>6 DEF ContextsAreNamed
  <1>10. Walking'
    <2> SUFFICES ASSUME pc' = "name", 0 < Len(errors)
                 PROVE  Follows(walk', config', WithoutRoot(reply'[0 + 1].context))
      BY <1>2, <1>5, <1>6 DEF Walking
    <2>1. errors[1] \in Record
      BY <1>4
    <2>2. WithoutRoot(errors[1].context) \in Seq(STRING)
      BY <2>1, WithoutRootType DEF Record
    <2>3. Follows(Walk(config), config, WithoutRoot(errors[1].context))
      BY <1>3, <2>2, ValidatorAssumption, WalkBegins
    <2> QED
      BY <1>2, <1>3, <2>3
  <1>11. Permuted' /\ Grouping'
    BY <1>3, <1>6 DEF Permuted, Grouping, Rendering
  <1>12. Printing'
    BY <1>3, <1>6 DEF Printing, Rendered
  <1> QED
    BY <1>7, <1>8, <1>9, <1>10, <1>11, <1>12 DEF Inv

\* The error whose turn it is, as the library gave it.
LEMMA ErrorToName ==
    ASSUME Inv, Naming
    PROVE  /\ turn + 1 \in DOMAIN verrs /\ turn + 1 \in DOMAIN reply
           /\ DOMAIN verrs = DOMAIN reply /\ DOMAIN verrs = 1..Len(verrs)
           /\ verrs[turn + 1] = reply[turn + 1] /\ reply[turn + 1] \in Record
           /\ Context = WithoutRoot(reply[turn + 1].context)
           /\ Context \in Seq(STRING)
           /\ config \in Value
           /\ Follows(walk, config, Context)
  <1>1. Typed /\ Progress /\ ContextsAreNamed /\ Walking
    BY DEF Inv
  <1>2. /\ turn + 1 \in DOMAIN verrs /\ turn + 1 \in DOMAIN reply
        /\ DOMAIN verrs = DOMAIN reply /\ DOMAIN verrs = 1..Len(verrs)
    BY <1>1 DEF Naming, Typed, Progress
  <1>3. turn + 1 > turn
    BY <1>1 DEF Typed
  <1>4. verrs[turn + 1] = reply[turn + 1]
    BY <1>1, <1>2, <1>3 DEF ContextsAreNamed, Naming
  <1>5. reply[turn + 1] \in Record
    BY <1>1, <1>2, <1>4 DEF Typed
  <1>6. Context = WithoutRoot(reply[turn + 1].context)
    BY <1>4 DEF Context
  <1>7. Context \in Seq(STRING)
    BY <1>5, <1>6, WithoutRootType DEF Record
  <1>8. config \in Value
    BY <1>1, ValidatorAssumption DEF Typed
  <1>9. Follows(walk, config, Context)
    BY <1>1, <1>6 DEF Walking, Naming
  <1> QED
    BY <1>2, <1>4, <1>5, <1>6, <1>7, <1>8, <1>9

LEMMA InvWalk == Inv /\ jsonToConfigContext => Inv'
  <1> SUFFICES ASSUME Inv, jsonToConfigContext
               PROVE  Inv'
    OBVIOUS
  <1>1. /\ Naming /\ walk.ok /\ Len(walk.res) < Len(Context)
        /\ walk' = ContextStep(walk, Context[Len(walk.res) + 1])
        /\ UNCHANGED <<config, reply, verrs, pc, turn, byContext, lines, err>>
    BY DEF jsonToConfigContext
  <1>2. pc = "name" /\ turn < Len(verrs)
    BY <1>1 DEF Naming
  <1>3. Follows(walk', config, Context)
    BY <1>1, ErrorToName, WalkGoesOn
  <1>4. Typed'
    BY <1>1, <1>3 DEF Inv, Typed, Follows
  <1>5. Progress'
    BY <1>1, <1>2 DEF Inv, Progress, Rendering
  <1>6. ContextsAreNamed'
    BY <1>1 DEF Inv, ContextsAreNamed, Placed, Place
  <1>7. Walking'
    BY <1>1, <1>3, ErrorToName DEF Walking
  <1>8. Permuted' /\ Grouping'
    BY <1>1, <1>2 DEF Permuted, Grouping, Rendering
  <1>9. Printing'
    <2>1. lines' = <<>> /\ pc' = "name"
      BY <1>1, <1>2 DEF Inv, Progress
    <2> QED
      BY <2>1 DEF Printing
  <1> QED
    BY <1>4, <1>5, <1>6, <1>7, <1>8, <1>9 DEF Inv

LEMMA InvName == Inv /\ NameContext => Inv'
  <1> SUFFICES ASSUME Inv, NameContext
               PROVE  Inv'
    OBVIOUS
  <1> DEFINE error == reply[turn + 1]
  <1>1. /\ Naming /\ turn' = turn + 1 /\ walk' = Walk(config)
        /\ UNCHANGED <<config, reply, pc, byContext, lines, err>>
        /\ \/ ~walk.ok /\ verrs' = verrs
           \/ /\ walk.ok /\ Len(walk.res) = Len(Context)
              /\ verrs' = [verrs EXCEPT ![turn + 1].context = walk.res]
    BY DEF NameContext
  <1>2. /\ pc = "name" /\ turn < Len(verrs) /\ turn \in Nat
        /\ Typed /\ Progress /\ ContextsAreNamed /\ lines = <<>>
    BY <1>1 DEF Naming, Inv, Typed, Progress
  <1>3. /\ turn + 1 \in DOMAIN verrs /\ DOMAIN verrs = DOMAIN reply
        /\ DOMAIN verrs = 1..Len(verrs)
        /\ verrs[turn + 1] = error /\ error \in Record
        /\ Context = WithoutRoot(error.context) /\ Context \in Seq(STRING)
        /\ Follows(walk, config, Context)
    BY <1>1, ErrorToName
  <1> HIDE DEF error
  <1>4. verrs' = [verrs EXCEPT ![turn + 1] = Placed(error)]
    <2>1. CASE ~walk.ok
      <3>1. ~Nameable(config, Context)
        BY <1>3, <2>1 DEF Follows
      <3>2. Placed(error) = error
        BY <1>3, <3>1 DEF Placed, Place, Record
      <3>3. verrs' = verrs
        BY <1>1, <2>1
      <3> QED
        BY <1>2, <1>3, <3>2, <3>3 DEF Typed
    <2>2. CASE walk.ok
      <3>1. /\ Len(walk.res) = Len(Context)
            /\ verrs' = [verrs EXCEPT ![turn + 1].context = walk.res]
        BY <1>1, <2>2
      <3>2. Nameable(config, Context) /\ walk.res = Renamed(config, Context)
        BY <1>3, <2>2, <3>1, WalkArrives
      <3>3. Placed(error) = [context |-> walk.res, text |-> error.text]
        BY <1>3, <3>2 DEF Placed, Place
      <3>4. [error EXCEPT !.context = walk.res] = [context |-> walk.res, text |-> error.text]
        BY <1>3 DEF Record
      <3> QED
        BY <1>3, <3>1, <3>3, <3>4
    <2> QED
      BY <2>1, <2>2
  <1>5. Placed(error) \in Record
    <2>1. CASE ~walk.ok
      <3>1. ~Nameable(config, Context)
        BY <1>3, <2>1 DEF Follows
      <3> QED
        BY <1>3, <3>1 DEF Placed, Place, Record
    <2>2. CASE walk.ok
      <3>1. Nameable(config, Context) /\ walk.res = Renamed(config, Context)
        BY <1>1, <1>3, <2>2, WalkArrives
      <3>2. walk.res \in Seq(STRING) /\ error.text \in Texts
        BY <1>2, <1>3 DEF Typed, Record
      <3> QED
        BY <1>3, <3>1, <3>2 DEF Placed, Place, Record
    <2> QED
      BY <2>1, <2>2
  <1>6. /\ verrs' \in Seq(Record) /\ Len(verrs') = Len(verrs)
        /\ DOMAIN verrs' = DOMAIN verrs /\ verrs'[turn + 1] = Placed(error)
        /\ \A n \in DOMAIN verrs : n # turn + 1 => verrs'[n] = verrs[n]
    <2>1. verrs \in Seq(Record)
      BY <1>2 DEF Typed
    <2> HIDE DEF Record, Placed
    <2> QED
      BY <1>3, <1>4, <1>5, <2>1
  <1>7. Typed'
    <2>1. walk' \in [ok : BOOLEAN, at : Value \cup {Nil}, res : Seq(STRING)]
      BY <1>1, <1>2, ValidatorAssumption DEF Walk, Typed
    <2> QED
      BY <1>1, <1>2, <1>6, <2>1 DEF Typed
  <1>8. Progress'
    BY <1>1, <1>2, <1>6 DEF Progress, Rendering
  <1>9. ContextsAreNamed'
    <2> SUFFICES ASSUME NEW n \in DOMAIN verrs
                 PROVE  verrs'[n] = IF n > turn + 1 THEN reply[n] ELSE Placed(reply[n])
      BY <1>1, <1>2, <1>6 DEF ContextsAreNamed, Placed, Place
    <2>1. CASE n = turn + 1
      BY <1>2, <1>6, <2>1 DEF error
    <2>2. CASE n # turn + 1
      <3>1. n > turn <=> n > turn + 1
        BY <1>2, <1>3, <2>2
      <3>2. verrs[n] = IF n > turn THEN reply[n] ELSE Placed(reply[n])
        BY <1>2 DEF ContextsAreNamed
      <3> QED
        BY <1>6, <2>2, <3>1, <3>2
    <2> QED
      BY <2>1, <2>2
  <1>10. Walking'
    <2> SUFFICES ASSUME turn + 1 < Len(verrs)
                 PROVE  Follows(Walk(config), config, WithoutRoot(reply[turn + 1 + 1].context))
      BY <1>1, <1>6 DEF Walking
    <2>1. turn + 1 + 1 \in DOMAIN verrs /\ turn + 1 + 1 > turn
      BY <1>2, <1>3
    <2>2. reply[turn + 1 + 1] = verrs[turn + 1 + 1] /\ verrs[turn + 1 + 1] \in Record
      BY <1>2, <2>1 DEF ContextsAreNamed, Typed
    <2>3. WithoutRoot(reply[turn + 1 + 1].context) \in Seq(STRING)
      BY <2>2, WithoutRootType DEF Record
    <2>4. config \in Value
      BY <1>2, ValidatorAssumption DEF Typed
    <2> QED
      BY <2>3, <2>4, WalkBegins
  <1>11. Permuted' /\ Grouping'
    BY <1>1, <1>2 DEF Permuted, Grouping, Rendering
  <1>12. Printing'
    BY <1>1, <1>2 DEF Printing
  <1> QED
    BY <1>7, <1>8, <1>9, <1>10, <1>11, <1>12 DEF Inv

LEMMA InvReturn == Inv /\ Return => Inv'
  <1> SUFFICES ASSUME Inv, Return
               PROVE  Inv'
    OBVIOUS
  <1>1. /\ pc = "name" /\ turn = Len(verrs) /\ turn' = 0 /\ err' = TRUE
        /\ pc' = IF verrs = <<>> THEN "ended" ELSE "sort"
        /\ UNCHANGED <<config, reply, verrs, walk, byContext, lines>>
    BY DEF Return, Goto
  <1>2. /\ Typed /\ Progress /\ ContextsAreNamed /\ lines = <<>>
        /\ DOMAIN byContext = {}
    BY <1>1 DEF Inv, Progress, Rendering
  <1>3. Typed'
    BY <1>1, <1>2 DEF Typed
  <1>4. Progress'
    BY <1>1, <1>2 DEF Progress, Rendering
  <1>5. ContextsAreNamed'
    <2> SUFFICES ASSUME NEW n \in DOMAIN verrs
                 PROVE  verrs[n] = Placed(reply[n])
      BY <1>1 DEF ContextsAreNamed, Placed, Place
    <2>1. ~(n > turn)
      BY <1>1, <1>2 DEF Typed
    <2> QED
      BY <1>1, <1>2, <2>1 DEF ContextsAreNamed
  <1>6. Walking' /\ Permuted' /\ Grouping'
    BY <1>1, <1>2 DEF Walking, Permuted, Grouping, Rendering
  <1>7. Printing'
    BY <1>1, <1>2 DEF Printing, Rendered
  <1> QED
    BY <1>3, <1>4, <1>5, <1>6, <1>7 DEF Inv

LEMMA InvSort == Inv /\ Sort => Inv'
  <1> SUFFICES ASSUME Inv, Sort
               PROVE  Inv'
    OBVIOUS
  <1>1. PICK order \in Bijection(DOMAIN verrs, DOMAIN verrs) :
          verrs' = [n \in DOMAIN verrs |-> verrs[order[n]]]
    BY DEF Sort
  <1>2. /\ pc = "sort" /\ InOrder([n \in DOMAIN verrs |-> verrs'[n].text])
        /\ pc' = "group" /\ turn' = 0
        /\ UNCHANGED <<config, reply, walk, byContext, lines, err>>
    BY DEF Sort, Goto
  <1>3. /\ Typed /\ Progress /\ ContextsAreNamed
        /\ lines = <<>> /\ DOMAIN byContext = {} /\ Len(verrs) = Len(reply)
    BY <1>2 DEF Inv, Progress, Rendering
  <1>4. DOMAIN verrs = 1..Len(verrs) /\ DOMAIN reply = DOMAIN verrs /\ Len(verrs) \in Nat
    BY <1>3 DEF Typed
  <1>5. \A n \in DOMAIN verrs : order[n] \in DOMAIN verrs
    BY DEF Bijection, Injection
  <1>6. verrs' \in Seq(Record) /\ Len(verrs') = Len(verrs) /\ DOMAIN verrs' = DOMAIN verrs
    <2>1. verrs \in Seq(Record)
      BY <1>3 DEF Typed
    <2> HIDE DEF Record
    <2>2. \A n \in DOMAIN verrs : verrs[order[n]] \in Record
      BY <1>5, <2>1
    <2>3. verrs' \in [1..Len(verrs) -> Record]
      BY <1>1, <1>4, <2>2
    <2> QED
      BY <1>4, <2>3
  <1>7. Typed'
    BY <1>2, <1>3, <1>6 DEF Typed
  <1>8. Progress'
    BY <1>2, <1>3, <1>6 DEF Progress, Rendering
  <1>9. ContextsAreNamed' /\ Walking'
    BY <1>2 DEF ContextsAreNamed, Walking
  <1>10. Permuted'
    <2>1. \A n \in DOMAIN reply : verrs'[n] = Placed(reply[order[n]])'
      BY <1>1, <1>2, <1>3, <1>4, <1>5 DEF ContextsAreNamed, Placed, Place
    <2>2. order \in Bijection(DOMAIN reply, DOMAIN reply)
      BY <1>4
    <2>3. InOrder([n \in DOMAIN verrs' |-> verrs'[n].text])
      BY <1>2, <1>6
    <2> QED
      BY <1>2, <2>1, <2>2, <2>3 DEF Permuted
  <1>11. Grouping'
    <2>1. {verrs'[n].context : n \in 1..0} = {}
      OBVIOUS
    <2> QED
      BY <1>2, <1>3, <2>1 DEF Grouping, AreGroups
  <1>12. Printing'
    BY <1>2, <1>3 DEF Printing
  <1> QED
    BY <1>7, <1>8, <1>9, <1>10, <1>11, <1>12 DEF Inv

\* What the loops that print leave alone.
LEMMA PermutedStays ==
    ASSUME Permuted, Rendering, UNCHANGED <<config, reply, verrs>>
    PROVE  Permuted'
  <1>1. PICK order \in Bijection(DOMAIN reply, DOMAIN reply) :
          \A n \in DOMAIN reply : verrs[n] = Placed(reply[order[n]])
    BY DEF Permuted
  <1>2. \A n \in DOMAIN reply : verrs'[n] = Placed(reply[order[n]])'
    BY <1>1 DEF Placed, Place
  <1>3. InOrder([n \in DOMAIN verrs' |-> verrs'[n].text])
    BY DEF Permuted
  <1> QED
    BY <1>2, <1>3 DEF Permuted

LEMMA InvGroup == Inv /\ GroupError => Inv'
  <1> SUFFICES ASSUME Inv, GroupError
               PROVE  Inv'
    OBVIOUS
  <1>1. /\ pc = "group" /\ turn < Len(verrs) /\ turn' = turn + 1
        /\ byContext' = Grouped(byContext, verrs[turn + 1])
        /\ UNCHANGED <<config, reply, verrs, pc, walk, lines, err>>
    BY DEF GroupError, Grouped, ErrorsOf
  <1>2. Rendering /\ Rendering'
    BY <1>1 DEF Rendering
  <1>3. /\ Typed /\ Progress /\ Permuted
        /\ lines = <<>> /\ Len(verrs) = Len(reply) /\ turn \in Nat
    BY <1>1, <1>2 DEF Inv, Progress, Typed
  <1>4. /\ AreGroups(byContext, verrs, turn)
        /\ InOrder([n \in DOMAIN verrs |-> verrs[n].text]) /\ verrs \in Seq(Record)
    BY <1>1, <1>2, <1>3 DEF Inv, Grouping, Permuted, Typed
  <1>5. AreGroups(byContext', verrs, turn + 1)
    BY <1>1, <1>3, <1>4, GroupTurn
  <1>6. Typed'
    BY <1>1, <1>3 DEF Typed
  <1>7. Progress'
    BY <1>1, <1>2, <1>3 DEF Progress, Typed
  <1>8. ContextsAreNamed' /\ Walking'
    BY <1>1 DEF ContextsAreNamed, Walking
  <1>9. Permuted'
    BY <1>1, <1>2, <1>3, PermutedStays
  <1>10. Grouping'
    BY <1>1, <1>5 DEF Grouping
  <1>11. Printing'
    BY <1>1, <1>3 DEF Printing
  <1> QED
    BY <1>6, <1>7, <1>8, <1>9, <1>10, <1>11 DEF Inv

LEMMA InvGroupEnds == Inv /\ GroupEnds => Inv'
  <1> SUFFICES ASSUME Inv, GroupEnds
               PROVE  Inv'
    OBVIOUS
  <1>1. /\ pc = "group" /\ turn = Len(verrs) /\ turn' = 0 /\ pc' = "render"
        /\ UNCHANGED <<config, reply, verrs, walk, byContext, lines, err>>
    BY DEF GroupEnds, Goto
  <1>2. Rendering /\ Rendering'
    BY <1>1 DEF Rendering
  <1>3. /\ Typed /\ Progress /\ Permuted
        /\ lines = <<>> /\ Len(verrs) = Len(reply)
    BY <1>1, <1>2 DEF Inv, Progress
  <1>4. Typed'
    BY <1>1, <1>3 DEF Typed
  <1>5. Progress'
    BY <1>1, <1>2, <1>3 DEF Progress
  <1>6. ContextsAreNamed' /\ Walking'
    BY <1>1 DEF ContextsAreNamed, Walking
  <1>7. Permuted'
    BY <1>1, <1>2, <1>3, PermutedStays
  <1>8. Grouping'
    BY <1>1, <1>2 DEF Inv, Grouping
  <1>9. Printing'
    BY <1>1, <1>3 DEF Printing
  <1> QED
    BY <1>4, <1>5, <1>6, <1>7, <1>8, <1>9 DEF Inv

\* The list of a context, in the loops that print.
LEMMA ListsToPrint ==
    ASSUME Inv, pc = "render", NEW c \in DOMAIN byContext
    PROVE  /\ byContext[c] \in Seq(Texts) /\ byContext[c] # <<>>
           /\ Len(byContext[c]) <= Len(verrs)
           /\ InOrder(byContext[c])
  BY DEF Inv, Grouping, Rendering, AreGroups, IsGroup

\* A list that has been printed is whole.
LEMMA DoneIsPrinted ==
    ASSUME Inv, pc = "render", ContextDone, NEW n \in DOMAIN lines
    PROVE  PrintedTo(n) = Len(byContext[lines[n].context])
  BY DEF PrintedTo, ContextDone

LEMMA InvRenderContext == Inv /\ RenderContext => Inv'
  <1> SUFFICES ASSUME Inv, RenderContext
               PROVE  Inv'
    OBVIOUS
  <1>1. PICK c \in DOMAIN byContext \ Rendered :
          lines' = Append(lines, [context |-> c, texts |-> <<>>])
    BY DEF RenderContext
  <1>2. /\ pc = "render" /\ ContextDone /\ turn' = 0
        /\ UNCHANGED <<config, reply, verrs, pc, walk, byContext, err>>
    BY DEF RenderContext
  <1>3. Rendering /\ Rendering'
    BY <1>2 DEF Rendering
  <1>4. Typed /\ Progress /\ Permuted /\ Grouping /\ Printing
    BY DEF Inv
  <1> DEFINE Line == [context : DOMAIN byContext, texts : Seq(Texts \ OneOf)]
             line == [context |-> c, texts |-> <<>>]
  <1>5. lines \in Seq(Line) /\ line \in Line
    BY <1>4 DEF Typed
  <1>6. line.context = c /\ line.texts = <<>>
    OBVIOUS
  <1>7. /\ lines' \in Seq(Line) /\ Len(lines') = Len(lines) + 1 /\ Len(lines) \in Nat
        /\ DOMAIN lines = 1..Len(lines) /\ DOMAIN lines' = 1..(Len(lines) + 1)
        /\ lines'[Len(lines) + 1] = line
        /\ \A n \in 1..Len(lines) : lines'[n] = lines[n]
    <2> HIDE DEF Line
    <2> QED
      BY <1>1, <1>5
  <1>8. lines' # <<>> /\ lines'[Len(lines')] = line
    BY <1>7
  <1> HIDE DEF line
  <1>9. Typed'
    BY <1>2, <1>4, <1>7 DEF Typed
  <1>10. Progress'
    <2>1. 0 <= Len(byContext[c])
      BY <1>2, ListsToPrint
    <2> QED
      BY <1>2, <1>3, <1>4, <1>6, <1>8, <2>1 DEF Progress
  <1>11. ContextsAreNamed' /\ Walking'
    BY <1>2 DEF ContextsAreNamed, Walking
  <1>12. Permuted'
    BY <1>2, <1>3, <1>4, PermutedStays
  <1>13. Grouping'
    BY <1>2, <1>3, <1>4 DEF Grouping
  <1>14. \A m, n \in DOMAIN lines' : lines'[m].context = lines'[n].context => m = n
    <2>1. \A n \in 1..Len(lines) : lines[n].context # c
      BY <1>1, <1>7 DEF Rendered
    <2>2. \A n \in DOMAIN lines' : n \in 1..Len(lines) \/ n = Len(lines) + 1
      BY <1>7
    <2> QED
      BY <1>4, <1>6, <1>7, <2>1, <2>2 DEF Printing
  <1>15. ASSUME NEW n \in DOMAIN lines'
         PROVE  IsPrinted(lines'[n].texts, byContext'[lines'[n].context], PrintedTo(n)')
    <2>1. CASE n = Len(lines) + 1
      <3>1. PrintedTo(n)' = 0
        BY <1>2, <1>7, <2>1 DEF PrintedTo
      <3> QED
        BY <1>6, <1>7, <2>1, <3>1, PrintingBegins
    <2>2. CASE n \in 1..Len(lines)
      <3>1. lines'[n] = lines[n] /\ n # Len(lines')
        BY <1>7, <2>2
      <3>2. PrintedTo(n)' = Len(byContext[lines[n].context])
        BY <1>2, <3>1 DEF PrintedTo
      <3>3. PrintedTo(n)' = PrintedTo(n)
        BY <1>2, <1>7, <2>2, <3>2, DoneIsPrinted
      <3> QED
        BY <1>2, <1>4, <1>7, <2>2, <3>1, <3>3 DEF Printing
    <2> QED
      BY <1>7, <2>1, <2>2
  <1>16. Printing'
    BY <1>2, <1>14, <1>15 DEF Printing
  <1> QED
    BY <1>9, <1>10, <1>11, <1>12, <1>13, <1>16 DEF Inv

LEMMA InvRenderError == Inv /\ RenderError => Inv'
  <1> SUFFICES ASSUME Inv, RenderError
               PROVE  Inv'
    OBVIOUS
  <1> DEFINE last == Len(lines)
             c    == lines[last].context
             list == byContext[c]
             text == list[turn + 1]
             old  == lines[last].texts
             new  == IF text \in OneOf THEN old ELSE Append(old, text)
  <1>1. /\ pc = "render" /\ ~ContextDone /\ turn' = turn + 1
        /\ lines' = IF text \in OneOf THEN lines
                    ELSE [lines EXCEPT ![last].texts = Append(@, text)]
        /\ UNCHANGED <<config, reply, verrs, pc, walk, byContext, err>>
    BY DEF RenderError
  <1>2. Rendering /\ Rendering'
    BY <1>1 DEF Rendering
  <1>3. Typed /\ Progress /\ Permuted /\ Grouping /\ Printing
    BY DEF Inv
  <1> DEFINE Line == [context : DOMAIN byContext, texts : Seq(Texts \ OneOf)]
  <1>4. /\ lines \in Seq(Line) /\ lines # <<>> /\ turn # Len(list)
        /\ last \in Nat /\ last \in DOMAIN lines /\ DOMAIN lines = 1..last
    BY <1>1, <1>3 DEF ContextDone, Typed
  <1>5. c \in DOMAIN byContext /\ old \in Seq(Texts \ OneOf)
    <2>1. lines[last] \in Line
      <3> HIDE DEF Line
      <3> QED
        BY <1>4
    <2> QED
      BY <2>1
  <1>6. list \in Seq(Texts) /\ InOrder(list) /\ Len(list) \in Nat
    <2>1. list \in Seq(Texts) /\ InOrder(list)
      BY <1>1, <1>5, ListsToPrint
    <2> QED
      BY <2>1
  <1>7. turn \in Nat /\ turn < Len(list)
    <2>1. turn \in Nat /\ turn <= Len(list)
      BY <1>1, <1>3, <1>4 DEF Typed, Progress
    <2> QED
      BY <1>4, <1>6, <2>1
  <1>8. IsPrinted(old, list, turn)
    <2>1. PrintedTo(last) = turn
      BY <1>1 DEF PrintedTo
    <2> QED
      BY <1>3, <1>4, <2>1 DEF Printing
  <1>9. IsPrinted(new, list, turn + 1)
    BY <1>6, <1>7, <1>8, PrintingTurn
  <1>10. new \in Seq(Texts \ OneOf)
    BY <1>9 DEF IsPrinted
  <1>11. /\ lines' \in Seq(Line) /\ Len(lines') = last /\ DOMAIN lines' = DOMAIN lines
         /\ lines'[last] = [context |-> c, texts |-> new]
         /\ \A n \in DOMAIN lines : n # last => lines'[n] = lines[n]
    <2> DEFINE line == [context |-> c, texts |-> new]
    <2>1. lines[last] = [context |-> c, texts |-> old]
      <3>1. lines[last] \in Line
        <4> HIDE DEF Line
        <4> QED
          BY <1>4
      <3> QED
        BY <3>1
    <2>2. lines' = [lines EXCEPT ![last] = line]
      <3>1. CASE text \in OneOf
        <4>1. line = lines[last] /\ lines' = lines
          BY <1>1, <2>1, <3>1
        <4> HIDE DEF line, Line
        <4> QED
          BY <1>4, <4>1
      <3>2. CASE text \notin OneOf
        <4>1. line = [lines[last] EXCEPT !.texts = Append(old, text)]
          <5> DEFINE rest == Append(old, text)
          <5>1. line = [context |-> c, texts |-> rest]
            BY <3>2
          <5> HIDE DEF rest, line, old, c, text
          <5>2. line = [[context |-> c, texts |-> old] EXCEPT !.texts = rest]
            BY <5>1
          <5>3. line = [lines[last] EXCEPT !.texts = rest]
            BY <2>1, <5>2
          <5> QED
            BY <5>3 DEF rest, old, text
        <4>2. lines' = [lines EXCEPT ![last].texts = Append(@, text)]
          BY <1>1, <3>2
        <4> QED
          BY <4>1, <4>2
      <3> QED
        BY <3>1, <3>2
    <2>3. line \in Line
      BY <1>5, <1>10
    <2> HIDE DEF line, Line
    <2>4. /\ lines' \in Seq(Line) /\ Len(lines') = last /\ DOMAIN lines' = DOMAIN lines
          /\ lines'[last] = line
          /\ \A n \in DOMAIN lines : n # last => lines'[n] = lines[n]
      BY <1>4, <2>2, <2>3
    <2> QED
      BY <2>4 DEF line
  <1>12. lines'[last].context = c /\ lines'[last].texts = new
    BY <1>11
  <1> HIDE DEF new, text, old
  <1>13. Typed'
    BY <1>1, <1>3, <1>7, <1>11 DEF Typed
  <1>14. Progress'
    <2>1. turn + 1 <= Len(list) /\ lines' # <<>>
      BY <1>4, <1>6, <1>7, <1>11
    <2> QED
      BY <1>1, <1>2, <1>3, <1>11, <1>12, <2>1 DEF Progress
  <1>15. ContextsAreNamed' /\ Walking'
    BY <1>1 DEF ContextsAreNamed, Walking
  <1>16. Permuted'
    BY <1>1, <1>2, <1>3, PermutedStays
  <1>17. Grouping'
    BY <1>1, <1>2, <1>3 DEF Grouping
  <1>18. \A n \in DOMAIN lines : lines'[n].context = lines[n].context
    BY <1>11, <1>12
  <1>19. ASSUME NEW n \in DOMAIN lines'
         PROVE  IsPrinted(lines'[n].texts, byContext'[lines'[n].context], PrintedTo(n)')
    <2>1. CASE n = last
      <3>1. PrintedTo(n)' = turn + 1
        BY <1>1, <1>11, <2>1 DEF PrintedTo
      <3> QED
        BY <1>1, <1>9, <1>12, <2>1, <3>1
    <2>2. CASE n # last
      <3>1. lines'[n] = lines[n] /\ n \in DOMAIN lines
        BY <1>11, <2>2
      <3>2. PrintedTo(n)' = PrintedTo(n)
        BY <1>1, <1>11, <2>2, <3>1 DEF PrintedTo
      <3> QED
        BY <1>1, <1>3, <3>1, <3>2 DEF Printing
    <2> QED
      BY <2>1, <2>2
  <1>20. Printing'
    BY <1>1, <1>3, <1>11, <1>18, <1>19 DEF Printing
  <1> QED
    BY <1>13, <1>14, <1>15, <1>16, <1>17, <1>20 DEF Inv

LEMMA InvRenderEnds == Inv /\ RenderEnds => Inv'
  <1> SUFFICES ASSUME Inv, RenderEnds
               PROVE  Inv'
    OBVIOUS
  <1>1. /\ pc = "render" /\ ContextDone /\ DOMAIN byContext = Rendered
        /\ pc' = "ended" /\ turn' = 0
        /\ UNCHANGED <<config, reply, verrs, walk, byContext, lines, err>>
    BY DEF RenderEnds, Goto
  <1>2. Typed /\ Progress /\ Permuted /\ Grouping /\ Printing /\ Rendering
    BY <1>1 DEF Inv, Rendering
  <1>3. lines = <<>> => DOMAIN byContext = {}
    BY <1>1 DEF Rendered
  <1>4. Typed'
    BY <1>1, <1>2 DEF Typed
  <1>5. Progress'
    BY <1>1, <1>2, <1>3 DEF Progress, Rendering
  <1>6. ContextsAreNamed' /\ Walking'
    BY <1>1 DEF ContextsAreNamed, Walking
  <1>7. Permuted'
    BY <1>1, <1>2, PermutedStays
  <1>8. Grouping'
    BY <1>1, <1>2 DEF Grouping
  <1>9. ASSUME NEW n \in DOMAIN lines
        PROVE  PrintedTo(n)' = PrintedTo(n)
    <2>1. PrintedTo(n)' = Len(byContext[lines[n].context])
      BY <1>1 DEF PrintedTo
    <2> QED
      BY <1>1, <2>1, DoneIsPrinted
  <1>10. Printing'
    BY <1>1, <1>2, <1>9 DEF Printing, Rendered
  <1> QED
    BY <1>4, <1>5, <1>6, <1>7, <1>8, <1>10 DEF Inv

LEMMA InvStutter == Inv /\ UNCHANGED vars => Inv'
  <1> SUFFICES ASSUME Inv, UNCHANGED vars
               PROVE  Inv'
    OBVIOUS
  <1>1. UNCHANGED <<config, reply, verrs, pc, turn, walk, byContext, lines, err>>
    BY DEF vars
  <1>2. Typed' /\ Progress'
    BY <1>1 DEF Inv, Typed, Progress, Rendering
  <1>3. ContextsAreNamed' /\ Walking'
    BY <1>1 DEF Inv, ContextsAreNamed, Walking, Placed, Place
  <1>4. Permuted'
    <2>1. Rendering' => Rendering
      BY <1>1 DEF Rendering
    <2> QED
      BY <1>1, <2>1, PermutedStays DEF Inv, Permuted
  <1>5. Grouping'
    BY <1>1 DEF Inv, Grouping, Rendering
  <1>6. Printing'
    <2>1. \A n \in DOMAIN lines : PrintedTo(n)' = PrintedTo(n)
      BY <1>1 DEF PrintedTo
    <2> QED
      BY <1>1, <2>1 DEF Inv, Printing, Rendered
  <1> QED
    BY <1>2, <1>3, <1>4, <1>5, <1>6 DEF Inv

\* The invariant of a validation and of its report.
THEOREM Invariance == Spec => []Inv
  <1>1. Inv /\ [Next]_vars => Inv'
    BY InvAsk, InvWalk, InvName, InvReturn, InvSort, InvGroup, InvGroupEnds,
       InvRenderContext, InvRenderError, InvRenderEnds, InvStutter DEF Next
  <1> QED
    BY InvInit, <1>1, PTL DEF Spec

-----------------------------------------------------------------------------
(* What the invariant says of a run.                                        *)

\* Contexts and lines correspond.
LEMMA OneLineEach ==
    ASSUME Inv
    PROVE  Len(lines) = Cardinality(Rendered)
  <1> DEFINE m == Len(lines)
             f == [n \in 1..m |-> lines[n].context]
  <1>1. m \in Nat /\ DOMAIN lines = 1..m
    BY DEF Inv, Typed
  <1>2. \A i, j \in 1..m : lines[i].context = lines[j].context => i = j
    BY <1>1 DEF Inv, Printing
  <1>3. f \in [1..m -> Rendered] /\ \A c \in Rendered : \E n \in 1..m : f[n] = c
    BY <1>1 DEF Rendered
  <1>4. f \in Bijection(1..m, Rendered)
    BY <1>2, <1>3 DEF Bijection, Injection, Surjection, IsInjective
  <1>5. ExistsBijection(1..m, Rendered)
    BY <1>4 DEF ExistsBijection
  <1>6. IsFiniteSet(1..m) /\ Cardinality(1..m) = m
    <2>1. m \in Nat
      BY <1>1
    <2> HIDE DEF m
    <2>2. /\ IsFiniteSet(1..m)
          /\ Cardinality(1..m) = IF 1 > m THEN 0 ELSE m - 1 + 1
      BY <2>1, FS_Interval
    <2> QED
      BY <2>1, <2>2
  <1> HIDE DEF m
  <1>7. Cardinality(Rendered) = Cardinality(1..m)
    BY <1>5, <1>6, FS_Bijection
  <1> QED
    BY <1>6, <1>7 DEF m

LEMMA InvTypes == Inv => TypeOK
  <1> SUFFICES ASSUME Inv
               PROVE  TypeOK
    OBVIOUS
  <1>1. Typed /\ Progress
    BY DEF Inv
  <1>2. reply \in BoundedSeq(VError(config), MaxErrors)
    BY <1>1, BoundedSeqs, ValidatorAssumption DEF Typed
  <1>3. \A n \in DOMAIN verrs : verrs[n] \in Record
    <2>1. verrs \in Seq(Record)
      BY <1>1 DEF Typed
    <2> HIDE DEF Record
    <2> QED
      BY <2>1
  <1>4. \A n \in DOMAIN verrs : verrs[n].text \in Texts /\ verrs[n].context \in Seq(STRING)
    BY <1>3 DEF Record
  <1>5. DOMAIN verrs = 1..Len(verrs) /\ Len(verrs) \in Nat
    BY <1>1 DEF Typed
  <1>6. turn \in 0..Len(verrs)
    <2>1. CASE pc # "render"
      BY <1>1, <1>5, <2>1 DEF Typed, Progress
    <2>2. CASE pc = "render" /\ lines = <<>>
      BY <1>1, <1>5, <2>2 DEF Typed, Progress
    <2>3. CASE pc = "render" /\ lines # <<>>
      <3> DEFINE c == lines[Len(lines)].context
      <3>1. c \in DOMAIN byContext
        <4>1. Len(lines) \in DOMAIN lines
          BY <1>1, <2>3 DEF Typed
        <4> DEFINE Line == [context : DOMAIN byContext, texts : Seq(Texts \ OneOf)]
        <4>2. lines \in Seq(Line)
          BY <1>1 DEF Typed
        <4>3. lines[Len(lines)] \in Line
          <5> HIDE DEF Line
          <5> QED
            BY <4>1, <4>2
        <4> QED
          BY <4>3
      <3>2. turn \in Nat /\ turn <= Len(byContext[c])
        BY <1>1, <2>3 DEF Typed, Progress
      <3>3. Len(byContext[c]) <= Len(verrs) /\ Len(byContext[c]) \in Nat
        BY <2>3, <3>1, ListsToPrint
      <3> HIDE DEF c
      <3> QED
        BY <1>5, <3>2, <3>3
    <2> QED
      BY <2>1, <2>2, <2>3
  <1>7. ASSUME NEW c \in DOMAIN byContext
        PROVE  c \in Seq(STRING) /\ byContext[c] \in Seq(Texts) \ {<<>>}
    <2>1. Rendering
      BY <1>1 DEF Progress
    <2> DEFINE m == IF pc = "group" THEN turn ELSE Len(verrs)
    <2>2. m \in Nat /\ m <= Len(verrs)
      BY <1>5, <1>6
    <2>3. AreGroups(byContext, verrs, m)
      BY <2>1 DEF Inv, Grouping
    <2> HIDE DEF m
    <2>4. PICK n \in 1..m : c = verrs[n].context
      BY <2>3 DEF AreGroups
    <2>5. n \in DOMAIN verrs
      BY <1>5, <2>2
    <2> QED
      BY <1>4, <2>3, <2>4, <2>5 DEF AreGroups, IsGroup
  <1> QED
    BY <1>1, <1>2, <1>4, <1>6, <1>7, OneLineEach DEF TypeOK, Typed, Progress

\* The places of a text in the line of a context, and what was printed there.
LEMMA ShownOfContext ==
    ASSUME Inv, NEW n \in DOMAIN lines, NEW t
    PROVE  Cardinality({s \in Shown : /\ lines[s[1]].context = lines[n].context
                                      /\ lines[s[1]].texts[s[2]] = t})
           = Count(lines[n].texts, t)
  <1> DEFINE A == {s \in Shown : /\ lines[s[1]].context = lines[n].context
                                 /\ lines[s[1]].texts[s[2]] = t}
             B == {k \in DOMAIN lines[n].texts : lines[n].texts[k] = t}
             f == [k \in B |-> <<n, k>>]
  <1>1. ASSUME NEW s \in A
        PROVE  s[1] = n /\ s[2] \in B /\ s = <<n, s[2]>>
    <2>1. PICK i \in DOMAIN lines : s \in {i} \X DOMAIN lines[i].texts
      BY DEF Shown
    <2>2. s[1] = i /\ s = <<i, s[2]>> /\ s[2] \in DOMAIN lines[i].texts
      BY <2>1
    <2>3. i = n
      BY <2>2 DEF Inv, Printing
    <2> QED
      BY <2>2, <2>3
  <1>2. ASSUME NEW k \in B
        PROVE  <<n, k>> \in A
    <2>1. <<n, k>> \in {n} \X DOMAIN lines[n].texts
      OBVIOUS
    <2>2. <<n, k>> \in Shown
      BY <2>1 DEF Shown
    <2> QED
      BY <2>2
  <1>3. f \in [B -> A] /\ \A s \in A : \E k \in B : f[k] = s
    BY <1>1, <1>2
  <1>4. \A j, k \in B : f[j] = f[k] => j = k
    OBVIOUS
  <1>5. f \in Bijection(B, A)
    BY <1>3, <1>4 DEF Bijection, Injection, Surjection, IsInjective
  <1>6. ExistsBijection(B, A)
    BY <1>5 DEF ExistsBijection
  <1>7. IsFiniteSet(B)
    <2>1. lines[n].texts \in Seq(Texts \ OneOf)
      BY DEF Inv, Printing, IsPrinted
    <2>2. DOMAIN lines[n].texts = 1..Len(lines[n].texts) /\ Len(lines[n].texts) \in Nat
      BY <2>1
    <2>3. IsFiniteSet(DOMAIN lines[n].texts)
      BY <2>2, FS_Interval
    <2> HIDE DEF f, A
    <2>4. B \in SUBSET DOMAIN lines[n].texts
      OBVIOUS
    <2> QED
      BY <2>3, <2>4, FS_Subset
  <1> HIDE DEF A, B, f
  <1>8. Cardinality(A) = Cardinality(B)
    BY <1>6, <1>7, FS_Bijection
  <1> QED
    BY <1>8 DEF A, B, Count

\* The errors of a place are as many as the library found there.
LEMMA PlacedErrors ==
    ASSUME Inv, Rendering, NEW e
    PROVE  CountTo(verrs, Len(verrs), e) = Cardinality({n \in DOMAIN reply : Placed(reply[n]) = e})
  <1>1. PICK order \in Bijection(DOMAIN reply, DOMAIN reply) :
          \A n \in DOMAIN reply : verrs[n] = Placed(reply[order[n]])
    BY DEF Inv, Permuted
  <1>2. DOMAIN reply = 1..Len(verrs) /\ Len(verrs) \in Nat
    BY DEF Inv, Typed, Progress
  <1> DEFINE placed == [n \in DOMAIN reply |-> Placed(reply[n])]
  <1>3. \A n \in DOMAIN reply : order[n] \in DOMAIN reply
    BY DEF Bijection, Injection
  <1>4. \A n \in DOMAIN reply : verrs[n] = placed[order[n]]
    BY <1>1, <1>3
  <1>5. IsFiniteSet(DOMAIN reply)
    BY <1>2, FS_Interval
  <1> HIDE DEF placed
  <1>6. CountIn(DOMAIN reply, verrs, e) = CountIn(DOMAIN reply, placed, e)
    BY <1>4, <1>5, CountPermuted
  <1>7. {n \in DOMAIN reply : placed[n] = e} = {n \in DOMAIN reply : Placed(reply[n]) = e}
    BY DEF placed
  <1> QED
    BY <1>2, <1>6, <1>7 DEF CountTo, CountIn

LEMMA InvShows == Inv => EveryErrorIsShown
  <1> SUFFICES ASSUME Inv, pc = "ended", lines # <<>>
               PROVE  EveryErrorIsShown
    BY DEF EveryErrorIsShown
  <1>1. /\ Typed /\ Progress /\ Printing /\ Rendering
        /\ AreGroups(byContext, verrs, Len(verrs)) /\ Rendered = DOMAIN byContext
    BY DEF Inv, Rendering, Grouping, Printing
  <1>2. \A n \in DOMAIN lines :
          IsPrinted(lines[n].texts, byContext[lines[n].context], Len(byContext[lines[n].context]))
    BY <1>1 DEF Printing, PrintedTo
  <1>3. \A n \in DOMAIN lines : InOrder(lines[n].texts)
    BY <1>2 DEF IsPrinted
  <1>4. ASSUME NEW c \in Rendered \cup {Place(reply[n]) : n \in DOMAIN reply}
        PROVE  c \in DOMAIN byContext
    <2>1. CASE c \in Rendered
      BY <1>1, <2>1
    <2>2. ASSUME NEW n \in DOMAIN reply, c = Place(reply[n])
          PROVE  c \in DOMAIN byContext
      <3>1. PICK order \in Bijection(DOMAIN reply, DOMAIN reply) :
              \A k \in DOMAIN reply : verrs[k] = Placed(reply[order[k]])
        BY <1>1 DEF Inv, Permuted
      <3>2. PICK k \in DOMAIN reply : order[k] = n
        BY DEF Bijection, Surjection
      <3>3. verrs[k].context = c
        <4>1. verrs[k] = Placed(reply[n])
          BY <3>1, <3>2
        <4> QED
          BY <2>2, <4>1 DEF Placed
      <3>4. k \in 1..Len(verrs)
        BY <1>1 DEF Progress, Typed
      <3> QED
        BY <1>1, <3>3, <3>4 DEF AreGroups
    <2> QED
      BY <2>1, <2>2
  <1>5. ASSUME NEW c \in Rendered \cup {Place(reply[n]) : n \in DOMAIN reply}, NEW t \in Texts
        PROVE  Cardinality({s \in Shown : /\ lines[s[1]].context = c
                                          /\ lines[s[1]].texts[s[2]] = t})
               = IF t \in OneOf THEN 0
                 ELSE Cardinality({n \in DOMAIN reply :
                                     Placed(reply[n]) = [context |-> c, text |-> t]})
    <2>1. c \in DOMAIN byContext
      BY <1>4
    <2>2. PICK n \in DOMAIN lines : lines[n].context = c
      BY <1>1, <2>1 DEF Rendered
    <2>3. Cardinality({s \in Shown : /\ lines[s[1]].context = c
                                     /\ lines[s[1]].texts[s[2]] = t})
          = Count(lines[n].texts, t)
      BY <2>2, ShownOfContext
    <2>4. IsPrinted(lines[n].texts, byContext[c], Len(byContext[c]))
      BY <1>2, <2>2
    <2>5. CASE t \in OneOf
      <3>1. lines[n].texts \in Seq(Texts \ OneOf)
        BY <2>4 DEF IsPrinted
      <3>2. {k \in DOMAIN lines[n].texts : lines[n].texts[k] = t} = {}
        BY <2>5, <3>1
      <3> QED
        BY <2>3, <2>5, <3>2, FS_EmptySet DEF Count
    <2>6. CASE t \notin OneOf
      <3>1. Count(lines[n].texts, t) = CountTo(byContext[c], Len(byContext[c]), t)
        BY <2>4, <2>6 DEF IsPrinted
      <3>2. IsGroup(byContext[c], c, verrs, Len(verrs))
        BY <1>1, <2>1 DEF AreGroups
      <3>3. CountTo(byContext[c], Len(byContext[c]), t) = Count(byContext[c], t)
        BY <3>2, CountAll DEF IsGroup
      <3>4. Count(byContext[c], t) = CountTo(verrs, Len(verrs), [context |-> c, text |-> t])
        BY <3>2 DEF IsGroup
      <3>5. CountTo(verrs, Len(verrs), [context |-> c, text |-> t])
            = Cardinality({k \in DOMAIN reply : Placed(reply[k]) = [context |-> c, text |-> t]})
        BY <1>1, PlacedErrors
      <3> QED
        BY <2>3, <2>6, <3>1, <3>3, <3>4, <3>5
    <2> QED
      BY <2>5, <2>6
  <1> QED
    BY <1>3, <1>5 DEF EveryErrorIsShown

-----------------------------------------------------------------------------
(* The theorems.                                                            *)

\* TypeOK: errors are moved and renamed, texts of type number_one_of are left out and
\* no context is printed twice, for any errors (ValidationErrors.Error).
THEOREM TypeCorrect == Spec => []TypeOK
  BY Invariance, InvTypes, PTL

\* ContextsAreNamed: each error has the names of the list elements on its own way, if
\* all of them have one, and else what the library gave it, however deep the lists are
\* nested (jsonToConfigContext).
THEOREM ContextsNamed == Spec => []ContextsAreNamed
  <1>1. Inv => ContextsAreNamed
    BY DEF Inv
  <1> QED
    BY Invariance, <1>1, PTL

\* EveryErrorIsShown: each of the library's errors is printed once under its place and
\* in order, but for those of type number_one_of, whatever order the sort and the map
\* bring them in (Validate and ValidationErrors.Error).
THEOREM ErrorsShown == Spec => []EveryErrorIsShown
  BY Invariance, InvShows, PTL
=============================================================================
