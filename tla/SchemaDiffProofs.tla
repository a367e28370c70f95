-------------------------- MODULE SchemaDiffProofs --------------------------
(***************************************************************************)
(* Theorems about SchemaDiff, for any schemas, command lines and filters,  *)
(* and any patch that describes what lies between two schemas.             *)
(*                                                                         *)
(* The proofs count nothing.  They follow the changes, one by one, from    *)
(* the patch into the lists of the sections and from there into the lines, *)
(* as bijections between the places of a list and the numbers of the       *)
(* changes it is made of; what the header and the reader count is equal    *)
(* because the numbers are the same.                                       *)
(***************************************************************************)
EXTENDS SchemaDiff, TLAPS, FiniteSetTheorems, SequenceTheorems

-----------------------------------------------------------------------------
(* Lists made of numbered things.                                           *)

\* Sequence q consists of e[m] for each m of A, once, in some order.
Lists(q, A, e) ==
    /\ q \in Seq({e[m] : m \in DOMAIN e})
    /\ \E f \in [1..Len(q) -> A] :
          /\ \A n \in 1..Len(q) : q[n] = e[f[n]]
          /\ \A n, o \in 1..Len(q) : f[n] = f[o] => n = o
          /\ \A m \in A : \E n \in 1..Len(q) : f[n] = m

\* The empty list is made of nothing.
LEMMA ListsNothing == ASSUME NEW e PROVE Lists(<<>>, {}, e)
  <1>1. <<>> \in Seq({e[m] : m \in DOMAIN e}) /\ 1..Len(<<>>) = {}
    OBVIOUS
  <1>2. [n \in {} |-> n] \in [1..Len(<<>>) -> {}]
    BY <1>1
  <1> QED
    BY <1>1, <1>2 DEF Lists

\* What is appended was not in the list before.
LEMMA ListsOneMore ==
    ASSUME NEW q, NEW e, NEW A \in SUBSET DOMAIN e, NEW m \in DOMAIN e \ A, Lists(q, A, e)
    PROVE  Lists(Append(q, e[m]), A \cup {m}, e)
  <1> DEFINE R == {e[k] : k \in DOMAIN e}
             qq == Append(q, e[m])
  <1>1. PICK f \in [1..Len(q) -> A] :
          /\ \A n \in 1..Len(q) : q[n] = e[f[n]]
          /\ \A n, o \in 1..Len(q) : f[n] = f[o] => n = o
          /\ \A k \in A : \E n \in 1..Len(q) : f[n] = k
    BY DEF Lists
  <1>2. q \in Seq(R) /\ e[m] \in R
    BY DEF Lists
  <1>3. /\ qq \in Seq(R) /\ Len(qq) = Len(q) + 1 /\ Len(q) \in Nat
        /\ \A n \in 1..Len(q) : qq[n] = q[n]
        /\ qq[Len(q) + 1] = e[m]
    BY <1>2, AppendProperties, LenProperties
  <1> DEFINE N == Len(q)
             g == [n \in 1..N + 1 |-> IF n = N + 1 THEN m ELSE f[n]]
  <1>4. /\ N \in Nat /\ N + 1 \in 1..N + 1
        /\ \A n \in 1..N + 1 : n # N + 1 => n \in 1..N
        /\ \A n \in 1..N : n \in 1..N + 1 /\ n # N + 1
    BY <1>3
  <1> HIDE DEF N, qq, R
  <1>5. g \in [1..N + 1 -> A \cup {m}]
    BY <1>1, <1>4 DEF N
  <1>6. \A n \in 1..N + 1 : qq[n] = e[g[n]]
    BY <1>1, <1>3, <1>4 DEF N
  <1>7. \A n, o \in 1..N + 1 : g[n] = g[o] => n = o
    <2>1. \A n \in 1..N + 1 : n # N + 1 => g[n] = f[n] /\ f[n] # m
      BY <1>1, <1>4 DEF N
    <2>2. \A n \in 1..N + 1 : n = N + 1 => g[n] = m
      OBVIOUS
    <2> HIDE DEF g
    <2> QED BY <1>1, <1>4, <2>1, <2>2 DEF N
  <1>8. \A k \in A \cup {m} : \E n \in 1..N + 1 : g[n] = k
    BY <1>1, <1>4 DEF N
  <1> HIDE DEF g
  <1> QED
    <2>1. qq \in Seq(R) /\ Len(qq) = N + 1
      BY <1>3 DEF N
    <2>2. \E h \in [1..Len(qq) -> A \cup {m}] :
             /\ \A n \in 1..Len(qq) : qq[n] = e[h[n]]
             /\ \A n, o \in 1..Len(qq) : h[n] = h[o] => n = o
             /\ \A k \in A \cup {m} : \E n \in 1..Len(qq) : h[n] = k
      <3>1. g \in [1..Len(qq) -> A \cup {m}] /\ \A n \in 1..Len(qq) : qq[n] = e[g[n]]
        BY <1>5, <1>6, <2>1
      <3>2. /\ \A n, o \in 1..Len(qq) : g[n] = g[o] => n = o
            /\ \A k \in A \cup {m} : \E n \in 1..Len(qq) : g[n] = k
        BY <1>7, <1>8, <2>1
      <3> QED
        BY <3>1, <3>2, Zenon
    <2> QED
      BY <2>1, <2>2, Zenon DEF Lists, qq, R

\* One list after another.
LEMMA ListsBoth ==
    ASSUME NEW q, NEW r, NEW e, NEW A \in SUBSET DOMAIN e, NEW B \in SUBSET DOMAIN e,
           Lists(q, A, e), Lists(r, B, e), A \cap B = {}
    PROVE  Lists(q \o r, A \cup B, e)
  <1> DEFINE R == {e[k] : k \in DOMAIN e}
             c == q \o r
             N == Len(q)
             M == Len(r)
  <1>1. PICK f \in [1..N -> A] :
          /\ \A n \in 1..N : q[n] = e[f[n]]
          /\ \A n, o \in 1..N : f[n] = f[o] => n = o
          /\ \A k \in A : \E n \in 1..N : f[n] = k
    BY DEF Lists
  <1>2. PICK g \in [1..M -> B] :
          /\ \A n \in 1..M : r[n] = e[g[n]]
          /\ \A n, o \in 1..M : g[n] = g[o] => n = o
          /\ \A k \in B : \E n \in 1..M : g[n] = k
    BY DEF Lists
  <1>3. q \in Seq(R) /\ r \in Seq(R)
    BY DEF Lists
  <1>4. /\ N \in Nat /\ M \in Nat /\ c \in Seq(R) /\ Len(c) = N + M
        /\ \A n \in 1..N : c[n] = q[n]
        /\ \A n \in N + 1..N + M : c[n] = r[n - N]
    BY <1>3, ConcatProperties, LenProperties
  <1> DEFINE h == [n \in 1..N + M |-> IF n \in 1..N THEN f[n] ELSE g[n - N]]
  <1> HIDE DEF N, M, c, R
  <1>5. /\ \A n \in 1..N : n \in 1..N + M
        /\ \A n \in 1..N + M : n \notin 1..N => n \in N + 1..N + M /\ n - N \in 1..M
        /\ \A n \in 1..M : n + N \in 1..N + M /\ n + N \notin 1..N /\ (n + N) - N = n
        /\ \A n, o \in 1..N + M : n - N = o - N => n = o
    BY <1>4
  <1>6. h \in [1..N + M -> A \cup B]
    BY <1>1, <1>2, <1>5
  <1>7. \A n \in 1..N + M : c[n] = e[h[n]]
    BY <1>1, <1>2, <1>4, <1>5
  <1>8. \A n, o \in 1..N + M : h[n] = h[o] => n = o
    <2>1. \A n \in 1..N + M : n \in 1..N => h[n] = f[n] /\ h[n] \in A
      BY <1>1
    <2>2. \A n \in 1..N + M : n \notin 1..N => h[n] = g[n - N] /\ h[n] \in B /\ n - N \in 1..M
      BY <1>2, <1>5
    <2> HIDE DEF h
    <2> SUFFICES ASSUME NEW n \in 1..N + M, NEW o \in 1..N + M, h[n] = h[o] PROVE n = o
      OBVIOUS
    <2>3. n \in 1..N <=> o \in 1..N
      BY <2>1, <2>2
    <2>4. CASE n \in 1..N
      BY <1>1, <2>1, <2>3, <2>4
    <2>5. CASE n \notin 1..N
      <3>1. g[n - N] = g[o - N] /\ n - N \in 1..M /\ o - N \in 1..M
        BY <2>2, <2>3, <2>5
      <3>2. n - N = o - N
        BY <1>2, <3>1
      <3> QED BY <1>5, <3>2
    <2> QED BY <2>4, <2>5
  <1>9. \A k \in A \cup B : \E n \in 1..N + M : h[n] = k
    <2>1. ASSUME NEW k \in A PROVE \E n \in 1..N + M : h[n] = k
      BY <1>1, <1>5
    <2>2. ASSUME NEW k \in B PROVE \E n \in 1..N + M : h[n] = k
      <3>1. PICK n \in 1..M : g[n] = k
        BY <1>2
      <3>2. h[n + N] = k
        BY <1>5, <3>1
      <3> QED BY <1>5, <3>2
    <2> QED BY <2>1, <2>2
  <1> HIDE DEF h
  <1>10. \E w \in [1..Len(c) -> A \cup B] :
          /\ \A n \in 1..Len(c) : c[n] = e[w[n]]
          /\ \A n, o \in 1..Len(c) : w[n] = w[o] => n = o
          /\ \A m \in A \cup B : \E n \in 1..Len(c) : w[n] = m
    <2>1. Len(c) = N + M
      BY <1>4
    <2>2. h \in [1..Len(c) -> A \cup B]
      BY <1>6, <2>1
    <2>3. /\ \A n \in 1..Len(c) : c[n] = e[h[n]]
          /\ \A n, o \in 1..Len(c) : h[n] = h[o] => n = o
          /\ \A m \in A \cup B : \E n \in 1..Len(c) : h[n] = m
      BY <1>7, <1>8, <1>9, <2>1
    <2> QED BY <2>2, <2>3
  <1>11. c \in Seq({e[m] : m \in DOMAIN e})
    BY <1>4 DEF R
  <1>12. Lists(c, A \cup B, e)
    BY <1>10, <1>11 DEF Lists
  <1> QED
    BY <1>12 DEF c

\* A list r as long as q, of what d has under the numbers under which e has what is in q.
Instead(r, d, q, e, A) ==
    /\ A \subseteq DOMAIN d
    /\ r \in [1..Len(q) -> {r[n] : n \in DOMAIN r}]
    /\ \A n \in 1..Len(q), m \in A : q[n] = e[m] => r[n] = d[m]

LEMMA ListsInstead ==
    ASSUME NEW q, NEW e, NEW A, Lists(q, A, e), NEW d, NEW r, Instead(r, d, q, e, A)
    PROVE  Lists(r, A, d)
  <1> DEFINE N == Len(q)
  <1>1. PICK f \in [1..N -> A] :
          /\ \A n \in 1..N : q[n] = e[f[n]]
          /\ \A n, o \in 1..N : f[n] = f[o] => n = o
          /\ \A k \in A : \E n \in 1..N : f[n] = k
    BY DEF Lists
  <1>2. N \in Nat
    BY LenProperties DEF Lists
  <1>3. \A n \in 1..N : r[n] = d[f[n]] /\ f[n] \in DOMAIN d
    BY <1>1 DEF Instead
  <1> HIDE DEF N
  <1>4. r \in [1..N -> {d[m] : m \in DOMAIN d}]
    BY <1>3 DEF N, Instead
  <1>5. r \in Seq({d[m] : m \in DOMAIN d}) /\ Len(r) = N
    BY <1>2, <1>4, SeqDef, LenProperties
  <1>6. \E w \in [1..Len(r) -> A] :
          /\ \A n \in 1..Len(r) : r[n] = d[w[n]]
          /\ \A n, o \in 1..Len(r) : w[n] = w[o] => n = o
          /\ \A m \in A : \E n \in 1..Len(r) : w[n] = m
    BY <1>1, <1>3, <1>5
  <1> QED
    BY <1>5, <1>6 DEF Lists

\* How often q has something of L among the places A.
Count(q, A, L) == Cardinality({n \in A : q[n] \in L})

\* As many places of a list hold something of L as there are numbers of such things.
LEMMA ListsCount ==
    ASSUME NEW q, NEW e, NEW A, Lists(q, A, e), NEW L
    PROVE  Count(q, DOMAIN q, L) = Count(e, A, L)
  <1> DEFINE S == {n \in DOMAIN q : q[n] \in L}
             T == {m \in A : e[m] \in L}
  <1>1. PICK f \in [1..Len(q) -> A] :
          /\ \A n \in 1..Len(q) : q[n] = e[f[n]]
          /\ \A n, o \in 1..Len(q) : f[n] = f[o] => n = o
          /\ \A m \in A : \E n \in 1..Len(q) : f[n] = m
    BY DEF Lists
  <1>2. DOMAIN q = 1..Len(q) /\ Len(q) \in Nat
    BY LenProperties DEF Lists
  <1>3. IsFiniteSet(S)
    <2>1. IsFiniteSet(1..Len(q))
      BY <1>2, FS_Interval
    <2> QED BY <1>2, <2>1, FS_Subset
  <1> DEFINE g == [n \in S |-> f[n]]
  <1>4. g \in [S -> T]
    BY <1>1, <1>2
  <1>5. \A n, o \in S : g[n] = g[o] => n = o
    BY <1>1, <1>2
  <1>6. \A m \in T : \E n \in S : g[n] = m
    BY <1>1, <1>2
  <1> HIDE DEF g, S, T
  <1>7. g \in Bijection(S, T)
    BY <1>4, <1>5, <1>6 DEF Bijection, Injection, Surjection, IsInjective
  <1>8. ExistsBijection(S, T)
    BY <1>7 DEF ExistsBijection
  <1> QED
    BY <1>3, <1>8, FS_Bijection DEF S, T, Count

\* The list is as long as it has numbers.
LEMMA ListsLength ==
    ASSUME NEW q, NEW e, NEW A, Lists(q, A, e)
    PROVE  Len(q) = Cardinality(A)
  <1> DEFINE L == {q[n] : n \in DOMAIN q}
             S == {n \in DOMAIN q : q[n] \in L}
             T == {m \in A : e[m] \in L}
  <1>1. Len(q) \in Nat /\ DOMAIN q = 1..Len(q)
    BY LenProperties DEF Lists
  <1>2. T = A
    <2>1. \A m \in A : \E n \in 1..Len(q) : q[n] = e[m]
      BY DEF Lists
    <2> QED BY <1>1, <2>1
  <1>3. S = 1..Len(q)
    BY <1>1
  <1>4. Cardinality(1..Len(q)) = Len(q)
    <2>1. 1 \in Int /\ Len(q) \in Int
      BY <1>1
    <2>2. Cardinality(1..Len(q)) = IF 1 > Len(q) THEN 0 ELSE Len(q) - 1 + 1
      BY <2>1, FS_Interval
    <2> QED BY <1>1, <2>2
  <1> HIDE DEF L
  <1>5. Cardinality(S) = Cardinality(T)
    BY ListsCount DEF Count
  <1> HIDE DEF S, T
  <1> QED
    BY <1>2, <1>3, <1>4, <1>5

-----------------------------------------------------------------------------
(* The inductive invariant.                                                 *)

Valid == extractValidSections(Lower, Upper)

SectionOf(c) == extractSection(c.path, Valid)

\* The changes are in their sections.
Sorted == pc \in {"header", "sections"} \/ Answered \/ err = "invalid filter section(s)"

Compared == pc = "group" \/ Sorted

\* The run goes on only without an error, and what comes later is not there yet.
Progress ==
    /\ pc # "ended" => err = Nil
    /\ pc \in {"compare", "group", "header", "sections"} => inv.cmd = "diff"
    /\ ~Compared => changes = <<>> /\ grouped = 0 /\ sections = [s \in {} |-> NoChanges]
    /\ pc \notin {"sections", "ended"} => lines = <<>>

Pairs == {<<v, w>> : v \in Version, w \in Version}

\* The two versions are in the order of their age.
Ordered ==
    pc = "compare" \/ Compared =>
        /\ versions \in Pairs
        /\ ~Older(versions[2], versions[1])

\* The changes are those of the patch between two schemas.
Loaded ==
    Compared =>
        /\ versions[1] \in DOMAIN Schema /\ versions[2] \in DOMAIN Schema
        /\ Lower \in Document /\ Upper \in Document
        /\ \A n \in DOMAIN Patch(Lower, Upper) : Patch(Lower, Upper)[n].type \in ChangeType
        /\ changes = [n \in DOMAIN Patch(Lower, Upper) |->
                        ChangeOf(Patch(Lower, Upper)[n], Lower, Upper)]

\* The numbers of the changes that the list of a section and type is made of.
Members(s, t) == {m \in 1..grouped : changes[m].type = t /\ SectionOf(changes[m]) = s}

Grouped ==
    /\ grouped \in 0..Len(changes)
    /\ \A s \in DOMAIN sections : DOMAIN sections[s] = ChangeType
    /\ \A s \in DOMAIN sections, t \in ChangeType : Lists(sections[s][t], Members(s, t), changes)
    /\ \A m \in 1..grouped : SectionOf(changes[m]) \in DOMAIN sections
    /\ Sorted => grouped = Len(changes)

Offered ==
    Sorted => available = Valid \cup (DOMAIN sections \cap {defaultSectionName})

Headed ==
    pc = "sections" \/ Answered =>
        header = [from |-> versions[1], to |-> versions[2], total |-> Len(changes),
                  additions |-> Total(Addition), removals |-> Total(Removal),
                  modified |-> Total(Modification)]

\* The line of each change, were all of them printed.
AllLines == [m \in DOMAIN changes |-> LineOf(SectionOf(changes[m]), changes[m])]

InSections(S) == {m \in DOMAIN changes : SectionOf(changes[m]) \in S}

\* What is printed are the changes of the sections that have been reached.
Shown ==
    /\ pc = "sections" \/ Answered =>
          Printed \subseteq Wanted /\ Lists(lines, InSections(Printed), AllLines)
    /\ Answered => Wanted \subseteq Printed

Types ==
    /\ inv \in Invocations
    /\ pc \in {"start", "compare", "group", "header", "sections", "ended"}
    /\ versions \in {<<>>} \cup Pairs
    /\ err \in Errors \cup {Nil}

Inv ==
    /\ Types
    /\ Progress /\ Ordered /\ Loaded /\ Grouped /\ Offered /\ Headed /\ Shown

-----------------------------------------------------------------------------
(* Paths, sections and lines.                                               *)

\* In a patch the first part of a path that names a section is the top-level property
\* the path lies under, whatever is named like a section further down.
LEMMA SectionIsOwner ==
    ASSUME NEW op, op.path \in Seq(STRING), NEW old, NEW new, Located(op, old, new)
    PROVE  /\ extractSection(op.path, extractValidSections(old, new)) = Owner(op.path)
           /\ Owner(op.path) \in extractValidSections(old, new) \cup {defaultSectionName}
  <1> DEFINE path == op.path
             valid == extractValidSections(old, new)
             found == {n \in DOMAIN path : ~Skipped(path[n]) /\ path[n] \in valid}
  <1>1. DOMAIN path = 1..Len(path) /\ Len(path) \in Nat
    BY LenProperties
  <1>2. CASE InProperties(path)
    <2>1. path[2] \in valid /\ ~Skipped(path[2]) /\ 1 \in DOMAIN path /\ 2 \in DOMAIN path
      BY <1>1, <1>2 DEF Located, InProperties
    <2>2. Skipped(path[1])
      BY <1>2 DEF InProperties, Skipped, SchemaMarker
    <2>3. 2 \in found /\ 1 \notin found /\ found \subseteq Nat \ {0}
      BY <1>1, <2>1, <2>2
    <2>4. \A m \in found : 2 <= m
      BY <2>3
    <2>5. \A n \in found : (\A m \in found : n <= m) => n = 2
      BY <2>3, <2>4
    <2> HIDE DEF found
    <2>6. (CHOOSE n \in found : \A m \in found : n <= m) = 2
      BY <2>3, <2>4, <2>5
    <2>7. extractSection(path, valid) = path[2]
      BY <2>3, <2>6 DEF extractSection, found
    <2> QED BY <1>2, <2>1, <2>7 DEF Owner
  <1>3. CASE ~InProperties(path)
    <2>1. found = {}
      BY <1>3 DEF Located
    <2> QED BY <1>3, <2>1 DEF extractSection, Owner
  <1> QED
    BY <1>2, <1>3

\* What the two schemas have to do with each change that was found between them.
LEMMA ChangesAreOperations ==
    ASSUME Loaded, Compared, NEW n \in DOMAIN changes
    PROVE  \E op \in Operation :
              /\ op.type \in ChangeType
              /\ Located(op, Lower, Upper) /\ Describes(op, Lower, Upper)
              /\ changes[n] = ChangeOf(op, Lower, Upper)
  <1> DEFINE patch == Patch(Lower, Upper)
  <1>1. /\ patch \in Seq(Operation)
        /\ \A k \in DOMAIN patch : Located(patch[k], Lower, Upper) /\ Describes(patch[k], Lower, Upper)
    BY PatchAssumption DEF Loaded
  <1>2. n \in DOMAIN patch /\ changes[n] = ChangeOf(patch[n], Lower, Upper) /\ patch[n].type \in ChangeType
    BY DEF Loaded
  <1>3. patch[n] \in Operation
    BY <1>1, <1>2, LenProperties, ElementOfSeq
  <1> QED
    BY <1>1, <1>2, <1>3

\* Each change has a kind and a section, which is a property of one of the schemas or
\* the general one.
LEMMA ChangesHaveSections ==
    ASSUME Loaded, Compared, NEW n \in DOMAIN changes
    PROVE  /\ SectionOf(changes[n]) = Owner(changes[n].path)
           /\ SectionOf(changes[n]) \in Valid \cup {defaultSectionName}
           /\ changes[n].type \in ChangeType
  <1>1. PICK op \in Operation :
              /\ op.type \in ChangeType
              /\ Located(op, Lower, Upper)
              /\ changes[n] = ChangeOf(op, Lower, Upper)
    BY ChangesAreOperations
  <1>2. op.path \in Seq(STRING) /\ changes[n].path = op.path /\ changes[n].type = op.type
    BY <1>1 DEF Operation, ChangeOf
  <1> QED
    BY <1>1, <1>2, SectionIsOwner DEF SectionOf, Valid

\* What has the places of a sequence is a sequence.
LEMMA LikeAnother ==
    ASSUME NEW S, NEW p \in Seq(S), NEW c, DOMAIN c = DOMAIN p, c = [n \in DOMAIN p |-> c[n]]
    PROVE  Len(c) \in Nat /\ DOMAIN c = 1..Len(c)
  <1>1. DOMAIN p = 1..Len(p) /\ Len(p) \in Nat
    BY LenProperties
  <1>2. c \in [1..Len(p) -> {c[n] : n \in DOMAIN c}]
    BY <1>1
  <1>3. c \in Seq({c[n] : n \in DOMAIN c})
    BY <1>1, <1>2, SeqDef
  <1> QED
    BY <1>3, LenProperties

\* There are as many changes as operations.
LEMMA ChangesAreNumbered ==
    ASSUME Loaded, Compared
    PROVE  Len(changes) \in Nat /\ DOMAIN changes = 1..Len(changes)
  <1>1. Patch(Lower, Upper) \in Seq(Operation)
    BY PatchAssumption DEF Loaded
  <1>2. /\ DOMAIN changes = DOMAIN Patch(Lower, Upper)
        /\ changes = [n \in DOMAIN Patch(Lower, Upper) |-> changes[n]]
    BY DEF Loaded
  <1> QED
    BY <1>1, <1>2, LikeAnother

-----------------------------------------------------------------------------
(* The invariant holds in the beginning.                                    *)

LEMMA InitInv == Init => Inv
  <1> SUFFICES ASSUME Init PROVE Inv
    OBVIOUS
  <1> USE DEF Init
  <1>1. ~Compared /\ ~Sorted /\ ~Answered
    BY NilAssumption DEF Compared, Sorted, Answered, Errors
  <1>2. Progress
    BY DEF Progress
  <1>3. Grouped
    <2>1. Len(changes) = 0 /\ 0 \in 0..0 /\ 1..grouped = {} /\ DOMAIN sections = {}
      OBVIOUS
    <2> QED BY <1>1, <2>1 DEF Grouped
  <1>4. Types
    BY DEF Types
  <1> QED
    BY <1>1, <1>2, <1>3, <1>4 DEF Inv, Ordered, Loaded, Offered, Headed, Shown

-----------------------------------------------------------------------------
(* Every step keeps the invariant.                                          *)

\* Which runs have compared the schemas.
LEMMA WhoCompared ==
    /\ pc \in {"start", "compare"} /\ err = Nil => ~Compared
    /\ pc = "group" /\ err = Nil => Compared /\ ~Sorted /\ ~Answered
    /\ pc \in {"header", "sections"} => Compared /\ Sorted /\ ~Answered
  BY NilAssumption DEF Compared, Sorted, Answered, Errors

\* The same after a step, of which one can end in an error.
LEMMA WhoHasCompared ==
    /\ pc' = "compare" /\ err' = Nil => ~Compared'
    /\ pc' = "group" /\ err' = Nil => Compared' /\ ~Sorted' /\ ~Answered'
    /\ pc' \in {"header", "sections"} => Compared' /\ Sorted' /\ ~Answered'
    /\ pc' = "ended" /\ err' \in Errors \ {"invalid filter section(s)"} => ~Compared'
  BY NilAssumption DEF Compared, Sorted, Answered, Errors

\* A run that has not compared anything has nothing to be right about.
LEMMA NothingYet ==
    ASSUME changes' = <<>>, grouped' = 0, sections' = [s \in {} |-> NoChanges], ~Compared'
    PROVE  (Loaded /\ Grouped /\ Offered /\ Headed /\ Shown)'
  <1>1. ~Sorted' /\ ~Answered' /\ pc' # "sections"
    BY DEF Compared, Sorted
  <1>2. Grouped'
    <2>1. Len(changes') = 0 /\ 0 \in 0..0 /\ 1..grouped' = {} /\ DOMAIN sections' = {}
      OBVIOUS
    <2> QED BY <1>1, <2>1 DEF Grouped
  <1> QED
    BY <1>1, <1>2 DEF Loaded, Offered, Headed, Shown

LEMMA ListStep == Inv /\ ListVersions => Inv'
  <1> SUFFICES ASSUME Inv, ListVersions PROVE Inv'
    OBVIOUS
  <1>2. /\ UNCHANGED <<inv, versions, changes, grouped, sections, lines>>
        /\ pc = "start" /\ pc' = "ended" /\ err' = err /\ err = Nil /\ inv.cmd = "list"
    BY DEF ListVersions, Goto, Inv, Progress
  <1>1. ~Compared /\ ~Compared'
    <2>1. ~Compared
      BY <1>2, WhoCompared
    <2>2. err' # "invalid filter section(s)" /\ inv'.cmd # "diff"
      BY <1>2, NilAssumption DEF Errors
    <2>3. ~Compared'
      BY <1>2, <2>2 DEF Compared, Sorted, Answered
    <2> QED BY <2>1, <2>3
  <1>3. changes = <<>> /\ grouped = 0 /\ sections = [s \in {} |-> NoChanges]
    BY <1>1 DEF Inv, Progress
  <1>4. (Loaded /\ Grouped /\ Offered /\ Headed /\ Shown)'
    BY <1>1, <1>2, <1>3, NothingYet
  <1>5. Progress'
    BY <1>1, <1>2, <1>3 DEF Inv, Progress
  <1>6. Ordered'
    BY <1>1, <1>2 DEF Ordered
  <1>7. Types'
    BY <1>2 DEF Inv, Types
  <1> QED
    BY <1>4, <1>5, <1>6, <1>7 DEF Inv

LEMMA ArgsStep == Inv /\ CheckArgs => Inv'
  <1> SUFFICES ASSUME Inv, CheckArgs PROVE Inv'
    OBVIOUS
  <1>1. err = Nil /\ ~Compared
    <2>1. pc = "start" /\ err = Nil
      BY DEF Inv, Progress, CheckArgs
    <2> QED BY <2>1, WhoCompared
  <1>2. changes = <<>> /\ grouped = 0 /\ sections = [s \in {} |-> NoChanges] /\ lines = <<>>
    BY <1>1 DEF Inv, Progress, CheckArgs
  <1>3. /\ UNCHANGED <<inv, changes, grouped, sections, lines>>
        /\ pc = "start" /\ inv.cmd = "diff"
    BY DEF CheckArgs
  <1>4. \/ /\ pc' = "ended" /\ versions' = versions
           /\ err' \in {"errSchemaDiffWrongArgs", "identical versions", "failed to compare versions"}
        \/ /\ pc' = "compare" /\ err' = err /\ Len(inv.args) = 2
           /\ Comparable(inv.args[1], inv.args[2])
           /\ versions' = IF Older(inv.args[2], inv.args[1]) THEN Reverse(inv.args) ELSE inv.args
    BY DEF CheckArgs, Fail, Goto
  <1>5. ~Compared'
    <2>1. {"errSchemaDiffWrongArgs", "identical versions", "failed to compare versions"}
             \subseteq Errors \ {"invalid filter section(s)"}
      BY DEF Errors
    <2> QED BY <1>1, <1>4, <2>1, WhoHasCompared
  <1>6. (Loaded /\ Grouped /\ Offered /\ Headed /\ Shown)'
    BY <1>2, <1>3, <1>4, <1>5, NothingYet
  <1>7. Progress'
    BY <1>1, <1>2, <1>3, <1>4, <1>5 DEF Progress
  <1>8. inv.args \in Seq(Version)
    BY SchemaDiffAssumption DEF Inv, Types, Invocation
  <1>9. pc' = "compare" =>
          /\ versions' \in Pairs
          /\ ~Older(versions'[2], versions'[1])
    <2> SUFFICES ASSUME pc' = "compare"
                 PROVE  /\ versions' \in Pairs
                        /\ ~Older(versions'[2], versions'[1])
      OBVIOUS
    <2>1. PICK v \in Version, w \in Version : inv.args = <<v, w>>
      BY <1>4, <1>8
    <2>2. Reverse(inv.args) = <<w, v>>
      BY <2>1 DEF Reverse
    <2>3. Older(w, v) => ~Older(v, w)
      BY SchemaDiffAssumption
    <2>4. versions' = IF Older(w, v) THEN <<w, v>> ELSE <<v, w>>
      BY <1>4, <2>1, <2>2
    <2>5. CASE Older(w, v)
      BY <2>3, <2>4, <2>5 DEF Pairs
    <2>6. CASE ~Older(w, v)
      BY <2>4, <2>6 DEF Pairs
    <2> QED BY <2>5, <2>6
  <1>10. Ordered'
    BY <1>5, <1>9 DEF Ordered
  <1>11. Types'
    <2>1. err' \in Errors \cup {Nil}
      BY <1>1, <1>4 DEF Errors
    <2>2. versions' \in {<<>>} \cup Pairs
      BY <1>4, <1>9 DEF Inv, Types
    <2> QED BY <1>3, <1>4, <2>1, <2>2 DEF Inv, Types
  <1> QED
    BY <1>6, <1>7, <1>10, <1>11 DEF Inv

LEMMA CompareStep == Inv /\ CompareSchemas => Inv'
  <1> SUFFICES ASSUME Inv, CompareSchemas PROVE Inv'
    OBVIOUS
  <1>1. pc = "compare" /\ err = Nil /\ inv.cmd = "diff" /\ ~Compared
    <2>1. pc = "compare" /\ err = Nil /\ inv.cmd = "diff"
      BY DEF Inv, Progress, CompareSchemas
    <2> QED BY <2>1, WhoCompared
  <1>2. changes = <<>> /\ grouped = 0 /\ sections = [s \in {} |-> NoChanges] /\ lines = <<>>
    BY <1>1 DEF Inv, Progress
  <1>3. UNCHANGED <<inv, versions, grouped, sections, lines>>
    BY DEF CompareSchemas
  <1> DEFINE patch == Patch(Lower, Upper)
  <1>4. \/ /\ pc' = "ended" /\ changes' = changes
           /\ err' \in Errors \ {"invalid filter section(s)"}
        \/ /\ pc' = "group" /\ err' = err /\ LoadError = Nil
           /\ \A n \in DOMAIN patch : patch[n].type \in ChangeType
           /\ changes' = [n \in DOMAIN patch |-> ChangeOf(patch[n], Lower, Upper)]
    <2>1. LoadError # Nil => LoadError \in Errors \ {"invalid filter section(s)"}
      BY DEF LoadError, Errors
    <2>2. CASE LoadError # Nil
      BY <2>1, <2>2 DEF CompareSchemas, Fail
    <2>3. CASE LoadError = Nil
      BY <2>3 DEF CompareSchemas, Fail, Goto, Errors
    <2> QED BY <2>2, <2>3
  <1> HIDE DEF patch
  <1>5. CASE pc' = "ended"
    <2>1. err' \in Errors \ {"invalid filter section(s)"} /\ changes' = changes
      BY <1>4, <1>5
    <2>2. ~Compared'
      BY <1>5, <2>1, WhoHasCompared
    <2>3. (Loaded /\ Grouped /\ Offered /\ Headed /\ Shown)'
      BY <1>2, <1>3, <1>5, <2>1, <2>2, NothingYet
    <2>4. Progress' /\ Ordered'
      BY <1>2, <1>3, <1>5, <2>1, <2>2 DEF Progress, Ordered
    <2>5. Types'
      BY <1>3, <1>5, <2>1 DEF Inv, Types
    <2> QED BY <2>3, <2>4, <2>5 DEF Inv
  <1>6. CASE pc' # "ended"
    <2>1. /\ pc' = "group" /\ err' = Nil /\ LoadError = Nil
          /\ \A n \in DOMAIN patch : patch[n].type \in ChangeType
          /\ changes' = [n \in DOMAIN patch |-> ChangeOf(patch[n], Lower, Upper)]
      BY <1>1, <1>4, <1>6
    <2>2. Compared' /\ ~Sorted' /\ ~Answered'
      BY <2>1, WhoHasCompared
    <2>3. Progress'
      BY <1>1, <1>2, <1>3, <2>1, <2>2 DEF Progress
    <2>4. Ordered'
      BY <1>1, <1>3 DEF Inv, Ordered
    <2>5. \A n \in 1..2 : versions[n] \in DOMAIN Schema /\ Schema[versions[n]] # Unparsable
      BY <2>1, NilAssumption DEF LoadError, Errors
    <2>6. Lower' = Lower /\ Upper' = Upper
      BY <1>3 DEF Lower, Upper
    <2>7. versions[1] \in DOMAIN Schema /\ versions[2] \in DOMAIN Schema
      BY <2>5
    <2>8. Lower \in Document /\ Upper \in Document
      BY <2>5, <2>7 DEF Document, Lower, Upper
    <2>9. Loaded'
      BY <1>3, <2>1, <2>6, <2>7, <2>8 DEF Loaded, patch
    <2>10. Len(changes') \in Nat
      <3>1. patch \in Seq(Operation)
        BY <2>8, PatchAssumption DEF patch
      <3> QED BY <2>1, <3>1, LikeAnother
    <2>11. Grouped'
      <3>1. 0 \in 0..Len(changes') /\ 1..0 = {} /\ DOMAIN sections' = {} /\ grouped' = 0
        BY <1>2, <1>3, <2>10
      <3> QED BY <2>2, <3>1 DEF Grouped
    <2>12. (Offered /\ Headed /\ Shown)'
      BY <2>1, <2>2 DEF Offered, Headed, Shown
    <2>13. Types'
      BY <1>3, <2>1 DEF Inv, Types
    <2> QED BY <2>3, <2>4, <2>9, <2>11, <2>12, <2>13 DEF Inv
  <1> QED
    BY <1>5, <1>6

\* While the versions stay, so do the sections of the changes.
LEMMA SameSections ==
    ASSUME UNCHANGED versions
    PROVE  /\ Lower' = Lower /\ Upper' = Upper /\ Valid' = Valid
           /\ \A c : SectionOf(c)' = SectionOf(c)
  BY DEF Lower, Upper, Valid, SectionOf

\* So do the changes, once they have been found.
LEMMA SameChanges ==
    ASSUME Inv, Compared, UNCHANGED <<versions, changes>>
    PROVE  Ordered' /\ Loaded'
  <1>1. Ordered'
    BY DEF Inv, Ordered
  <1>2. Loaded'
    BY SameSections DEF Inv, Loaded
  <1> QED
    BY <1>1, <1>2

\* And what has been done with them.
LEMMA SameGroups ==
    ASSUME Inv, UNCHANGED <<versions, changes, grouped, sections>>, Sorted' => grouped = Len(changes)
    PROVE  Grouped'
  <1>1. \A s, t : Members(s, t)' = Members(s, t)
    BY SameSections DEF Members
  <1>2. \A m \in 1..grouped' : SectionOf(changes[m])' = SectionOf(changes[m])
    BY SameSections
  <1>3. changes' = changes /\ grouped' = grouped /\ sections' = sections
    OBVIOUS
  <1> QED
    BY <1>1, <1>2, <1>3 DEF Inv, Grouped

\* A change becomes the last one in the list of its section and type.
LEMMA GroupStep == Inv /\ GroupChange => Inv'
  <1> SUFFICES ASSUME Inv, GroupChange PROVE Inv'
    OBVIOUS
  <1> DEFINE k == grouped + 1
             c == changes[k]
             s == SectionOf(c)
             t == c.type
             before == SectionChanges(s)
  <1>1. /\ pc = "group" /\ err = Nil /\ grouped < Len(changes)
        /\ UNCHANGED <<inv, pc, versions, changes, available, header, lines, err>>
        /\ grouped' = k
        /\ sections' = [r \in DOMAIN sections \cup {s} |->
                          IF r = s THEN [before EXCEPT ![t] = Append(@, c)] ELSE sections[r]]
    BY DEF GroupChange, Inv, Progress, SectionOf, Valid
  <1>2. Compared /\ ~Sorted /\ ~Answered /\ Compared' /\ ~Sorted' /\ ~Answered'
    BY <1>1, WhoCompared, WhoHasCompared
  <1>3. Loaded /\ Grouped
    BY DEF Inv
  <1>4. Len(changes) \in Nat /\ DOMAIN changes = 1..Len(changes)
    BY <1>2, <1>3, ChangesAreNumbered
  <1>5. /\ grouped \in Nat /\ k \in 1..Len(changes) /\ k \in 0..Len(changes)
        /\ 1..grouped \subseteq 1..Len(changes) /\ k \notin 1..grouped
        /\ 1..k = 1..grouped \cup {k}
    <2>1. grouped \in 0..Len(changes)
      BY <1>3 DEF Grouped
    <2>2. \A n, g \in Nat : g < n =>
            /\ g + 1 \in 1..n /\ g + 1 \in 0..n /\ 1..g \subseteq 1..n
            /\ g + 1 \notin 1..g /\ 1..g + 1 = 1..g \cup {g + 1}
      OBVIOUS
    <2> QED BY <1>1, <1>4, <2>1, <2>2
  <1>6. t \in ChangeType
    BY <1>2, <1>3, <1>4, <1>5, ChangesHaveSections
  <1>7. /\ DOMAIN before = ChangeType
        /\ \A u \in ChangeType : Lists(before[u], Members(s, u), changes)
    <2>1. CASE s \in DOMAIN sections
      BY <1>3, <2>1 DEF Grouped, SectionChanges
    <2>2. CASE s \notin DOMAIN sections
      <3>1. before = NoChanges
        BY <2>2 DEF SectionChanges
      <3>2. \A u \in ChangeType : before[u] = <<>>
        BY <3>1 DEF NoChanges
      <3>3. \A u : Members(s, u) = {}
        BY <1>3, <2>2 DEF Grouped, Members
      <3> QED BY <3>1, <3>2, <3>3, ListsNothing DEF NoChanges
    <2> QED BY <2>1, <2>2
  <1>8. \A r, u : Members(r, u)' = IF r = s /\ u = t THEN Members(r, u) \cup {k} ELSE Members(r, u)
    <2> SUFFICES ASSUME NEW r, NEW u
                 PROVE  Members(r, u)' = IF r = s /\ u = t THEN Members(r, u) \cup {k} ELSE Members(r, u)
      OBVIOUS
    <2>1. Members(r, u)' = {m \in 1..k : changes[m].type = u /\ SectionOf(changes[m]) = r}
      BY <1>1, SameSections DEF Members
    <2>2. \A m \in 1..k : m \in 1..grouped \/ m = k
      BY <1>5
    <2> QED BY <1>5, <2>1, <2>2 DEF Members
  <1>9. Lists(Append(before[t], c), Members(s, t) \cup {k}, changes)
    <2>1. Members(s, t) \in SUBSET DOMAIN changes
      BY <1>4, <1>5 DEF Members
    <2>2. k \in DOMAIN changes \ Members(s, t)
      BY <1>4, <1>5 DEF Members
    <2> QED BY <1>6, <1>7, <2>1, <2>2, ListsOneMore
  <1> HIDE DEF before, s, t, c, k
  <1>10. /\ DOMAIN sections' = DOMAIN sections \cup {s}
         /\ \A r \in DOMAIN sections : r # s => sections'[r] = sections[r]
         /\ DOMAIN sections'[s] = ChangeType
         /\ \A u \in ChangeType : u # t => sections'[s][u] = before[u]
         /\ sections'[s][t] = Append(before[t], c)
    BY <1>1, <1>6, <1>7
  <1>11. \A r \in DOMAIN sections' : DOMAIN sections'[r] = ChangeType
    BY <1>3, <1>10 DEF Grouped
  <1>12. \A r \in DOMAIN sections', u \in ChangeType : Lists(sections'[r][u], Members(r, u)', changes)
    <2> SUFFICES ASSUME NEW r \in DOMAIN sections', NEW u \in ChangeType
                 PROVE  Lists(sections'[r][u], Members(r, u)', changes)
      OBVIOUS
    <2>1. CASE r # s
      BY <1>3, <1>8, <1>10, <2>1 DEF Grouped
    <2>2. CASE r = s /\ u # t
      BY <1>7, <1>8, <1>10, <2>2
    <2>3. CASE r = s /\ u = t
      BY <1>8, <1>9, <1>10, <2>3
    <2> QED BY <2>1, <2>2, <2>3
  <1>13. \A m \in 1..k : SectionOf(changes[m])' \in DOMAIN sections'
    <2>1. \A m \in 1..grouped : SectionOf(changes[m]) \in DOMAIN sections'
      BY <1>3, <1>10 DEF Grouped
    <2>2. SectionOf(changes[k]) \in DOMAIN sections'
      BY <1>10 DEF s, c
    <2>3. \A m \in 1..k : SectionOf(changes[m])' = SectionOf(changes[m])
      BY <1>1, SameSections
    <2> QED BY <1>5, <2>1, <2>2, <2>3
  <1>14. Grouped'
    BY <1>1, <1>2, <1>5, <1>11, <1>12, <1>13 DEF Grouped
  <1>15. Ordered' /\ Loaded'
    BY <1>1, <1>2, SameChanges
  <1>16. Progress'
    BY <1>1, <1>2 DEF Inv, Progress
  <1>17. (Types /\ Offered /\ Headed /\ Shown)'
    BY <1>1, <1>2 DEF Inv, Types, Offered, Headed, Shown
  <1> QED
    BY <1>14, <1>15, <1>16, <1>17 DEF Inv

LEMMA GroupEndStep == Inv /\ GroupEnds => Inv'
  <1> SUFFICES ASSUME Inv, GroupEnds PROVE Inv'
    OBVIOUS
  <1>1. /\ pc = "group" /\ err = Nil /\ inv.cmd = "diff" /\ lines = <<>> /\ grouped = Len(changes)
        /\ UNCHANGED <<inv, versions, changes, grouped, sections, header, lines>>
        /\ available' = Valid \cup (DOMAIN sections \cap {defaultSectionName})
    BY DEF GroupEnds, Inv, Progress, Valid
  <1>2. \/ pc' = "header" /\ err' = Nil
        \/ pc' = "ended" /\ err' = "invalid filter section(s)" /\ err' # Nil
    BY <1>1, NilAssumption DEF GroupEnds, Goto, Fail, Errors
  <1>3. Compared /\ Compared' /\ Sorted' /\ ~Answered'
    BY <1>1, <1>2, WhoCompared DEF Compared, Sorted, Answered
  <1>4. Grouped' /\ Ordered' /\ Loaded'
    BY <1>1, <1>3, SameGroups, SameChanges
  <1>5. Progress'
    BY <1>1, <1>2, <1>3 DEF Progress
  <1>6. Types'
    <2>1. err' \in Errors \cup {Nil}
      BY <1>2 DEF Errors
    <2> QED BY <1>1, <1>2, <2>1 DEF Inv, Types
  <1>7. Offered'
    BY <1>1, <1>3, SameSections DEF Offered
  <1>8. Headed' /\ Shown'
    BY <1>2, <1>3 DEF Headed, Shown
  <1> QED
    BY <1>4, <1>5, <1>6, <1>7, <1>8 DEF Inv

LEMMA HeaderStep == Inv /\ RenderHeader => Inv'
  <1> SUFFICES ASSUME Inv, RenderHeader PROVE Inv'
    OBVIOUS
  <1>1. /\ pc = "header" /\ pc' = "sections" /\ err = Nil /\ err' = Nil
        /\ inv.cmd = "diff" /\ lines = <<>>
        /\ UNCHANGED <<inv, versions, changes, grouped, sections, available, lines>>
    BY DEF RenderHeader, Goto, Inv, Progress
  <1>2. Compared /\ Sorted /\ Compared' /\ Sorted' /\ ~Answered'
    BY <1>1, WhoCompared, WhoHasCompared
  <1>3. Grouped' /\ Ordered' /\ Loaded'
    <2>1. grouped = Len(changes)
      BY <1>2 DEF Inv, Grouped
    <2> QED BY <1>1, <1>2, <2>1, SameGroups, SameChanges
  <1>4. Progress' /\ Types'
    BY <1>1, <1>2 DEF Inv, Progress, Types
  <1>5. Offered'
    BY <1>1, <1>2, SameSections DEF Inv, Offered
  <1>6. Headed'
    BY <1>1 DEF Headed, RenderHeader, Total
  <1>7. Shown'
    <2>1. Printed' = {}
      BY <1>1 DEF Printed
    <2>2. InSections(Printed)' = {}
      BY <2>1 DEF InSections
    <2> QED BY <1>1, <1>2, <2>1, <2>2, ListsNothing DEF Shown
  <1> QED
    BY <1>3, <1>4, <1>5, <1>6, <1>7 DEF Inv

LEMMA EndStep == Inv /\ RenderEnds => Inv'
  <1> SUFFICES ASSUME Inv, RenderEnds PROVE Inv'
    OBVIOUS
  <1>1. /\ pc = "sections" /\ pc' = "ended" /\ err = Nil /\ err' = Nil
        /\ inv.cmd = "diff" /\ Wanted \subseteq Printed
        /\ UNCHANGED <<inv, versions, changes, grouped, sections, available, header, lines>>
    BY DEF RenderEnds, Goto, Inv, Progress
  <1>2. Compared /\ Sorted /\ Compared' /\ Sorted' /\ Answered'
    BY <1>1, WhoCompared DEF Compared, Sorted, Answered
  <1>3. Grouped' /\ Ordered' /\ Loaded'
    <2>1. grouped = Len(changes)
      BY <1>2 DEF Inv, Grouped
    <2> QED BY <1>1, <1>2, <2>1, SameGroups, SameChanges
  <1>4. Progress' /\ Types'
    BY <1>1, <1>2 DEF Inv, Progress, Types
  <1>5. Offered'
    BY <1>1, <1>2, SameSections DEF Inv, Offered
  <1>6. Headed'
    BY <1>1 DEF Inv, Headed, Total
  <1>7. Shown'
    <2>1. Printed' = Printed /\ Wanted' = Wanted
      BY <1>1 DEF Printed, Wanted, FilterSections
    <2>2. InSections(Printed)' = InSections(Printed)
      BY <1>1, <2>1, SameSections DEF InSections
    <2>3. AllLines' = AllLines
      BY <1>1, SameSections DEF AllLines, LineOf, formatChange, formatArrayItemModification,
         formatPropertyModification, formatArrayItem, formatPropertyAddition, formatPropertyRemoval
    <2>4. Printed \subseteq Wanted /\ Lists(lines, InSections(Printed), AllLines)
      BY <1>1 DEF Inv, Shown
    <2> QED BY <1>1, <2>1, <2>2, <2>3, <2>4 DEF Shown
  <1> QED
    BY <1>3, <1>4, <1>5, <1>6, <1>7 DEF Inv

\* The lists of a section, one after the other, are all changes of the section.
LEMMA SectionIsListed ==
    ASSUME Inv, Sorted, NEW s \in DOMAIN sections
    PROVE  Lists(sections[s][Removal] \o sections[s][Addition] \o sections[s][Modification],
                 InSections({s}), changes)
  <1> DEFINE R == Members(s, Removal)
             A == Members(s, Addition)
             M == Members(s, Modification)
  <1>1. DOMAIN changes = 1..grouped
    BY ChangesAreNumbered DEF Inv, Grouped, Compared
  <1>2. R \in SUBSET DOMAIN changes /\ A \in SUBSET DOMAIN changes /\ M \in SUBSET DOMAIN changes
    BY <1>1 DEF Members
  <1>3. R \cap A = {} /\ (R \cup A) \cap M = {}
    BY DEF Members, Removal, Addition, Modification
  <1>4. /\ Lists(sections[s][Removal], R, changes)
        /\ Lists(sections[s][Addition], A, changes)
        /\ Lists(sections[s][Modification], M, changes)
    BY DEF Inv, Grouped, ChangeType
  <1>5. (R \cup A) \cup M = InSections({s})
    <2>1. \A m \in DOMAIN changes : changes[m].type \in ChangeType
      BY ChangesHaveSections DEF Inv, Compared
    <2>2. \A m : m \in InSections({s}) <=> m \in 1..grouped /\ SectionOf(changes[m]) = s
      BY <1>1 DEF InSections
    <2>3. \A m : m \in (R \cup A) \cup M
                 <=> m \in 1..grouped /\ SectionOf(changes[m]) = s /\ changes[m].type \in ChangeType
      BY DEF Members, ChangeType
    <2> QED BY <1>1, <2>1, <2>2, <2>3
  <1> HIDE DEF R, A, M
  <1>6. Lists(sections[s][Removal] \o sections[s][Addition], R \cup A, changes)
    BY <1>2, <1>3, <1>4, ListsBoth
  <1>7. R \cup A \in SUBSET DOMAIN changes
    BY <1>2
  <1>8. Lists((sections[s][Removal] \o sections[s][Addition]) \o sections[s][Modification],
              (R \cup A) \cup M, changes)
    BY <1>2, <1>3, <1>4, <1>6, <1>7, ListsBoth
  <1> QED
    BY <1>5, <1>8

\* What is printed of a section are the lines of its changes.
LEMMA SectionStep == Inv /\ RenderSection => Inv'
  <1> SUFFICES ASSUME Inv, RenderSection PROVE Inv'
    OBVIOUS
  <1> DEFINE s == CHOOSE r \in Wanted \ Printed : TRUE
             all == sections[s][Removal] \o sections[s][Addition] \o sections[s][Modification]
             added == [n \in DOMAIN all |-> LineOf(s, all[n])]
  <1>1. /\ pc = "sections" /\ pc' = "sections" /\ err = Nil /\ err' = Nil
        /\ Wanted \ Printed # {}
        /\ lines' = lines \o added
        /\ UNCHANGED <<inv, pc, versions, changes, grouped, sections, available, header, err>>
    BY DEF RenderSection, Inv, Progress
  <1>2. Compared /\ Sorted /\ Compared' /\ Sorted' /\ ~Answered'
    BY <1>1, WhoCompared, WhoHasCompared
  <1>3. Grouped' /\ Ordered' /\ Loaded'
    <2>1. grouped = Len(changes)
      BY <1>2 DEF Inv, Grouped
    <2> QED BY <1>1, <1>2, <2>1, SameGroups, SameChanges
  <1>4. Progress' /\ Types'
    BY <1>1, <1>2 DEF Inv, Progress, Types
  <1>5. Offered'
    BY <1>1, <1>2, SameSections DEF Inv, Offered
  <1>6. Headed'
    BY <1>1 DEF Inv, Headed, Total
  <1>7. s \in Wanted /\ s \notin Printed /\ s \in DOMAIN sections
    <2>1. s \in Wanted \ Printed
      BY <1>1
    <2> QED BY <2>1 DEF Wanted
  <1> HIDE DEF s
  <1>8. Printed \subseteq Wanted /\ Lists(lines, InSections(Printed), AllLines)
    BY <1>1 DEF Inv, Shown
  <1>9. Lists(all, InSections({s}), changes)
    BY <1>2, <1>7, SectionIsListed
  <1>10. DOMAIN all = 1..Len(all) /\ Len(all) \in Nat
    BY <1>9, LenProperties DEF Lists
  <1>11. DOMAIN AllLines = DOMAIN changes
    BY DEF AllLines
  <1>12. Lists(added, InSections({s}), AllLines)
    <2>1. InSections({s}) \subseteq DOMAIN AllLines
      BY <1>11 DEF InSections
    <2>2. added \in [1..Len(all) -> {added[n] : n \in DOMAIN added}]
      BY <1>10
    <2>3. \A n \in 1..Len(all), m \in InSections({s}) : all[n] = changes[m] => added[n] = AllLines[m]
      BY <1>10 DEF InSections, AllLines
    <2> DEFINE B == InSections({s})
    <2> HIDE DEF all, added, B
    <2>4. Lists(all, B, changes)
      BY <1>9 DEF B
    <2>5. Instead(added, AllLines, all, changes, B)
      BY <2>1, <2>2, <2>3 DEF B, Instead
    <2>6. Lists(added, B, AllLines)
      BY <2>4, <2>5, ListsInstead
    <2> QED BY <2>6 DEF B
  <1> HIDE DEF all
  <1>13. Lists(lines', InSections(Printed) \cup InSections({s}), AllLines)
    <2>1. InSections(Printed) \cap InSections({s}) = {}
      BY <1>7 DEF InSections
    <2>2. InSections(Printed) \in SUBSET DOMAIN AllLines /\ InSections({s}) \in SUBSET DOMAIN AllLines
      BY <1>11 DEF InSections
    <2> HIDE DEF added
    <2> QED BY <1>1, <1>8, <1>12, <2>1, <2>2, ListsBoth
  <1>14. /\ DOMAIN lines = 1..Len(lines) /\ Len(lines) \in Nat
         /\ DOMAIN added = 1..Len(added) /\ Len(added) \in Nat
    BY <1>8, <1>12, LenProperties DEF Lists
  <1>15. /\ \A n \in DOMAIN lines : n \in DOMAIN lines' /\ lines'[n] = lines[n]
         /\ \A n \in DOMAIN added : Len(lines) + n \in DOMAIN lines' /\ lines'[Len(lines) + n] = added[n]
         /\ \A n \in DOMAIN lines' : \/ n \in DOMAIN lines
                                     \/ n - Len(lines) \in DOMAIN added /\ lines'[n] = added[n - Len(lines)]
    <2> DEFINE S == {AllLines[m] : m \in DOMAIN AllLines}
    <2>1. lines \in Seq(S) /\ added \in Seq(S)
      BY <1>8, <1>12 DEF Lists
    <2> HIDE DEF S, added
    <2>2. /\ DOMAIN lines' = 1..Len(lines) + Len(added)
          /\ \A n \in 1..Len(lines) : lines'[n] = lines[n]
          /\ \A n \in Len(lines) + 1..Len(lines) + Len(added) : lines'[n] = added[n - Len(lines)]
      BY <1>1, <2>1, ConcatProperties, LenProperties
    <2> QED BY <1>14, <2>2
  <1>16. Printed' \subseteq Printed \cup {s} /\ Printed \subseteq Printed'
    <2>1. \A n \in DOMAIN added : added[n].section = s
      BY DEF LineOf
    <2> HIDE DEF added
    <2> QED BY <1>15, <2>1 DEF Printed
  <1>17. ASSUME NEW m \in InSections({s}) PROVE s \in Printed'
    <2> HIDE DEF added
    <2> DEFINE B == InSections({s})
    <2> HIDE DEF B
    <2>3. Lists(added, B, AllLines) /\ m \in B
      BY <1>12 DEF B
    <2>1. PICK n \in 1..Len(added) : added[n] = AllLines[m]
      BY <2>3 DEF Lists
    <2>2. AllLines[m].section = s
      BY DEF InSections, AllLines, LineOf
    <2> QED BY <1>14, <1>15, <2>1, <2>2 DEF Printed
  <1>18. InSections(Printed') = InSections(Printed) \cup InSections({s})
    <2>1. \A m \in DOMAIN changes : SectionOf(changes[m]) = s => s \in Printed'
      BY <1>17 DEF InSections
    <2> QED BY <1>16, <2>1 DEF InSections
  <1>19. InSections(Printed)' = InSections(Printed')
    BY <1>1, SameSections DEF InSections
  <1>20. AllLines' = AllLines
    BY <1>1, SameSections DEF AllLines, LineOf, formatChange, formatArrayItemModification,
       formatPropertyModification, formatArrayItem, formatPropertyAddition, formatPropertyRemoval
  <1>21. Wanted' = Wanted
    BY <1>1 DEF Wanted, FilterSections
  <1>22. Shown'
    BY <1>2, <1>7, <1>8, <1>13, <1>16, <1>18, <1>19, <1>20, <1>21 DEF Shown
  <1> QED
    BY <1>3, <1>4, <1>5, <1>6, <1>22 DEF Inv

\* The invariant of all runs.
THEOREM Invariance == Spec => []Inv
  <1>1. Inv /\ [Next]_vars => Inv'
    <2> SUFFICES ASSUME Inv, [Next]_vars PROVE Inv'
      OBVIOUS
    <2>1. CASE ListVersions
      BY <2>1, ListStep
    <2>2. CASE CheckArgs
      BY <2>2, ArgsStep
    <2>3. CASE CompareSchemas
      BY <2>3, CompareStep
    <2>4. CASE GroupChange
      BY <2>4, GroupStep
    <2>5. CASE GroupEnds
      BY <2>5, GroupEndStep
    <2>6. CASE RenderHeader
      BY <2>6, HeaderStep
    <2>7. CASE RenderSection
      BY <2>7, SectionStep
    <2>8. CASE RenderEnds
      BY <2>8, EndStep
    <2>9. CASE UNCHANGED vars
      <3>1. UNCHANGED <<inv, pc, versions, changes, grouped, sections, available, header, lines, err>>
        BY <2>9 DEF vars
      <3>2. Compared' = Compared /\ Sorted' = Sorted /\ Answered' = Answered
        BY <3>1 DEF Compared, Sorted, Answered
      <3>3. Types' /\ Progress' /\ Ordered' /\ Headed'
        BY <3>1, <3>2 DEF Inv, Types, Progress, Ordered, Headed, Total
      <3>4. Loaded' /\ Offered'
        BY <3>1, <3>2, SameSections DEF Inv, Loaded, Offered
      <3>5. Grouped'
        BY <3>1, <3>2, SameGroups DEF Inv, Grouped
      <3>6. Shown'
        <4>1. Printed' = Printed /\ Wanted' = Wanted
          BY <3>1 DEF Printed, Wanted, FilterSections
        <4>2. InSections(Printed)' = InSections(Printed)
          BY <3>1, <4>1, SameSections DEF InSections
        <4>3. AllLines' = AllLines
          BY <3>1, SameSections DEF AllLines, LineOf, formatChange, formatArrayItemModification,
             formatPropertyModification, formatArrayItem, formatPropertyAddition, formatPropertyRemoval
        <4> QED BY <3>1, <3>2, <4>1, <4>2, <4>3 DEF Inv, Shown
      <3> QED BY <3>3, <3>4, <3>5, <3>6 DEF Inv
    <2> QED
      BY <2>1, <2>2, <2>3, <2>4, <2>5, <2>6, <2>7, <2>8, <2>9 DEF Next
  <1> QED
    BY InitInv, <1>1, PTL DEF Spec

-----------------------------------------------------------------------------
(* What the invariant says of the report.                                   *)

\* The sections hold nothing but changes, each in the list of its kind.
LEMMA TypeOKLemma == Inv => TypeOK
  <1> SUFFICES ASSUME Inv PROVE TypeOK
    OBVIOUS
  <1>1. versions \in {<<>>} \cup {<<v, w>> : v \in Version, w \in Version}
    BY DEF Inv, Types, Pairs
  <1>2. Grouped
    BY DEF Inv
  <1>3. ASSUME NEW s \in DOMAIN sections, NEW t \in ChangeType, NEW n \in DOMAIN sections[s][t]
        PROVE  /\ sections[s][t][n].type = t
               /\ \E m \in 1..grouped : sections[s][t][n] = changes[m]
    <2> DEFINE q == sections[s][t]
               A == Members(s, t)
    <2>1. Lists(q, A, changes)
      BY <1>2 DEF Grouped
    <2> HIDE DEF q, A
    <2>2. \E m \in A : q[n] = changes[m]
      <3>1. DOMAIN q = 1..Len(q)
        BY <2>1, LenProperties DEF Lists
      <3>2. n \in 1..Len(q)
        BY <3>1 DEF q
      <3> QED BY <2>1, <3>2 DEF Lists
    <2>3. PICK m \in A : q[n] = changes[m]
      BY <2>2
    <2>4. m \in 1..grouped /\ changes[m].type = t
      BY DEF A, Members
    <2> QED BY <2>3, <2>4 DEF q
  <1>4. grouped \in 0..Len(changes) /\ \A s \in DOMAIN sections : DOMAIN sections[s] = ChangeType
    BY <1>2 DEF Grouped
  <1>5. /\ inv \in Invocations
        /\ pc \in {"start", "compare", "group", "header", "sections", "ended"}
        /\ err \in Errors \cup {Nil}
    BY DEF Inv, Types
  <1> QED
    BY <1>1, <1>3, <1>4, <1>5 DEF TypeOK

\* In the report of a run that has answered every change is listed whose section was asked for.
LEMMA ReportIsComplete ==
    ASSUME Inv, Answered
    PROVE  /\ Lists(lines, {n \in DOMAIN changes : Asked(changes[n])}, AllLines)
           /\ \A n \in DOMAIN changes : AllLines[n] = LineOf(Owner(changes[n].path), changes[n])
  <1>1. Compared /\ Sorted
    BY DEF Compared, Sorted
  <1>2. \A n \in DOMAIN changes : SectionOf(changes[n]) = Owner(changes[n].path)
    BY <1>1, ChangesHaveSections DEF Inv
  <1>3. \A n \in DOMAIN changes : SectionOf(changes[n]) \in DOMAIN sections
    BY <1>1, ChangesAreNumbered DEF Inv, Grouped
  <1>4. Printed = Wanted
    BY DEF Inv, Shown
  <1>5. InSections(Printed) = {n \in DOMAIN changes : Asked(changes[n])}
    BY <1>2, <1>3, <1>4 DEF InSections, Wanted, Asked
  <1>6. Lists(lines, InSections(Printed), AllLines)
    BY DEF Inv, Shown
  <1> QED
    BY <1>2, <1>5, <1>6 DEF AllLines

LEMMA ShownIffAskedLemma == Inv => ShownIffAsked
  <1> SUFFICES ASSUME Inv, Answered
               PROVE  /\ Len(lines) = Cardinality({n \in DOMAIN changes : Asked(changes[n])})
                      /\ \A n \in DOMAIN changes : Asked(changes[n]) =>
                            Cardinality({m \in DOMAIN lines :
                                           lines[m] = LineOf(Owner(changes[n].path), changes[n])})
                            = Cardinality({m \in DOMAIN changes :
                                 LineOf(Owner(changes[m].path), changes[m])
                                 = LineOf(Owner(changes[n].path), changes[n])})
    BY DEF ShownIffAsked
  <1> DEFINE A == {n \in DOMAIN changes : Asked(changes[n])}
  <1>1. /\ Lists(lines, A, AllLines)
        /\ \A n \in DOMAIN changes : AllLines[n] = LineOf(Owner(changes[n].path), changes[n])
    BY ReportIsComplete
  <1>2. Len(lines) = Cardinality(A)
    BY <1>1, ListsLength
  <1>3. ASSUME NEW n \in DOMAIN changes, Asked(changes[n])
        PROVE  Cardinality({m \in DOMAIN lines : lines[m] = LineOf(Owner(changes[n].path), changes[n])})
               = Cardinality({m \in DOMAIN changes :
                    LineOf(Owner(changes[m].path), changes[m])
                    = LineOf(Owner(changes[n].path), changes[n])})
    <2> DEFINE line == LineOf(Owner(changes[n].path), changes[n])
               S == {m \in DOMAIN lines : lines[m] = line}
               T == {m \in DOMAIN changes : LineOf(Owner(changes[m].path), changes[m]) = line}
    <2>1. Count(lines, DOMAIN lines, {line}) = Count(AllLines, A, {line})
      BY <1>1, ListsCount
    <2>2. S = {m \in DOMAIN lines : lines[m] \in {line}}
      OBVIOUS
    <2>3. ASSUME NEW m \in T PROVE m \in A
      <3>1. Owner(changes[m].path) = Owner(changes[n].path)
        BY DEF LineOf
      <3> QED BY <1>3, <3>1 DEF Asked
    <2>4. T = {m \in A : AllLines[m] \in {line}}
      BY <1>1, <2>3
    <2> HIDE DEF S, T
    <2>5. Cardinality(S) = Cardinality(T)
      BY <2>1, <2>2, <2>4 DEF Count
    <2> QED BY <2>5 DEF S, T
  <1> QED
    BY <1>2, <1>3

LEMMA EverySectionLemma == Inv => EverySectionCanBeAsked
  <1> SUFFICES ASSUME Inv, pc \in {"header", "sections"} \/ err = "invalid filter section(s)",
                      NEW n \in DOMAIN changes
               PROVE  Owner(changes[n].path) \in available
    BY DEF EverySectionCanBeAsked
  <1>1. Sorted /\ Compared
    BY DEF Sorted, Compared
  <1>2. /\ SectionOf(changes[n]) = Owner(changes[n].path)
        /\ SectionOf(changes[n]) \in Valid \cup {defaultSectionName}
    BY <1>1, ChangesHaveSections DEF Inv
  <1>3. SectionOf(changes[n]) \in DOMAIN sections
    BY <1>1, ChangesAreNumbered DEF Inv, Grouped
  <1> QED
    BY <1>1, <1>2, <1>3 DEF Inv, Offered

\* Two sets that have nothing in common have as many elements as both.
LEMMA DisjointUnion ==
    ASSUME NEW S, NEW T, IsFiniteSet(S), IsFiniteSet(T), S \cap T = {}
    PROVE  IsFiniteSet(S \cup T) /\ Cardinality(S \cup T) = Cardinality(S) + Cardinality(T)
  <1>1. /\ IsFiniteSet(S \cup T)
        /\ Cardinality(S \cup T) = Cardinality(S) + Cardinality(T) - Cardinality(S \cap T)
    BY FS_Union
  <1>2. Cardinality(S \cap T) = 0
    BY FS_EmptySet
  <1>3. Cardinality(S) \in Nat /\ Cardinality(T) \in Nat
    BY FS_CardinalityType
  <1> QED
    BY <1>1, <1>2, <1>3

\* Every change is of one of the three kinds.
LEMMA KindsAddUp ==
    ASSUME Loaded, Compared
    PROVE  Len(changes) = Total(Addition) + Total(Removal) + Total(Modification)
  <1> DEFINE N == DOMAIN changes
             Of(t) == {n \in N : changes[n].type = t}
  <1>1. Len(changes) \in Nat /\ N = 1..Len(changes)
    BY ChangesAreNumbered
  <1>2. IsFiniteSet(N) /\ Cardinality(N) = Len(changes)
    <2>1. 1 \in Int /\ Len(changes) \in Int
      BY <1>1
    <2>2. IsFiniteSet(1..Len(changes))
      BY <2>1, FS_Interval
    <2>3. Cardinality(1..Len(changes)) = IF 1 > Len(changes) THEN 0 ELSE Len(changes) - 1 + 1
      BY <2>1, FS_Interval
    <2> QED BY <1>1, <2>2, <2>3
  <1>3. \A t : IsFiniteSet(Of(t)) /\ Cardinality(Of(t)) \in Nat
    <2>1. \A t : Of(t) \subseteq N
      OBVIOUS
    <2> HIDE DEF Of, N
    <2> QED BY <1>2, <2>1, FS_Subset, FS_CardinalityType
  <1>4. N = (Of(Addition) \cup Of(Removal)) \cup Of(Modification)
    BY ChangesHaveSections DEF ChangeType
  <1>5. Of(Addition) \cap Of(Removal) = {} /\ (Of(Addition) \cup Of(Removal)) \cap Of(Modification) = {}
    BY DEF Addition, Removal, Modification
  <1> HIDE DEF N, Of
  <1>6. /\ IsFiniteSet(Of(Addition) \cup Of(Removal))
        /\ Cardinality(Of(Addition) \cup Of(Removal)) = Cardinality(Of(Addition)) + Cardinality(Of(Removal))
    BY <1>3, <1>5, DisjointUnion
  <1>7. Cardinality(N) = Cardinality(Of(Addition) \cup Of(Removal)) + Cardinality(Of(Modification))
    BY <1>3, <1>4, <1>5, <1>6, DisjointUnion
  <1>8. \A t : Total(t) = Cardinality(Of(t))
    BY DEF Total, Of, N
  <1> QED
    BY <1>2, <1>6, <1>7, <1>8

LEMMA TotalsLemma == Inv => TotalsAddUp
  <1> SUFFICES ASSUME Inv, Answered
               PROVE  /\ header.total = header.additions + header.removals + header.modified
                      /\ FilterSections = {} =>
                           /\ header.total = Len(lines)
                           /\ header.additions = Cardinality({n \in DOMAIN lines : lines[n].type = Addition})
                           /\ header.removals = Cardinality({n \in DOMAIN lines : lines[n].type = Removal})
                           /\ header.modified = Cardinality({n \in DOMAIN lines : lines[n].type = Modification})
    BY DEF TotalsAddUp
  <1>1. Compared /\ Loaded
    BY DEF Inv, Compared, Sorted
  <1>2. /\ header.total = Len(changes) /\ header.additions = Total(Addition)
        /\ header.removals = Total(Removal) /\ header.modified = Total(Modification)
    BY DEF Inv, Headed
  <1>3. header.total = header.additions + header.removals + header.modified
    BY <1>1, <1>2, KindsAddUp
  <1>4. ASSUME FilterSections = {}
        PROVE  /\ Len(changes) = Len(lines)
               /\ \A t : Total(t) = Cardinality({n \in DOMAIN lines : lines[n].type = t})
    <2>1. {n \in DOMAIN changes : Asked(changes[n])} = DOMAIN changes
      BY <1>4 DEF Asked
    <2>2. Lists(lines, DOMAIN changes, AllLines)
      BY <2>1, ReportIsComplete
    <2>3. Len(lines) = Cardinality(DOMAIN changes)
      BY <2>2, ListsLength
    <2>4. Len(changes) \in Nat /\ DOMAIN changes = 1..Len(changes)
      BY <1>1, ChangesAreNumbered
    <2>5. Cardinality(1..Len(changes)) = Len(changes)
      <3>1. 1 \in Int /\ Len(changes) \in Int
        BY <2>4
      <3>2. Cardinality(1..Len(changes)) = IF 1 > Len(changes) THEN 0 ELSE Len(changes) - 1 + 1
        BY <3>1, FS_Interval
      <3> QED BY <2>4, <3>2
    <2>6. ASSUME NEW t PROVE Total(t) = Cardinality({n \in DOMAIN lines : lines[n].type = t})
      <3> DEFINE L == {AllLines[m] : m \in {k \in DOMAIN changes : changes[k].type = t}}
                 S == {n \in DOMAIN lines : lines[n].type = t}
                 T == {m \in DOMAIN changes : changes[m].type = t}
      <3>1. \A m \in DOMAIN changes : AllLines[m].type = changes[m].type
        BY DEF AllLines, LineOf
      <3>2. \A n \in DOMAIN lines : \E m \in DOMAIN changes : lines[n] = AllLines[m]
        <4>1. DOMAIN lines = 1..Len(lines)
          BY <2>2, LenProperties DEF Lists
        <4> QED BY <2>2, <4>1 DEF Lists
      <3>3. Count(lines, DOMAIN lines, L) = Count(AllLines, DOMAIN changes, L)
        BY <2>2, ListsCount
      <3>4. {n \in DOMAIN lines : lines[n] \in L} = S
        BY <3>1, <3>2
      <3>5. {m \in DOMAIN changes : AllLines[m] \in L} = T
        BY <3>1
      <3> HIDE DEF L, S, T
      <3>6. Cardinality(S) = Cardinality(T)
        BY <3>3, <3>4, <3>5 DEF Count
      <3> QED BY <3>6 DEF S, T, Total
    <2> QED BY <2>3, <2>4, <2>5, <2>6
  <1> QED
    BY <1>2, <1>3, <1>4

-----------------------------------------------------------------------------
(* What a line says of the two versions.                                    *)

\* The value that is shown as added is the one that is there now.
LEMMA AdditionShows ==
    ASSUME NEW c, c.type = Addition, ~isArrayPath(c.path)
    PROVE  formatChange(c).value = IF inv.compact THEN getValueSummary(c.value)
                                   ELSE formatValueDetails(c.value)
  <1>1. c.type # Modification
    BY DEF Addition, Modification
  <1>2. formatChange(c) = formatPropertyAddition(c)
    BY <1>1 DEF formatChange, Addition, Removal
  <1>3. CASE inv.compact
    BY <1>2, <1>3 DEF formatPropertyAddition
  <1>4. CASE ~inv.compact
    BY <1>2, <1>4 DEF formatPropertyAddition
  <1> QED
    BY <1>3, <1>4

\* Of a replaced property its two values are shown.
LEMMA ModificationShows ==
    ASSUME NEW c, c.type = Modification, ~isArrayPath(c.path)
    PROVE  /\ inv.compact => /\ formatChange(c).from = formatCompactValue(c.oldValue)
                             /\ formatChange(c).to = formatCompactValue(c.value)
           /\ ~inv.compact /\ c.oldValue # Nil /\ c.value # Nil =>
                /\ formatChange(c).from = formatValue(c.oldValue)
                /\ formatChange(c).to = formatValue(c.value)
  <1>1. c.type # Addition /\ c.type # Removal
    BY DEF Addition, Removal, Modification
  <1>2. formatChange(c) = formatPropertyModification(c)
    BY <1>1 DEF formatChange
  <1>3. ASSUME inv.compact
        PROVE  /\ formatChange(c).from = formatCompactValue(c.oldValue)
               /\ formatChange(c).to = formatCompactValue(c.value)
    BY <1>2, <1>3 DEF formatPropertyModification
  <1>4. ASSUME ~inv.compact, c.oldValue # Nil, c.value # Nil
        PROVE  /\ formatChange(c).from = formatValue(c.oldValue)
               /\ formatChange(c).to = formatValue(c.value)
    <2>1. formatModificationDetails(c) = [from |-> formatValue(c.oldValue), to |-> formatValue(c.value)]
      BY <1>4 DEF formatModificationDetails
    <2> QED BY <1>2, <1>4, <2>1 DEF formatPropertyModification
  <1> QED
    BY <1>3, <1>4

\* The compact form of an array is never empty.
LEMMA ArrayHasText ==
    ASSUME NEW v, IsArray(v)
    PROVE  formatCompactValue(v) # NoText
  <1>1. "word" \in DOMAIN NoText
    BY DEF NoText
  <1>2. CASE IsMap(v)
    <2>1. formatCompactValue(v) = [object |-> Cardinality(DOMAIN v.map)]
      BY <1>2 DEF formatCompactValue, IsMap
    <2>2. "word" \notin DOMAIN [object |-> Cardinality(DOMAIN v.map)]
      OBVIOUS
    <2> QED BY <1>1, <2>1, <2>2
  <1>3. CASE ~IsMap(v)
    <2>1. formatCompactValue(v) = [array |-> Len(v.array)]
      BY <1>3 DEF formatCompactValue, IsArray
    <2>2. "word" \notin DOMAIN [array |-> Len(v.array)]
      OBVIOUS
    <2> QED BY <1>1, <2>1, <2>2
  <1> QED
    BY <1>2, <1>3

\* Of a replaced item the arrays it was and is in are shown.
LEMMA ItemModificationShows ==
    ASSUME NEW c, c.type = Modification, isArrayPath(c.path),
           IsArray(c.oldFullValue), IsArray(c.newFullValue)
    PROVE  /\ inv.compact => /\ formatChange(c).from = formatCompactValue(c.oldFullValue)
                             /\ formatChange(c).to = formatCompactValue(c.newFullValue)
           /\ ~inv.compact /\ c.oldFullValue # Nil /\ c.newFullValue # Nil =>
                /\ formatChange(c).from = formatValue(c.oldFullValue)
                /\ formatChange(c).to = formatValue(c.newFullValue)
  <1>1. c.type # Addition /\ c.type # Removal
    BY DEF Addition, Removal, Modification
  <1>2. formatChange(c) = formatArrayItemModification(c)
    BY <1>1 DEF formatChange
  <1>3. ASSUME inv.compact
        PROVE  /\ formatChange(c).from = formatCompactValue(c.oldFullValue)
               /\ formatChange(c).to = formatCompactValue(c.newFullValue)
    <2>1. /\ formatCompactValue(c.oldFullValue) # NoText
          /\ formatCompactValue(c.newFullValue) # NoText
      BY ArrayHasText
    <2> QED BY <1>2, <1>3, <2>1 DEF formatArrayItemModification
  <1>4. ASSUME ~inv.compact, c.oldFullValue # Nil, c.newFullValue # Nil
        PROVE  /\ formatChange(c).from = formatValue(c.oldFullValue)
               /\ formatChange(c).to = formatValue(c.newFullValue)
    BY <1>2, <1>4 DEF formatArrayItemModification
  <1> QED
    BY <1>3, <1>4

\* A change of the patch is shown as what happens from the first schema to the second.
LEMMA ChangeIsShown ==
    ASSUME NEW op, op.type \in ChangeType, NEW lower, NEW upper, Describes(op, lower, upper),
           NEW c, c = ChangeOf(op, lower, upper)
    PROVE  LET there   == IF isArrayIndex(c.path) THEN getParentPath(c.path) ELSE c.path
               old     == getValueByJSONPath(lower, there)
               new     == getValueByJSONPath(upper, there)
               text(v) == IF inv.compact THEN formatCompactValue(v) ELSE formatValue(v)
               shown   == formatChange(c)
           IN /\ c.type = Addition /\ ~isArrayPath(c.path) =>
                   /\ old = Nil
                   /\ shown.value = IF inv.compact THEN getValueSummary(new)
                                    ELSE formatValueDetails(new)
              /\ c.type = Removal /\ ~isArrayPath(c.path) => new = Nil
              /\ c.type = Modification =>
                   /\ old # new
                   /\ inv.compact \/ (old # Nil /\ new # Nil) =>
                        shown.from = text(old) /\ shown.to = text(new)
  <1> DEFINE path    == op.path
             there   == IF isArrayIndex(path) THEN getParentPath(path) ELSE path
             old     == getValueByJSONPath(lower, there)
             new     == getValueByJSONPath(upper, there)
             text(v) == IF inv.compact THEN formatCompactValue(v) ELSE formatValue(v)
             shown   == formatChange(c)
  <1>1. c.type = op.type /\ c.path = path /\ c.value = op.value /\ c.oldValue = op.oldValue
    BY DEF ChangeOf
  <1>2. isArrayIndex(path) => isArrayPath(path)
    BY DEF isArrayIndex, isArrayPath
  <1>3. Addition # Removal /\ Addition # Modification /\ Removal # Modification
    BY DEF Addition, Removal, Modification
  <1>4. ASSUME op.type = Addition, ~isArrayPath(path)
        PROVE  /\ old = Nil
               /\ shown.value = IF inv.compact THEN getValueSummary(new) ELSE formatValueDetails(new)
    <2>1. old = Nil /\ c.value = new
      BY <1>1, <1>2, <1>3, <1>4 DEF Describes
    <2> QED BY <1>1, <1>4, <2>1, AdditionShows
  <1>5. ASSUME op.type = Removal, ~isArrayPath(path) PROVE new = Nil
    BY <1>2, <1>3, <1>5 DEF Describes
  <1>6. ASSUME op.type = Modification
        PROVE  /\ old # new
               /\ inv.compact \/ (old # Nil /\ new # Nil) => shown.from = text(old) /\ shown.to = text(new)
    <2>1. CASE isArrayPath(path)
      <3>1. /\ isArrayIndex(path) /\ old # new
            /\ IsArray(old) /\ IsArray(new)
        BY <1>3, <1>6, <2>1 DEF Describes
      <3>2. c.oldFullValue = old /\ c.newFullValue = new
        BY <1>6, <3>1 DEF ChangeOf
      <3> HIDE DEF old, new
      <3>3. /\ inv.compact => shown.from = formatCompactValue(old) /\ shown.to = formatCompactValue(new)
            /\ ~inv.compact /\ old # Nil /\ new # Nil =>
                 shown.from = formatValue(old) /\ shown.to = formatValue(new)
        BY <1>1, <1>6, <2>1, <3>1, <3>2, ItemModificationShows
      <3> HIDE DEF shown
      <3> QED BY <3>1, <3>3
    <2>2. CASE ~isArrayPath(path)
      <3>1. old # new /\ c.oldValue = old /\ c.value = new
        BY <1>1, <1>2, <1>3, <1>6, <2>2 DEF Describes
      <3> HIDE DEF old, new
      <3>3. /\ inv.compact => shown.from = formatCompactValue(old) /\ shown.to = formatCompactValue(new)
            /\ ~inv.compact /\ old # Nil /\ new # Nil =>
                 shown.from = formatValue(old) /\ shown.to = formatValue(new)
        BY <1>1, <1>6, <2>2, <3>1, ModificationShows
      <3> HIDE DEF shown
      <3> QED BY <3>1, <3>3
    <2> QED BY <2>1, <2>2
  <1> HIDE DEF shown
  <1>7. there = IF isArrayIndex(c.path) THEN getParentPath(c.path) ELSE c.path
    BY <1>1
  <1> HIDE DEF there
  <1> QED
    BY <1>1, <1>4, <1>5, <1>6, <1>7 DEF shown

LEMMA ShownAsUpgradeLemma == Inv => ShownAsUpgrade
  <1> SUFFICES ASSUME Inv, Answered
               PROVE  ShownAsUpgrade
    BY DEF ShownAsUpgrade
  <1>1. Compared /\ Loaded
    BY DEF Inv, Compared, Sorted
  <1>2. header.from = versions[1] /\ header.to = versions[2]
    BY DEF Inv, Headed
  <1>3. ~Older(header.to, header.from)
    BY <1>1, <1>2 DEF Inv, Ordered
  <1>4. Schema[header.from] = Lower /\ Schema[header.to] = Upper
    BY <1>2 DEF Lower, Upper
  <1>5. ASSUME NEW n \in DOMAIN lines
        PROVE  \E m \in DOMAIN changes : lines[n] = LineOf(Owner(changes[m].path), changes[m])
    <2> DEFINE A == {k \in DOMAIN changes : Asked(changes[k])}
    <2>1. /\ Lists(lines, A, AllLines)
          /\ \A k \in DOMAIN changes : AllLines[k] = LineOf(Owner(changes[k].path), changes[k])
      BY ReportIsComplete
    <2> HIDE DEF A
    <2>2. DOMAIN lines = 1..Len(lines)
      BY <2>1, LenProperties DEF Lists
    <2>3. PICK m \in A : lines[n] = AllLines[m]
      BY <2>1, <2>2 DEF Lists
    <2>4. m \in DOMAIN changes
      BY DEF A
    <2> QED BY <2>1, <2>3, <2>4
  <1>6. ASSUME NEW n \in DOMAIN lines
        PROVE  \E m \in DOMAIN changes :
             LET line  == lines[n]
                 path  == changes[m].path
                 there == IF isArrayIndex(path) THEN getParentPath(path) ELSE path
                 old   == getValueByJSONPath(Schema[header.from], there)
                 new   == getValueByJSONPath(Schema[header.to], there)
                 text(v) == IF inv.compact THEN formatCompactValue(v) ELSE formatValue(v)
             IN /\ line.type = changes[m].type /\ line.label = formatPath(path)
                /\ line.type = Addition /\ ~isArrayPath(path) =>
                     /\ old = Nil
                     /\ line.shown.value = IF inv.compact THEN getValueSummary(new)
                                           ELSE formatValueDetails(new)
                /\ line.type = Removal /\ ~isArrayPath(path) => new = Nil
                /\ line.type = Modification =>
                     /\ old # new
                     /\ inv.compact \/ (old # Nil /\ new # Nil) =>
                          line.shown.from = text(old) /\ line.shown.to = text(new)
    <2>1. PICK m \in DOMAIN changes : lines[n] = LineOf(Owner(changes[m].path), changes[m])
      BY <1>5
    <2>2. /\ lines[n].type = changes[m].type /\ lines[n].label = formatPath(changes[m].path)
          /\ lines[n].shown = formatChange(changes[m])
      BY <2>1 DEF LineOf
    <2>3. PICK op \in Operation :
              /\ op.type \in ChangeType
              /\ Describes(op, Lower, Upper)
              /\ changes[m] = ChangeOf(op, Lower, Upper)
      BY <1>1, ChangesAreOperations
    <2> DEFINE c       == changes[m]
               there   == IF isArrayIndex(c.path) THEN getParentPath(c.path) ELSE c.path
               old     == getValueByJSONPath(Lower, there)
               new     == getValueByJSONPath(Upper, there)
               text(v) == IF inv.compact THEN formatCompactValue(v) ELSE formatValue(v)
               shown   == formatChange(c)
    <2>4. /\ c.type = Addition /\ ~isArrayPath(c.path) =>
                /\ old = Nil
                /\ shown.value = IF inv.compact THEN getValueSummary(new)
                                 ELSE formatValueDetails(new)
          /\ c.type = Removal /\ ~isArrayPath(c.path) => new = Nil
          /\ c.type = Modification =>
                /\ old # new
                /\ inv.compact \/ (old # Nil /\ new # Nil) =>
                     shown.from = text(old) /\ shown.to = text(new)
      BY <2>3, ChangeIsShown
    <2> QED BY <1>4, <2>2, <2>4
  <1> QED
    BY <1>3, <1>6 DEF ShownAsUpgrade

-----------------------------------------------------------------------------
(* The theorems.                                                            *)

\* The sections and the report hold what compareSchemas has found and nothing else,
\* in every run of `diff versions' (groupChangesBySection).
THEOREM TypeCorrect == Spec => []TypeOK
  BY Invariance, TypeOKLemma, PTL

\* renderChangeSummary prints every change of the sections asked for, once, under the
\* top-level section it belongs to, and no other line.
THEOREM ReportIsExact == Spec => []ShownIffAsked
  BY Invariance, ShownIffAskedLemma, PTL

\* validateFilterSections never refuses the section of a change.
THEOREM ChangesCanBeAsked == Spec => []EverySectionCanBeAsked
  BY Invariance, EverySectionLemma, PTL

\* The counts of the header are those of the lists below it.
THEOREM HeaderCounts == Spec => []TotalsAddUp
  BY Invariance, TotalsLemma, PTL

\* Every line tells what happens between the older version and the newer, in this order.
THEOREM ReadsAsUpgrade == Spec => []ShownAsUpgrade
  BY Invariance, ShownAsUpgradeLemma, PTL
=============================================================================
