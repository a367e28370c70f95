--------------------------- MODULE MetadataProofs ---------------------------
(***************************************************************************)
(* Theorems about MetadataLifecycle, for any source, configuration text,   *)
(* versions and number of commands: type correctness; that what a          *)
(* conversion writes is read back, item by item, and converted again to    *)
(* itself; that the user's comments stay; and what becomes of an empty     *)
(* version.                                                                *)
(*                                                                         *)
(* The lines of Marshal are laid out one after the other (WrittenIsLaid);  *)
(* the search for comments, which recurses over the text, finds exactly    *)
(* these lines (BlockFound); so the map read back is the one written       *)
(* (WrittenReadsBack).                                                     *)
(***************************************************************************)
EXTENDS MetadataLifecycle, TLAPS, FiniteSetTheorems, SequenceTheorems

-----------------------------------------------------------------------------
(* Induction.                                                               *)

\* A set of numbers with zero and the successor of each of its members has them all:
\* were there one above it, what is below that one could be shifted by one into less.
LEMMA SetInduction ==
    ASSUME NEW S \in SUBSET Nat, 0 \in S, \A n \in S : n + 1 \in S
    PROVE  S = Nat
  <1> SUFFICES ASSUME NEW x \in Nat, x \notin S
               PROVE  FALSE
    OBVIOUS
  <1> DEFINE A == {n \in 0..x : n \in S}
             shift == [n \in A |-> n + 1]
  <1>1. IsFiniteSet(A)
    <2>1. IsFiniteSet(0..x)
      BY FS_Interval
    <2>2. A \in SUBSET (0..x)
      OBVIOUS
    <2> QED
      BY <2>1, <2>2, FS_Subset
  <1>2. 0 \in A
    OBVIOUS
  <1>3. IsFiniteSet(A \ {0}) /\ Cardinality(A \ {0}) = Cardinality(A) - 1
    BY <1>1, <1>2, FS_RemoveElement
  <1>4. shift \in Injection(A, A \ {0})
    <2>1. \A n \in A : n + 1 \in A \ {0}
      OBVIOUS
    <2>2. shift \in [A -> A \ {0}]
      BY <2>1
    <2>3. \A m, n \in A : shift[m] = shift[n] => m = n
      OBVIOUS
    <2> QED
      BY <2>2, <2>3 DEF Injection, IsInjective
  <1>5. Cardinality(A) <= Cardinality(A \ {0})
    BY <1>3, <1>4, FS_Injection
  <1>6. Cardinality(A) \in Nat
    BY <1>1, FS_CardinalityType
  <1> HIDE DEF A
  <1> QED
    BY <1>3, <1>5, <1>6

\* From the first number of an interval to the next ones.
LEMMA UpwardInduction ==
    ASSUME NEW a \in Nat, NEW b \in Nat, NEW S, a \in S,
           \A i \in a..b - 1 : i \in S => i + 1 \in S
    PROVE  \A i \in a..b : i \in S
  <1> DEFINE R == {n \in Nat : a + n <= b => a + n \in S}
  <1>1. 0 \in R
    OBVIOUS
  <1>2. \A n \in R : n + 1 \in R
    <2> SUFFICES ASSUME NEW n \in R, a + (n + 1) <= b
                 PROVE  a + (n + 1) \in S
      OBVIOUS
    <2>1. a + n \in a..b - 1 /\ a + n \in S
      OBVIOUS
    <2> QED
      BY <2>1
  <1>3. R \in SUBSET Nat
    OBVIOUS
  <1> HIDE DEF R
  <1>4. R = Nat
    BY <1>1, <1>2, <1>3, SetInduction, Zenon
  <1> SUFFICES ASSUME NEW i \in a..b
               PROVE  i \in S
    OBVIOUS
  <1>5. i - a \in R
    BY <1>4
  <1> QED
    BY <1>5 DEF R

\* From the last number of an interval to the ones before.
LEMMA DownwardInduction ==
    ASSUME NEW a \in Nat, NEW b \in Nat, NEW S, b \in S,
           \A i \in a..b - 1 : i + 1 \in S => i \in S
    PROVE  \A i \in a..b : i \in S
  <1> DEFINE R == {n \in Nat : a <= b - n => b - n \in S}
  <1>1. 0 \in R
    OBVIOUS
  <1>2. \A n \in R : n + 1 \in R
    <2> SUFFICES ASSUME NEW n \in R, a <= b - (n + 1)
                 PROVE  b - (n + 1) \in S
      OBVIOUS
    <2>1. b - (n + 1) \in a..b - 1 /\ b - n \in S /\ b - n = (b - (n + 1)) + 1
      OBVIOUS
    <2> QED
      BY <2>1
  <1>3. R \in SUBSET Nat
    OBVIOUS
  <1> HIDE DEF R
  <1>4. R = Nat
    BY <1>1, <1>2, <1>3, SetInduction, Zenon
  <1> SUFFICES ASSUME NEW i \in a..b
               PROVE  i \in S
    OBVIOUS
  <1>5. b - i \in R
    BY <1>4
  <1> QED
    BY <1>5 DEF R

\* The same for the positions of a text and the one behind it.
LEMMA BackwardInduction ==
    ASSUME NEW N \in Nat, NEW S, N + 1 \in S,
           \A i \in 1..N : i + 1 \in S => i \in S
    PROVE  \A i \in 1..N + 1 : i \in S
  <1> DEFINE b == N + 1
  <1>1. 1 \in Nat /\ b \in Nat /\ b \in S /\ 1..b - 1 = 1..N
    OBVIOUS
  <1>2. \A i \in 1..b - 1 : i + 1 \in S => i \in S
    BY <1>1
  <1> HIDE DEF b
  <1>3. \A i \in 1..b : i \in S
    BY <1>1, <1>2, DownwardInduction
  <1> QED
    BY <1>3 DEF b

\* A set of numbers that has a member has a least one.
LEMMA LeastNumber ==
    ASSUME NEW S \in SUBSET Nat, S # {}
    PROVE  \E m \in S : \A n \in S : m <= n
  <1> SUFFICES ASSUME \A m \in S : \E n \in S : n < m
               PROVE  FALSE
    OBVIOUS
  <1> DEFINE R == {n \in Nat : \A m \in 0..n : m \notin S}
  <1>1. 0 \in R
    OBVIOUS
  <1>2. ASSUME NEW n \in R
        PROVE  n + 1 \in R
    <2>1. n + 1 \notin S
      OBVIOUS
    <2> QED
      BY <2>1
  <1>3. R \in SUBSET Nat
    OBVIOUS
  <1> HIDE DEF R
  <1>4. R = Nat
    BY <1>1, <1>2, <1>3, SetInduction, Zenon
  <1>5. \A m \in S : m \in R /\ m \in 0..m
    BY <1>4
  <1> QED
    BY <1>5 DEF R

\* Min is the least member.
LEMMA MinIsLeast ==
    ASSUME NEW S \in SUBSET Nat, S # {}
    PROVE  Min(S) \in S /\ \A n \in S : Min(S) <= n
  BY LeastNumber DEF Min

\* A set of numbers that are all below some number has a greatest member, Max.
LEMMA MaxIsGreatest ==
    ASSUME NEW b \in Nat, NEW S \in SUBSET (0..b), S # {}
    PROVE  Max(S) \in S /\ \A n \in S : Max(S) >= n
  <1> DEFINE R == {b - n : n \in S}
  <1>1. R \in SUBSET Nat /\ R # {}
    <2>1. \A n \in S : n \in 0..b /\ b - n \in Nat
      OBVIOUS
    <2>2. \E n \in S : b - n \in R
      OBVIOUS
    <2> QED
      BY <2>1, <2>2
  <1>2. PICK m \in R : \A n \in R : m <= n
    BY <1>1, LeastNumber
  <1>3. PICK x \in S : m = b - x
    OBVIOUS
  <1>4. \A n \in S : x >= n
    BY <1>2, <1>3
  <1> QED
    BY <1>4 DEF Max

-----------------------------------------------------------------------------
(* The byte order of lines, and what sorting makes of them.                 *)

\* A word is none of the other tokens, and is known by its place.
LEMMA WordRank ==
    ASSUME NEW w \in ToSet(Words)
    PROVE  /\ w # Hash /\ w # Colon /\ w # NL
           /\ Rank(w) \in 1..Len(Words) /\ Words[Rank(w)] = w
  <1>1. PICK i \in DOMAIN Words : Words[i] = w
    BY DEF ToSet
  <1>2. w # Hash /\ w # Colon /\ w # NL
    BY <1>1, WordsAssumption
  <1>3. Rank(w) = CHOOSE j \in DOMAIN Words : Words[j] = w
    BY <1>2 DEF Rank
  <1>4. Rank(w) \in DOMAIN Words /\ Words[Rank(w)] = w
    BY <1>1, <1>3
  <1> QED
    BY <1>2, <1>4, WordsAssumption

\* Tokens are ordered by their ranks, which are different.
LEMMA RankOrders ==
    /\ \A t \in Token : Rank(t) \in Int
    /\ \A s, t \in Token : Rank(s) = Rank(t) => s = t
  <1>1. Rank(NL) = -1 /\ Rank(Hash) = 0 /\ Rank(Colon) = Len(Words) + 1
    BY DEF Rank, NL, Hash, Colon
  <1>2. Len(Words) \in Nat
    BY WordsAssumption
  <1>3. \A t \in Token : t \in {NL, Hash, Colon} \/ t \in ToSet(Words)
    BY DEF Token
  <1> QED
    BY <1>1, <1>2, <1>3, WordRank

\* Where one sequence is less than another.
LessAt(s, t, i) ==
    /\ i \in DOMAIN t
    /\ \A j \in 1..i - 1 : j \in DOMAIN s /\ s[j] = t[j]
    /\ i \notin DOMAIN s \/ Rank(s[i]) < Rank(t[i])

LEMMA LexLessAt ==
    ASSUME NEW s, NEW t
    PROVE  LexLess(s, t) <=> \E i : LessAt(s, t, i)
  BY DEF LexLess, LessAt

LEMMA LexIrreflexive ==
    ASSUME NEW s \in Seq(Token)
    PROVE  ~LexLess(s, s)
  <1> SUFFICES ASSUME NEW i \in DOMAIN s, Rank(s[i]) < Rank(s[i])
               PROVE  FALSE
    BY DEF LexLess
  <1>1. s[i] \in Token
    OBVIOUS
  <1> QED
    BY <1>1, RankOrders

LEMMA LexTransitive ==
    ASSUME NEW r \in Seq(Token), NEW s \in Seq(Token), NEW t \in Seq(Token),
           LexLess(r, s), LexLess(s, t)
    PROVE  LexLess(r, t)
  <1>1. PICK i : LessAt(r, s, i)
    BY LexLessAt
  <1>2. PICK k : LessAt(s, t, k)
    BY LexLessAt
  <1>3. i \in 1..Len(s) /\ k \in 1..Len(t)
    BY <1>1, <1>2 DEF LessAt
  <1>4. CASE i < k
    <2>1. i \in DOMAIN s /\ i \in DOMAIN t /\ s[i] = t[i]
      BY <1>2, <1>3, <1>4 DEF LessAt
    <2>2. \A j \in 1..i - 1 : j \in DOMAIN r /\ r[j] = t[j]
      BY <1>1, <1>2, <1>3, <1>4 DEF LessAt
    <2>3. LessAt(r, t, i)
      BY <1>1, <2>1, <2>2 DEF LessAt
    <2> QED
      BY <2>3, LexLessAt
  <1>5. CASE k < i
    <2>1. k \in DOMAIN r /\ r[k] = s[k]
      BY <1>1, <1>3, <1>5 DEF LessAt
    <2>2. k \in DOMAIN s
      BY <1>3, <1>5
    <2>3. \A j \in 1..k - 1 : j \in DOMAIN r /\ r[j] = t[j]
      BY <1>1, <1>2, <1>3, <1>5 DEF LessAt
    <2>4. LessAt(r, t, k)
      BY <1>2, <2>1, <2>2, <2>3 DEF LessAt
    <2> QED
      BY <2>4, LexLessAt
  <1>6. CASE i = k
    <2>1. \A j \in 1..i - 1 : j \in DOMAIN r /\ r[j] = t[j]
      BY <1>1, <1>2, <1>3, <1>6 DEF LessAt
    <2>2. i \in DOMAIN s /\ i \in DOMAIN t /\ Rank(s[i]) < Rank(t[i])
      BY <1>1, <1>2, <1>6 DEF LessAt
    <2>3. i \notin DOMAIN r \/ Rank(r[i]) < Rank(s[i])
      BY <1>1 DEF LessAt
    <2>4. i \notin DOMAIN r \/ Rank(r[i]) < Rank(t[i])
      <3> SUFFICES ASSUME i \in DOMAIN r
                   PROVE  Rank(r[i]) < Rank(t[i])
        OBVIOUS
      <3>1. r[i] \in Token /\ s[i] \in Token /\ t[i] \in Token
        BY <2>2
      <3> QED
        BY <2>2, <2>3, <3>1, RankOrders
    <2>5. LessAt(r, t, i)
      BY <2>1, <2>2, <2>4 DEF LessAt
    <2> QED
      BY <2>5, LexLessAt
  <1> QED
    BY <1>3, <1>4, <1>5, <1>6

LEMMA LexTotal ==
    ASSUME NEW s \in Seq(Token), NEW t \in Seq(Token), s # t
    PROVE  LexLess(s, t) \/ LexLess(t, s)
  <1> DEFINE D == {i \in 1..Len(s) + Len(t) :
                     \/ i \in DOMAIN s /\ i \notin DOMAIN t
                     \/ i \in DOMAIN t /\ i \notin DOMAIN s
                     \/ i \in DOMAIN s /\ i \in DOMAIN t /\ s[i] # t[i]}
  <1>1. Len(s) \in Nat /\ Len(t) \in Nat /\ DOMAIN s = 1..Len(s) /\ DOMAIN t = 1..Len(t)
    OBVIOUS
  <1>2. D # {}
    <2>1. CASE Len(s) < Len(t)
      <3>1. Len(t) \in D
        BY <1>1, <2>1
      <3> QED
        BY <3>1
    <2>2. CASE Len(t) < Len(s)
      <3>1. Len(s) \in D
        BY <1>1, <2>2
      <3> QED
        BY <3>1
    <2>3. CASE Len(s) = Len(t)
      <3>1. PICK i \in 1..Len(s) : s[i] # t[i]
        BY <2>3, SeqEqual
      <3>2. i \in D
        BY <1>1, <2>3, <3>1
      <3> QED
        BY <3>2
    <2>4. Len(s) < Len(t) \/ Len(t) < Len(s) \/ Len(s) = Len(t)
      <3>1. Len(s) \in Nat /\ Len(t) \in Nat
        OBVIOUS
      <3> QED
        BY <3>1
    <2> QED
      BY <2>1, <2>2, <2>3, <2>4
  <1>3. D \in SUBSET Nat
    BY <1>1
  <1>4. PICK i \in D : \A j \in D : i <= j
    <2> HIDE DEF D
    <2> QED
      BY <1>2, <1>3, LeastNumber
  <1>5. \A j \in 1..i - 1 : j \in DOMAIN s /\ j \in DOMAIN t /\ s[j] = t[j]
    <2> TAKE j \in 1..i - 1
    <2>1. j \in 1..Len(s) + Len(t) /\ j < i
      BY <1>1
    <2>2. j \notin D
      BY <1>3, <1>4, <2>1
    <2> QED
      BY <1>1, <2>1, <2>2
  <1>6. CASE i \in DOMAIN s /\ i \notin DOMAIN t
    <2>1. LessAt(t, s, i)
      BY <1>5, <1>6 DEF LessAt
    <2> QED
      BY <2>1, LexLessAt
  <1>7. CASE i \in DOMAIN t /\ i \notin DOMAIN s
    <2>1. LessAt(s, t, i)
      BY <1>5, <1>7 DEF LessAt
    <2> QED
      BY <2>1, LexLessAt
  <1>8. CASE i \in DOMAIN s /\ i \in DOMAIN t /\ s[i] # t[i]
    <2>1. s[i] \in Token /\ t[i] \in Token
      BY <1>8
    <2>2. Rank(s[i]) < Rank(t[i]) \/ Rank(t[i]) < Rank(s[i])
      BY <1>8, <2>1, RankOrders
    <2>3. LessAt(s, t, i) \/ LessAt(t, s, i)
      BY <1>5, <1>8, <2>2 DEF LessAt
    <2> QED
      BY <2>3, LexLessAt
  <1> QED
    BY <1>6, <1>7, <1>8

\* A set of keys, each with its text, as Marshal is handed: the map is finite.
Map(m) ==
    /\ IsFiniteSet(DOMAIN m)
    /\ \A k \in DOMAIN m : k \in Seq(Token) /\ m[k] \in Seq(Token)

\* Where the elements of two sequences are when they are joined.
LEMMA Joined ==
    ASSUME NEW S, NEW s \in Seq(S), NEW t \in Seq(S)
    PROVE  /\ s \o t \in Seq(S)
           /\ Len(s \o t) = Len(s) + Len(t)
           /\ \A i \in 1..Len(s) : (s \o t)[i] = s[i]
           /\ \A i \in 1..Len(t) : (s \o t)[Len(s) + i] = t[i]
  OBVIOUS

\* A line is the comment character, the key, the colon, the value and a newline.
LEMMA LineIs ==
    ASSUME NEW m, NEW k \in DOMAIN m, k \in Seq(Token), m[k] \in Seq(Token)
    PROVE  /\ Line(m, k) \in Seq(Token)
           /\ Len(Line(m, k)) = Len(k) + Len(m[k]) + 3
           /\ Line(m, k)[1] = Hash
           /\ \A i \in 1..Len(k) : Line(m, k)[1 + i] = k[i]
           /\ Line(m, k)[Len(k) + 2] = Colon
           /\ \A i \in 1..Len(m[k]) : Line(m, k)[Len(k) + 2 + i] = m[k][i]
           /\ Line(m, k)[Len(k) + Len(m[k]) + 3] = NL
  <1> DEFINE v == m[k]
             a == <<Hash>> \o k
             b == a \o <<Colon>>
             c == b \o v
             d == c \o <<NL>>
  <1>1. Line(m, k) = d
    BY DEF Line, formatLine
  <1>2. <<Hash>> \in Seq(Token) /\ <<Colon>> \in Seq(Token) /\ <<NL>> \in Seq(Token)
    BY DEF Token
  <1>3. /\ a \in Seq(Token) /\ Len(a) = 1 + Len(k)
        /\ a[1] = Hash /\ \A i \in 1..Len(k) : a[1 + i] = k[i]
    BY <1>2
  <1>4. Len(k) \in Nat /\ v \in Seq(Token) /\ Len(v) \in Nat
    OBVIOUS
  <1>5. /\ b \in Seq(Token) /\ Len(b) = 2 + Len(k) /\ b[Len(k) + 2] = Colon
        /\ \A i \in 1..Len(k) + 1 : b[i] = a[i]
    <2> HIDE DEF a
    <2> QED
      BY <1>2, <1>3
  <1>6. /\ c \in Seq(Token) /\ Len(c) = 2 + Len(k) + Len(v)
        /\ \A i \in 1..Len(v) : c[Len(k) + 2 + i] = v[i]
        /\ \A i \in 1..Len(k) + 2 : c[i] = b[i]
    <2>0. b \in Seq(Token) /\ v \in Seq(Token)
      BY <1>4, <1>5
    <2> HIDE DEF b, v
    <2>1. /\ c \in Seq(Token) /\ Len(c) = Len(b) + Len(v)
          /\ \A i \in 1..Len(b) : c[i] = b[i]
          /\ \A i \in 1..Len(v) : c[Len(b) + i] = v[i]
      BY <2>0, Joined
    <2> HIDE DEF c
    <2> QED
      BY <1>4, <1>5, <2>1
  <1>7. /\ d \in Seq(Token) /\ Len(d) = 3 + Len(k) + Len(v)
        /\ d[Len(k) + Len(v) + 3] = NL
        /\ \A i \in 1..Len(k) + 2 + Len(v) : d[i] = c[i]
    <2>0. c \in Seq(Token) /\ <<NL>> \in Seq(Token)
      BY <1>2, <1>6
    <2> HIDE DEF c, v
    <2>1. /\ d \in Seq(Token) /\ Len(d) = Len(c) + Len(<<NL>>)
          /\ \A i \in 1..Len(c) : d[i] = c[i]
          /\ \A i \in 1..Len(<<NL>>) : d[Len(c) + i] = <<NL>>[i]
      BY <2>0, Joined
    <2> HIDE DEF d
    <2>2. Len(<<NL>>) = 1 /\ 1 \in 1..1 /\ <<NL>>[1] = NL
      OBVIOUS
    <2>3. Len(c) = 2 + Len(k) + Len(v)
      BY <1>6
    <2> QED
      BY <1>4, <2>1, <2>2, <2>3
  <1> HIDE DEF a, b, c, d
  <1>8. d[1] = Hash
    BY <1>3, <1>4, <1>5, <1>6, <1>7
  <1>9. \A i \in 1..Len(k) : d[1 + i] = k[i]
    <2> TAKE i \in 1..Len(k)
    <2>1. 1 + i \in 1..Len(k) + 1 /\ 1 + i \in 1..Len(k) + 2 /\ 1 + i \in 1..Len(k) + 2 + Len(v)
      BY <1>4
    <2> QED
      BY <1>3, <1>5, <1>6, <1>7, <2>1
  <1>10. d[Len(k) + 2] = Colon
    <2>1. Len(k) + 2 \in 1..Len(k) + 2 /\ Len(k) + 2 \in 1..Len(k) + 2 + Len(v)
      BY <1>4
    <2> QED
      BY <1>5, <1>6, <1>7, <2>1
  <1>11. \A i \in 1..Len(v) : d[Len(k) + 2 + i] = v[i]
    <2> TAKE i \in 1..Len(v)
    <2>1. Len(k) + 2 + i \in 1..Len(k) + 2 + Len(v)
      BY <1>4
    <2> QED
      BY <1>6, <1>7, <2>1
  <1> QED
    BY <1>1, <1>7, <1>8, <1>9, <1>10, <1>11 DEF v

\* The line of a key, by its parts.
LineShape(s, k, v) ==
    /\ Len(s) = Len(k) + Len(v) + 3
    /\ s[1] = Hash
    /\ \A i \in 1..Len(k) : s[1 + i] = k[i]
    /\ s[Len(k) + 2] = Colon
    /\ \A i \in 1..Len(v) : s[Len(k) + 2 + i] = v[i]
    /\ s[Len(k) + Len(v) + 3] = NL

LEMMA LineHasShape ==
    ASSUME NEW m, NEW k \in DOMAIN m, k \in Seq(Token), m[k] \in Seq(Token)
    PROVE  LineShape(Line(m, k), k, m[k])
  <1>1. /\ Len(Line(m, k)) = Len(k) + Len(m[k]) + 3
        /\ Line(m, k)[1] = Hash
        /\ Line(m, k)[Len(k) + 2] = Colon
        /\ Line(m, k)[Len(k) + Len(m[k]) + 3] = NL
    BY LineIs
  <1>2. \A i \in 1..Len(k) : Line(m, k)[1 + i] = k[i]
    BY LineIs
  <1>3. \A i \in 1..Len(m[k]) : Line(m, k)[Len(k) + 2 + i] = m[k][i]
    BY LineIs
  <1> QED
    BY <1>1, <1>2, <1>3 DEF LineShape

\* The lines of a map have a strict total order.
LEMMA LineOrder ==
    ASSUME NEW m, Map(m)
    PROVE  /\ \A k \in DOMAIN m : ~LineBefore(m, k, k)
           /\ \A j, k, l \in DOMAIN m :
                 LineBefore(m, j, k) /\ LineBefore(m, k, l) => LineBefore(m, j, l)
           /\ \A k, l \in DOMAIN m : k # l => LineBefore(m, k, l) \/ LineBefore(m, l, k)
  <1>1. \A k \in DOMAIN m : k \in Seq(Token) /\ Line(m, k) \in Seq(Token)
    BY LineIs DEF Map
  <1>2. \A k \in DOMAIN m : ~LineBefore(m, k, k)
    BY <1>1, LexIrreflexive DEF LineBefore
  <1>3. ASSUME NEW j \in DOMAIN m, NEW k \in DOMAIN m, NEW l \in DOMAIN m,
               LineBefore(m, j, k), LineBefore(m, k, l)
        PROVE  LineBefore(m, j, l)
    <2>1. LexLess(Line(m, j), Line(m, k)) /\ LexLess(Line(m, k), Line(m, l))
             => LexLess(Line(m, j), Line(m, l))
      BY <1>1, LexTransitive
    <2>2. LexLess(j, k) /\ LexLess(k, l) => LexLess(j, l)
      BY <1>1, LexTransitive
    <2> QED
      BY <1>3, <2>1, <2>2 DEF LineBefore
  <1>4. ASSUME NEW k \in DOMAIN m, NEW l \in DOMAIN m, k # l
        PROVE  LineBefore(m, k, l) \/ LineBefore(m, l, k)
    BY <1>1, <1>4, LexTotal DEF LineBefore
  <1> QED
    BY <1>2, <1>3, <1>4

\* How many lines come before that of a key.
Place(m, k) == Cardinality({l \in DOMAIN m : LineBefore(m, l, k)})

\* No two keys have the same place, and the places are those of a list.
LEMMA PlacesAreTaken ==
    ASSUME NEW m, Map(m)
    PROVE  /\ Cardinality(DOMAIN m) \in Nat
           /\ \A k \in DOMAIN m : Place(m, k) \in 0..Cardinality(DOMAIN m) - 1
           /\ \A k, l \in DOMAIN m : Place(m, k) = Place(m, l) => k = l
           /\ \A i \in 0..Cardinality(DOMAIN m) - 1 : \E k \in DOMAIN m : Place(m, k) = i
  <1> DEFINE D == DOMAIN m
             n == Cardinality(D)
             below(k) == {l \in D : LineBefore(m, l, k)}
             place == [k \in D |-> Place(m, k)]
  <1>1. IsFiniteSet(D) /\ n \in Nat
    BY FS_CardinalityType DEF Map
  <1>2. \A k \in D : IsFiniteSet(below(k)) /\ Cardinality(below(k)) \in Nat
    <2> TAKE k \in D
    <2>1. below(k) \in SUBSET D
      OBVIOUS
    <2>2. IsFiniteSet(below(k))
      <3> HIDE DEF below, D
      <3> QED
        BY <1>1, <2>1, FS_Subset
    <2> QED
      BY <2>2, FS_CardinalityType
  <1>3. \A k \in D : Place(m, k) = Cardinality(below(k))
    BY DEF Place
  <1>4. ASSUME NEW A \in SUBSET D, NEW k \in D, k \notin A, IsFiniteSet(A)
        PROVE  Cardinality(A) + 1 <= n
    <2> HIDE DEF D, n
    <2>1. IsFiniteSet(A \cup {k}) /\ Cardinality(A \cup {k}) = Cardinality(A) + 1
      BY <1>4, FS_AddElement
    <2>2. A \cup {k} \in SUBSET D
      OBVIOUS
    <2>3. Cardinality(A \cup {k}) <= Cardinality(D)
      BY <1>1, <2>2, FS_Subset
    <2> QED
      BY <2>1, <2>3 DEF n
  <1>5. \A k \in D : Place(m, k) \in 0..n - 1
    <2> TAKE k \in D
    <2>1. k \notin below(k) /\ below(k) \in SUBSET D
      BY LineOrder
    <2>2. Cardinality(below(k)) + 1 <= n
      <3> HIDE DEF below, D, n
      <3> QED
        BY <1>2, <1>4, <2>1
    <2> HIDE DEF n, D, below
    <2> QED
      BY <1>1, <1>2, <1>3, <2>2
  <1>6. ASSUME NEW k \in D, NEW l \in D, LineBefore(m, k, l)
        PROVE  Place(m, k) < Place(m, l)
    <2>1. below(k) \in SUBSET below(l)
      BY <1>6, LineOrder
    <2>2. k \in below(l) /\ k \notin below(k)
      BY <1>6, LineOrder
    <2> HIDE DEF below, D
    <2>3. IsFiniteSet(below(k) \cup {k}) /\ Cardinality(below(k) \cup {k}) = Cardinality(below(k)) + 1
      BY <1>2, <2>2, FS_AddElement
    <2>4. below(k) \cup {k} \in SUBSET below(l)
      BY <2>1, <2>2
    <2>5. Cardinality(below(k) \cup {k}) <= Cardinality(below(l))
      BY <1>2, <2>4, FS_Subset
    <2> QED
      BY <1>2, <1>3, <2>3, <2>5
  <1>7. \A k, l \in D : Place(m, k) = Place(m, l) => k = l
    <2> SUFFICES ASSUME NEW k \in D, NEW l \in D, k # l
                 PROVE  Place(m, k) # Place(m, l)
      OBVIOUS
    <2>1. LineBefore(m, k, l) \/ LineBefore(m, l, k)
      BY LineOrder
    <2>2. Place(m, k) \in Int /\ Place(m, l) \in Int
      <3> HIDE DEF below
      <3> QED
        BY <1>2, <1>3
    <2> QED
      BY <1>6, <2>1, <2>2
  <1>8. \A i \in 0..n - 1 : \E k \in D : Place(m, k) = i
    <2>1. place \in Injection(D, 0..n - 1)
      BY <1>5, <1>7 DEF Injection, IsInjective
    <2>2. IsFiniteSet(0..n - 1) /\ Cardinality(0..n - 1) = n
      <3> HIDE DEF n
      <3> QED
        BY <1>1, FS_Interval
    <2>3. place \in Surjection(D, 0..n - 1)
      <3> HIDE DEF place, D
      <3> QED
        BY <2>1, <2>2, FS_Injection DEF n
    <2>4. \A i \in 0..n - 1 : \E k \in D : place[k] = i
      BY <2>3 DEF Surjection
    <2> QED
      BY <2>4
  <1> QED
    BY <1>1, <1>5, <1>7, <1>8

\* SortedKeys is a list of the keys, each of them once.
LEMMA SortedKeysAreKeys ==
    ASSUME NEW m, Map(m)
    PROVE  LET n == Cardinality(DOMAIN m)
           IN /\ n \in Nat
              /\ SortedKeys(m) \in [1..n -> DOMAIN m]
              /\ \A i, j \in 1..n : SortedKeys(m)[i] = SortedKeys(m)[j] => i = j
              /\ \A k \in DOMAIN m : \E i \in 1..n : SortedKeys(m)[i] = k
  <1> DEFINE n == Cardinality(DOMAIN m)
  <1>1. n \in Nat
    BY PlacesAreTaken
  <1>2. SortedKeys(m) = [i \in 1..n |-> CHOOSE k \in DOMAIN m : Place(m, k) = i - 1]
    BY DEF SortedKeys, Place
  <1>3. \A i \in 1..n : \E k \in DOMAIN m : Place(m, k) = i - 1
    <2> TAKE i \in 1..n
    <2>1. i - 1 \in 0..n - 1
      BY <1>1
    <2> QED
      BY <2>1, PlacesAreTaken
  <1>4. \A i \in 1..n : SortedKeys(m)[i] \in DOMAIN m /\ Place(m, SortedKeys(m)[i]) = i - 1
    BY <1>2, <1>3
  <1>5. \A k \in DOMAIN m : \E i \in 1..n : SortedKeys(m)[i] = k
    <2> TAKE k \in DOMAIN m
    <2>1. Place(m, k) \in 0..n - 1
      BY PlacesAreTaken
    <2>2. Place(m, k) + 1 \in 1..n /\ (Place(m, k) + 1) - 1 = Place(m, k)
      BY <1>1, <2>1
    <2>3. SortedKeys(m)[Place(m, k) + 1] = k
      BY <1>4, <2>2, PlacesAreTaken
    <2> QED
      BY <2>2, <2>3
  <1>6. \A i, j \in 1..n : SortedKeys(m)[i] = SortedKeys(m)[j] => i = j
    BY <1>1, <1>4
  <1> HIDE DEF n
  <1>7. SortedKeys(m) \in [1..n -> DOMAIN m]
    BY <1>2, <1>4
  <1> QED
    BY <1>1, <1>5, <1>6, <1>7 DEF n

-----------------------------------------------------------------------------
(* Sequences put together.                                                  *)

\* What FlattenSeq is defined by, up to a length.
IsFlattening(f, seqs, n) ==
    f = [i \in 1..n |-> IF i = 1 THEN seqs[i] ELSE f[i - 1] \o seqs[i]]

\* There is such a function, whatever the length.
LEMMA FlatteningsExist ==
    ASSUME NEW seqs, NEW m \in Nat
    PROVE  \E f : IsFlattening(f, seqs, m)
  <1> DEFINE S == {n \in Nat : \E f : IsFlattening(f, seqs, n)}
  <1>1. 0 \in S
    <2> DEFINE f == [i \in 1..0 |-> {}]
    <2>1. 1..0 = {}
      OBVIOUS
    <2>2. IsFlattening(f, seqs, 0)
      BY <2>1 DEF IsFlattening
    <2> QED
      BY <2>2
  <1>2. ASSUME NEW n \in S
        PROVE  n + 1 \in S
    <2>1. PICK f : IsFlattening(f, seqs, n)
      OBVIOUS
    <2> DEFINE g == [i \in 1..(n + 1) |->
                       IF i <= n THEN f[i]
                       ELSE IF i = 1 THEN seqs[i] ELSE f[n] \o seqs[i]]
    <2>2. ASSUME NEW i \in 1..(n + 1)
          PROVE  g[i] = IF i = 1 THEN seqs[i] ELSE g[i - 1] \o seqs[i]
      <3>1. CASE i <= n
        <4>0. i \in 1..n
          BY <3>1
        <4>1. f[i] = IF i = 1 THEN seqs[i] ELSE f[i - 1] \o seqs[i]
          BY <2>1, <4>0, Zenon DEF IsFlattening
        <4>2. i # 1 => g[i - 1] = f[i - 1]
          BY <3>1
        <4> QED
          BY <3>1, <4>1, <4>2
      <3>2. CASE i = n + 1
        <4>1. i # 1 => g[i - 1] = f[n]
          BY <3>2
        <4> QED
          BY <3>2, <4>1
      <3> QED
        BY <3>1, <3>2
    <2>3. IsFlattening(g, seqs, n + 1)
      BY <2>2 DEF IsFlattening
    <2> QED
      BY <2>3
  <1> HIDE DEF S
  <1>3. S = Nat
    <2>1. S \in SUBSET Nat
      BY DEF S
    <2> QED
      BY <1>1, <1>2, <2>1, SetInduction, Zenon
  <1> QED
    BY <1>3 DEF S

\* FlattenSeq joins the sequences one after the other.
LEMMA FlattenFollows ==
    ASSUME NEW seqs, Len(seqs) \in Nat, Len(seqs) # 0
    PROVE  \E f : /\ IsFlattening(f, seqs, Len(seqs))
                  /\ FlattenSeq(seqs) = f[Len(seqs)]
  <1> DEFINE P(g) == g = [i \in 1..Len(seqs) |->
                            IF i = 1 THEN seqs[i] ELSE g[i - 1] \o seqs[i]]
  <1>1. \E g : P(g)
    <2>1. PICK g : IsFlattening(g, seqs, Len(seqs))
      BY FlatteningsExist, Zenon
    <2> QED
      BY <2>1 DEF IsFlattening
  <1>2. FlattenSeq(seqs) = (CHOOSE g : P(g))[Len(seqs)]
    BY Zenon DEF FlattenSeq
  <1>3. P(CHOOSE g : P(g))
    <2> HIDE DEF P
    <2> QED
      BY <1>1
  <1> QED
    BY <1>2, <1>3 DEF IsFlattening

\* Where the sequences that are joined begin and what is there.
Places(off, seqs, n, joined) ==
    /\ off \in [1..n + 1 -> Nat]
    /\ off[1] = 0
    /\ off[n + 1] = Len(joined)
    /\ \A j \in 1..n :
          /\ off[j + 1] = off[j] + Len(seqs[j])
          /\ \A x \in 1..Len(seqs[j]) : joined[off[j] + x] = seqs[j][x]

LEMMA FlattenPlaces ==
    ASSUME NEW T, NEW n \in Nat, NEW seqs \in [1..n -> Seq(T)]
    PROVE  /\ FlattenSeq(seqs) \in Seq(T)
           /\ \E off : Places(off, seqs, n, FlattenSeq(seqs))
  <1>0. seqs \in Seq(Seq(T)) /\ Len(seqs) = n
    BY IsASeq
  <1>1. CASE n = 0
    <2>1. seqs = <<>>
      BY <1>0, <1>1
    <2>2. FlattenSeq(seqs) = <<>>
      BY <1>0, <1>1, <2>1, Zenon DEF FlattenSeq
    <2>3. Places([i \in 1..1 |-> 0], seqs, n, <<>>)
      BY <1>1 DEF Places
    <2> QED
      BY <2>2, <2>3
  <1>2. CASE n # 0
    <2>1. PICK f : IsFlattening(f, seqs, n) /\ FlattenSeq(seqs) = f[n]
      <3>1. Len(seqs) \in Nat /\ Len(seqs) # 0
        BY <1>0, <1>2
      <3>2. PICK f : /\ IsFlattening(f, seqs, Len(seqs))
                     /\ FlattenSeq(seqs) = f[Len(seqs)]
        BY <3>1, FlattenFollows, Zenon
      <3>3. Len(seqs) = n
        BY <1>0
      <3> QED
        BY <3>2, <3>3, Zenon
    <2>2. f[1] = seqs[1] /\ \A i \in 2..n : f[i] = f[i - 1] \o seqs[i]
      <3>1. \A i \in 1..n : f[i] = IF i = 1 THEN seqs[i] ELSE f[i - 1] \o seqs[i]
        BY <2>1, Zenon DEF IsFlattening
      <3>2. 1 \in 1..n /\ \A i \in 2..n : i \in 1..n /\ i # 1
        BY <1>2
      <3> QED
        BY <3>1, <3>2, Zenon
    <2> DEFINE off == [j \in 1..n + 1 |-> IF j = 1 THEN 0 ELSE Len(f[j - 1])]
               Q == {i \in 1..n :
                       /\ f[i] \in Seq(T)
                       /\ \A j \in 1..i :
                             /\ off[j] \in Nat
                             /\ off[j + 1] = off[j] + Len(seqs[j])
                             /\ off[j + 1] <= Len(f[i])
                             /\ \A x \in 1..Len(seqs[j]) : f[i][off[j] + x] = seqs[j][x]}
    <2>3. 1 \in Q
      <3>1. f[1] \in Seq(T) /\ off[1] = 0 /\ off[2] = Len(f[1]) /\ Len(f[1]) \in Nat
        BY <1>2, <2>2
      <3> HIDE DEF off
      <3>2. \A j \in 1..1 : j = 1
        OBVIOUS
      <3> QED
        BY <1>2, <2>2, <3>1, <3>2
    <2>4. ASSUME NEW i \in 1..n - 1, i \in Q
          PROVE  i + 1 \in Q
      <3>1. f[i] \in Seq(T) /\ seqs[i + 1] \in Seq(T)
        BY <2>4
      <3>2. f[i + 1] = f[i] \o seqs[i + 1]
        <4>1. i + 1 \in 2..n /\ (i + 1) - 1 = i
          OBVIOUS
        <4> QED
          BY <2>2, <4>1
      <3>3. /\ f[i + 1] \in Seq(T)
            /\ Len(f[i + 1]) = Len(f[i]) + Len(seqs[i + 1])
            /\ \A x \in 1..Len(f[i]) : f[i + 1][x] = f[i][x]
            /\ \A x \in 1..Len(seqs[i + 1]) : f[i + 1][Len(f[i]) + x] = seqs[i + 1][x]
        <4>1. /\ f[i] \o seqs[i + 1] \in Seq(T)
              /\ Len(f[i] \o seqs[i + 1]) = Len(f[i]) + Len(seqs[i + 1])
              /\ \A x \in 1..Len(f[i]) : (f[i] \o seqs[i + 1])[x] = f[i][x]
              /\ \A x \in 1..Len(seqs[i + 1]) :
                    (f[i] \o seqs[i + 1])[Len(f[i]) + x] = seqs[i + 1][x]
          <5> DEFINE a == f[i]
                     b == seqs[i + 1]
          <5>1. a \in Seq(T) /\ b \in Seq(T)
            BY <3>1
          <5> HIDE DEF a, b
          <5>2. /\ a \o b \in Seq(T)
                /\ Len(a \o b) = Len(a) + Len(b)
                /\ \A x \in 1..Len(a) : (a \o b)[x] = a[x]
                /\ \A x \in 1..Len(b) : (a \o b)[Len(a) + x] = b[x]
            BY <5>1, Joined
          <5> QED
            BY <5>2 DEF a, b
        <4> QED
          BY <3>2, <4>1, Zenon
      <3>4. Len(f[i]) \in Nat /\ Len(seqs[i + 1]) \in Nat
        BY <3>1
      <3>5. off[i + 1] = Len(f[i]) /\ off[i + 2] = Len(f[i + 1])
        OBVIOUS
      <3>6. ASSUME NEW j \in 1..i
            PROVE  /\ off[j] \in Nat
                   /\ off[j + 1] = off[j] + Len(seqs[j])
                   /\ off[j + 1] <= Len(f[i + 1])
                   /\ \A x \in 1..Len(seqs[j]) : f[i + 1][off[j] + x] = seqs[j][x]
        <4>1. /\ off[j] \in Nat
              /\ off[j + 1] = off[j] + Len(seqs[j])
              /\ off[j + 1] <= Len(f[i])
              /\ \A x \in 1..Len(seqs[j]) : f[i][off[j] + x] = seqs[j][x]
          BY <2>4
        <4>2. Len(seqs[j]) \in Nat
          OBVIOUS
        <4> HIDE DEF off
        <4>3. ASSUME NEW x \in 1..Len(seqs[j])
              PROVE  f[i + 1][off[j] + x] = seqs[j][x]
          <5>1. off[j] + Len(seqs[j]) <= Len(f[i])
            BY <4>1
          <5>2. off[j] + x \in 1..Len(f[i])
            <6> DEFINE o == off[j]
                       c == Len(seqs[j])
                       l == Len(f[i])
            <6>1. o \in Nat /\ c \in Nat /\ l \in Nat /\ x \in 1..c /\ o + c <= l
              BY <3>4, <4>1, <4>2, <5>1
            <6> HIDE DEF o, c, l
            <6>2. o + x \in 1..l
              BY <6>1
            <6> QED
              BY <6>2 DEF o, l
          <5> QED
            BY <3>3, <4>1, <5>2
        <4>4. off[j + 1] <= Len(f[i + 1])
          <5>1. off[j + 1] \in Nat
            BY <4>1, <4>2
          <5> QED
            <6>1. Len(f[i + 1]) = Len(f[i]) + Len(seqs[i + 1])
              BY <3>3
            <6>2. off[j + 1] <= Len(f[i])
              BY <4>1
            <6> DEFINE p == off[j + 1]
                       a == Len(f[i])
                       b == Len(seqs[i + 1])
            <6>3. p \in Nat /\ a \in Nat /\ b \in Nat /\ p <= a
              BY <3>4, <5>1, <6>2
            <6> HIDE DEF p, a, b
            <6>4. p <= a + b
              BY <6>3
            <6> QED
              BY <6>1, <6>4 DEF p, a, b
        <4> QED
          BY <4>1, <4>3, <4>4
      <3>7. /\ off[i + 1] \in Nat
            /\ off[i + 2] = off[i + 1] + Len(seqs[i + 1])
            /\ off[i + 2] <= Len(f[i + 1])
            /\ \A x \in 1..Len(seqs[i + 1]) : f[i + 1][off[i + 1] + x] = seqs[i + 1][x]
        <4> HIDE DEF off
        <4>1. off[i + 2] = off[i + 1] + Len(seqs[i + 1])
          BY <3>3, <3>5
        <4>2. off[i + 1] \in Nat /\ off[i + 2] \in Nat /\ off[i + 2] = Len(f[i + 1])
          <5> DEFINE p == off[i + 1]
                     q == off[i + 2]
                     a == Len(f[i])
                     b == Len(seqs[i + 1])
          <5>1. a \in Nat /\ b \in Nat /\ p = a /\ q = p + b
            BY <3>4, <3>5, <4>1, Zenon
          <5> HIDE DEF p, q, a, b
          <5>2. p \in Nat /\ q \in Nat
            BY <5>1
          <5> QED
            BY <3>5, <5>2, Zenon DEF p, q
        <4>3. off[i + 2] <= Len(f[i + 1])
          <5> DEFINE p == off[i + 2]
          <5> HIDE DEF p
          <5>1. p \in Nat => p <= p
            OBVIOUS
          <5> QED
            BY <4>2, <5>1 DEF p
        <4>4. \A x \in 1..Len(seqs[i + 1]) : f[i + 1][off[i + 1] + x] = seqs[i + 1][x]
          BY <3>3, <3>5, Zenon
        <4> QED
          BY <4>1, <4>2, <4>3, <4>4
      <3>8. \A j \in 1..i + 1 : j \in 1..i \/ j = i + 1
        OBVIOUS
      <3>9. i + 1 \in 1..n /\ (i + 1) + 1 = i + 2
        OBVIOUS
      <3> HIDE DEF off
      <3> QED
        BY <3>3, <3>6, <3>7, <3>8, <3>9
    <2>5. n \in Q
      <3> HIDE DEF Q
      <3>1. \A i \in 1..n - 1 : i \in Q => i + 1 \in Q
        BY <2>4
      <3>2. \A i \in 1..n : i \in Q
        BY <2>3, <3>1, UpwardInduction
      <3> QED
        BY <1>2, <3>2
    <2>6. off \in [1..n + 1 -> Nat]
      <3>1. \A j \in 1..n : off[j] \in Nat
        BY <2>5
      <3>2. off[n + 1] \in Nat
        BY <1>2, <2>5
      <3>3. \A j \in 1..n + 1 : j \in 1..n \/ j = n + 1
        OBVIOUS
      <3> QED
        BY <3>1, <3>2, <3>3
    <2>7. off[1] = 0 /\ off[n + 1] = Len(f[n])
      BY <1>2
    <2> HIDE DEF off
    <2>8. Places(off, seqs, n, f[n])
      BY <2>5, <2>6, <2>7 DEF Places
    <2> QED
      BY <2>1, <2>5, <2>8
  <1> QED
    BY <1>1, <1>2

-----------------------------------------------------------------------------
(* A match, and the search for matches.                                     *)

\* Tokens that are on one line.
OneLine == {s \in Seq(Token) : \A i \in 1..Len(s) : s[i] # NL}

\* What can be matched for a key, and for a value.
Visible == {s \in OneLine : Len(s) > 0}

Match == [key : Visible, val : Visible, end : Nat]

\* The next position that is not white space.
LEMMA NextVisibleIs ==
    ASSUME NEW T \in Seq(Token), NEW i \in 1..Len(T) + 1
    PROVE  /\ NextVisible(T, i) \in i..Len(T) + 1
           /\ NextVisible(T, i) <= Len(T) => T[NextVisible(T, i)] # NL
           /\ \A x \in i..Len(T) : T[x] # NL => NextVisible(T, i) <= x
  <1> DEFINE S == {j \in i..Len(T) : T[j] # NL} \cup {Len(T) + 1}
  <1>1. Len(T) \in Nat
    OBVIOUS
  <1>2. S \in SUBSET Nat /\ S # {}
    BY <1>1
  <1>3. NextVisible(T, i) = Min(S)
    BY DEF NextVisible
  <1>4. Min(S) \in S /\ \A x \in S : Min(S) <= x
    <2> HIDE DEF S
    <2> QED
      BY <1>2, MinIsLeast
  <1>5. \A x \in S : x \in i..Len(T) + 1 /\ (x <= Len(T) => T[x] # NL)
    BY <1>1
  <1>6. \A x \in i..Len(T) : T[x] # NL => x \in S
    OBVIOUS
  <1> HIDE DEF S
  <1> QED
    BY <1>3, <1>4, <1>5, <1>6

\* The last position of a line.
LEMMA LineEndIs ==
    ASSUME NEW T \in Seq(Token), NEW i \in 1..Len(T)
    PROVE  /\ LineEnd(T, i) \in i..Len(T)
           /\ LineEnd(T, i) = Len(T) \/ T[LineEnd(T, i) + 1] = NL
           /\ \A x \in i..Len(T) : x = Len(T) \/ T[x + 1] = NL => LineEnd(T, i) <= x
  <1> DEFINE S == {j \in i..Len(T) : j = Len(T) \/ T[j + 1] = NL}
  <1>1. Len(T) \in Nat
    OBVIOUS
  <1>2. S \in SUBSET Nat /\ S # {}
    <2>1. Len(T) \in S
      BY <1>1
    <2> QED
      BY <1>1, <2>1
  <1>3. LineEnd(T, i) = Min(S)
    BY DEF LineEnd
  <1>4. Min(S) \in S /\ \A x \in S : Min(S) <= x
    <2> HIDE DEF S
    <2> QED
      BY <1>2, MinIsLeast
  <1>5. \A x \in S : x \in i..Len(T) /\ (x = Len(T) \/ T[x + 1] = NL)
    OBVIOUS
  <1>6. \A x \in i..Len(T) : x = Len(T) \/ T[x + 1] = NL => x \in S
    OBVIOUS
  <1> HIDE DEF S
  <1> QED
    BY <1>3, <1>4, <1>5, <1>6

\* From a visible position to the end of its line there is no newline.
LEMMA LineIsOne ==
    ASSUME NEW T \in Seq(Token), NEW i \in 1..Len(T), T[i] # NL
    PROVE  \A x \in i..LineEnd(T, i) : T[x] # NL
  <1> SUFFICES ASSUME NEW x \in i..LineEnd(T, i), T[x] = NL
               PROVE  FALSE
    OBVIOUS
  <1>1. Len(T) \in Nat /\ LineEnd(T, i) \in i..Len(T)
    BY LineEndIs
  <1>2. x # i
    OBVIOUS
  <1>3. x - 1 \in i..Len(T) /\ (x - 1) + 1 = x
    BY <1>1, <1>2
  <1>4. LineEnd(T, i) <= x - 1
    BY <1>3, LineEndIs
  <1> QED
    BY <1>1, <1>3, <1>4

\* The last colon that can end a key.
LEMMA KeyEndIs ==
    ASSUME NEW T \in Seq(Token), NEW k \in 1..Len(T) + 1, KeyEnds(T, k) # {}
    PROVE  /\ k <= Len(T)
           /\ Max(KeyEnds(T, k)) \in KeyEnds(T, k)
           /\ \A c \in KeyEnds(T, k) : c <= Max(KeyEnds(T, k))
           /\ \A c \in KeyEnds(T, k) :
                 /\ c \in k + 1..LineEnd(T, k) /\ c \in k + 1..Len(T)
                 /\ T[c] = Colon /\ NextVisible(T, c + 1) <= Len(T)
  <1>1. k <= Len(T)
    BY DEF KeyEnds
  <1>2. Len(T) \in Nat /\ k \in 1..Len(T) /\ LineEnd(T, k) \in k..Len(T)
    BY <1>1, LineEndIs
  <1>3. \A c \in KeyEnds(T, k) :
           /\ c \in k + 1..LineEnd(T, k)
           /\ T[c] = Colon /\ NextVisible(T, c + 1) <= Len(T)
    BY <1>1 DEF KeyEnds
  <1>4. \A c \in KeyEnds(T, k) : c \in k + 1..Len(T) /\ c \in 0..Len(T)
    BY <1>2, <1>3
  <1>5. KeyEnds(T, k) \in SUBSET (0..Len(T))
    BY <1>4
  <1>6. /\ Max(KeyEnds(T, k)) \in KeyEnds(T, k)
        /\ \A c \in KeyEnds(T, k) : Max(KeyEnds(T, k)) >= c
    BY <1>2, <1>5, MaxIsGreatest
  <1> QED
    BY <1>1, <1>2, <1>3, <1>4, <1>6

\* A part of a line is a visible text.
LEMMA PartOfLine ==
    ASSUME NEW T \in Seq(Token), NEW a \in 1..Len(T), NEW b \in a..Len(T),
           \A x \in a..b : T[x] # NL
    PROVE  /\ SubSeq(T, a, b) \in Visible
           /\ Len(SubSeq(T, a, b)) = b - a + 1
           /\ \A x \in 1..b - a + 1 : SubSeq(T, a, b)[x] = T[a + x - 1]
  <1> DEFINE w == SubSeq(T, a, b)
  <1>1. Len(T) \in Nat
    OBVIOUS
  <1>2. a \in Int /\ b \in Int /\ a <= b
    BY <1>1
  <1>3. \A x \in a..b : T[x] \in Token
    BY <1>1
  <1>4. /\ w \in Seq(Token)
        /\ Len(w) = b - a + 1
        /\ \A x \in 1..b - a + 1 : w[x] = T[a + x - 1]
    BY <1>2, <1>3, SubSeqProperties
  <1> HIDE DEF w
  <1>5. \A x \in 1..b - a + 1 : a + x - 1 \in a..b
    BY <1>2
  <1>6. \A x \in 1..Len(w) : w[x] # NL
    BY <1>4, <1>5
  <1>7. Len(w) > 0
    BY <1>2, <1>4
  <1>8. w \in Visible
    BY <1>4, <1>6, <1>7 DEF Visible, OneLine
  <1> QED
    BY <1>4, <1>8 DEF w

\* The parts of a match are visible texts of one line, and it ends after it began.
LEMMA MatchIs ==
    ASSUME NEW T \in Seq(Token), NEW h \in 1..Len(T), HasMatchAt(T, h)
    PROVE  /\ MatchAt(T, h) \in Match
           /\ MatchAt(T, h).end \in h + 1..Len(T)
  <1> DEFINE k == NextVisible(T, h + 1)
             c == Max(KeyEnds(T, k))
             v == NextVisible(T, c + 1)
             e == LineEnd(T, v)
  <1>1. Len(T) \in Nat
    OBVIOUS
  <1>2. k \in h + 1..Len(T) + 1 /\ (k <= Len(T) => T[k] # NL)
    BY <1>1, NextVisibleIs
  <1>3. KeyEnds(T, k) # {}
    BY DEF HasMatchAt
  <1>4. MatchAt(T, h) = [key |-> SubSeq(T, k, c - 1), val |-> SubSeq(T, v, e), end |-> e]
    BY Zenon DEF MatchAt
  <1> HIDE DEF k
  <1>5. k \in 1..Len(T) /\ T[k] # NL
    BY <1>1, <1>2, <1>3, KeyEndIs
  <1>6. /\ c \in k + 1..LineEnd(T, k) /\ c \in k + 1..Len(T)
        /\ NextVisible(T, c + 1) <= Len(T)
    BY <1>1, <1>2, <1>3, KeyEndIs
  <1> HIDE DEF c
  <1>7. v \in c + 1..Len(T) /\ T[v] # NL
    BY <1>1, <1>5, <1>6, NextVisibleIs
  <1> HIDE DEF v
  <1>8. v \in 1..Len(T)
    BY <1>5, <1>6, <1>7
  <1>9. e \in v..Len(T) /\ \A x \in v..e : T[x] # NL
    BY <1>7, <1>8, LineEndIs, LineIsOne
  <1>10. \A x \in k..LineEnd(T, k) : T[x] # NL
    BY <1>5, LineIsOne
  <1> HIDE DEF e
  <1>11. SubSeq(T, k, c - 1) \in Visible
    <2>1. LineEnd(T, k) \in k..Len(T)
      BY <1>1, <1>5, LineEndIs
    <2>2. c - 1 \in k..Len(T) /\ \A x \in k..c - 1 : x \in k..LineEnd(T, k)
      BY <1>1, <1>5, <1>6, <2>1
    <2> QED
      BY <1>5, <1>10, <2>2, PartOfLine
  <1>12. SubSeq(T, v, e) \in Visible
    BY <1>8, <1>9, PartOfLine
  <1>13. e \in h + 1..Len(T)
    <2>1. c \in k + 1..Len(T) /\ k \in h + 1..Len(T) + 1 /\ v \in c + 1..Len(T)
      BY <1>2, <1>6, <1>7
    <2>2. e \in v..Len(T)
      BY <1>9
    <2> QED
      BY <1>1, <2>1, <2>2
  <1> QED
    BY <1>4, <1>11, <1>12, <1>13 DEF Match

\* What is found from position i on, by what is found from later positions on.
SearchAt(T, f, i) ==
    IF i > Len(T) THEN <<>>
    ELSE IF HasMatchAt(T, i) THEN <<MatchAt(T, i)>> \o f[MatchAt(T, i).end + 1]
    ELSE f[i + 1]

\* What MatchesFrom is defined by, from a position on.
IsSearch(f, T, a) == f = [i \in a..Len(T) + 1 |-> SearchAt(T, f, i)]

\* The search looks at later positions only.
LEMMA SearchLooksAhead ==
    ASSUME NEW T \in Seq(Token), NEW i \in 1..Len(T) + 1, NEW f, NEW g,
           \A x \in i + 1..Len(T) + 1 : f[x] = g[x]
    PROVE  SearchAt(T, f, i) = SearchAt(T, g, i)
  <1>1. Len(T) \in Nat
    OBVIOUS
  <1>2. CASE i > Len(T)
    BY <1>2 DEF SearchAt
  <1>3. CASE i <= Len(T) /\ HasMatchAt(T, i)
    <2>1. MatchAt(T, i).end + 1 \in i + 1..Len(T) + 1
      <3>1. MatchAt(T, i).end \in i + 1..Len(T)
        BY <1>1, <1>3, MatchIs
      <3> QED
        BY <1>1, <3>1
    <2>2. f[MatchAt(T, i).end + 1] = g[MatchAt(T, i).end + 1]
      BY <2>1
    <2>3. ~(i > Len(T))
      BY <1>1, <1>3
    <2> QED
      BY <1>3, <2>2, <2>3, Zenon DEF SearchAt
  <1>4. CASE i <= Len(T) /\ ~HasMatchAt(T, i)
    <2>1. i + 1 \in i + 1..Len(T) + 1
      BY <1>1, <1>4
    <2> QED
      BY <1>1, <1>4, <2>1 DEF SearchAt
  <1> QED
    BY <1>1, <1>2, <1>3, <1>4

\* There is such a function, from whatever position on.
LEMMA SearchesExist ==
    ASSUME NEW T \in Seq(Token)
    PROVE  \E f : IsSearch(f, T, 1)
  <1> DEFINE N == Len(T)
             S == {a \in 1..N + 1 : \E f : IsSearch(f, T, a)}
  <1>1. N \in Nat
    OBVIOUS
  <1>2. N + 1 \in S
    <2> DEFINE f == [i \in N + 1..N + 1 |-> <<>>]
    <2>1. \A i \in N + 1..N + 1 : SearchAt(T, f, i) = <<>>
      BY <1>1 DEF SearchAt
    <2>2. IsSearch(f, T, N + 1)
      BY <2>1 DEF IsSearch
    <2>3. N + 1 \in 1..N + 1
      BY <1>1
    <2> QED
      BY <2>2, <2>3
  <1>3. ASSUME NEW a \in 1..N, a + 1 \in S
        PROVE  a \in S
    <2>1. PICK f : IsSearch(f, T, a + 1)
      BY <1>3
    <2> DEFINE g == [i \in a..N + 1 |-> IF i = a THEN SearchAt(T, f, a) ELSE f[i]]
    <2>2. \A x \in a + 1..N + 1 : f[x] = g[x]
      BY <1>1
    <2>3. ASSUME NEW i \in a..N + 1
          PROVE  g[i] = SearchAt(T, g, i)
      <3>1. i \in 1..N + 1 /\ \A x \in i + 1..N + 1 : x \in a + 1..N + 1
        BY <1>1
      <3>2. SearchAt(T, f, i) = SearchAt(T, g, i)
        <4> HIDE DEF g
        <4> QED
          BY <2>2, <3>1, SearchLooksAhead
      <3>3. i # a => f[i] = SearchAt(T, f, i)
        <4> SUFFICES ASSUME i # a
                     PROVE  f[i] = SearchAt(T, f, i)
          OBVIOUS
        <4>1. i \in a + 1..N + 1
          BY <1>1
        <4> QED
          BY <2>1, <4>1, Zenon DEF IsSearch
      <3>4. g[i] = IF i = a THEN SearchAt(T, f, a) ELSE f[i]
        OBVIOUS
      <3> HIDE DEF g
      <3> QED
        BY <3>2, <3>3, <3>4
    <2>4. IsSearch(g, T, a)
      <3>1. g = [i \in a..N + 1 |-> g[i]]
        OBVIOUS
      <3> HIDE DEF g
      <3> QED
        BY <2>3, <3>1 DEF IsSearch
    <2>5. a \in 1..N + 1
      BY <1>1
    <2> QED
      BY <2>4, <2>5
  <1>4. 1 \in S
    <2> HIDE DEF S
    <2>2. \A a \in 1..N + 1 : a \in S
      <3> HIDE DEF N
      <3> QED
        BY <1>1, <1>2, <1>3, BackwardInduction
    <2> QED
      BY <1>1, <2>2
  <1> QED
    BY <1>4

\* MatchesFrom is that search.
LEMMA MatchesFollow ==
    ASSUME NEW T \in Seq(Token)
    PROVE  \A i \in 1..Len(T) + 1 : MatchesFrom(T)[i] = SearchAt(T, MatchesFrom(T), i)
  <1> DEFINE P(g) == g = [i \in 1..Len(T) + 1 |->
                            IF i > Len(T) THEN <<>>
                            ELSE IF HasMatchAt(T, i)
                            THEN <<MatchAt(T, i)>> \o g[MatchAt(T, i).end + 1]
                            ELSE g[i + 1]]
  <1>1. \E g : P(g)
    <2>1. PICK g : IsSearch(g, T, 1)
      BY SearchesExist
    <2> QED
      BY <2>1, Zenon DEF IsSearch, SearchAt
  <1>2. MatchesFrom(T) = CHOOSE g : P(g)
    BY Zenon DEF MatchesFrom
  <1>3. P(MatchesFrom(T))
    <2> HIDE DEF P
    <2>1. P(CHOOSE g : P(g))
      BY <1>1
    <2> QED
      BY <1>2, <2>1
  <1> QED
    BY <1>3, Zenon DEF SearchAt

\* The set of matches found from a position on.
MatchedFrom(T, i) == {MatchesFrom(T)[i][x] : x \in 1..Len(MatchesFrom(T)[i])}

\* From where there is no match, the search goes to the next position; a match is the
\* first of the matches, and the search goes on behind it.
LEMMA SearchGoesOn ==
    ASSUME NEW T \in Seq(Token)
    PROVE  /\ \A i \in 1..Len(T) + 1 : MatchesFrom(T)[i] \in Seq(Match)
           /\ MatchedFrom(T, Len(T) + 1) = {}
           /\ \A i \in 1..Len(T) :
                 ~HasMatchAt(T, i) => MatchedFrom(T, i) = MatchedFrom(T, i + 1)
           /\ \A i \in 1..Len(T) :
                 HasMatchAt(T, i) =>
                    MatchedFrom(T, i)
                    = {MatchAt(T, i)} \cup MatchedFrom(T, MatchAt(T, i).end + 1)
  <1> DEFINE f == MatchesFrom(T)
             N == Len(T)
             S == {a \in 1..N + 1 : \A i \in a..N + 1 : f[i] \in Seq(Match)}
  <1>1. N \in Nat
    OBVIOUS
  <1>2. f[N + 1] = <<>>
    <2>1. f[N + 1] = SearchAt(T, f, N + 1)
      BY <1>1, MatchesFollow
    <2>2. N + 1 > Len(T)
      BY <1>1
    <2> QED
      BY <2>1, <2>2, Zenon DEF SearchAt
  <1>3. \A i \in 1..N : ~HasMatchAt(T, i) => f[i] = f[i + 1]
    <2> SUFFICES ASSUME NEW i \in 1..N, ~HasMatchAt(T, i)
                 PROVE  f[i] = f[i + 1]
      OBVIOUS
    <2>1. i \in 1..N + 1 /\ ~(i > Len(T))
      BY <1>1
    <2> QED
      BY <2>1, MatchesFollow, Zenon DEF SearchAt
  <1>4. \A i \in 1..N : HasMatchAt(T, i) => f[i] = <<MatchAt(T, i)>> \o f[MatchAt(T, i).end + 1]
    <2> SUFFICES ASSUME NEW i \in 1..N, HasMatchAt(T, i)
                 PROVE  f[i] = <<MatchAt(T, i)>> \o f[MatchAt(T, i).end + 1]
      OBVIOUS
    <2>1. i \in 1..N + 1 /\ ~(i > Len(T))
      BY <1>1
    <2> QED
      BY <2>1, MatchesFollow, Zenon DEF SearchAt
  <1>5. \A i \in 1..N : HasMatchAt(T, i) =>
           /\ MatchAt(T, i) \in Match
           /\ MatchAt(T, i).end + 1 \in i + 1..N + 1
    <2> SUFFICES ASSUME NEW i \in 1..N, HasMatchAt(T, i)
                 PROVE  MatchAt(T, i) \in Match /\ MatchAt(T, i).end + 1 \in i + 1..N + 1
      OBVIOUS
    <2>1. MatchAt(T, i) \in Match /\ MatchAt(T, i).end \in i + 1..N
      BY MatchIs
    <2> QED
      BY <1>1, <2>1
  <1> HIDE DEF f
  <1>6. N + 1 \in S
    <2>1. \A i \in N + 1..N + 1 : i = N + 1
      BY <1>1
    <2>2. <<>> \in Seq(Match) /\ N + 1 \in 1..N + 1
      BY <1>1
    <2> QED
      BY <1>2, <2>1, <2>2
  <1>7. ASSUME NEW a \in 1..N, a + 1 \in S
        PROVE  a \in S
    <2>1. \A i \in a + 1..N + 1 : f[i] \in Seq(Match)
      BY <1>7
    <2>2. f[a] \in Seq(Match)
      <3>1. CASE HasMatchAt(T, a)
        <4>1. f[MatchAt(T, a).end + 1] \in Seq(Match) /\ <<MatchAt(T, a)>> \in Seq(Match)
          BY <1>5, <2>1, <3>1
        <4> DEFINE r == f[MatchAt(T, a).end + 1]
                   o == <<MatchAt(T, a)>>
        <4>2. r \in Seq(Match) /\ o \in Seq(Match)
          BY <4>1
        <4> HIDE DEF r, o
        <4>3. o \o r \in Seq(Match)
          BY <4>2, Joined
        <4> QED
          BY <1>4, <3>1, <4>3, Zenon DEF r, o
      <3>2. CASE ~HasMatchAt(T, a)
        <4>1. a + 1 \in a + 1..N + 1
          BY <1>1
        <4> QED
          BY <1>3, <2>1, <3>2, <4>1
      <3> QED
        BY <3>1, <3>2
    <2>3. a \in 1..N + 1 /\ \A i \in a..N + 1 : i = a \/ i \in a + 1..N + 1
      BY <1>1
    <2> QED
      BY <2>1, <2>2, <2>3
  <1>8. \A i \in 1..N + 1 : f[i] \in Seq(Match)
    <2>1. 1 \in S
      <3> HIDE DEF S
      <3>2. \A a \in 1..N + 1 : a \in S
        <4> HIDE DEF N
        <4> QED
          BY <1>1, <1>6, <1>7, BackwardInduction
      <3> QED
        BY <1>1, <3>2
    <2> QED
      BY <2>1
  <1>9. ASSUME NEW i \in 1..N, HasMatchAt(T, i)
        PROVE  {f[i][x] : x \in 1..Len(f[i])}
               = {MatchAt(T, i)} \cup {f[MatchAt(T, i).end + 1][x] :
                                         x \in 1..Len(f[MatchAt(T, i).end + 1])}
    <2> DEFINE r == f[MatchAt(T, i).end + 1]
               o == MatchAt(T, i)
               s == f[i]
    <2>1. o \in Match /\ r \in Seq(Match)
      BY <1>5, <1>8, <1>9
    <2>2. s = <<o>> \o r
      BY <1>4, <1>9
    <2> HIDE DEF r, o, s
    <2>3. Len(r) \in Nat /\ Len(s) = 1 + Len(r) /\ s[1] = o /\ \A x \in 1..Len(r) : s[1 + x] = r[x]
      <3>1. <<o>> \in Seq(Match) /\ Len(<<o>>) = 1 /\ <<o>>[1] = o
        BY <2>1
      <3>2. /\ Len(<<o>> \o r) = Len(<<o>>) + Len(r)
            /\ \A x \in 1..Len(<<o>>) : (<<o>> \o r)[x] = <<o>>[x]
            /\ \A x \in 1..Len(r) : (<<o>> \o r)[Len(<<o>>) + x] = r[x]
        BY <2>1, <3>1, Joined
      <3> QED
        BY <2>1, <2>2, <3>1, <3>2
    <2>4. \A x \in 1..Len(s) : x = 1 \/ (x - 1 \in 1..Len(r) /\ 1 + (x - 1) = x)
      BY <2>3
    <2>5. 1 \in 1..Len(s) /\ \A x \in 1..Len(r) : 1 + x \in 1..Len(s)
      BY <2>3
    <2>6. {s[x] : x \in 1..Len(s)} = {o} \cup {r[x] : x \in 1..Len(r)}
      <3>1. ASSUME NEW x \in 1..Len(s)
            PROVE  s[x] \in {o} \cup {r[y] : y \in 1..Len(r)}
        <4>1. CASE x = 1
          BY <2>3, <4>1
        <4>2. CASE x # 1
          <5>1. PICK y \in 1..Len(r) : 1 + y = x
            BY <2>4, <4>2
          <5>2. s[x] = r[y]
            BY <2>3, <5>1
          <5> QED
            BY <5>2
        <4> QED
          BY <4>1, <4>2
      <3>2. ASSUME NEW x \in 1..Len(r)
            PROVE  r[x] \in {s[y] : y \in 1..Len(s)}
        BY <2>3, <2>5
      <3>3. o \in {s[y] : y \in 1..Len(s)}
        BY <2>3, <2>5
      <3> QED
        BY <3>1, <3>2, <3>3
    <2> QED
      BY <2>6 DEF r, o, s
  <1>10. {f[N + 1][x] : x \in 1..Len(f[N + 1])} = {}
    BY <1>2
  <1> QED
    BY <1>3, <1>8, <1>9, <1>10, Zenon DEF MatchedFrom, f

-----------------------------------------------------------------------------
(* A line of metadata, and the match that starts on it.                     *)

\* From p on, the text is a comment with a key and a value, and q is behind its line.
StandsAt(T, p, k, v, q) ==
    /\ q = p + Len(k) + Len(v) + 3
    /\ q <= Len(T)
    /\ T[p] = Hash
    /\ \A x \in 1..Len(k) : T[p + x] = k[x]
    /\ T[p + Len(k) + 1] = Colon
    /\ \A x \in 1..Len(v) : T[p + Len(k) + 1 + x] = v[x]
    /\ T[q - 1] = NL

\* Its line ends at the newline, wherever one is on it.
LEMMA LineStands ==
    ASSUME NEW T \in Seq(Token), NEW p \in 1..Len(T), NEW k \in Visible, NEW v \in OneLine,
           NEW q, StandsAt(T, p, k, v, q)
    PROVE  /\ Len(T) \in Nat /\ Len(k) \in Nat /\ Len(k) > 0 /\ Len(v) \in Nat
           /\ q \in p + 4..Len(T)
           /\ \A x \in p..q - 2 : T[x] # NL
           /\ \A i \in p..q - 2 : LineEnd(T, i) = q - 2
  <1>1. Len(T) \in Nat /\ Len(k) \in Nat /\ Len(k) > 0 /\ Len(v) \in Nat
    BY DEF Visible, OneLine
  <1> DEFINE a == Len(k)
             b == Len(v)
             N == Len(T)
  <1>2. a \in Nat /\ a > 0 /\ b \in Nat /\ N \in Nat /\ p \in 1..N
    BY <1>1
  <1>3. q = p + a + b + 3 /\ q <= N
    BY DEF StandsAt
  <1>4. /\ T[p] = Hash
        /\ \A x \in 1..a : T[p + x] = k[x] /\ k[x] # NL
        /\ T[p + a + 1] = Colon
        /\ \A x \in 1..b : T[p + a + 1 + x] = v[x] /\ v[x] # NL
        /\ T[q - 1] = NL
    BY DEF StandsAt, Visible, OneLine
  <1> HIDE DEF a, b, N
  <1>5. q \in p + 4..N
    BY <1>2, <1>3
  <1>6. ASSUME NEW x \in p..q - 2
        PROVE  T[x] # NL
    <2>1. CASE x = p
      BY <1>4, <2>1 DEF Hash, NL
    <2>2. CASE x - p \in 1..a
      <3>1. p + (x - p) = x
        BY <1>2
      <3> QED
        BY <1>4, <2>2, <3>1
    <2>3. CASE x = p + a + 1
      BY <1>4, <2>3 DEF Colon, NL
    <2>4. CASE x - (p + a + 1) \in 1..b
      <3>1. p + a + 1 + (x - (p + a + 1)) = x
        BY <1>2
      <3> QED
        BY <1>4, <2>4, <3>1
    <2>5. x = p \/ x - p \in 1..a \/ x = p + a + 1 \/ x - (p + a + 1) \in 1..b
      BY <1>2, <1>3
    <2> QED
      BY <2>1, <2>2, <2>3, <2>4, <2>5
  <1>7. ASSUME NEW i \in p..q - 2
        PROVE  LineEnd(T, i) = q - 2
    <2>1. i \in 1..N /\ q - 2 \in i..N /\ (q - 2) + 1 = q - 1
      BY <1>2, <1>5
    <2>2. i \in 1..Len(T)
      BY <2>1 DEF N
    <2> DEFINE e == LineEnd(T, i)
    <2>3. e \in i..N /\ (e = N \/ T[e + 1] = NL)
      BY <2>2, LineEndIs DEF N
    <2>4. e <= q - 2
      BY <1>4, <2>1, <2>2, LineEndIs DEF N
    <2> HIDE DEF e
    <2>5. e < q - 2 => e + 1 \in p..q - 2 /\ e # N
      BY <1>2, <1>5, <2>3
    <2>6. ~(e < q - 2)
      BY <1>6, <2>3, <2>5
    <2>7. e = q - 2
      BY <1>2, <1>5, <2>3, <2>4, <2>6
    <2> QED
      BY <2>7 DEF e
  <1> QED
    BY <1>1, <1>5, <1>6, <1>7 DEF N

\* Where the key of the match ends: at the colon of the line, or at a later one of its
\* value.
LEMMA LineKeyEnds ==
    ASSUME NEW T \in Seq(Token), NEW p \in 1..Len(T), NEW k \in Visible, NEW v \in OneLine,
           NEW q, StandsAt(T, p, k, v, q), T[q] = Hash
    PROVE  /\ NextVisible(T, p + 1) = p + 1
           /\ p + 1 \in 1..Len(T)
           /\ KeyEnds(T, p + 1) = {c \in p + Len(k) + 1..q - 2 : T[c] = Colon}
                                    \cup {c \in p + 2..p + Len(k) : T[c] = Colon}
           /\ p + Len(k) + 1 \in KeyEnds(T, p + 1)
  <1> DEFINE a == Len(k)
             b == Len(v)
             N == Len(T)
  <1>1. a \in Nat /\ a > 0 /\ b \in Nat /\ N \in Nat /\ p \in 1..N
    BY LineStands
  <1>2. q = p + a + b + 3 /\ q \in p + 4..N
    BY LineStands DEF StandsAt
  <1>3. /\ \A x \in p..q - 2 : T[x] # NL
        /\ \A i \in p..q - 2 : LineEnd(T, i) = q - 2
    BY LineStands
  <1>4. T[p + a + 1] = Colon /\ N = Len(T)
    BY DEF StandsAt
  <1> HIDE DEF a, b, N
  <1>5. p + 1 \in 1..N + 1 /\ p + 1 \in 1..N /\ p + 1 \in p..q - 2 /\ p + 1 \in p + 1..N
    BY <1>1, <1>2
  <1>6. NextVisible(T, p + 1) = p + 1
    <2> DEFINE w == NextVisible(T, p + 1)
    <2>1. w \in p + 1..N + 1 /\ w <= p + 1
      BY <1>3, <1>4, <1>5, NextVisibleIs
    <2> HIDE DEF w
    <2>2. w = p + 1
      BY <1>1, <2>1
    <2> QED
      BY <2>2 DEF w
  <1>7. ASSUME NEW c \in p + 2..q - 2
        PROVE  NextVisible(T, c + 1) <= Len(T)
    <2>1. c + 1 \in 1..N + 1 /\ q \in c + 1..N
      BY <1>1, <1>2
    <2>2. T[q] # NL
      BY DEF Hash, NL
    <2> DEFINE w == NextVisible(T, c + 1)
    <2>3. w \in c + 1..N + 1 /\ w <= q
      BY <1>4, <2>1, <2>2, NextVisibleIs
    <2> HIDE DEF w
    <2>4. w <= N
      BY <1>1, <1>2, <2>3
    <2> QED
      BY <1>4, <2>4 DEF w
  <1>8. KeyEnds(T, p + 1) = {c \in p + 2..q - 2 : T[c] = Colon}
    <2>1. ~(p + 1 > Len(T)) /\ (p + 1) + 1 = p + 2
      BY <1>1, <1>4, <1>5
    <2>2. LineEnd(T, p + 1) = q - 2
      BY <1>3, <1>5
    <2>3. KeyEnds(T, p + 1) = {c \in (p + 1) + 1..LineEnd(T, p + 1) :
                                 T[c] = Colon /\ NextVisible(T, c + 1) <= Len(T)}
      BY <2>1, Zenon DEF KeyEnds
    <2>4. KeyEnds(T, p + 1) = {c \in p + 2..q - 2 :
                                 T[c] = Colon /\ NextVisible(T, c + 1) <= Len(T)}
      BY <2>1, <2>2, <2>3
    <2> QED
      BY <1>7, <2>4
  <1>9. \A c : c \in p + 2..q - 2 <=> c \in p + a + 1..q - 2 \/ c \in p + 2..p + a
    BY <1>1, <1>2
  <1>10. p + a + 1 \in p + 2..q - 2
    BY <1>1, <1>2
  <1>11. KeyEnds(T, p + 1) = {c \in p + a + 1..q - 2 : T[c] = Colon}
                               \cup {c \in p + 2..p + a : T[c] = Colon}
    BY <1>8, <1>9
  <1>12. p + a + 1 \in KeyEnds(T, p + 1)
    BY <1>4, <1>8, <1>10
  <1> QED
    BY <1>4, <1>5, <1>6, <1>11, <1>12 DEF a

\* A part of the text that has the elements of another one is that one.
LEMMA PartIs ==
    ASSUME NEW T \in Seq(Token), NEW s \in Visible, NEW a \in 1..Len(T), NEW b \in Int,
           b = a + Len(s) - 1, b <= Len(T),
           \A x \in 1..Len(s) : T[a + x - 1] = s[x]
    PROVE  SubSeq(T, a, b) = s
  <1>1. Len(T) \in Nat /\ s \in Seq(Token) /\ Len(s) \in Nat /\ Len(s) > 0
    BY DEF Visible, OneLine
  <1>2. b \in a..Len(T)
    BY <1>1
  <1>3. \A x \in a..b : T[x] # NL
    <2> TAKE x \in a..b
    <2>1. x - a + 1 \in 1..Len(s) /\ a + (x - a + 1) - 1 = x
      BY <1>1
    <2>2. T[x] = s[x - a + 1]
      BY <2>1
    <2> QED
      BY <2>1, <2>2 DEF Visible, OneLine
  <1> DEFINE w == SubSeq(T, a, b)
  <1>4. w \in Visible /\ Len(w) = b - a + 1 /\ \A x \in 1..b - a + 1 : w[x] = T[a + x - 1]
    BY <1>2, <1>3, PartOfLine
  <1> HIDE DEF w
  <1>5. w \in Seq(Token) /\ Len(w) = Len(s)
    BY <1>1, <1>4 DEF Visible, OneLine
  <1>6. \A x \in 1..Len(s) : w[x] = s[x]
    BY <1>1, <1>4
  <1>7. w = s
    BY <1>1, <1>5, <1>6, SeqEqual
  <1> QED
    BY <1>7 DEF w

\* The match is the key and the value if the value is plain.  Without a value it takes
\* the next line for it, and a colon in the value makes the key longer.
LEMMA LineMatches ==
    ASSUME NEW T \in Seq(Token), NEW p \in 1..Len(T), NEW k \in Visible, NEW v \in OneLine,
           NEW q, StandsAt(T, p, k, v, q), T[q] = Hash
    PROVE  /\ HasMatchAt(T, p)
           /\ MatchAt(T, p).end \in {q - 2, LineEnd(T, q)}
           /\ PlainValue(v) => MatchAt(T, p) = [key |-> k, val |-> v, end |-> q - 2]
           /\ v = <<>> => /\ MatchAt(T, p).key = k
                          /\ MatchAt(T, p).val # <<>>
                          /\ Head(MatchAt(T, p).val) = Hash
           /\ v # <<>> /\ ~PlainValue(v) => MatchAt(T, p).key # k
  <1> DEFINE a == Len(k)
             b == Len(v)
             N == Len(T)
             c == Max(KeyEnds(T, p + 1))
             w == NextVisible(T, c + 1)
             e == LineEnd(T, w)
             m == MatchAt(T, p)
  <1>1. a \in Nat /\ a > 0 /\ b \in Nat /\ N \in Nat /\ p \in 1..N
    BY LineStands
  <1>2. q = p + a + b + 3 /\ q \in p + 4..N
    BY LineStands DEF StandsAt
  <1>3. /\ \A x \in p..q - 2 : T[x] # NL
        /\ \A i \in p..q - 2 : LineEnd(T, i) = q - 2
    BY LineStands
  <1>4. /\ T[p] = Hash
        /\ \A x \in 1..a : T[p + x] = k[x]
        /\ T[p + a + 1] = Colon
        /\ \A x \in 1..b : T[p + a + 1 + x] = v[x]
        /\ T[q - 1] = NL
    BY DEF StandsAt
  <1>5. /\ NextVisible(T, p + 1) = p + 1
        /\ KeyEnds(T, p + 1) = {d \in p + a + 1..q - 2 : T[d] = Colon}
                                 \cup {d \in p + 2..p + a : T[d] = Colon}
        /\ p + a + 1 \in KeyEnds(T, p + 1)
    BY LineKeyEnds
  <1>6. HasMatchAt(T, p)
    BY <1>4, <1>5 DEF HasMatchAt
  <1>7. m = [key |-> SubSeq(T, p + 1, c - 1), val |-> SubSeq(T, w, e), end |-> e]
    BY <1>5, Zenon DEF MatchAt
  <1>8. c \in KeyEnds(T, p + 1) /\ \A d \in KeyEnds(T, p + 1) : d <= c
    <2>1. p + 1 \in 1..Len(T) + 1
      BY <1>1
    <2>2. KeyEnds(T, p + 1) # {}
      BY <1>5
    <2> QED
      BY <2>1, <2>2, KeyEndIs
  <1>9. /\ c \in p + a + 1..q - 2 /\ T[c] = Colon
        /\ \A d \in p + a + 1..q - 2 : T[d] = Colon => d <= c
    <2> HIDE DEF c, a, N, b
    <2>1. p + a + 1 <= c
      BY <1>5, <1>8
    <2>2. c \in p + a + 1..q - 2 \/ c \in p + 2..p + a
      BY <1>5, <1>8
    <2>3. T[c] = Colon
      BY <1>5, <1>8
    <2>4. \A d \in p + a + 1..q - 2 : T[d] = Colon => d \in KeyEnds(T, p + 1)
      BY <1>5
    <2> QED
      BY <1>1, <1>2, <1>8, <2>1, <2>2, <2>3, <2>4
  <1> HIDE DEF m, c
  <1>10. c < q - 2 => w = c + 1 /\ e = q - 2
    <2> SUFFICES ASSUME c < q - 2
                 PROVE  w = c + 1 /\ e = q - 2
      OBVIOUS
    <2> HIDE DEF a, b, N, w
    <2>1. c + 1 \in 1..N + 1 /\ c + 1 \in c + 1..N /\ c + 1 \in p..q - 2
      BY <1>1, <1>2, <1>9
    <2>2. w \in c + 1..N + 1 /\ w <= c + 1
      BY <1>3, <2>1, NextVisibleIs DEF N, w
    <2>3. w = c + 1
      BY <1>1, <1>9, <2>2
    <2> QED
      BY <1>3, <2>1, <2>3
  <1>11. c = q - 2 => w = q /\ e = LineEnd(T, q)
    <2> SUFFICES ASSUME c = q - 2
                 PROVE  w = q
      OBVIOUS
    <2> HIDE DEF a, b, N, w, e
    <2>1. c + 1 = q - 1 /\ c + 1 \in 1..N + 1 /\ q \in c + 1..N
      BY <1>1, <1>2, <1>9
    <2>2. T[q] # NL
      BY DEF Hash, NL
    <2>3. w \in c + 1..N + 1 /\ w <= q /\ (w <= N => T[w] # NL)
      BY <2>1, <2>2, NextVisibleIs DEF N, w
    <2>4. w <= N
      BY <1>1, <1>2, <2>1, <2>3
    <2>5. w # q - 1
      BY <1>4, <2>3, <2>4
    <2> QED
      BY <1>1, <1>2, <2>1, <2>3, <2>5 DEF e
  <1> HIDE DEF w, e, a, b, N
  <1>12. c < q - 2 \/ c = q - 2
    BY <1>1, <1>2, <1>9
  <1>13. m.end \in {q - 2, LineEnd(T, q)}
    BY <1>7, <1>10, <1>11, <1>12
  <1>14. c = p + a + 1 => m.key = k
    <2> SUFFICES ASSUME c = p + a + 1
                 PROVE  SubSeq(T, p + 1, c - 1) = k
      BY <1>7
    <2>1. p + 1 \in 1..N /\ c - 1 = (p + 1) + a - 1 /\ c - 1 \in Int /\ c - 1 <= N
      BY <1>1, <1>2, <1>9
    <2>2. \A x \in 1..a : T[(p + 1) + x - 1] = k[x]
      <3> TAKE x \in 1..a
      <3>1. (p + 1) + x - 1 = p + x
        BY <1>1
      <3> QED
        BY <1>4, <3>1
    <2>3. p + 1 \in 1..Len(T) /\ c - 1 = (p + 1) + Len(k) - 1 /\ c - 1 \in Int /\ c - 1 <= Len(T)
      BY <2>1 DEF N, a
    <2> QED
      BY <2>2, <2>3, PartIs DEF a
  <1>15. ASSUME PlainValue(v)
         PROVE  m = [key |-> k, val |-> v, end |-> q - 2]
    <2>1. b > 0 /\ \A x \in 1..b : v[x] # Colon
      BY <1>15 DEF PlainValue, b, OneLine
    <2>2. c = p + a + 1
      <3> SUFFICES ASSUME c # p + a + 1
                   PROVE  FALSE
        OBVIOUS
      <3>1. c - (p + a + 1) \in 1..b /\ p + a + 1 + (c - (p + a + 1)) = c
        BY <1>1, <1>2, <1>9
      <3>2. T[c] = v[c - (p + a + 1)]
        BY <1>4, <3>1
      <3> QED
        BY <1>9, <2>1, <3>1, <3>2
    <2>3. w = p + a + 2 /\ e = q - 2
      <3>1. c < q - 2 /\ c + 1 = p + a + 2
        BY <1>1, <1>2, <2>1, <2>2
      <3> QED
        BY <1>10, <3>1
    <2>4. SubSeq(T, w, e) = v
      <3>1. v \in Visible
        BY <1>1, <2>1 DEF Visible, b
      <3>2. w \in 1..N /\ e = w + b - 1 /\ e \in Int /\ e <= N
        BY <1>1, <1>2, <2>1, <2>3
      <3>3. \A x \in 1..b : T[w + x - 1] = v[x]
        <4> TAKE x \in 1..b
        <4>1. w + x - 1 = p + a + 1 + x
          BY <1>1, <2>3
        <4> QED
          BY <1>4, <4>1
      <3> QED
        BY <3>1, <3>2, <3>3, PartIs DEF N, b
    <2> QED
      BY <1>7, <1>14, <2>2, <2>3, <2>4
  <1>16. ASSUME v = <<>>
         PROVE  m.key = k /\ m.val # <<>> /\ Head(m.val) = Hash
    <2>1. b = 0
      BY <1>16 DEF b
    <2>2. c = p + a + 1 /\ c = q - 2
      BY <1>1, <1>2, <1>9, <2>1
    <2>3. w = q /\ e = LineEnd(T, q) /\ q \in 1..N /\ T[q] # NL
      BY <1>1, <1>2, <1>11, <2>2 DEF Hash, NL
    <2>4. e \in q..N /\ \A x \in q..e : T[x] # NL
      BY <2>3, LineEndIs, LineIsOne DEF N
    <2> DEFINE u == SubSeq(T, q, e)
    <2>5. u \in Visible /\ Len(u) = e - q + 1 /\ \A x \in 1..e - q + 1 : u[x] = T[q + x - 1]
      BY <2>3, <2>4, PartOfLine DEF N
    <2>6. m.val = u
      BY <1>7, <2>3
    <2> HIDE DEF u
    <2>7. 1 \in 1..e - q + 1 /\ q + 1 - 1 = q
      BY <1>1, <2>3, <2>4
    <2>8. u[1] = Hash
      BY <2>5, <2>7
    <2>9. u # <<>> /\ Head(u) = u[1]
      BY <2>5 DEF Visible, OneLine
    <2> QED
      BY <1>14, <2>2, <2>6, <2>8, <2>9
  <1>17. ASSUME v # <<>>, ~PlainValue(v)
         PROVE  m.key # k
    <2>1. PICK x \in 1..b : v[x] = Colon
      BY <1>17 DEF PlainValue, b, OneLine
    <2>2. p + a + 1 + x \in p + a + 1..q - 2
      BY <1>1, <1>2
    <2>3. p + a + 1 + x <= c
      BY <1>4, <1>9, <2>1, <2>2
    <2>4. p + 1 \in 1..N /\ c - 1 \in p + 1..N /\ \A y \in p + 1..c - 1 : y \in p..q - 2
      BY <1>1, <1>2, <1>9
    <2> DEFINE u == SubSeq(T, p + 1, c - 1)
    <2>5. Len(u) = (c - 1) - (p + 1) + 1
      BY <1>3, <2>4, PartOfLine DEF N
    <2>6. m.key = u
      BY <1>7
    <2> HIDE DEF u
    <2>7. Len(u) # a
      BY <1>1, <1>9, <2>3, <2>5
    <2> QED
      BY <2>6, <2>7 DEF a
  <1> QED
    BY <1>6, <1>13, <1>15, <1>16, <1>17 DEF m

-----------------------------------------------------------------------------
(* The comments of a metadata block, and what is found in it.               *)

\* The text begins with a block: the header, n lines -- key[j] and val[j] at at[j] -- and
\* the footer, behind which there is no comment.
Laid(T, n, key, val, at) ==
    /\ n \in Nat /\ key \in [1..n -> Visible] /\ val \in [1..n -> OneLine]
    /\ at \in [1..n + 2 -> 1..Len(T)]
    /\ T[1] = Hash /\ T[2] = HeaderWord /\ T[3] = NL
    /\ at[1] = 4
    /\ \A j \in 1..n : StandsAt(T, at[j], key[j], val[j], at[j + 1])
    /\ at[n + 2] = at[n + 1] + 3
    /\ T[at[n + 1]] = Hash /\ T[at[n + 1] + 1] = FooterWord /\ T[at[n + 1] + 2] = NL
    /\ \A x \in at[n + 1] + 1..Len(T) : T[x] # Hash

\* Where nothing matches any more, nothing is found.
LEMMA NothingFound ==
    ASSUME NEW T \in Seq(Token), NEW a \in 1..Len(T) + 1,
           \A i \in a..Len(T) : ~HasMatchAt(T, i)
    PROVE  MatchedFrom(T, a) = {}
  <1> DEFINE N == Len(T)
             S == {i \in 1..N + 1 : i >= a => MatchedFrom(T, i) = {}}
  <1>1. N \in Nat
    OBVIOUS
  <1>2. N + 1 \in S
    <2>1. MatchedFrom(T, N + 1) = {}
      BY SearchGoesOn
    <2>2. N + 1 \in 1..N + 1
      BY <1>1
    <2> QED
      BY <2>1, <2>2
  <1>3. ASSUME NEW i \in 1..N, i + 1 \in S
        PROVE  i \in S
    <2>1. i \in 1..N + 1
      BY <1>1
    <2>2. ASSUME i >= a
          PROVE  MatchedFrom(T, i) = {}
      <3>1. i \in a..N /\ i + 1 >= a
        BY <1>1, <2>2
      <3>2. MatchedFrom(T, i) = MatchedFrom(T, i + 1)
        BY <3>1, SearchGoesOn
      <3> QED
        BY <1>3, <3>1, <3>2
    <2> QED
      BY <2>1, <2>2
  <1>4. \A i \in 1..N + 1 : i \in S
    <2> HIDE DEF S, N
    <2> QED
      BY <1>1, <1>2, <1>3, BackwardInduction
  <1>5. a \in S /\ a >= a
    BY <1>1, <1>4
  <1> QED
    BY <1>5

\* A comment without a colon, such as the header and the footer, is no match.
LEMMA BareComment ==
    ASSUME NEW T \in Seq(Token), NEW p \in 1..Len(T), p + 2 <= Len(T),
           T[p + 1] # NL, T[p + 2] = NL
    PROVE  ~HasMatchAt(T, p) /\ (T[p] # NL => LineEnd(T, p) = p + 1)
  <1> DEFINE N == Len(T)
             w == NextVisible(T, p + 1)
             e == LineEnd(T, p + 1)
             d == LineEnd(T, p)
  <1>1. N \in Nat /\ p \in 1..N /\ p + 2 <= N
    OBVIOUS
  <1>2. p + 1 \in 1..N /\ p + 1 \in 1..N + 1 /\ p + 1 \in p + 1..N /\ p + 1 \in p..N
          /\ (p + 1) + 1 = p + 2
    BY <1>1
  <1>3. w \in p + 1..N + 1 /\ w <= p + 1
    BY <1>2, NextVisibleIs
  <1>4. e \in p + 1..N /\ e <= p + 1
    BY <1>2, LineEndIs
  <1>5. d \in p..N /\ d <= p + 1 /\ (d = N \/ T[d + 1] = NL)
    BY <1>2, LineEndIs
  <1> HIDE DEF w, e, d, N
  <1>6. w = p + 1 /\ e = p + 1
    BY <1>1, <1>3, <1>4
  <1>7. KeyEnds(T, p + 1) = {}
    <2>1. (p + 1) + 1..LineEnd(T, p + 1) = {}
      BY <1>1, <1>6 DEF e
    <2> QED
      BY <2>1 DEF KeyEnds
  <1>8. ~HasMatchAt(T, p)
    BY <1>6, <1>7 DEF HasMatchAt, w
  <1>9. d = p + 1
    <2>1. d = p => d # N /\ T[d + 1] # NL
      BY <1>1
    <2>2. d # p
      BY <1>5, <2>1
    <2> QED
      BY <1>1, <1>5, <2>2
  <1> QED
    BY <1>8, <1>9 DEF d

\* The matches on the lines of a block, and nowhere else.
LEMMA BlockMatches ==
    ASSUME NEW T \in Seq(Token), NEW n, NEW key, NEW val, NEW at, Laid(T, n, key, val, at)
    PROVE  /\ Len(T) \in Nat
           /\ \A i \in 1..3 : ~HasMatchAt(T, i)
           /\ \A i \in at[n + 1]..Len(T) : ~HasMatchAt(T, i)
           /\ \A j \in 1..n + 1 :
                 /\ at[j] \in 1..Len(T) /\ at[j + 1] \in 1..Len(T) /\ at[j + 1] > at[j]
                 /\ T[at[j]] = Hash
                 /\ ~HasMatchAt(T, at[j + 1] - 1)
                 /\ LineEnd(T, at[j]) = at[j + 1] - 2
           /\ \A j \in 1..n : HasMatchAt(T, at[j])
           /\ \A j \in 1..n :
                 \/ MatchAt(T, at[j]).end = at[j + 1] - 2
                 \/ MatchAt(T, at[j]).end = at[j + 2] - 2
           /\ \A j \in 1..n : PlainValue(val[j]) =>
                 /\ MatchAt(T, at[j]).key = key[j]
                 /\ MatchAt(T, at[j]).val = val[j]
                 /\ MatchAt(T, at[j]).end = at[j + 1] - 2
           /\ \A j \in 1..n : val[j] = <<>> =>
                 /\ MatchAt(T, at[j]).key = key[j]
                 /\ MatchAt(T, at[j]).val # <<>>
                 /\ Head(MatchAt(T, at[j]).val) = Hash
           /\ \A j \in 1..n : val[j] # <<>> /\ ~PlainValue(val[j]) =>
                 MatchAt(T, at[j]).key # key[j]
  <1> DEFINE N == Len(T)
             f == at[n + 1]
  <1>1. N \in Nat /\ n \in Nat
    BY DEF Laid
  <1>2. /\ key \in [1..n -> Visible] /\ val \in [1..n -> OneLine]
        /\ at \in [1..n + 2 -> 1..N]
        /\ T[1] = Hash /\ T[2] = HeaderWord /\ T[3] = NL
        /\ at[1] = 4
        /\ \A j \in 1..n : StandsAt(T, at[j], key[j], val[j], at[j + 1])
        /\ at[n + 2] = f + 3
        /\ T[f] = Hash /\ T[f + 1] = FooterWord /\ T[f + 2] = NL
        /\ \A x \in f + 1..N : T[x] # Hash
    BY DEF Laid
  <1>3. HeaderWord # NL /\ FooterWord # NL
    BY WordsAssumption, WordRank
  <1>4. \A j \in 1..n + 2 : at[j] \in 1..N
    BY <1>2
  <1>5. f \in 1..N /\ f + 3 \in 1..N
    <2>1. n + 1 \in 1..n + 2 /\ n + 2 \in 1..n + 2
      BY <1>1
    <2> QED
      BY <1>2, <1>4, <2>1
  <1>6. ~HasMatchAt(T, f) /\ LineEnd(T, f) = f + 1
    <2>1. f \in 1..Len(T) /\ f + 2 <= Len(T) /\ T[f] # NL
      BY <1>1, <1>2, <1>5 DEF Hash, NL
    <2> HIDE DEF f
    <2> QED
      BY <1>2, <1>3, <2>1, BareComment
  <1>7. \A i \in 1..3 : ~HasMatchAt(T, i)
    <2>1. 4 \in 1..N
      <3>1. 1 \in 1..n + 2
        BY <1>1
      <3> QED
        BY <1>2, <1>4, <3>1
    <2>2. 1 \in 1..Len(T) /\ 3 <= Len(T) /\ 1 + 1 = 2 /\ 1 + 2 = 3
      BY <1>1, <2>1
    <2>3. ~HasMatchAt(T, 1)
      <3>1. T[2] # NL /\ T[3] = NL
        BY <1>2, <1>3
      <3> QED
        BY <2>2, <3>1, BareComment
    <2>4. T[2] # Hash /\ T[3] # Hash
      BY <1>2, WordsAssumption, WordRank DEF Hash, NL
    <2>5. ~HasMatchAt(T, 2) /\ ~HasMatchAt(T, 3)
      BY <2>4 DEF HasMatchAt
    <2>6. \A i \in 1..3 : i = 1 \/ i = 2 \/ i = 3
      OBVIOUS
    <2> QED
      BY <2>3, <2>5, <2>6
  <1>8. \A i \in f..N : ~HasMatchAt(T, i)
    <2> SUFFICES ASSUME NEW i \in f..N
                 PROVE  ~HasMatchAt(T, i)
      OBVIOUS
    <2> HIDE DEF f
    <2>1. i = f \/ i \in f + 1..N
      BY <1>1, <1>5
    <2>2. i \in f + 1..N => ~HasMatchAt(T, i)
      BY <1>2 DEF HasMatchAt
    <2> QED
      BY <1>6, <2>1, <2>2
  <1>9. \A j \in 1..n + 1 : T[at[j]] = Hash
    <2> SUFFICES ASSUME NEW j \in 1..n + 1
                 PROVE  T[at[j]] = Hash
      OBVIOUS
    <2>1. j = n + 1 \/ j \in 1..n
      BY <1>1
    <2>2. j \in 1..n => T[at[j]] = Hash
      BY <1>2 DEF StandsAt
    <2> QED
      BY <1>2, <2>1, <2>2
  <1>10. ASSUME NEW j \in 1..n
         PROVE  /\ at[j] \in 1..Len(T) /\ key[j] \in Visible /\ val[j] \in OneLine
                /\ StandsAt(T, at[j], key[j], val[j], at[j + 1])
                /\ T[at[j + 1]] = Hash
                /\ T[at[j + 1] - 1] = NL
                /\ at[j + 1] \in at[j] + 4..Len(T)
                /\ LineEnd(T, at[j]) = at[j + 1] - 2
    <2>1. j \in 1..n + 2 /\ j + 1 \in 1..n + 1
      BY <1>1
    <2>2. at[j] \in 1..Len(T) /\ key[j] \in Visible /\ val[j] \in OneLine
      BY <1>2, <1>4, <2>1
    <2>3. StandsAt(T, at[j], key[j], val[j], at[j + 1]) /\ T[at[j + 1]] = Hash
      BY <1>2, <1>9, <2>1
    <2>4. T[at[j + 1] - 1] = NL
      BY <2>3 DEF StandsAt
    <2> DEFINE p == at[j]
               q == at[j + 1]
    <2>5. p \in 1..Len(T) /\ StandsAt(T, p, key[j], val[j], q)
      BY <2>2, <2>3
    <2> HIDE DEF p, q
    <2>6. q \in p + 4..Len(T) /\ \A i \in p..q - 2 : LineEnd(T, i) = q - 2
      BY <2>2, <2>5, LineStands
    <2>7. p \in p..q - 2
      BY <1>1, <2>5, <2>6
    <2>8. LineEnd(T, p) = q - 2
      BY <2>6, <2>7
    <2> QED
      BY <2>2, <2>3, <2>4, <2>6, <2>8 DEF p, q
  <1>11. ASSUME NEW j \in 1..n + 1
         PROVE  /\ at[j] \in 1..Len(T) /\ at[j + 1] \in 1..Len(T) /\ at[j + 1] > at[j]
                /\ T[at[j]] = Hash
                /\ ~HasMatchAt(T, at[j + 1] - 1)
                /\ LineEnd(T, at[j]) = at[j + 1] - 2
    <2>1. j \in 1..n + 2 /\ j + 1 \in 1..n + 2
      BY <1>1
    <2>2. at[j] \in 1..N /\ at[j + 1] \in 1..N
      BY <1>4, <2>1
    <2>3. CASE j \in 1..n
      <3>1. ~HasMatchAt(T, at[j + 1] - 1)
        BY <1>10, <2>3 DEF HasMatchAt, Hash, NL
      <3>2. at[j + 1] > at[j]
        <4> DEFINE p == at[j]
                   q == at[j + 1]
        <4>1. q \in p + 4..N /\ p \in 1..N
          BY <1>10, <2>2, <2>3
        <4> HIDE DEF p, q, N
        <4>2. q > p
          BY <1>1, <4>1
        <4> QED
          BY <4>2 DEF p, q
      <3> QED
        BY <1>9, <1>10, <2>2, <2>3, <3>1, <3>2
    <2>4. CASE j = n + 1
      <3>1. at[j] = f /\ at[j + 1] = f + 3
        <4>1. j + 1 = n + 2
          BY <1>1, <2>4
        <4> QED
          BY <1>2, <2>4, <4>1
      <3> HIDE DEF f
      <3>2. (f + 3) - 1 \in f..N /\ (f + 3) - 2 = f + 1 /\ f + 3 > f
        BY <1>1, <1>5
      <3> QED
        BY <1>6, <1>8, <1>9, <2>2, <3>1, <3>2
    <2>5. j \in 1..n \/ j = n + 1
      BY <1>1
    <2> QED
      BY <2>3, <2>4, <2>5
  <1>12. ASSUME NEW j \in 1..n
         PROVE  /\ HasMatchAt(T, at[j])
                /\ \/ MatchAt(T, at[j]).end = at[j + 1] - 2
                   \/ MatchAt(T, at[j]).end = at[j + 2] - 2
                /\ PlainValue(val[j]) => /\ MatchAt(T, at[j]).key = key[j]
                                         /\ MatchAt(T, at[j]).val = val[j]
                                         /\ MatchAt(T, at[j]).end = at[j + 1] - 2
                /\ val[j] = <<>> => /\ MatchAt(T, at[j]).key = key[j]
                                    /\ MatchAt(T, at[j]).val # <<>>
                                    /\ Head(MatchAt(T, at[j]).val) = Hash
                /\ val[j] # <<>> /\ ~PlainValue(val[j]) => MatchAt(T, at[j]).key # key[j]
    <2> DEFINE p == at[j]
               q == at[j + 1]
               k == key[j]
               v == val[j]
    <2>1. p \in 1..Len(T) /\ k \in Visible /\ v \in OneLine /\ StandsAt(T, p, k, v, q) /\ T[q] = Hash
      BY <1>10
    <2>2. LineEnd(T, q) = at[j + 2] - 2
      <3>1. j + 1 \in 1..n + 1 /\ (j + 1) + 1 = j + 2
        BY <1>1
      <3> QED
        BY <1>11, <3>1
    <2> HIDE DEF p, q, k, v
    <2>3. /\ HasMatchAt(T, p)
          /\ MatchAt(T, p).end \in {q - 2, LineEnd(T, q)}
          /\ PlainValue(v) => MatchAt(T, p) = [key |-> k, val |-> v, end |-> q - 2]
          /\ v = <<>> => /\ MatchAt(T, p).key = k
                         /\ MatchAt(T, p).val # <<>>
                         /\ Head(MatchAt(T, p).val) = Hash
          /\ v # <<>> /\ ~PlainValue(v) => MatchAt(T, p).key # k
      BY <2>1, LineMatches
    <2>4. PlainValue(v) =>
             MatchAt(T, p).key = k /\ MatchAt(T, p).val = v /\ MatchAt(T, p).end = q - 2
      BY <2>3
    <2> QED
      BY <2>2, <2>3, <2>4, Zenon DEF p, q, k, v
  <1> QED
    <2> HIDE DEF f
    <2>1. \A i \in f..N : ~HasMatchAt(T, i)
      BY <1>8
    <2> QED
      BY <1>1, <1>7, <2>1, <1>11, <1>12, Zenon DEF f

\* Only what is on the lines of the block is found, and a line is reached over plain ones.
LEMMA BlockFound ==
    ASSUME NEW T \in Seq(Token), NEW n, NEW key, NEW val, NEW at, Laid(T, n, key, val, at)
    PROVE  /\ \A m \in MatchedFrom(T, 1) : \E j \in 1..n : m = MatchAt(T, at[j])
           /\ \A j \in 1..n :
                 (\A i \in 1..j - 1 : PlainValue(val[i]))
                    => MatchAt(T, at[j]) \in MatchedFrom(T, 1)
  <1> DEFINE N == Len(T)
             F(i) == MatchedFrom(T, i)
  <1>1. N \in Nat /\ n \in Nat /\ at[1] = 4
    BY DEF Laid
  <1>2. /\ \A i \in 1..N : ~HasMatchAt(T, i) => F(i) = F(i + 1)
        /\ \A i \in 1..N : HasMatchAt(T, i) => F(i) = {MatchAt(T, i)} \cup F(MatchAt(T, i).end + 1)
    BY SearchGoesOn
  <1>3. \A j \in 1..n + 1 : /\ at[j] \in 1..N /\ at[j + 1] \in 1..N /\ at[j + 1] > at[j]
                            /\ ~HasMatchAt(T, at[j + 1] - 1)
    BY BlockMatches
  <1>4. /\ \A i \in 1..3 : ~HasMatchAt(T, i)
        /\ \A i \in at[n + 1]..N : ~HasMatchAt(T, i)
    BY BlockMatches
  <1>5. ASSUME NEW j \in 1..n
        PROVE  /\ HasMatchAt(T, at[j])
               /\ \/ MatchAt(T, at[j]).end = at[j + 1] - 2
                  \/ MatchAt(T, at[j]).end = at[j + 2] - 2
               /\ PlainValue(val[j]) => MatchAt(T, at[j]).end = at[j + 1] - 2
    <2>1. HasMatchAt(T, at[j])
      BY BlockMatches, Zenon
    <2>2. \A i \in 1..n : \/ MatchAt(T, at[i]).end = at[i + 1] - 2
                          \/ MatchAt(T, at[i]).end = at[i + 2] - 2
      BY BlockMatches
    <2>3. \A i \in 1..n : PlainValue(val[i]) => MatchAt(T, at[i]).end = at[i + 1] - 2
      BY BlockMatches
    <2> QED
      BY <2>1, <2>2, <2>3
  <1> HIDE DEF N, F
  <1>6. F(1) = F(at[1])
    <2>1. 4 \in 1..N
      <3>1. 1 \in 1..n + 1
        BY <1>1
      <3> QED
        BY <1>1, <1>3, <3>1
    <2>2. 1 \in 1..N /\ 2 \in 1..N /\ 3 \in 1..N /\ 1 + 1 = 2 /\ 2 + 1 = 3 /\ 3 + 1 = 4
      BY <1>1, <2>1
    <2>3. F(1) = F(2) /\ F(2) = F(3) /\ F(3) = F(4)
      BY <1>2, <1>4, <2>2
    <2> QED
      BY <1>1, <2>3
  <1>7. \A j \in 1..n + 1 : F(at[j + 1] - 1) = F(at[j + 1])
    <2> TAKE j \in 1..n + 1
    <2> DEFINE p == at[j]
               q == at[j + 1]
    <2>1. p \in 1..N /\ q \in 1..N /\ q > p /\ ~HasMatchAt(T, q - 1)
      BY <1>3
    <2> HIDE DEF p, q
    <2>2. q - 1 \in 1..N /\ (q - 1) + 1 = q
      BY <1>1, <2>1
    <2>3. F(q - 1) = F(q)
      BY <1>2, <2>1, <2>2
    <2> QED
      BY <2>3 DEF q
  <1>8. ASSUME NEW j \in 1..n
        PROVE  /\ \/ F(at[j]) = {MatchAt(T, at[j])} \cup F(at[j + 1])
                  \/ F(at[j]) = {MatchAt(T, at[j])} \cup F(at[j + 2])
               /\ PlainValue(val[j]) => F(at[j]) = {MatchAt(T, at[j])} \cup F(at[j + 1])
    <2>1. j \in 1..n + 1 /\ j + 1 \in 1..n + 1 /\ (j + 1) + 1 = j + 2
      BY <1>1
    <2>2. at[j] \in 1..N /\ at[j + 1] \in 1..N /\ at[j + 2] \in 1..N
      BY <1>3, <2>1
    <2>3. F(at[j]) = {MatchAt(T, at[j])} \cup F(MatchAt(T, at[j]).end + 1)
      BY <1>2, <1>5, <2>2
    <2>4. F(at[j + 1] - 1) = F(at[j + 1]) /\ F(at[j + 2] - 1) = F(at[j + 2])
      BY <1>7, <2>1
    <2>5. \A x \in 1..N : (x - 2) + 1 = x - 1
      BY <1>1
    <2>6. MatchAt(T, at[j]).end = at[j + 1] - 2
             => F(MatchAt(T, at[j]).end + 1) = F(at[j + 1])
      BY <2>2, <2>4, <2>5
    <2>7. MatchAt(T, at[j]).end = at[j + 2] - 2
             => F(MatchAt(T, at[j]).end + 1) = F(at[j + 2])
      BY <2>2, <2>4, <2>5
    <2> QED
      BY <1>5, <2>3, <2>6, <2>7
  <1>9. F(at[n + 1]) = {} /\ F(at[n + 2]) = {}
    <2> DEFINE p == at[n + 1]
               q == at[n + 2]
    <2>1. n + 1 \in 1..n + 1 /\ (n + 1) + 1 = n + 2
      BY <1>1
    <2>2. p \in 1..N /\ q \in 1..N /\ q > p
      BY <1>3, <2>1
    <2>3. \A i \in p..N : ~HasMatchAt(T, i)
      BY <1>4
    <2> HIDE DEF p, q
    <2>4. p \in 1..N + 1 /\ q \in 1..N + 1 /\ \A i \in q..N : i \in p..N
      BY <1>1, <2>2
    <2>5. \A i \in q..N : ~HasMatchAt(T, i)
      BY <2>3, <2>4
    <2>6. F(p) = {} /\ F(q) = {}
      BY <2>3, <2>4, <2>5, NothingFound DEF N, F
    <2> QED
      BY <2>6 DEF p, q
  <1>10. ASSUME NEW m \in F(1)
         PROVE  \E j \in 1..n : m = MatchAt(T, at[j])
    <2> DEFINE M == {MatchAt(T, at[j]) : j \in 1..n}
               S == {j \in 1..n + 1 : F(at[j]) \subseteq M /\ F(at[j + 1]) \subseteq M}
    <2>1. n + 1 \in S
      <3>1. n + 1 \in 1..n + 1 /\ (n + 1) + 1 = n + 2
        BY <1>1
      <3> QED
        BY <1>9, <3>1
    <2>2. ASSUME NEW j \in 1..n, j + 1 \in S
          PROVE  j \in S
      <3>1. j \in 1..n + 1 /\ (j + 1) + 1 = j + 2
        BY <1>1
      <3>2. MatchAt(T, at[j]) \in M
        OBVIOUS
      <3>3. F(at[j + 1]) \subseteq M /\ F(at[j + 2]) \subseteq M
        BY <2>2, <3>1
      <3>4. F(at[j]) \subseteq M
        <4> HIDE DEF M
        <4> QED
          BY <1>8, <3>2, <3>3
      <3> HIDE DEF M
      <3> QED
        BY <3>1, <3>3, <3>4
    <2>3. 1 \in S
      <3> HIDE DEF S
      <3>1. \A j \in 1..n + 1 : j \in S
        BY <1>1, <2>1, <2>2, BackwardInduction
      <3> QED
        BY <1>1, <3>1
    <2>4. m \in M
      BY <1>6, <1>10, <2>3
    <2> QED
      BY <2>4
  <1>11. ASSUME NEW j \in 1..n, \A i \in 1..j - 1 : PlainValue(val[i])
         PROVE  MatchAt(T, at[j]) \in F(1)
    <2> DEFINE S == {i \in 1..j : F(at[i]) \subseteq F(1)}
    <2>1. 1 \in S
      BY <1>6
    <2>2. ASSUME NEW i \in 1..j - 1, i \in S
          PROVE  i + 1 \in S
      <3>1. i \in 1..n /\ i + 1 \in 1..j
        BY <1>1
      <3> QED
        BY <1>8, <1>11, <2>2, <3>1
    <2>3. j \in S
      <3> HIDE DEF S
      <3>1. 1 \in Nat /\ j \in Nat /\ j \in 1..j
        BY <1>1
      <3>2. \A i \in 1..j : i \in S
        BY <2>1, <2>2, <3>1, UpwardInduction
      <3> QED
        BY <3>1, <3>2
    <2>4. MatchAt(T, at[j]) \in F(at[j])
      BY <1>8
    <2> QED
      BY <2>3, <2>4
  <1> QED
    BY <1>10, <1>11 DEF F

-----------------------------------------------------------------------------
(* Reading the comments of a text.                                          *)

\* A map has what it had before, and the rest from the matches.
Reads(u, dst, M) ==
    /\ u = [k \in DOMAIN u |-> u[k]]
    /\ DOMAIN u = DOMAIN dst \cup {m.key : m \in M}
    /\ \A k \in DOMAIN dst : u[k] = dst[k]
    /\ \A k \in DOMAIN u \ DOMAIN dst : \E m \in M : m.key = k /\ u[k] = m.val

\* So has what Unmarshal returns; the matches are finitely many.
LEMMA UnmarshalReads ==
    ASSUME NEW T \in Seq(Token), NEW dst
    PROVE  /\ MatchedFrom(T, 1) \in SUBSET Match
           /\ IsFiniteSet(MatchedFrom(T, 1))
           /\ Reads(Unmarshal(T, dst), dst, MatchedFrom(T, 1))
  <1> DEFINE u == Unmarshal(T, dst)
             M == MatchedFrom(T, 1)
             s == MatchesFrom(T)[1]
             First(k) == Min({i \in DOMAIN s : s[i].key = k})
  <1>1. 1 \in 1..Len(T) + 1
    <2>1. Len(T) \in Nat
      OBVIOUS
    <2> QED
      BY <2>1
  <1>2. s \in Seq(Match) /\ M = {s[x] : x \in 1..Len(s)}
    BY <1>1, SearchGoesOn DEF MatchedFrom
  <1>3. u = [k \in DOMAIN dst \cup {s[i].key : i \in DOMAIN s} |->
               IF k \in DOMAIN dst THEN dst[k] ELSE s[First(k)].val]
    BY Zenon DEF Unmarshal, FindAll
  <1> HIDE DEF s, u, M
  <1>4. M \in SUBSET Match
    BY <1>2
  <1>5. IsFiniteSet(M)
    <2> DEFINE D == 1..Len(s)
    <2>1. IsFiniteSet(D)
      <3>1. 1 \in Int /\ Len(s) \in Int
        BY <1>2
      <3> QED
        BY <3>1, FS_Interval
    <2>2. M = {s[x] : x \in D}
      BY <1>2
    <2> HIDE DEF D
    <2> DEFINE g == [x \in D |-> s[x]]
    <2>3. g \in Surjection(D, M)
      BY <2>2 DEF Surjection
    <2> QED
      BY <2>1, <2>3, FS_Surjection
  <1>6. DOMAIN s = 1..Len(s) /\ Len(s) \in Nat
    BY <1>2
  <1>7. DOMAIN u = DOMAIN dst \cup {m.key : m \in M}
    BY <1>2, <1>3, <1>6
  <1>8. \A k \in DOMAIN dst : u[k] = dst[k]
    BY <1>3
  <1>9. ASSUME NEW k \in DOMAIN u \ DOMAIN dst
        PROVE  \E m \in M : m.key = k /\ u[k] = m.val
    <2> DEFINE I == {i \in DOMAIN s : s[i].key = k}
    <2>1. u[k] = s[Min(I)].val
      BY <1>3, <1>9
    <2>2. I \in SUBSET Nat /\ I # {}
      BY <1>3, <1>6, <1>9
    <2>3. Min(I) \in I
      <3> HIDE DEF I
      <3> QED
        BY <2>2, MinIsLeast
    <2>4. Min(I) \in 1..Len(s) /\ s[Min(I)].key = k
      BY <1>6, <2>3
    <2>5. s[Min(I)] \in M
      BY <1>2, <2>4
    <2> QED
      BY <2>1, <2>4, <2>5
  <1>10. u = [k \in DOMAIN u |-> u[k]]
    BY <1>3, Zenon
  <1> QED
    BY <1>4, <1>5, <1>7, <1>8, <1>9, <1>10 DEF Reads, u, M

-----------------------------------------------------------------------------
(* The text that is written for a map.                                      *)

\* A map whose items each fit on a line of their own.
Commentable(m) ==
    /\ IsFiniteSet(DOMAIN m)
    /\ m \in [DOMAIN m -> OneLine]
    /\ DOMAIN m \subseteq Visible

\* The block of a map and what comes behind it.
Written(m, rest) ==
    (<<Hash, HeaderWord, NL>> \o Marshal(m) \o <<Hash, FooterWord, NL, NL>>) \o rest

\* The lines of a map: each of its keys has one.
LinesOf(m, n, key, val) ==
    /\ \A j \in 1..n : key[j] \in DOMAIN m /\ val[j] = m[key[j]]
    /\ \A i, j \in 1..n : key[i] = key[j] => i = j
    /\ \A k \in DOMAIN m : \E j \in 1..n : key[j] = k

\* What is where in a text of four parts.
Parts(T, h, M, f, C) ==
    /\ T \in Seq(Token)
    /\ Len(T) = Len(h) + Len(M) + Len(f) + Len(C)
    /\ \A i \in 1..Len(h) : T[i] = h[i]
    /\ \A i \in 1..Len(M) : T[Len(h) + i] = M[i]
    /\ \A i \in 1..Len(f) : T[Len(h) + Len(M) + i] = f[i]
    /\ \A i \in 1..Len(C) : T[Len(h) + Len(M) + Len(f) + i] = C[i]

LEMMA FourParts ==
    ASSUME NEW h \in Seq(Token), NEW M \in Seq(Token), NEW f \in Seq(Token), NEW C \in Seq(Token)
    PROVE  Parts((h \o M \o f) \o C, h, M, f, C)
  <1> DEFINE A == h \o M
             B == A \o f
             T == B \o C
             a == Len(h)
             b == Len(M)
             c == Len(f)
             d == Len(C)
  <1>1. a \in Nat /\ b \in Nat /\ c \in Nat /\ d \in Nat
    OBVIOUS
  <1>2. /\ A \in Seq(Token) /\ Len(A) = a + b
        /\ \A i \in 1..a : A[i] = h[i]
        /\ \A i \in 1..b : A[a + i] = M[i]
    BY Joined
  <1> HIDE DEF A
  <1>3. /\ B \in Seq(Token) /\ Len(B) = Len(A) + c
        /\ \A i \in 1..Len(A) : B[i] = A[i]
        /\ \A i \in 1..c : B[Len(A) + i] = f[i]
    <2>1. A \in Seq(Token)
      BY <1>2
    <2> QED
      BY <2>1, Joined
  <1> HIDE DEF B
  <1>4. /\ T \in Seq(Token) /\ Len(T) = Len(B) + d
        /\ \A i \in 1..Len(B) : T[i] = B[i]
        /\ \A i \in 1..d : T[Len(B) + i] = C[i]
    <2>1. B \in Seq(Token)
      BY <1>3
    <2> QED
      BY <2>1, Joined
  <1> HIDE DEF T, a, b, c, d
  <1>5. Len(A) = a + b /\ Len(B) = a + b + c /\ Len(T) = a + b + c + d
    BY <1>1, <1>2, <1>3, <1>4
  <1>6. \A i \in 1..a : T[i] = h[i]
    <2> TAKE i \in 1..a
    <2>1. i \in 1..a + b /\ i \in 1..a + b + c
      BY <1>1
    <2> QED
      BY <1>2, <1>3, <1>4, <1>5, <2>1
  <1>7. \A i \in 1..b : T[a + i] = M[i]
    <2> TAKE i \in 1..b
    <2>1. a + i \in 1..a + b /\ a + i \in 1..a + b + c
      BY <1>1
    <2> QED
      BY <1>2, <1>3, <1>4, <1>5, <2>1
  <1>8. \A i \in 1..c : T[a + b + i] = f[i]
    <2> TAKE i \in 1..c
    <2>1. a + b + i \in 1..a + b + c
      BY <1>1
    <2> QED
      BY <1>3, <1>4, <1>5, <2>1
  <1>9. \A i \in 1..d : T[a + b + c + i] = C[i]
    BY <1>4, <1>5
  <1> QED
    BY <1>4, <1>5, <1>6, <1>7, <1>8, <1>9 DEF Parts, T, B, A, a, b, c, d

\* What is written is laid out as a block, with the lines of the map.
LEMMA WrittenIsLaid ==
    ASSUME NEW m, Commentable(m), NEW C \in Seq(Token \ {Hash})
    PROVE  /\ Written(m, C) \in Seq(Token)
           /\ \E n, key, val, at :
                 Laid(Written(m, C), n, key, val, at) /\ LinesOf(m, n, key, val)
  <1> DEFINE T == Written(m, C)
             M == Marshal(m)
             n == Cardinality(DOMAIN m)
             key == SortedKeys(m)
             val == [j \in 1..n |-> m[key[j]]]
             seqs == [j \in 1..n |-> Line(m, key[j])]
  <1>1. Map(m) /\ \A k \in DOMAIN m : k \in Visible /\ m[k] \in OneLine
    BY DEF Commentable, Map, Visible, OneLine
  <1>2. /\ n \in Nat
        /\ key \in [1..n -> DOMAIN m]
        /\ \A i, j \in 1..n : key[i] = key[j] => i = j
        /\ \A k \in DOMAIN m : \E j \in 1..n : key[j] = k
    BY <1>1, SortedKeysAreKeys
  <1> HIDE DEF key, n
  <1>3. LinesOf(m, n, key, val)
    BY <1>2 DEF LinesOf
  <1>4. key \in [1..n -> Visible] /\ val \in [1..n -> OneLine]
    BY <1>1, <1>2
  <1>5. \A j \in 1..n : val[j] = m[key[j]] /\ seqs[j] = Line(m, key[j])
    OBVIOUS
  <1>6. seqs \in [1..n -> Seq(Token)]
    <2>1. \A k \in DOMAIN m : Line(m, k) \in Seq(Token)
      BY <1>1, LineIs DEF Map
    <2> QED
      BY <1>2, <2>1
  <1>7. M = FlattenSeq(seqs)
    <2>1. DOMAIN key = 1..n
      BY <1>2
    <2> QED
      BY <2>1 DEF Marshal, key
  <1> HIDE DEF seqs, val
  <1>8. M \in Seq(Token)
    BY <1>2, <1>6, <1>7, FlattenPlaces
  <1>9. PICK off : Places(off, seqs, n, M)
    BY <1>2, <1>6, <1>7, FlattenPlaces
  <1> HIDE DEF M
  <1> DEFINE l == Len(M)
             r == Len(C)
             at == [j \in 1..n + 2 |-> IF j = n + 2 THEN l + 7 ELSE off[j] + 4]
  <1>10. l \in Nat /\ r \in Nat /\ C \in Seq(Token)
    BY <1>8
  <1>11. /\ T \in Seq(Token)
         /\ Len(T) = l + r + 7
         /\ T[1] = Hash /\ T[2] = HeaderWord /\ T[3] = NL
         /\ \A i \in 1..l : T[3 + i] = M[i]
         /\ T[l + 4] = Hash /\ T[l + 5] = FooterWord
         /\ T[l + 6] = NL /\ T[l + 7] = NL
         /\ \A i \in 1..r : T[l + 7 + i] = C[i]
    <2> DEFINE h == <<Hash, HeaderWord, NL>>
               f == <<Hash, FooterWord, NL, NL>>
    <2>1. Hash \in Token /\ HeaderWord \in Token /\ NL \in Token /\ FooterWord \in Token
      BY WordsAssumption DEF Token
    <2>2. h \in Seq(Token) /\ Len(h) = 3 /\ h[1] = Hash /\ h[2] = HeaderWord /\ h[3] = NL
      BY <2>1
    <2>3. /\ f \in Seq(Token) /\ Len(f) = 4
          /\ f[1] = Hash /\ f[2] = FooterWord /\ f[3] = NL /\ f[4] = NL
      BY <2>1
    <2>4. T = (h \o M \o f) \o C
      BY DEF Written, M
    <2>5. M \in Seq(Token) /\ C \in Seq(Token)
      BY <1>8, <1>10
    <2> HIDE DEF T, h, f
    <2>6. /\ T \in Seq(Token)
          /\ Len(T) = Len(h) + l + Len(f) + r
          /\ \A i \in 1..Len(h) : T[i] = h[i]
          /\ \A i \in 1..l : T[Len(h) + i] = M[i]
          /\ \A i \in 1..Len(f) : T[Len(h) + l + i] = f[i]
          /\ \A i \in 1..r : T[Len(h) + l + Len(f) + i] = C[i]
      <3>1. h \in Seq(Token) /\ f \in Seq(Token)
        BY <2>2, <2>3
      <3>2. Parts((h \o M \o f) \o C, h, M, f, C)
        BY <2>5, <3>1, FourParts
      <3>3. Parts(T, h, M, f, C)
        BY <2>4, <3>2, Zenon
      <3> QED
        BY <3>3 DEF Parts
    <2>7. /\ T \in Seq(Token)
          /\ Len(T) = l + r + 7
          /\ \A i \in 1..3 : T[i] = h[i]
          /\ \A i \in 1..l : T[3 + i] = M[i]
          /\ \A i \in 1..4 : T[l + 3 + i] = f[i]
          /\ \A i \in 1..r : T[l + 7 + i] = C[i]
      <3> HIDE DEF l, r
      <3>1. Len(h) + l + Len(f) + r = l + r + 7
              /\ Len(h) + l = l + 3 /\ Len(h) + l + Len(f) = l + 7
        BY <1>10, <2>2, <2>3
      <3> QED
        BY <2>2, <2>3, <2>6, <3>1
    <2> HIDE DEF l, r
    <2>8. T[1] = Hash /\ T[2] = HeaderWord /\ T[3] = NL
      BY <2>2, <2>7
    <2>9. /\ 1 \in 1..4 /\ 2 \in 1..4 /\ 3 \in 1..4 /\ 4 \in 1..4
          /\ l + 3 + 1 = l + 4 /\ l + 3 + 2 = l + 5 /\ l + 3 + 3 = l + 6 /\ l + 3 + 4 = l + 7
      BY <1>10
    <2>10. T[l + 4] = Hash /\ T[l + 5] = FooterWord /\ T[l + 6] = NL /\ T[l + 7] = NL
      BY <2>3, <2>7, <2>9
    <2> QED
      BY <2>7, <2>8, <2>10
  <1> HIDE DEF T
  <1>12. /\ off \in [1..n + 1 -> Nat] /\ off[1] = 0 /\ off[n + 1] = l
         /\ \A j \in 1..n :
               /\ off[j + 1] = off[j] + Len(seqs[j])
               /\ \A x \in 1..Len(seqs[j]) : M[off[j] + x] = seqs[j][x]
    BY <1>9 DEF Places
  <1>13. \A x \in l + 5..l + r + 7 : T[x] # Hash
    <2> SUFFICES ASSUME NEW x \in l + 5..l + r + 7
                 PROVE  T[x] # Hash
      OBVIOUS
    <2>1. FooterWord # Hash /\ NL # Hash
      BY WordsAssumption, WordRank DEF NL, Hash
    <2>2. CASE x \in l + 5..l + 7
      <3> HIDE DEF l
      <3>1. x = l + 5 \/ x = l + 6 \/ x = l + 7
        BY <1>10, <2>2
      <3> QED
        BY <1>11, <2>1, <3>1
    <2>3. CASE x - (l + 7) \in 1..r
      <3>1. C[x - (l + 7)] # Hash
        BY <2>3
      <3> HIDE DEF l, r
      <3>2. l + 7 + (x - (l + 7)) = x
        BY <1>10
      <3>3. T[x] = C[x - (l + 7)]
        BY <1>11, <2>3, <3>2
      <3> QED
        BY <3>1, <3>3
    <2>4. x \in l + 5..l + 7 \/ x - (l + 7) \in 1..r
      <3> HIDE DEF l, r
      <3> QED
        BY <1>10
    <2> QED
      BY <2>2, <2>3, <2>4
  <1> HIDE DEF l, r
  <1>14. \A j \in 1..n + 1 : off[j] \in 0..l
    <2> DEFINE S == {j \in 1..n + 1 : off[j] <= l}
    <2>1. n + 1 \in S
      <3>1. n + 1 \in 1..n + 1
        BY <1>2
      <3> QED
        BY <1>10, <1>12, <3>1
    <2>2. ASSUME NEW j \in 1..n, j + 1 \in S
          PROVE  j \in S
      <3> DEFINE a == off[j]
                 b == off[j + 1]
                 c == Len(seqs[j])
      <3>1. j \in 1..n + 1 /\ j + 1 \in 1..n + 1
        BY <1>2
      <3>2. a \in Nat /\ b \in Nat /\ b = a + c /\ b <= l
        BY <1>12, <2>2, <3>1
      <3>3. c \in Nat
        BY <1>6
      <3> HIDE DEF a, b, c
      <3>4. a <= l
        BY <1>10, <3>2, <3>3
      <3> QED
        BY <3>1, <3>4 DEF a
    <2>3. \A j \in 1..n + 1 : j \in S
      <3> HIDE DEF S
      <3> QED
        BY <1>2, <2>1, <2>2, BackwardInduction
    <2> QED
      BY <1>10, <1>12, <2>3
  <1>15. /\ \A j \in 1..n + 1 : at[j] = off[j] + 4
         /\ at[n + 2] = l + 7 /\ at[n + 1] = l + 4 /\ at[1] = 4
    <2>1. n + 1 \in 1..n + 1 /\ 1 \in 1..n + 1 /\ n + 2 \in 1..n + 2
      BY <1>2
    <2>2. \A j \in 1..n + 1 : j \in 1..n + 2 /\ j # n + 2
      BY <1>2
    <2>3. \A j \in 1..n + 1 : at[j] = off[j] + 4
      BY <2>2
    <2>4. at[n + 2] = l + 7
      BY <2>1
    <2> HIDE DEF at
    <2> QED
      BY <1>10, <1>12, <2>1, <2>3, <2>4
  <1>16. at \in [1..n + 2 -> 1..Len(T)]
    <2>1. \A j \in 1..n + 1 : off[j] + 4 \in 1..l + r + 7
      BY <1>10, <1>14
    <2>2. l + 7 \in 1..l + r + 7
      BY <1>10
    <2>3. \A j \in 1..n + 2 : j = n + 2 \/ j \in 1..n + 1
      BY <1>2
    <2> QED
      BY <1>11, <2>1, <2>2, <2>3
  <1> HIDE DEF at
  <1>17. ASSUME NEW j \in 1..n
         PROVE  StandsAt(T, at[j], key[j], val[j], at[j + 1])
    <2> DEFINE k == key[j]
               v == val[j]
               s == seqs[j]
               a == Len(k)
               b == Len(v)
               c == Len(s)
               o == off[j]
               p == at[j]
               q == at[j + 1]
    <2>1. j \in 1..n + 1 /\ j + 1 \in 1..n + 1
      BY <1>2
    <2>2. k \in DOMAIN m /\ k \in Seq(Token) /\ m[k] \in Seq(Token) /\ v = m[k] /\ s = Line(m, k)
      BY <1>1, <1>2, <1>5 DEF Map
    <2>3. a \in Nat /\ b \in Nat
      BY <2>2
    <2>4. /\ c = a + b + 3
          /\ s[1] = Hash
          /\ \A i \in 1..a : s[1 + i] = k[i]
          /\ s[a + 2] = Colon
          /\ \A i \in 1..b : s[a + 2 + i] = v[i]
          /\ s[a + b + 3] = NL
      <3> HIDE DEF k
      <3>0. k \in DOMAIN m /\ k \in Seq(Token) /\ m[k] \in Seq(Token)
        BY <2>2
      <3>1. LineShape(Line(m, k), k, m[k])
        BY <3>0, LineHasShape, Zenon
      <3> QED
        BY <2>2, <3>1, Zenon DEF LineShape
    <2>5. p = o + 4 /\ q = off[j + 1] + 4 /\ off[j + 1] = o + c /\ o \in 0..l
            /\ off[j + 1] \in 0..l
      BY <1>12, <1>14, <1>15, <2>1
    <2>6. \A x \in 1..c : M[o + x] = s[x]
      BY <1>12
    <2> HIDE DEF k, v, s, a, b, c, o, p, q
    <2>7. o + c \in 0..l /\ q = o + c + 4 /\ c \in Nat
      BY <2>3, <2>4, <2>5
    <2>8. \A x \in 1..c : T[p + x - 1] = s[x]
      <3> TAKE x \in 1..c
      <3>1. o + x \in 1..l /\ 3 + (o + x) = p + x - 1
        BY <1>10, <2>5, <2>7
      <3>2. T[3 + (o + x)] = M[o + x]
        BY <1>11, <3>1
      <3> QED
        BY <2>6, <3>1, <3>2
    <2>9. T[p] = Hash
      <3>1. 1 \in 1..c /\ p + 1 - 1 = p
        BY <2>3, <2>4, <2>5
      <3> QED
        BY <2>4, <2>8, <3>1
    <2>10. \A x \in 1..a : T[p + x] = k[x]
      <3> TAKE x \in 1..a
      <3>1. 1 + x \in 1..c /\ p + (1 + x) - 1 = p + x
        BY <2>3, <2>4, <2>5
      <3> QED
        BY <2>4, <2>8, <3>1
    <2>11. T[p + a + 1] = Colon
      <3>1. a + 2 \in 1..c /\ p + (a + 2) - 1 = p + a + 1
        BY <2>3, <2>4, <2>5
      <3> QED
        BY <2>4, <2>8, <3>1
    <2>12. \A x \in 1..b : T[p + a + 1 + x] = v[x]
      <3> TAKE x \in 1..b
      <3>1. a + 2 + x \in 1..c /\ p + (a + 2 + x) - 1 = p + a + 1 + x
        BY <2>3, <2>4, <2>5
      <3> QED
        BY <2>4, <2>8, <3>1
    <2>13. T[q - 1] = NL
      <3>1. a + b + 3 \in 1..c /\ p + (a + b + 3) - 1 = q - 1
        BY <2>3, <2>4, <2>5
      <3> QED
        BY <2>4, <2>8, <3>1
    <2>14. q = p + a + b + 3 /\ q <= Len(T)
      BY <1>10, <1>11, <2>3, <2>4, <2>5, <2>7
    <2>15. StandsAt(T, p, k, v, q)
      BY <2>9, <2>10, <2>11, <2>12, <2>13, <2>14 DEF StandsAt, a, b
    <2> QED
      BY <2>15 DEF p, k, v, q
  <1>18. Laid(T, n, key, val, at)
    <2>1. /\ at[n + 2] = at[n + 1] + 3
          /\ at[n + 1] + 1 = l + 5 /\ at[n + 1] + 2 = l + 6
      BY <1>10, <1>15
    <2>2. T[at[n + 1]] = Hash /\ T[at[n + 1] + 1] = FooterWord /\ T[at[n + 1] + 2] = NL
      BY <1>11, <1>15, <2>1
    <2>3. \A x \in at[n + 1] + 1..Len(T) : T[x] # Hash
      BY <1>11, <1>13, <2>1
    <2> QED
      BY <1>2, <1>4, <1>11, <1>15, <1>16, <1>17, <2>1, <2>2, <2>3 DEF Laid
  <1> QED
    BY <1>3, <1>11, <1>18 DEF T

-----------------------------------------------------------------------------
(* What is read back.                                                       *)

\* From a text whose values are all plain, with what is known from it already, the map
\* that was written is read.
LEMMA WrittenReadsBack ==
    ASSUME NEW m, Commentable(m), Plain(m), NEW C \in Seq(Token \ {Hash}), NEW dst,
           DOMAIN dst \subseteq DOMAIN m, \A k \in DOMAIN dst : dst[k] = m[k]
    PROVE  Unmarshal(Written(m, C), dst) = m
  <1> DEFINE T == Written(m, C)
             u == Unmarshal(T, dst)
             M == MatchedFrom(T, 1)
  <1>1. T \in Seq(Token)
    BY WrittenIsLaid
  <1>2. PICK n, key, val, at : Laid(T, n, key, val, at) /\ LinesOf(m, n, key, val)
    BY WrittenIsLaid
  <1> HIDE DEF T
  <1>13. Reads(u, dst, M)
    BY <1>1, UnmarshalReads
  <1> HIDE DEF u, M
  <1>3. /\ u = [k \in DOMAIN u |-> u[k]]
        /\ DOMAIN u = DOMAIN dst \cup {x.key : x \in M}
        /\ \A k \in DOMAIN dst : u[k] = dst[k]
        /\ \A k \in DOMAIN u \ DOMAIN dst : \E x \in M : x.key = k /\ u[k] = x.val
    BY <1>13 DEF Reads
  <1>4. /\ \A j \in 1..n : key[j] \in DOMAIN m /\ val[j] = m[key[j]]
        /\ \A k \in DOMAIN m : \E j \in 1..n : key[j] = k
    BY <1>2 DEF LinesOf
  <1>5. n \in Nat /\ \A j \in 1..n : PlainValue(val[j])
    BY <1>2, <1>4 DEF Plain, Laid
  <1>6. \A j \in 1..n : MatchAt(T, at[j]).key = key[j] /\ MatchAt(T, at[j]).val = val[j]
    <2>1. \A j \in 1..n : PlainValue(val[j]) => MatchAt(T, at[j]).key = key[j]
      BY <1>1, <1>2, BlockMatches
    <2>2. \A j \in 1..n : PlainValue(val[j]) => MatchAt(T, at[j]).val = val[j]
      BY <1>1, <1>2, BlockMatches
    <2> QED
      BY <1>5, <2>1, <2>2
  <1>7. \A x \in M : x.key \in DOMAIN m /\ x.val = m[x.key]
    <2> TAKE x \in M
    <2>1. PICK j \in 1..n : x = MatchAt(T, at[j])
      BY <1>1, <1>2, BlockFound DEF M
    <2> QED
      BY <1>4, <1>6, <2>1
  <1>8. \A k \in DOMAIN m : \E x \in M : x.key = k
    <2> TAKE k \in DOMAIN m
    <2>1. PICK j \in 1..n : key[j] = k
      BY <1>4
    <2>2. \A i \in 1..j - 1 : PlainValue(val[i])
      BY <1>5
    <2>3. MatchAt(T, at[j]) \in M
      BY <1>1, <1>2, <2>2, BlockFound DEF M
    <2> QED
      BY <1>6, <2>1, <2>3
  <1>9. DOMAIN u = DOMAIN m
    <2> DEFINE K == {x.key : x \in M}
    <2>1. K \subseteq DOMAIN m
      BY <1>7
    <2>2. DOMAIN m \subseteq K
      BY <1>8
    <2>3. DOMAIN u = DOMAIN dst \cup K
      BY <1>3
    <2> HIDE DEF K
    <2> QED
      BY <2>1, <2>2, <2>3
  <1>10. \A k \in DOMAIN m : u[k] = m[k]
    BY <1>3, <1>7, <1>9
  <1>11. m = [k \in DOMAIN m |-> m[k]]
    BY DEF Commentable
  <1>12. u = m
    BY <1>3, <1>9, <1>10, <1>11
  <1> QED
    BY <1>12 DEF u, T

\* How one item that is not plain is read back when the others are: without a value it is
\* given the next line for one, and with a colon in the value it is not found.
LEMMA OddOneReadsBack ==
    ASSUME NEW m, Commentable(m), NEW C \in Seq(Token \ {Hash}), NEW odd \in DOMAIN m,
           \A k \in DOMAIN m \ {odd} : PlainValue(m[k])
    PROVE  LET read == getMetaDataItemOptional(Written(m, C), odd)
           IN /\ m[odd] = <<>> => read # <<>> /\ Head(read) = Hash
              /\ m[odd] # <<>> /\ ~PlainValue(m[odd]) => read = <<>>
  <1> DEFINE T == Written(m, C)
             u == Unmarshal(T, NoMetadata)
             M == MatchedFrom(T, 1)
             read == getMetaDataItemOptional(T, odd)
  <1>1. T \in Seq(Token)
    BY WrittenIsLaid
  <1>2. PICK n, key, val, at : Laid(T, n, key, val, at) /\ LinesOf(m, n, key, val)
    BY WrittenIsLaid
  <1> HIDE DEF T
  <1>3. /\ DOMAIN u = {x.key : x \in M}
        /\ \A k \in DOMAIN u : \E x \in M : x.key = k /\ u[k] = x.val
    <2>1. DOMAIN NoMetadata = {}
      BY DEF NoMetadata
    <2>4. Reads(u, NoMetadata, M)
      BY <1>1, UnmarshalReads
    <2> HIDE DEF u, M
    <2>2. DOMAIN u = DOMAIN NoMetadata \cup {x.key : x \in M}
      BY <2>4 DEF Reads
    <2>3. \A k \in DOMAIN u \ DOMAIN NoMetadata : \E x \in M : x.key = k /\ u[k] = x.val
      BY <2>4 DEF Reads
    <2> QED
      BY <2>1, <2>2, <2>3
  <1>4. read = IF odd \in DOMAIN u THEN u[odd] ELSE <<>>
    BY DEF getMetaDataItemOptional
  <1> HIDE DEF u, read
  <1>5. /\ \A j \in 1..n : key[j] \in DOMAIN m /\ val[j] = m[key[j]]
        /\ \A i, j \in 1..n : key[i] = key[j] => i = j
        /\ \A k \in DOMAIN m : \E j \in 1..n : key[j] = k
    BY <1>2 DEF LinesOf
  <1>6. PICK o \in 1..n : key[o] = odd /\ val[o] = m[odd]
    BY <1>5
  <1>7. n \in Nat /\ \A j \in 1..n : j # o => key[j] # odd /\ PlainValue(val[j])
    <2>1. n \in Nat
      BY <1>2 DEF Laid
    <2>2. \A j \in 1..n : j # o => key[j] # odd
      BY <1>5, <1>6
    <2>3. ASSUME NEW j \in 1..n, j # o
          PROVE  PlainValue(val[j])
      <3>1. key[j] \in DOMAIN m \ {odd} /\ val[j] = m[key[j]]
        BY <1>5, <2>2, <2>3
      <3>2. PlainValue(m[key[j]])
        BY <3>1
      <3> QED
        BY <3>1, <3>2
    <2> QED
      BY <2>1, <2>2, <2>3
  <1>8. \A x \in M : x.key = odd => x = MatchAt(T, at[o])
    <2> SUFFICES ASSUME NEW x \in M, x.key = odd
                 PROVE  x = MatchAt(T, at[o])
      OBVIOUS
    <2>1. PICK j \in 1..n : x = MatchAt(T, at[j])
      BY <1>1, <1>2, BlockFound
    <2>2. \A i \in 1..n : PlainValue(val[i]) => MatchAt(T, at[i]).key = key[i]
      BY <1>1, <1>2, BlockMatches
    <2>3. j = o
      BY <1>7, <2>1, <2>2
    <2> QED
      BY <2>1, <2>3
  <1>9. ASSUME m[odd] = <<>>
        PROVE  read # <<>> /\ Head(read) = Hash
    <2>1. /\ MatchAt(T, at[o]).key = odd
          /\ MatchAt(T, at[o]).val # <<>>
          /\ Head(MatchAt(T, at[o]).val) = Hash
      <3>1. \A j \in 1..n : val[j] = <<>> =>
               /\ MatchAt(T, at[j]).key = key[j]
               /\ MatchAt(T, at[j]).val # <<>>
               /\ Head(MatchAt(T, at[j]).val) = Hash
        BY <1>1, <1>2, BlockMatches
      <3> QED
        BY <1>6, <1>9, <3>1
    <2>2. \A i \in 1..o - 1 : PlainValue(val[i])
      <3>1. \A i \in 1..o - 1 : i \in 1..n /\ i # o
        BY <1>7
      <3> QED
        BY <1>7, <3>1
    <2>3. MatchAt(T, at[o]) \in M
      BY <1>1, <1>2, <2>2, BlockFound
    <2>4. odd \in DOMAIN u
      BY <1>3, <2>1, <2>3
    <2>5. u[odd] = MatchAt(T, at[o]).val
      BY <1>3, <1>8, <2>4
    <2> QED
      BY <1>4, <2>1, <2>4, <2>5
  <1>10. ASSUME m[odd] # <<>>, ~PlainValue(m[odd])
         PROVE  read = <<>>
    <2>1. \A j \in 1..n : val[j] # <<>> /\ ~PlainValue(val[j]) => MatchAt(T, at[j]).key # key[j]
      BY <1>1, <1>2, BlockMatches
    <2>2. MatchAt(T, at[o]).key # odd
      BY <1>6, <1>10, <2>1
    <2>3. odd \notin DOMAIN u
      BY <1>3, <1>8, <2>2
    <2> QED
      BY <1>4, <2>3
  <1> QED
    BY <1>9, <1>10 DEF read, T

\* What Unmarshal returns can be written again if what it was given can.
LEMMA UnmarshalIsCommentable ==
    ASSUME NEW T \in Seq(Token), NEW dst, Commentable(dst)
    PROVE  Commentable(Unmarshal(T, dst))
  <1> DEFINE u == Unmarshal(T, dst)
             M == MatchedFrom(T, 1)
             K == {x.key : x \in M}
  <1>1. /\ M \in SUBSET Match /\ IsFiniteSet(M)
        /\ u = [k \in DOMAIN u |-> u[k]]
        /\ DOMAIN u = DOMAIN dst \cup K
        /\ \A k \in DOMAIN dst : u[k] = dst[k]
        /\ \A k \in DOMAIN u \ DOMAIN dst : \E x \in M : x.key = k /\ u[k] = x.val
    <2>1. M \in SUBSET Match /\ IsFiniteSet(M) /\ Reads(u, dst, M)
      BY UnmarshalReads
    <2> HIDE DEF u, M
    <2> QED
      BY <2>1 DEF Reads
  <1> HIDE DEF u, M
  <1>2. IsFiniteSet(K)
    <2> DEFINE g == [x \in M |-> x.key]
    <2>1. g \in Surjection(M, K)
      BY DEF Surjection
    <2> HIDE DEF K
    <2> QED
      BY <1>1, <2>1, FS_Surjection
  <1>3. \A x \in M : x.key \in Visible /\ x.val \in OneLine
    BY <1>1 DEF Match, Visible
  <1>4. K \subseteq Visible
    BY <1>3
  <1> HIDE DEF K
  <1>5. /\ IsFiniteSet(DOMAIN dst) /\ DOMAIN dst \subseteq Visible
        /\ \A k \in DOMAIN dst : dst[k] \in OneLine
    BY DEF Commentable
  <1>6. IsFiniteSet(DOMAIN u)
    BY <1>1, <1>2, <1>5, FS_Union
  <1>7. DOMAIN u \subseteq Visible
    BY <1>1, <1>4, <1>5
  <1>8. \A k \in DOMAIN u : u[k] \in OneLine
    <2> TAKE k \in DOMAIN u
    <2>1. CASE k \in DOMAIN dst
      BY <1>1, <1>5, <2>1
    <2>2. CASE k \notin DOMAIN dst
      <3>1. PICK x \in M : u[k] = x.val
        BY <1>1, <2>2
      <3> QED
        BY <1>3, <3>1
    <2> QED
      BY <2>1, <2>2
  <1>9. u \in [DOMAIN u -> OneLine]
    BY <1>1, <1>8
  <1> QED
    BY <1>6, <1>7, <1>9 DEF Commentable, u

\* What is already known does not change what is read for the other keys.
LEMMA UnmarshalAddsTheSame ==
    ASSUME NEW T \in Seq(Token), NEW dst, NEW k \in DOMAIN Unmarshal(T, NoMetadata),
           k \notin DOMAIN dst
    PROVE  k \in DOMAIN Unmarshal(T, dst)
             /\ Unmarshal(T, dst)[k] = Unmarshal(T, NoMetadata)[k]
  <1> DEFINE s == FindAll(T)
             First(l) == Min({i \in DOMAIN s : s[i].key = l})
             K == {s[i].key : i \in DOMAIN s}
  <1>1. DOMAIN NoMetadata = {}
    BY DEF NoMetadata
  <1>2. Unmarshal(T, dst) = [l \in DOMAIN dst \cup K |->
                               IF l \in DOMAIN dst THEN dst[l] ELSE s[First(l)].val]
    BY Zenon DEF Unmarshal
  <1>3. Unmarshal(T, NoMetadata)
          = [l \in DOMAIN NoMetadata \cup K |->
               IF l \in DOMAIN NoMetadata THEN NoMetadata[l] ELSE s[First(l)].val]
    BY Zenon DEF Unmarshal
  <1> HIDE DEF s, First, K
  <1>4. k \in K
    BY <1>1, <1>3
  <1>5. Unmarshal(T, NoMetadata)[k] = s[First(k)].val
    BY <1>1, <1>3, <1>4
  <1> QED
    BY <1>2, <1>4, <1>5

-----------------------------------------------------------------------------
(* The invariant, and the theorems.                                         *)

\* What holds of a file and of the map its metadata was written from: the map can be
\* written, and after a conversion the file is that map and the configuration, the map
\* having been read from the file as it was, with the version that was recorded.
LifeInv ==
    /\ text \in Seq(Token) /\ source \in Seq(Token)
    /\ wrote \in {"user", "convert", "generate"}
    /\ runs \in 0..MaxRuns
    /\ Commentable(mdata)
    /\ wrote = "convert" =>
          /\ metaKeyAerospikeVersion \in DOMAIN mdata
          /\ metaKeyAsconfigVersion \in DOMAIN mdata
          /\ mdata[metaKeyAsconfigVersion] = ToolVersion
          /\ mdata = Unmarshal(source, Recorded(mdata[metaKeyAerospikeVersion]))
          /\ text = Written(mdata, ConfigText)

\* The two items that every command records.
LEMMA RecordedIs ==
    ASSUME NEW v \in OneLine
    PROVE  /\ DOMAIN Recorded(v) = {metaKeyAerospikeVersion, metaKeyAsconfigVersion}
           /\ Recorded(v)[metaKeyAerospikeVersion] = v
           /\ Recorded(v)[metaKeyAsconfigVersion] = ToolVersion
           /\ Commentable(Recorded(v))
           /\ PlainValue(ToolVersion)
  <1> DEFINE a == metaKeyAerospikeVersion
             b == metaKeyAsconfigVersion
             r == Recorded(v)
  <1>1. a \in Visible /\ b \in Visible /\ a # b
    <2>1. VersionWord \in ToSet(Words) /\ ToolWord \in ToSet(Words) /\ VersionWord # ToolWord
      BY WordsAssumption
    <2>2. VersionWord \in Token /\ ToolWord \in Token /\ VersionWord # NL /\ ToolWord # NL
      BY <2>1, WordRank DEF Token
    <2>3. \A w \in Token : w # NL => <<w>> \in Visible
      BY DEF Visible, OneLine
    <2>4. <<VersionWord>> # <<ToolWord>>
      BY <2>1
    <2> QED
      BY <2>2, <2>3, <2>4 DEF metaKeyAerospikeVersion, metaKeyAsconfigVersion
  <1>2. ToolVersion \in OneLine /\ PlainValue(ToolVersion)
    <2>1. ToolVersion \in Seq(ToSet(Words)) /\ ToolVersion # <<>>
      BY LifecycleAssumption
    <2>2. \A i \in 1..Len(ToolVersion) : ToolVersion[i] \in ToSet(Words)
      BY <2>1
    <2>3. \A i \in 1..Len(ToolVersion) :
             ToolVersion[i] \in Token /\ ToolVersion[i] # NL /\ ToolVersion[i] # Colon
      BY <2>2, WordRank DEF Token
    <2>4. ToSet(Words) \subseteq Token
      BY DEF Token
    <2>5. ToolVersion \in Seq(Token) /\ DOMAIN ToolVersion = 1..Len(ToolVersion)
      BY <2>1, <2>4
    <2> QED
      BY <2>1, <2>3, <2>5 DEF OneLine, PlainValue
  <1>3. r = [x \in {a, b} |-> IF x = a THEN v ELSE ToolVersion]
    BY DEF Recorded
  <1> HIDE DEF a, b, r
  <1>4. DOMAIN r = {a, b} /\ r[a] = v /\ r[b] = ToolVersion
    BY <1>1, <1>3
  <1>5. r \in [DOMAIN r -> OneLine]
    BY <1>2, <1>3, <1>4
  <1>6. IsFiniteSet({a, b})
    <2>1. IsFiniteSet({a} \cup {b})
      BY FS_Singleton, FS_Union
    <2>2. {a} \cup {b} = {a, b}
      OBVIOUS
    <2> QED
      BY <2>1, <2>2
  <1>7. Commentable(r)
    BY <1>1, <1>4, <1>5, <1>6 DEF Commentable
  <1> QED
    BY <1>2, <1>4, <1>7 DEF a, b, r

\* Words make up one line.
LEMMA WordsAreOneLine ==
    ASSUME NEW v \in Seq(ToSet(Words))
    PROVE  v \in OneLine
  <1>1. \A i \in 1..Len(v) : v[i] \in ToSet(Words)
    OBVIOUS
  <1>2. \A i \in 1..Len(v) : v[i] # NL
    BY <1>1, WordRank
  <1>3. ToSet(Words) \subseteq Token
    BY DEF Token
  <1>4. v \in Seq(Token)
    BY <1>3
  <1> QED
    BY <1>2, <1>4 DEF OneLine

\* Nothing is known before the comments are read.
LEMMA NoMetadataIsCommentable == Commentable(NoMetadata)
  <1>1. DOMAIN NoMetadata = {} /\ NoMetadata \in [{} -> OneLine]
    BY DEF NoMetadata
  <1> QED
    BY <1>1, FS_EmptySet DEF Commentable

\* The version a file names is on one line.
LEMMA ItemIsOneLine ==
    ASSUME NEW T \in Seq(Token), NEW k
    PROVE  getMetaDataItemOptional(T, k) \in OneLine
  <1> DEFINE u == Unmarshal(T, NoMetadata)
  <1>1. Commentable(u)
    BY NoMetadataIsCommentable, UnmarshalIsCommentable
  <1>2. <<>> \in OneLine
    BY DEF OneLine
  <1>3. getMetaDataItemOptional(T, k) = IF k \in DOMAIN u THEN u[k] ELSE <<>>
    BY DEF getMetaDataItemOptional
  <1> HIDE DEF u
  <1> QED
    BY <1>1, <1>2, <1>3 DEF Commentable

\* The lines of a map make up a text.
LEMMA MarshalIsText ==
    ASSUME NEW m, Commentable(m)
    PROVE  Marshal(m) \in Seq(Token)
  <1> DEFINE n == Cardinality(DOMAIN m)
             keys == SortedKeys(m)
             seqs == [i \in 1..n |-> Line(m, keys[i])]
  <1>1. Map(m)
    BY DEF Commentable, Map, Visible, OneLine
  <1>2. n \in Nat /\ keys \in [1..n -> DOMAIN m]
    BY <1>1, SortedKeysAreKeys
  <1>3. \A k \in DOMAIN m : Line(m, k) \in Seq(Token)
    BY <1>1, LineIs DEF Map
  <1>4. Marshal(m) = FlattenSeq(seqs)
    <2>1. DOMAIN keys = 1..n
      BY <1>2
    <2> QED
      BY <2>1 DEF Marshal
  <1> HIDE DEF keys, n
  <1>5. seqs \in [1..n -> Seq(Token)]
    BY <1>2, <1>3
  <1> HIDE DEF seqs
  <1> QED
    BY <1>2, <1>4, <1>5, FlattenPlaces

\* What genMetaDataText makes is a text; without a message it is the block of a map.
LEMMA GeneratedText ==
    ASSUME NEW src \in Seq(Token), NEW r, Commentable(r)
    PROVE  /\ \A msg \in Seq(Token) :
                 genMetaDataText(src, msg, r) \o ConfigText \in Seq(Token)
           /\ genMetaDataText(src, <<>>, r) \o ConfigText
                 = Written(Unmarshal(src, r), ConfigText)
  <1> DEFINE h == <<Hash, HeaderWord, NL>>
             f == <<Hash, FooterWord, NL, NL>>
             s == <<NL, Hash, NL>>
             M == Marshal(Unmarshal(src, r))
  <1>1. M \in Seq(Token)
    BY UnmarshalIsCommentable, MarshalIsText
  <1>2. h \in Seq(Token) /\ f \in Seq(Token) /\ s \in Seq(Token)
    <2>1. Hash \in Token /\ HeaderWord \in Token /\ NL \in Token /\ FooterWord \in Token
      BY WordsAssumption DEF Token
    <2> QED
      BY <2>1
  <1>3. ConfigText \in Seq(Token)
    BY LifecycleAssumption
  <1>4. h \o <<>> = h
    BY <1>2
  <1>5. genMetaDataText(src, <<>>, r) = (h \o <<>>) \o M \o f
    BY Zenon DEF genMetaDataText
  <1>6. genMetaDataText(src, <<>>, r) = h \o M \o f
    BY <1>4, <1>5
  <1>7. ASSUME NEW msg \in Seq(Token)
        PROVE  genMetaDataText(src, msg, r) \o ConfigText \in Seq(Token)
    <2> DEFINE p == IF msg = <<>> THEN <<>> ELSE msg \o s
    <2>1. p \in Seq(Token)
      <3> HIDE DEF s
      <3>1. msg \o s \in Seq(Token)
        BY <1>2, Joined
      <3>2. <<>> \in Seq(Token)
        OBVIOUS
      <3> QED
        BY <3>1, <3>2
    <2>2. genMetaDataText(src, msg, r) = h \o p \o M \o f
      BY Zenon DEF genMetaDataText
    <2> HIDE DEF h, p, M, f
    <2>3. h \o p \in Seq(Token)
      BY <1>2, <2>1, Joined
    <2> DEFINE x == h \o p
    <2> HIDE DEF x
    <2>4. x \in Seq(Token)
      BY <2>3 DEF x
    <2>5. x \o M \in Seq(Token)
      BY <1>1, <2>4, Joined
    <2> DEFINE y == x \o M
    <2> HIDE DEF y
    <2>6. y \in Seq(Token)
      BY <2>5 DEF y
    <2>7. y \o f \in Seq(Token)
      BY <1>2, <2>6, Joined
    <2>8. genMetaDataText(src, msg, r) \in Seq(Token)
      BY <2>2, <2>7 DEF x, y
    <2> QED
      BY <1>3, <2>8, Joined
  <1>8. genMetaDataText(src, <<>>, r) \o ConfigText = Written(Unmarshal(src, r), ConfigText)
    BY <1>6 DEF Written
  <1> QED
    BY <1>7, <1>8

\* What is recorded is in the map, whatever the source says.
LEMMA UnmarshalRecorded ==
    ASSUME NEW src \in Seq(Token), NEW v \in OneLine, NEW m, m = Unmarshal(src, Recorded(v))
    PROVE  /\ Commentable(m)
           /\ metaKeyAerospikeVersion \in DOMAIN m /\ m[metaKeyAerospikeVersion] = v
           /\ metaKeyAsconfigVersion \in DOMAIN m /\ m[metaKeyAsconfigVersion] = ToolVersion
  <1>1. Commentable(m)
    BY RecordedIs, UnmarshalIsCommentable
  <1>2. Reads(m, Recorded(v), MatchedFrom(src, 1))
    BY UnmarshalReads
  <1>3. /\ DOMAIN Recorded(v) \subseteq DOMAIN m
        /\ \A k \in DOMAIN Recorded(v) : m[k] = Recorded(v)[k]
    BY <1>2 DEF Reads
  <1> QED
    BY <1>1, <1>3, RecordedIs

LEMMA LifeInvInit == Init => LifeInv
  <1> SUFFICES ASSUME Init
               PROVE  LifeInv
    OBVIOUS
  <1>1. text \in Seq(Token) /\ source \in Seq(Token) /\ runs \in 0..MaxRuns
    BY LifecycleAssumption DEF Init
  <1>2. wrote = "user" /\ mdata = NoMetadata
    BY DEF Init
  <1>3. Commentable(mdata)
    BY <1>2, NoMetadataIsCommentable
  <1> QED
    BY <1>1, <1>2, <1>3 DEF LifeInv

LEMMA LifeInvConvert ==
    ASSUME LifeInv, NEW flag \in FlagVersions \cup {<<>>}, NEW force \in BOOLEAN,
           Convert(flag, force)
    PROVE  LifeInv'
  <1> DEFINE v == IF flag = <<>>
                  THEN getMetaDataItemOptional(text, metaKeyAerospikeVersion)
                  ELSE flag
  <1>1. /\ runs < MaxRuns /\ runs' = runs + 1
        /\ wrote' = "convert"
        /\ source' = text
        /\ mdata' = Unmarshal(text, Recorded(v))
        /\ text' = genMetaDataText(text, <<>>, Recorded(v)) \o ConfigText
    BY DEF Convert, Put
  <1>2. text \in Seq(Token) /\ runs \in 0..MaxRuns
    BY DEF LifeInv
  <1>3. v \in OneLine
    <2>1. flag # <<>> => flag \in Seq(ToSet(Words))
      BY LifecycleAssumption
    <2> QED
      BY <1>2, <2>1, WordsAreOneLine, ItemIsOneLine
  <1> HIDE DEF v
  <1>4. /\ Commentable(mdata')
        /\ metaKeyAerospikeVersion \in DOMAIN mdata' /\ mdata'[metaKeyAerospikeVersion] = v
        /\ metaKeyAsconfigVersion \in DOMAIN mdata'
        /\ mdata'[metaKeyAsconfigVersion] = ToolVersion
    BY <1>1, <1>2, <1>3, UnmarshalRecorded
  <1>5. mdata' = Unmarshal(source', Recorded(mdata'[metaKeyAerospikeVersion]))
    BY <1>1, <1>4
  <1>6. text' \in Seq(Token) /\ text' = Written(mdata', ConfigText)
    <2>1. Commentable(Recorded(v)) /\ <<>> \in Seq(Token)
      BY <1>3, RecordedIs
    <2> QED
      BY <1>1, <1>2, <2>1, GeneratedText
  <1>7. runs' \in 0..MaxRuns
    BY <1>1, <1>2, LifecycleAssumption
  <1> QED
    BY <1>1, <1>2, <1>4, <1>5, <1>6, <1>7 DEF LifeInv

LEMMA LifeInvGenerate ==
    ASSUME LifeInv, NEW version \in FlagVersions, Generate(version)
    PROVE  LifeInv'
  <1>1. /\ runs < MaxRuns /\ runs' = runs + 1
        /\ wrote' = "generate"
        /\ source' = text
        /\ mdata' = Unmarshal(ConfigText, Recorded(version))
        /\ text' = genMetaDataText(ConfigText, Disclaimer, Recorded(version)) \o ConfigText
    BY DEF Generate, Put
  <1>2. text \in Seq(Token) /\ runs \in 0..MaxRuns
    BY DEF LifeInv
  <1>3. version \in OneLine
    BY LifecycleAssumption, WordsAreOneLine
  <1>4. ConfigText \in Seq(Token) /\ Disclaimer \in Seq(Token)
    BY LifecycleAssumption
  <1>5. Commentable(mdata')
    BY <1>1, <1>3, <1>4, UnmarshalRecorded
  <1>6. text' \in Seq(Token)
    <2>1. Commentable(Recorded(version))
      BY <1>3, RecordedIs
    <2> QED
      BY <1>1, <1>4, <2>1, GeneratedText
  <1>7. runs' \in 0..MaxRuns
    BY <1>1, <1>2, LifecycleAssumption
  <1> QED
    BY <1>1, <1>2, <1>5, <1>6, <1>7 DEF LifeInv

LEMMA LifeInvInvariant == Spec => []LifeInv
  <1>1. LifeInv /\ [Next]_vars => LifeInv'
    <2> SUFFICES ASSUME LifeInv, [Next]_vars
                 PROVE  LifeInv'
      OBVIOUS
    <2>1. ASSUME NEW flag \in FlagVersions \cup {<<>>}, NEW force \in BOOLEAN,
                 Convert(flag, force)
          PROVE  LifeInv'
      BY <2>1, LifeInvConvert
    <2>2. ASSUME NEW version \in FlagVersions, Generate(version)
          PROVE  LifeInv'
      BY <2>2, LifeInvGenerate
    <2>3. CASE UNCHANGED vars
      BY <2>3 DEF LifeInv, vars
    <2> QED
      BY <2>1, <2>2, <2>3 DEF Next
  <1> QED
    BY <1>1, LifeInvInit, PTL DEF Spec

\* The file stays a text of tokens and the map one from texts to texts, however often the
\* commands are run on it.
THEOREM TypeCorrect == Spec => []TypeOK
  <1>1. LifeInv => TypeOK
    BY DEF LifeInv, TypeOK, Commentable, Visible, OneLine
  <1> QED
    BY <1>1, LifeInvInvariant, PTL

\* What a conversion writes is what the next command reads: every item, no more, whatever
\* comments the source had (genMetaDataText against Unmarshal).
THEOREM MetadataReadsBack == Spec => []RoundTrip
  <1>1. ASSUME LifeInv
        PROVE  RoundTrip
    <2> SUFFICES ASSUME wrote = "convert", Plain(mdata)
                 PROVE  ReadBack = mdata
      BY DEF RoundTrip
    <2>1. Commentable(mdata) /\ text = Written(mdata, ConfigText)
      BY <1>1 DEF LifeInv
    <2>2. DOMAIN NoMetadata = {} /\ ConfigText \in Seq(Token \ {Hash})
      BY LifecycleAssumption DEF NoMetadata
    <2>3. Unmarshal(Written(mdata, ConfigText), NoMetadata) = mdata
      BY <2>1, <2>2, WrittenReadsBack
    <2> QED
      BY <2>1, <2>3 DEF ReadBack
  <1> QED
    BY <1>1, LifeInvInvariant, PTL

\* Converting a converted file again for the same version leaves its metadata block as it
\* is: the header does not grow (genMetaDataText reads its own output).
THEOREM HeaderStaysTheSame == Spec => []HeaderIsStable
  <1>1. ASSUME LifeInv
        PROVE  HeaderIsStable
    <2> DEFINE v == mdata[metaKeyAerospikeVersion]
    <2> SUFFICES ASSUME wrote = "convert", Plain(mdata)
                 PROVE  genMetaDataText(text, <<>>, Recorded(v)) \o ConfigText = text
      BY DEF HeaderIsStable
    <2>1. /\ Commentable(mdata) /\ text = Written(mdata, ConfigText) /\ text \in Seq(Token)
          /\ metaKeyAerospikeVersion \in DOMAIN mdata
          /\ metaKeyAsconfigVersion \in DOMAIN mdata
          /\ mdata[metaKeyAsconfigVersion] = ToolVersion
      BY <1>1 DEF LifeInv
    <2>2. v \in OneLine
      BY <2>1 DEF Commentable
    <2>3. /\ DOMAIN Recorded(v) = {metaKeyAerospikeVersion, metaKeyAsconfigVersion}
          /\ Recorded(v)[metaKeyAerospikeVersion] = v
          /\ Recorded(v)[metaKeyAsconfigVersion] = ToolVersion
          /\ Commentable(Recorded(v))
      BY <2>2, RecordedIs
    <2>4. /\ DOMAIN Recorded(v) \subseteq DOMAIN mdata
          /\ \A k \in DOMAIN Recorded(v) : Recorded(v)[k] = mdata[k]
      BY <2>1, <2>3
    <2> HIDE DEF v
    <2>5. Unmarshal(Written(mdata, ConfigText), Recorded(v)) = mdata
      BY <2>1, <2>4, LifecycleAssumption, WrittenReadsBack
    <2>6. genMetaDataText(text, <<>>, Recorded(v)) \o ConfigText
            = Written(Unmarshal(text, Recorded(v)), ConfigText)
      BY <2>1, <2>3, GeneratedText
    <2> QED
      BY <2>1, <2>5, <2>6
  <1> QED
    BY <1>1, LifeInvInvariant, PTL

\* A version recorded empty is read back as the next comment, and one with a colon in it
\* as none (what module Convert takes from here as MetaVersion).
THEOREM BlankVersionReadsBack == Spec => []BlankVersionTable
  <1>1. ASSUME LifeInv
        PROVE  BlankVersionTable
    <2> DEFINE others == [k \in UserKeys(mdata) |-> mdata[k]]
               read == getMetaDataItemOptional(text, metaKeyAerospikeVersion)
               version == mdata[metaKeyAerospikeVersion]
    <2> SUFFICES ASSUME wrote = "convert", Plain(others)
                 PROVE  /\ version = <<>> => read # <<>> /\ Head(read) = Hash
                        /\ version # <<>> /\ ~PlainValue(version) => read = <<>>
      BY DEF BlankVersionTable
    <2>1. /\ Commentable(mdata) /\ text = Written(mdata, ConfigText)
          /\ metaKeyAerospikeVersion \in DOMAIN mdata
          /\ mdata[metaKeyAsconfigVersion] = ToolVersion
      BY <1>1 DEF LifeInv
    <2>2. \A k \in DOMAIN mdata \ {metaKeyAerospikeVersion} : PlainValue(mdata[k])
      <3> SUFFICES ASSUME NEW k \in DOMAIN mdata \ {metaKeyAerospikeVersion}
                   PROVE  PlainValue(mdata[k])
        OBVIOUS
      <3>1. CASE k = metaKeyAsconfigVersion
        <4>1. <<>> \in OneLine
          BY DEF OneLine
        <4>2. PlainValue(ToolVersion)
          BY <4>1, RecordedIs
        <4> QED
          BY <2>1, <3>1, <4>2
      <3>2. CASE k # metaKeyAsconfigVersion
        <4>1. k \in UserKeys(mdata)
          BY <3>2 DEF UserKeys
        <4>2. DOMAIN others = UserKeys(mdata) /\ others[k] = mdata[k]
          BY <4>1
        <4> HIDE DEF others
        <4> QED
          BY <4>1, <4>2 DEF Plain
      <3> QED
        BY <3>1, <3>2
    <2>3. ConfigText \in Seq(Token \ {Hash})
      BY LifecycleAssumption
    <2> DEFINE found == getMetaDataItemOptional(Written(mdata, ConfigText),
                                                metaKeyAerospikeVersion)
    <2>4. /\ version = <<>> => found # <<>> /\ Head(found) = Hash
          /\ version # <<>> /\ ~PlainValue(version) => found = <<>>
      BY <2>1, <2>2, <2>3, OddOneReadsBack
    <2>5. read = found
      BY <2>1
    <2> HIDE DEF read, found
    <2> QED
      BY <2>4, <2>5
  <1> QED
    BY <1>1, LifeInvInvariant, PTL

\* A comment of the form key: value that the user put into the source is still there,
\* with its value, after a conversion.
THEOREM UserMetadataIsKept == Spec => []UserMetadataSurvives
  <1>1. ASSUME LifeInv
        PROVE  UserMetadataSurvives
    <2> DEFINE before == Unmarshal(source, NoMetadata)
    <2> SUFFICES ASSUME wrote = "convert", Plain(mdata), NEW k \in UserKeys(before)
                 PROVE  k \in DOMAIN ReadBack /\ ReadBack[k] = before[k]
      BY DEF UserMetadataSurvives
    <2> DEFINE v == mdata[metaKeyAerospikeVersion]
    <2>1. /\ Commentable(mdata) /\ text = Written(mdata, ConfigText)
          /\ source \in Seq(Token)
          /\ metaKeyAerospikeVersion \in DOMAIN mdata
          /\ mdata = Unmarshal(source, Recorded(v))
      BY <1>1 DEF LifeInv
    <2>2. v \in OneLine
      BY <2>1 DEF Commentable
    <2> HIDE DEF v
    <2>3. k \in DOMAIN Unmarshal(source, NoMetadata) /\ k \notin DOMAIN Recorded(v)
      BY <2>2, RecordedIs DEF UserKeys
    <2>4. k \in DOMAIN mdata /\ mdata[k] = before[k]
      BY <2>1, <2>3, UnmarshalAddsTheSame
    <2>5. ReadBack = mdata
      <3>1. DOMAIN NoMetadata = {} /\ ConfigText \in Seq(Token \ {Hash})
        BY LifecycleAssumption DEF NoMetadata
      <3>2. Unmarshal(Written(mdata, ConfigText), NoMetadata) = mdata
        BY <2>1, <3>1, WrittenReadsBack
      <3> QED
        BY <2>1, <3>2 DEF ReadBack
    <2> HIDE DEF before
    <2> QED
      BY <2>4, <2>5
  <1> QED
    BY <1>1, LifeInvInvariant, PTL
=============================================================================
