------------------------------ MODULE Metadata ------------------------------
(***************************************************************************)
(* The metadata comments asconfig keeps at the top of the files it writes  *)
(* (conf/metadata/metadata.go and the helpers of cmd/utils.go).            *)
(*                                                                         *)
(* A text is a sequence of tokens: the comment character, the colon, the   *)
(* newline, and words.  Spaces and tabs separate words and carry nothing   *)
(* else, except that the expression findComments skips them -- newlines    *)
(* included -- between '#' and the key and between ':' and the value,      *)
(* which is what NextVisible does.  A key or a value made of spaces alone  *)
(* is outside the model.                                                   *)
(***************************************************************************)
EXTENDS Integers, Sequences, FiniteSets, SequencesExt

CONSTANTS
    Words,          \* sequence of the words, in byte order
    HeaderWord,     \* "*** Aerospike Metadata Generated by Asconfig ***"
    FooterWord,     \* "*** End Aerospike Metadata ***"
    VersionWord,    \* "aerospike-server-version"
    ToolWord        \* "asconfig-version"

Hash  == "#"
Colon == ":"
NL    == "\n"

ASSUME WordsAssumption ==
    /\ Words \in Seq(STRING \ {Hash, Colon, NL})
    /\ IsInjective(Words)
    /\ {HeaderWord, FooterWord, VersionWord, ToolWord} \subseteq ToSet(Words)
    /\ VersionWord # ToolWord

Token == {Hash, Colon, NL} \cup ToSet(Words)

metaKeyAerospikeVersion == <<VersionWord>>
metaKeyAsconfigVersion  == <<ToolWord>>

-----------------------------------------------------------------------------
(* findComments: '#' \s* (.+) ':' \s* (.+) \s* $                            *)

\* First position from i on that is not white space; Len(text)+1 if none.
NextVisible(text, i) ==
    Min({j \in i..Len(text) : text[j] # NL} \cup {Len(text) + 1})

\* Last position of the line that position i is on.
LineEnd(text, i) ==
    Min({j \in i..Len(text) : j = Len(text) \/ text[j + 1] = NL})

\* Mutant of KeyEnds: the value must be on the line of its key.
KeyEndsSameLine(text, k) ==
    IF k > Len(text) THEN {}
    ELSE {c \in k + 1..LineEnd(text, k) - 1 : text[c] = Colon}

\* The colons that can end a key starting at k: on k's line, after at least one
\* character of key, and with something visible after them to be the value.
KeyEnds(text, k) ==
    IF k > Len(text) THEN {}
    ELSE {c \in k + 1..LineEnd(text, k) :
            text[c] = Colon /\ NextVisible(text, c + 1) <= Len(text)}

\* Mutant of MatchAt: the comment character is taken for part of the key.
MatchWithHash(text, h) ==
    LET c == Max(KeyEnds(text, NextVisible(text, h + 1)))
        v == NextVisible(text, c + 1)
    IN [key |-> SubSeq(text, h, c - 1),
        val |-> SubSeq(text, v, LineEnd(text, v)),
        end |-> LineEnd(text, v)]

\* The match that starts at the '#' at position h; (.+) is greedy, so the key
\* runs to the last colon it can.
MatchAt(text, h) ==
    LET k == NextVisible(text, h + 1)
        c == Max(KeyEnds(text, k))
        v == NextVisible(text, c + 1)
    IN [key |-> SubSeq(text, k, c - 1),
        val |-> SubSeq(text, v, LineEnd(text, v)),
        end |-> LineEnd(text, v)]

HasMatchAt(text, h) ==
    text[h] = Hash /\ KeyEnds(text, NextVisible(text, h + 1)) # {}

\* The leftmost matches from each position on, the next search starting after a match.
MatchesFrom(text) ==
    LET from[i \in 1..Len(text) + 1] ==
          IF i > Len(text) THEN <<>>
          ELSE IF HasMatchAt(text, i)
          THEN <<MatchAt(text, i)>> \o from[MatchAt(text, i).end + 1]
          ELSE from[i + 1]
    IN from

\* FindAllSubmatch.
FindAll(text) == MatchesFrom(text)[1]

-----------------------------------------------------------------------------
\* Adds to dst what the comments of src say; what dst has and first occurrences win.
Unmarshal(src, dst) ==
    LET ms == FindAll(src)
        First(k) == Min({i \in DOMAIN ms : ms[i].key = k})
    IN [k \in DOMAIN dst \cup {ms[i].key : i \in DOMAIN ms} |->
           IF k \in DOMAIN dst THEN dst[k] ELSE ms[First(k)].val]

formatLine(k, v) == <<Hash>> \o k \o <<Colon>> \o v

\* Byte order of tokens: a word follows a space, which sorts before the colon.
Rank(t) ==
    IF t = NL THEN -1
    ELSE IF t = Hash THEN 0
    ELSE IF t = Colon THEN Len(Words) + 1
    ELSE CHOOSE i \in DOMAIN Words : Words[i] = t

LexLess(s, t) ==
    \E i \in DOMAIN t :
        /\ \A j \in 1..i - 1 : j \in DOMAIN s /\ s[j] = t[j]
        /\ i \notin DOMAIN s \/ Rank(s[i]) < Rank(t[i])

Line(mdata, k) == formatLine(k, mdata[k]) \o <<NL>>

\* Whose line comes first; of two keys with the same line, it does not matter whose.
LineBefore(mdata, k, l) ==
    \/ LexLess(Line(mdata, k), Line(mdata, l))
    \/ Line(mdata, k) = Line(mdata, l) /\ LexLess(k, l)

\* The keys as sort.Strings arranges their lines: before the i-th there are i - 1.
SortedKeys(mdata) ==
    [i \in 1..Cardinality(DOMAIN mdata) |->
        CHOOSE k \in DOMAIN mdata :
            Cardinality({l \in DOMAIN mdata : LineBefore(mdata, l, k)}) = i - 1]

Marshal(mdata) ==
    LET keys == SortedKeys(mdata)
    IN FlattenSeq([i \in DOMAIN keys |-> Line(mdata, keys[i])])

\* Mutants of genMetaDataText: a rule of '=' under the footer, which no comment
\* holds; no newline after the header; the source not read.
genWithRule(src, msg, mdata) ==
    <<Hash, HeaderWord, NL>>
      \o (IF msg = <<>> THEN <<>> ELSE msg \o <<NL, Hash, NL>>)
      \o Marshal(Unmarshal(src, mdata))
      \o <<Hash, FooterWord, NL, "=", NL>>

genWithoutNewline(src, msg, mdata) ==
    <<Hash, HeaderWord>>
      \o (IF msg = <<>> THEN <<>> ELSE msg \o <<NL, Hash, NL>>)
      \o Marshal(Unmarshal(src, mdata))
      \o <<Hash, FooterWord, NL, NL>>

genWithoutSource(src, msg, mdata) ==
    <<Hash, HeaderWord, NL>>
      \o (IF msg = <<>> THEN <<>> ELSE msg \o <<NL, Hash, NL>>)
      \o Marshal(mdata)
      \o <<Hash, FooterWord, NL, NL>>

\* The block written before a configuration; mdata is what the caller records.
genMetaDataText(src, msg, mdata) ==
    <<Hash, HeaderWord, NL>>
      \o (IF msg = <<>> THEN <<>> ELSE msg \o <<NL, Hash, NL>>)
      \o Marshal(Unmarshal(src, mdata))
      \o <<Hash, FooterWord, NL, NL>>

NoMetadata == [k \in {} |-> <<>>]

\* The value of key, or the empty sequence when there is none.
getMetaDataItemOptional(src, key) ==
    LET mdata == Unmarshal(src, NoMetadata)
    IN IF key \in DOMAIN mdata THEN mdata[key] ELSE <<>>

\* getMetaDataItem fails exactly when the item is absent or empty.
getMetaDataItemFails(src, key) == getMetaDataItemOptional(src, key) = <<>>
=============================================================================
