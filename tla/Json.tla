-------------------------------- MODULE Json --------------------------------
(***************************************************************************)
(* Decoded JSON, as the packages cmd and conf walk it: a value is a leaf,   *)
(* a map from strings or an array; Nil is the absence of one.  A path is a  *)
(* sequence of strings, of which some denote numbers.                       *)
(***************************************************************************)
EXTENDS Naturals, Sequences, SequencesExt

CONSTANTS
    IndexOf,    \* the number a numeric string denotes
    Nil

ASSUME JsonAssumption == \A n \in DOMAIN IndexOf : IndexOf[n] \in Nat

LeafOf(v)  == [leaf |-> v]
MapOf(f)   == [map |-> f]
ArrayOf(s) == [array |-> s]

IsMap(n)   == n # Nil /\ "map" \in DOMAIN n
IsArray(n) == n # Nil /\ "array" \in DOMAIN n
IsLeaf(n)  == n # Nil /\ "leaf" \in DOMAIN n

isNumeric(part) == part \in DOMAIN IndexOf

processArrayIndex(n, part) ==
    IF IsArray(n) /\ IndexOf[part] < Len(n.array) THEN n.array[IndexOf[part] + 1] ELSE Nil

processMapKey(n, part) ==
    IF IsMap(n) /\ part \in DOMAIN n.map THEN n.map[part] ELSE Nil

\* One part of a path; Nil when there is nothing there.
processPathPart(n, part) ==
    IF isNumeric(part) THEN processArrayIndex(n, part) ELSE processMapKey(n, part)

getValueByJSONPath(root, path) ==
    FoldLeft(processPathPart, root, SelectSeq(path, LAMBDA part : part # ""))
=============================================================================
