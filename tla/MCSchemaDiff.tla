---------------------------- MODULE MCSchemaDiff ----------------------------
(* Small instance of SchemaDiff: schemas with two sections, one of which has a
   property named like the other, and something outside of the sections; and the
   part of the library jsondiff that the command uses.                        *)
EXTENDS SchemaDiff

CONSTANTS
    one, two, empty,    \* strings
    long, longer,       \* strings that are cut alike
    yes, truth,         \* the string Yes, and true
    cut                 \* what long strings begin with

MCIndexOf == [n \in {"0", "1", "2"} |-> CASE n = "0" -> 0 [] n = "1" -> 1 [] n = "2" -> 2]

a == LeafOf(one)
b == LeafOf(two)

MCDetailed ==
    [s \in {one, two, empty, long, longer, yes, truth} |->
       IF s = empty THEN NoText ELSE [word |-> IF s = truth THEN yes ELSE s]]

MCAbbreviated ==
    [s \in DOMAIN MCDetailed |->
       IF s \in {long, longer} THEN [word |-> cut] ELSE MCDetailed[s]]

\* Parts of paths, in alphabetical order.
Parts == <<"default", "items", "network", "port", "properties", "required", "service", "type">>

Place(part) == CHOOSE n \in DOMAIN Parts : Parts[n] = part

SortedParts(S) == SetToSortSeq(S, LAMBDA p, q : Place(p) < Place(q))

Index(n) == CHOOSE part \in DOMAIN MCIndexOf : MCIndexOf[part] = n

Op(type, path, old, new) == [type |-> type, path |-> path, oldValue |-> old, value |-> new]

\* jsondiff.Compare: maps by key; arrays element by element, what is left over being
\* removed from the end of the common part first or appended last; all else is
\* replaced as a whole.
RECURSIVE PatchAt(_, _, _)
PatchAt(path, old, new) ==
    IF old = new THEN <<>>
    ELSE IF IsMap(old) /\ IsMap(new)
    THEN LET keys == SortedParts(DOMAIN old.map \cup DOMAIN new.map)
             at(k) == IF k \notin DOMAIN new.map
                      THEN <<Op(Removal, Append(path, k), old.map[k], Nil)>>
                      ELSE IF k \notin DOMAIN old.map
                      THEN <<Op(Addition, Append(path, k), Nil, new.map[k])>>
                      ELSE PatchAt(Append(path, k), old.map[k], new.map[k])
         IN FlattenSeq([n \in DOMAIN keys |-> at(keys[n])])
    ELSE IF IsArray(old) /\ IsArray(new)
    THEN LET m == IF Len(old.array) < Len(new.array) THEN Len(old.array) ELSE Len(new.array)
         IN [n \in 1..(Len(old.array) - m) |->
               Op(Removal, Append(path, Index(m)), old.array[m + n], Nil)]
            \o FlattenSeq([n \in 1..m |->
                 PatchAt(Append(path, Index(n - 1)), old.array[n], new.array[n])])
            \o [n \in 1..(Len(new.array) - m) |->
                 Op(Addition, Append(path, "-"), Nil, new.array[m + n])]
    ELSE <<Op(Modification, path, old, new)>>

MCPatch(old, new) == PatchAt(<<>>, old, new)

Versions == {"1.0.0", "2.0.0", "3.0.0", "10.0.0", "2.0", "x"}

MCComparable(v, w) == "x" \notin {v, w}

\* The strings in the order of their characters.
MCBefore(v, w) ==
    LET order == <<"1.0.0", "10.0.0", "2.0", "2.0.0", "3.0.0", "x">>
        place(u) == CHOOSE n \in DOMAIN order : order[n] = u
    IN place(v) < place(w)

Rank(v) == CASE v = "1.0.0" -> 1 [] v \in {"2.0.0", "2.0"} -> 2 [] v = "3.0.0" -> 3
             [] v = "10.0.0" -> 4 [] v = "x" -> 0

MCOlder(v, w) == MCComparable(v, w) /\ Rank(v) < Rank(w)

Object(k, v) == MapOf([l \in {k} |-> v])

Root(required, top) ==
    MapOf([k \in {"properties", "required"} |-> IF k = "required" THEN ArrayOf(required) ELSE MapOf(top)])

\* Section network has a type, and a property service, with a default that is long,
\* and once null; section service has a port, items or both.
Port(v, default) ==
    MapOf([k \in {"port", "default"} |-> IF k = "port" THEN v ELSE default])

Network(type, properties) ==
    MapOf([f \in {"type", "properties"} |->
             IF f = "type" THEN LeafOf(type) ELSE MapOf(properties)])

Old == Root(<<a, b>>,
            [s \in {"network", "service"} |->
               IF s = "network"
               THEN Network(yes, [p \in {"service", "port"} |-> Port(a, LeafOf(long))])
               ELSE Object("items", ArrayOf(<<a, a, b>>))])

New == Root(<<b, b, a>>,
            [s \in {"network", "service"} |->
               IF s = "network"
               THEN Network(truth, [p \in {"service"} |-> Port(Nil, LeafOf(longer))])
               ELSE MapOf([p \in {"items", "port"} |-> IF p = "items" THEN ArrayOf(<<b>>) ELSE a])])

\* Section service is gone; what was an array is none.
Newer == MapOf([k \in {"properties", "required"} |->
                IF k = "required" THEN a
                ELSE Object("network",
                            MapOf([f \in {"items", "type", "default"} |->
                              IF f = "items" THEN ArrayOf(<<Port(b, LeafOf(empty)), a>>)
                              ELSE LeafOf(IF f = "type" THEN one ELSE empty)]))])

File(name, ext, content) == [name |-> name, ext |-> ext, content |-> content]

MCEmbedded ==
    {File("1.0.0", "json", Old), File("2.0.0", "json", New), File("3.0.0", "json", Newer),
     File("10.0.0", "json", Unparsable), File("2.0", "md", Unparsable)}

RECURSIVE PartsOf(_)
PartsOf(v) ==
    IF v = Nil THEN {}
    ELSE {v} \cup UNION {PartsOf(w) : w \in IF IsMap(v) THEN Range(v.map)
                                           ELSE IF IsArray(v) THEN Range(v.array) ELSE {}}

MCValue == UNION {PartsOf(f.content) : f \in {g \in MCEmbedded : g.content # Unparsable}}

Filters == {<<>>, <<"">>, <<"service">>, <<"network", "", "service">>, <<"general">>,
            <<"port">>, <<"general", "network">>}

ArgLists == {<<>>} \cup {<<v>> : v \in Versions} \cup {<<v, w>> : v \in Versions, w \in Versions}
            \cup {<<v, v, v>> : v \in Versions}

MCInvocations ==
    [cmd : {"diff"}, args : ArgLists, filter : Filters, compact : BOOLEAN]
    \cup [cmd : {"list"}, args : {<<>>}, filter : {<<>>}, compact : {FALSE}]
=============================================================================
