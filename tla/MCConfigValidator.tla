-------------------------- MODULE MCConfigValidator --------------------------
(* Small instance of ConfigValidator: lists in lists, elements with the same
   name, without one, with one that is no string, and elements that are no maps. *)
EXTENDS ConfigValidator

CONSTANT num        \* a value that is no string

MCIndexOf == [n \in {"0", "1"} |-> IF n = "0" THEN 0 ELSE 1]

Object(k, v) == MapOf([l \in {k} |-> v])

Named(name, k, v) == MapOf([l \in {"name", k} |-> IF l = "name" THEN LeafOf(name) ELSE v])

MCConfigs ==
    LET sets(x, y) == ArrayOf(<<Named(x, "size", LeafOf(num)), Named(y, "size", LeafOf(num))>>)
    IN {Object("namespaces", ArrayOf(<<Named("test", "sets", sets("x", "y")),
                                       Named(second, "sets", sets("x", num))>>)) :
          second \in {"bar", "test"}}
       \cup {Object("namespaces", ArrayOf(<<Object("sets", sets("x", "y")), LeafOf("test")>>))}

\* Contexts that lead somewhere, and the root.
Walks ==
    {<<>>, <<"namespaces">>}
    \cup {<<"namespaces", n>> : n \in {"0", "1"}}
    \cup {<<"namespaces", n, "sets", m>> : n \in {"0", "1"}, m \in {"0", "1"}}
    \cup {<<"namespaces", "1", "sets", m, "size">> : m \in {"0", "1"}}

\* What is in a value, and the value.
RECURSIVE Parts(_)
Parts(v) ==
    {v} \cup IF IsMap(v) THEN UNION {Parts(v.map[k]) : k \in DOMAIN v.map}
            ELSE IF IsArray(v) THEN UNION {Parts(v.array[n]) : n \in DOMAIN v.array}
            ELSE {}

MCValue == UNION {Parts(c) : c \in MCConfigs}

MCContexts(c) == {<<root>> \o w : w \in {v \in Walks : getValueByJSONPath(c, v) # Nil}}

MCTexts == {"a: required", "b: number_one_of", "c: type"}

MCOneOf == {"b: number_one_of"}

MCOrder == <<"a: required", "b: number_one_of", "c: type">>

MCTextBefore(t, u) ==
    \E m \in DOMAIN MCOrder, n \in DOMAIN MCOrder : m < n /\ MCOrder[m] = t /\ MCOrder[n] = u
=============================================================================
