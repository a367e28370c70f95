----------------------------- MODULE Rendering -----------------------------
(***************************************************************************)
(* How `diff versions' shows the paths and the values of schemas           *)
(* (cmd/diff_utils.go).  A text is abstracted to what can be read off it:  *)
(* of a map or an array the detailed form shows all, the compact form only *)
(* the size; of a string, a number or a truth value each form shows a text *)
(* that other values may share.                                            *)
(***************************************************************************)
EXTENDS Json, FiniteSets

CONSTANTS
    Value,          \* the JSON values in the schemas, without null
    Detailed,       \* the text of a leaf in the detailed form
    Abbreviated     \* the text of a leaf in the compact form

propertiesField  == "properties"
itemsField       == "items"

NoText == [word |-> ""]

-----------------------------------------------------------------------------
(* Paths.                                                                   *)

SchemaMarker(part) == part \in {"", propertiesField, itemsField}

\* One part of a path: an index goes to the name before it, `-', which comes last, to
\* the last name.
LabelPart(label, part) ==
    LET names == label.names
    IN IF isNumeric(part) /\ label.open
       THEN [names |-> Append(Front(names), Append(Last(names), part)), open |-> FALSE]
       ELSE IF SchemaMarker(part) THEN [label EXCEPT !.open = FALSE]
       ELSE IF part = "-"
       THEN [names |-> IF names = <<>> THEN <<<<"array", "+">>>>
                       ELSE Append(Front(names), Append(Last(names), "+")),
             open |-> FALSE]
       ELSE [names |-> Append(names, <<part>>), open |-> TRUE]

\* The names along the path, without the words of the schema language.
formatPath(path) == FoldLeft(LabelPart, [names |-> <<>>, open |-> FALSE], path).names

-----------------------------------------------------------------------------
(* The compact form.                                                        *)

formatCompactValue(v) ==
    IF v = Nil THEN [word |-> "null"]
    ELSE IF IsMap(v) THEN [object |-> Cardinality(DOMAIN v.map)]
    ELSE IF IsArray(v) THEN [array |-> Len(v.array)]
    ELSE Abbreviated[v.leaf]

\* A field of a map, or Nil.
Field(m, key) == IF key \in DOMAIN m THEN m[key] ELSE Nil

\* addTypeInfo and addDefaultInfo.
PlainInfo(m) ==
    [key \in {k \in {"type", "default"} : Field(m, k) # Nil} |-> formatCompactValue(m[key])]

\* addPropertiesInfo and addEnumInfo: how many there are.
CountInfo(m) ==
    LET props == Field(m, propertiesField)
        enum  == Field(m, "enum")
    IN [key \in {propertiesField : n \in IF IsMap(props) THEN DOMAIN props.map ELSE {}} |->
          [count |-> Cardinality(DOMAIN props.map)]]
       @@ [key \in {"enum" : n \in IF IsArray(enum) THEN DOMAIN enum.array ELSE {}} |->
          [count |-> Len(enum.array)]]

\* addItemsInfo: the type of the items, or that there are some.
ItemsInfo(m) ==
    LET items == Field(m, itemsField)
    IN [key \in IF IsMap(items) THEN {itemsField} ELSE {} |->
          IF "type" \in DOMAIN items.map THEN formatCompactValue(items.map["type"])
          ELSE [word |-> "has items"]]

getValueSummary(v) ==
    IF v = Nil THEN [word |-> "no details"]
    ELSE IF IsMap(v) THEN [summary |-> PlainInfo(v.map) @@ CountInfo(v.map) @@ ItemsInfo(v.map)]
    ELSE formatCompactValue(v)

-----------------------------------------------------------------------------
(* The detailed form.                                                       *)

\* Maps and arrays as JSON.  Simple values as they read best: true like the string Yes,
\* the number 5 like the string 5, decimals that agree in six digits alike.
formatValue(v) ==
    IF v = Nil THEN NoText
    ELSE IF IsLeaf(v) THEN Detailed[v.leaf]
    ELSE [json |-> v]

\* What has no text gets no line.
Kept(f) == {k \in DOMAIN f : formatValue(f[k]) # NoText}

\* formatNestedData, formatNestedDataArray, formatSingleProperty: all that is in
\* the value, level by level, under its key or its index.
formatNested[v \in Value] ==
    IF IsMap(v) THEN [map |-> [k \in Kept(v.map) |-> formatNested[v.map[k]]]]
    ELSE IF IsArray(v) THEN [array |-> [n \in Kept(v.array) |-> formatNested[v.array[n]]]]
    ELSE formatValue(v)

formatValueDetails(v) ==
    IF IsMap(v) /\ Kept(v.map) # {} THEN [details |-> formatNested[v]] ELSE NoText
=============================================================================
