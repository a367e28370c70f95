----------------------------- MODULE SchemaDiff -----------------------------
(***************************************************************************)
(* The command `diff versions' (runVersionsDiff of cmd/diff.go and         *)
(* cmd/diff_utils.go): the JSON schemas of two server versions are compared *)
(* by the library jsondiff, its operations become changes, the changes are *)
(* grouped by section, and the sections asked for are printed.             *)
(*                                                                         *)
(* A path is the sequence of the parts of a JSON pointer.  The text of a   *)
(* line is abstracted to what it tells the reader: the section, the kind   *)
(* of change, the label of the path and what is shown of the values        *)
(* (module Rendering).                                                     *)
(*                                                                         *)
(* `list versions' (cmd/list.go) names the versions that can be compared.  *)
(***************************************************************************)
EXTENDS Rendering

CONSTANTS
    Invocations,        \* the command lines
    Version,            \* words that name versions or look like it
    Comparable(_, _),   \* lib.CompareVersions returns no error
    Older(_, _),        \* lib.CompareVersions returns less than 0
    Before(_, _),       \* the order of strings
    Embedded,           \* the files under schemas/json: name, extension, content
    Unparsable,         \* a schema that is not JSON
    Patch(_, _)         \* jsondiff.Compare: the operations that turn one into the other

Invocation == [cmd     : {"diff", "list"},
               args    : Seq(Version),
               filter  : Seq(STRING),
               compact : BOOLEAN]

ASSUME SchemaDiffAssumption ==
    /\ Invocations \subseteq Invocation
    /\ \A f \in Embedded : f.name \in Version
    /\ \A f, g \in Embedded : f.name = g.name /\ f.ext = g.ext => f = g
    /\ \A v, w \in Version : Older(v, w) => Comparable(v, w) /\ ~Older(w, v)

\* NewSchemaMap: the embedded JSON files, by their names.
Schema ==
    LET files == {f \in Embedded : f.ext = "json"}
    IN [v \in {f.name : f \in files} |-> (CHOOSE f \in files : f.name = v).content]

Addition     == "add"
Removal      == "remove"
Modification == "replace"

ChangeType == {Addition, Removal, Modification}

defaultSectionName == "general"

VARIABLES
    inv,            \* the command line
    pc,             \* where the run is
    versions,       \* <<version1, version2>>, possibly swapped
    changes,        \* what compareSchemas found, in jsondiff's order
    grouped,        \* how many of them are in their sections
    sections,       \* summary.Sections
    available,      \* summary.AvailableSections
    header,         \* the header printed, or Nil
    lines,          \* the changes printed
    listed,         \* the versions printed
    err

vars == <<inv, pc, versions, changes, grouped, sections, available, header, lines, listed, err>>

-----------------------------------------------------------------------------
(* Paths.                                                                   *)

isArrayIndex(path) == path # <<>> /\ isNumeric(Last(path))

\* An element of an array: one that was there, or one that is appended.
isArrayPath(path) == path # <<>> /\ (Last(path) = "-" \/ isNumeric(Last(path)))

getParentPath(path) == IF Len(path) <= 1 THEN <<>> ELSE Front(path)

-----------------------------------------------------------------------------
(* compareSchemas and what it calls.                                        *)

\* A replaced element of an array is shown with the arrays it was and is in.
ChangeOf(op, lower, upper) ==
    LET full(root) == IF op.type = Modification /\ isArrayIndex(op.path)
                      THEN getValueByJSONPath(root, getParentPath(op.path)) ELSE Nil
    IN [type |-> op.type, path |-> op.path, value |-> op.value, oldValue |-> op.oldValue,
        oldFullValue |-> full(lower), newFullValue |-> full(upper)]

SectionsOf(root) ==
    LET props == processPathPart(root, propertiesField)
    IN IF IsMap(props) THEN DOMAIN props.map ELSE {}

extractValidSections(lower, upper) == SectionsOf(lower) \cup SectionsOf(upper)

Skipped(part) == SchemaMarker(part) \/ isNumeric(part)

\* Mutant of extractSection: the innermost part with the name of a section.
extractLastSection(path, valid) ==
    LET found == {n \in DOMAIN path : ~Skipped(path[n]) /\ path[n] \in valid}
    IN IF found = {} THEN defaultSectionName
       ELSE path[CHOOSE n \in found : \A m \in found : m <= n]

\* The first part of the path that names a section.
extractSection(path, valid) ==
    LET found == {n \in DOMAIN path : ~Skipped(path[n]) /\ path[n] \in valid}
    IN IF found = {} THEN defaultSectionName
       ELSE path[CHOOSE n \in found : \A m \in found : n <= m]

\* The path of something under one of the top-level properties.
InProperties(path) == Len(path) >= 2 /\ path[1] = propertiesField

\* The schemas are JSON schemas: no property of theirs has a name that is a number or
\* a word of the schema language, and outside of the properties nothing is named like
\* one of them.  The operations between two of them say what is added, removed and
\* replaced where: a path leads to a value of one of the schemas or of both.
Document == {Schema[v] : v \in DOMAIN Schema} \ {Unparsable}

Operation == [type : STRING, path : Seq(STRING), oldValue : Value \cup {Nil}, value : Value \cup {Nil}]

Located(op, old, new) ==
    LET valid == extractValidSections(old, new)
    IN IF InProperties(op.path) THEN op.path[2] \in valid /\ ~Skipped(op.path[2])
       ELSE \A n \in DOMAIN op.path : op.path[n] \notin valid

Describes(op, old, new) ==
    LET was(path) == getValueByJSONPath(old, path)
        is(path)  == getValueByJSONPath(new, path)
    IN CASE op.type = Addition /\ ~isArrayPath(op.path) ->
              was(op.path) = Nil /\ op.value = is(op.path)
         [] op.type = Removal /\ ~isArrayPath(op.path) -> is(op.path) = Nil
         [] op.type = Modification /\ isArrayPath(op.path) ->
              LET array == getParentPath(op.path)
              IN /\ isArrayIndex(op.path)
                 /\ was(array) # is(array)
                 /\ IsArray(was(array)) /\ IsArray(is(array))
         [] op.type = Modification /\ ~isArrayPath(op.path) ->
              /\ was(op.path) # is(op.path)
              /\ op.oldValue = was(op.path) /\ op.value = is(op.path)
         [] OTHER -> TRUE

ASSUME PatchAssumption ==
    \A old, new \in Document :
        LET patch == Patch(old, new)
        IN /\ patch \in Seq(Operation)
           /\ \A n \in DOMAIN patch :
                 Located(patch[n], old, new) /\ Describes(patch[n], old, new)

NoChanges == [t \in ChangeType |-> <<>>]

SectionChanges(s) == IF s \in DOMAIN sections THEN sections[s] ELSE NoChanges

Total(t) == Cardinality({n \in DOMAIN changes : changes[n].type = t})

-----------------------------------------------------------------------------
(* The command.                                                             *)

Init ==
    /\ inv \in Invocations
    /\ pc = "start"
    /\ versions = <<>>
    /\ changes = <<>>
    /\ grouped = 0
    /\ sections = [s \in {} |-> NoChanges]
    /\ available = {}
    /\ header = Nil
    /\ lines = <<>>
    /\ listed = <<>>
    /\ err = Nil

Goto(label) == pc' = label /\ UNCHANGED err

Fail(e) == pc' = "ended" /\ err' = e

\* Mutant of CheckArgs: the versions are compared in the order given.
CheckArgsOnly ==
    /\ pc = "start" /\ inv.cmd = "diff"
    /\ IF Len(inv.args) # 2 THEN Fail("errSchemaDiffWrongArgs") /\ UNCHANGED versions
       ELSE versions' = inv.args /\ Goto("compare")
    /\ UNCHANGED <<inv, changes, grouped, sections, available, header, lines, listed>>

\* Two versions, not the same word, of which the older comes first from here on.
CheckArgs ==
    /\ pc = "start" /\ inv.cmd = "diff"
    /\ IF Len(inv.args) # 2 THEN Fail("errSchemaDiffWrongArgs") /\ UNCHANGED versions
       ELSE IF inv.args[1] = inv.args[2] THEN Fail("identical versions") /\ UNCHANGED versions
       ELSE IF ~Comparable(inv.args[1], inv.args[2])
       THEN Fail("failed to compare versions") /\ UNCHANGED versions
       ELSE /\ versions' = IF Older(inv.args[2], inv.args[1]) THEN Reverse(inv.args) ELSE inv.args
            /\ Goto("compare")
    /\ UNCHANGED <<inv, changes, grouped, sections, available, header, lines, listed>>

\* parseFilterPath: the names given, without empty ones.
FilterSections == Range(inv.filter) \ {""}

LoadError ==
    IF \E n \in 1..2 : versions[n] \notin DOMAIN Schema THEN "errInvalidSchemaVersion"
    ELSE IF \E n \in 1..2 : Schema[versions[n]] = Unparsable THEN "failed to parse schema"
    ELSE IF inv.filter # <<>> /\ FilterSections = {} THEN "failed to parse filter-path"
    ELSE Nil

Lower == Schema[versions[1]]
Upper == Schema[versions[2]]

\* Schemas, flags and the comparison.  jsondiff is used without options, so that it
\* has no other kind of operation to offer, and cannot fail on decoded JSON.
CompareSchemas ==
    /\ pc = "compare"
    /\ IF LoadError # Nil THEN Fail(LoadError) /\ UNCHANGED changes
       ELSE LET patch == Patch(Lower, Upper)
            IN IF \E n \in DOMAIN patch : patch[n].type \notin ChangeType
               THEN Fail("unsupported jsondiff operation type") /\ UNCHANGED changes
               ELSE /\ changes' = [n \in DOMAIN patch |-> ChangeOf(patch[n], Lower, Upper)]
                    /\ Goto("group")
    /\ UNCHANGED <<inv, versions, grouped, sections, available, header, lines, listed>>

\* Mutant of GroupChange: removals go where additions go.
GroupMixed ==
    /\ pc = "group"
    /\ grouped < Len(changes)
    /\ LET c == changes[grouped + 1]
           s == extractSection(c.path, extractValidSections(Lower, Upper))
           t == IF c.type = Removal THEN Addition ELSE c.type
       IN sections' = [r \in DOMAIN sections \cup {s} |->
                         IF r = s THEN [SectionChanges(s) EXCEPT ![t] = Append(@, c)]
                         ELSE sections[r]]
    /\ grouped' = grouped + 1
    /\ UNCHANGED <<inv, pc, versions, changes, available, header, lines, listed, err>>

\* Mutant of GroupChange: the list of the section is not read before it is written.
GroupAfresh ==
    /\ pc = "group"
    /\ grouped < Len(changes)
    /\ LET c == changes[grouped + 1]
           s == extractSection(c.path, extractValidSections(Lower, Upper))
       IN sections' = [r \in DOMAIN sections \cup {s} |->
                         IF r = s THEN [NoChanges EXCEPT ![c.type] = <<c>>] ELSE sections[r]]
    /\ grouped' = grouped + 1
    /\ UNCHANGED <<inv, pc, versions, changes, available, header, lines, listed, err>>

\* groupChangesBySection: one change is appended to the list of its section and type.
GroupChange ==
    /\ pc = "group"
    /\ grouped < Len(changes)
    /\ LET c == changes[grouped + 1]
           s == extractSection(c.path, extractValidSections(Lower, Upper))
       IN sections' = [r \in DOMAIN sections \cup {s} |->
                         IF r = s THEN [SectionChanges(s) EXCEPT ![c.type] = Append(@, c)]
                         ELSE sections[r]]
    /\ grouped' = grouped + 1
    /\ UNCHANGED <<inv, pc, versions, changes, available, header, lines, listed, err>>

\* Mutant of GroupEnds: the changes of no section cannot be asked for.
GroupEndsEarly ==
    /\ pc = "group"
    /\ grouped = Len(changes)
    /\ available' = extractValidSections(Lower, Upper)
    /\ IF FilterSections \subseteq available' THEN Goto("header") ELSE Fail("invalid filter section(s)")
    /\ UNCHANGED <<inv, versions, changes, grouped, sections, header, lines, listed>>

\* The sections of either schema can be asked for, and the general one when there
\* is something in it; validateFilterSections refuses any other.
GroupEnds ==
    /\ pc = "group"
    /\ grouped = Len(changes)
    /\ available' = extractValidSections(Lower, Upper) \cup (DOMAIN sections \cap {defaultSectionName})
    /\ IF FilterSections \subseteq available' THEN Goto("header") ELSE Fail("invalid filter section(s)")
    /\ UNCHANGED <<inv, versions, changes, grouped, sections, header, lines, listed>>

-----------------------------------------------------------------------------
(* renderChangeSummary.                                                     *)

RenderHeader ==
    /\ pc = "header"
    /\ header' = [from |-> versions[1], to |-> versions[2], total |-> Len(changes),
                  additions |-> Total(Addition), removals |-> Total(Removal),
                  modified |-> Total(Modification)]
    /\ Goto("sections")
    /\ UNCHANGED <<inv, versions, changes, grouped, sections, available, lines, listed>>

\* The formatters of a change c, one for each kind and target: what each line shows
\* of the values.  The line of a removed property shows none.
formatPropertyAddition(c) ==
    IF inv.compact THEN [value |-> getValueSummary(c.value)]
    ELSE [value |-> formatValueDetails(c.value)]

formatPropertyRemoval(c) == [value |-> NoText]

\* Nothing of null is shown.
formatModificationDetails(c) ==
    IF c.oldValue # Nil /\ c.value # Nil
    THEN [from |-> formatValue(c.oldValue), to |-> formatValue(c.value)]
    ELSE [from |-> NoText, to |-> NoText]

formatPropertyModification(c) ==
    IF inv.compact THEN [from |-> formatCompactValue(c.oldValue), to |-> formatCompactValue(c.value)]
    ELSE LET details == formatModificationDetails(c)
         IN [from |-> details.from, to |-> details.to, value |-> formatValueDetails(c.value)]

\* Added and removed items are formatted alike.
formatArrayItem(c) ==
    IF inv.compact THEN [item |-> getValueSummary(c.value)]
    ELSE [item |-> IF IsMap(c.value) THEN formatValueDetails(c.value) ELSE formatValue(c.value)]

\* A replaced item is shown by the whole arrays; the item itself takes the place
\* of an array without text.
formatArrayItemModification(c) ==
    LET text(full, item) == IF formatCompactValue(full) = NoText THEN formatCompactValue(item)
                            ELSE formatCompactValue(full)
    IN IF inv.compact
       THEN [from |-> text(c.oldFullValue, c.oldValue), to |-> text(c.newFullValue, c.value)]
       ELSE IF c.oldFullValue # Nil /\ c.newFullValue # Nil
       THEN [from |-> formatValue(c.oldFullValue), to |-> formatValue(c.newFullValue)]
       ELSE formatModificationDetails(c)

formatChange(c) ==
    CASE c.type = Modification /\ isArrayPath(c.path)  -> formatArrayItemModification(c)
      [] c.type = Modification /\ ~isArrayPath(c.path) -> formatPropertyModification(c)
      [] c.type # Modification /\ isArrayPath(c.path)  -> formatArrayItem(c)
      [] c.type = Addition /\ ~isArrayPath(c.path)     -> formatPropertyAddition(c)
      [] c.type = Removal /\ ~isArrayPath(c.path)      -> formatPropertyRemoval(c)

LineOf(s, c) ==
    [section |-> s, type |-> c.type, label |-> formatPath(c.path), shown |-> formatChange(c)]

\* The sections that are printed: all of them, or those asked for.
Wanted == IF FilterSections = {} THEN DOMAIN sections ELSE DOMAIN sections \cap FilterSections

Printed == {lines[n].section : n \in DOMAIN lines}

\* The next section (they come in alphabetical order, which nothing depends on):
\* removals, then additions, then modifications.
RenderSection ==
    /\ pc = "sections"
    /\ Wanted \ Printed # {}
    /\ LET s == CHOOSE r \in Wanted \ Printed : TRUE
           c == sections[s]
           all == c[Removal] \o c[Addition] \o c[Modification]
       IN lines' = lines \o [n \in DOMAIN all |-> LineOf(s, all[n])]
    /\ UNCHANGED <<inv, pc, versions, changes, grouped, sections, available, header, listed, err>>

RenderEnds ==
    /\ pc = "sections"
    /\ Wanted \subseteq Printed
    /\ Goto("ended")
    /\ UNCHANGED <<inv, versions, changes, grouped, sections, available, header, lines, listed>>

-----------------------------------------------------------------------------
(* list versions.                                                           *)

\* The order of the list: by version, by the words where there is no version.
ListedBefore(v, w) == IF Comparable(v, w) THEN Older(v, w) ELSE Before(v, w)

\* That is an order: where no version is before another neither way round, they
\* take the same place.
IsOrder(S) ==
    \A u, v, w \in S :
        /\ ~ListedBefore(u, u)
        /\ ListedBefore(u, w) => ListedBefore(u, v) \/ ListedBefore(v, w)
        /\ ListedBefore(u, v) /\ ListedBefore(v, w) => ListedBefore(u, w)

\* What sort.Slice makes of the keys of the map: all of them, and if the order is
\* one, in that order.  Versions that take the same place are in any order.
IsListing(list) ==
    /\ IsInjective(list) /\ Range(list) = DOMAIN Schema
    /\ IsOrder(DOMAIN Schema) =>
           \A n, m \in DOMAIN list : n < m => ~ListedBefore(list[m], list[n])

ListVersions ==
    /\ pc = "start" /\ inv.cmd = "list"
    /\ \E list \in [1..Cardinality(DOMAIN Schema) -> DOMAIN Schema] :
          IsListing(list) /\ listed' = list
    /\ Goto("ended")
    /\ UNCHANGED <<inv, versions, changes, grouped, sections, available, header, lines>>

Next ==
    \/ ListVersions
    \/ CheckArgs \/ CompareSchemas
    \/ GroupChange \/ GroupEnds
    \/ RenderHeader \/ RenderSection \/ RenderEnds

Spec == Init /\ [][Next]_vars

-----------------------------------------------------------------------------
Errors == {"errSchemaDiffWrongArgs", "identical versions", "failed to compare versions",
           "errInvalidSchemaVersion", "failed to parse schema", "failed to parse filter-path",
           "unsupported jsondiff operation type", "invalid filter section(s)"}

ASSUME NilAssumption == Nil \notin Errors

\* The sections hold what has been grouped of the changes, by type, and only what
\* has been grouped is printed.
TypeOK ==
    /\ inv \in Invocations
    /\ pc \in {"start", "compare", "group", "header", "sections", "ended"}
    /\ versions \in {<<>>} \cup {<<v, w>> : v \in Version, w \in Version}
    /\ grouped \in 0..Len(changes)
    /\ \A s \in DOMAIN sections : DOMAIN sections[s] = ChangeType
    /\ \A s \in DOMAIN sections, t \in ChangeType :
          \A n \in DOMAIN sections[s][t] :
             /\ sections[s][t][n].type = t
             /\ \E m \in 1..grouped : sections[s][t][n] = changes[m]
    /\ err \in Errors \cup {Nil}

Answered == pc = "ended" /\ err = Nil /\ inv.cmd = "diff"

\* The section of the configuration a change is about: the top-level property it
\* lies under, and no section for what lies outside of the properties.
Owner(path) ==
    IF InProperties(path) THEN path[2] ELSE defaultSectionName

Asked(c) == FilterSections = {} \/ Owner(c.path) \in FilterSections

\* The report is complete and exact: every change of the asked sections has a line
\* of its own, under the top-level section it belongs to, and there are no other
\* lines, whatever sections nested properties are named like.
ShownIffAsked ==
    Answered =>
        /\ Len(lines) = Cardinality({n \in DOMAIN changes : Asked(changes[n])})
        /\ \A n \in DOMAIN changes : Asked(changes[n]) =>
              Cardinality({m \in DOMAIN lines : lines[m] = LineOf(Owner(changes[n].path), changes[n])})
              = Cardinality({m \in DOMAIN changes :
                   LineOf(Owner(changes[m].path), changes[m])
                   = LineOf(Owner(changes[n].path), changes[n])})

\* Whatever has changed can be asked for: a filter that names the section of a change
\* is not refused for it.
EverySectionCanBeAsked ==
    pc \in {"header", "sections"} \/ err = "invalid filter section(s)" =>
        \A n \in DOMAIN changes : Owner(changes[n].path) \in available

\* The header's counts are those of the lists below it: without a filter the reader
\* finds as many lines as the total says, of each kind as many as it says.
TotalsAddUp ==
    Answered =>
        /\ header.total = header.additions + header.removals + header.modified
        /\ FilterSections = {} =>
             /\ header.total = Len(lines)
             /\ header.additions = Cardinality({n \in DOMAIN lines : lines[n].type = Addition})
             /\ header.removals = Cardinality({n \in DOMAIN lines : lines[n].type = Removal})
             /\ header.modified = Cardinality({n \in DOMAIN lines : lines[n].type = Modification})

\* The report reads as an upgrade, in whatever order the versions were given: every
\* line is about a place of the schemas where, from the older to the newer version
\* of the header, what is shown as new was absent, as removed is absent now, and
\* what a modification shows are the texts of the two values there, which differ, in
\* this order.
ShownAsUpgrade ==
    Answered =>
        /\ ~Older(header.to, header.from)
        /\ \A n \in DOMAIN lines : \E m \in DOMAIN changes :
             LET line  == lines[n]
                 path  == changes[m].path
                 there == IF isArrayIndex(path) THEN getParentPath(path) ELSE path
                 old   == getValueByJSONPath(Schema[header.from], there)
                 new   == getValueByJSONPath(Schema[header.to], there)
                 text(v) == IF inv.compact THEN formatCompactValue(v) ELSE formatValue(v)
             IN /\ line.type = changes[m].type /\ line.label = formatPath(path)
                /\ line.type = Addition /\ ~isArrayPath(path) =>
                     /\ old = Nil
                     /\ line.shown.value = IF inv.compact THEN getValueSummary(new)
                                           ELSE formatValueDetails(new)
                /\ line.type = Removal /\ ~isArrayPath(path) => new = Nil
                /\ line.type = Modification =>
                     /\ old # new
                     /\ inv.compact \/ (old # Nil /\ new # Nil) =>
                          line.shown.from = text(old) /\ line.shown.to = text(new)

-----------------------------------------------------------------------------
\* cmd/diff_test.go formats the removal of an array item and expects the item to be
\* shown: "Array item: OldValue".
RemovedItemIsShown ==
    Answered => \A n \in DOMAIN lines, m \in DOMAIN changes :
        /\ lines[n].type = Removal /\ changes[m].type = Removal
        /\ isArrayPath(changes[m].path) /\ lines[n].label = formatPath(changes[m].path)
        => lines[n].shown.item \notin {NoText, [word |-> "no details"]}
=============================================================================
