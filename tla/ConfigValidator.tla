--------------------------- MODULE ConfigValidator ---------------------------
(***************************************************************************)
(* conf/config_validator.go: the library validates a configuration, each   *)
(* of its errors is given a context that names list elements instead of    *)
(* counting them, and the errors are printed, grouped by context.          *)
(*                                                                         *)
(* A context is a sequence of keys and numbers.  The library's begin with  *)
(* "(root)".  Keys that contain a dot, which splits a context in the wrong *)
(* place, are not modelled.                                                *)
(***************************************************************************)
EXTENDS Json, FiniteSets

CONSTANTS
    Value,              \* decoded JSON
    Configs,            \* configurations
    Contexts(_),        \* the contexts the library can report errors at
    Texts,              \* what ValidationError.Error() returns: description and type
    OneOf,              \* those of type number_one_of
    TextBefore(_, _),   \* the order of strings
    MaxErrors           \* bound on the errors of one validation

\* What is in a value is one: absence is not, and JSON's null is a leaf.
ASSUME ValidatorAssumption ==
    /\ Nil \notin Value
    /\ \A v \in Value :
          /\ IsMap(v) => \A k \in DOMAIN v.map : v.map[k] \in Value
          /\ IsArray(v) => v.array \in Seq(Value)
    /\ Configs \subseteq Value
    /\ \A c \in Configs : Contexts(c) \subseteq Seq(STRING)
    /\ OneOf \subseteq Texts
    /\ MaxErrors \in Nat

root == "(root)"

VARIABLES
    config,     \* what is validated
    reply,      \* the library's errors
    verrs,      \* ValidationErrors.Errors
    pc,
    turn,       \* how many turns the loop at this label has made
    walk,       \* jsonToConfigContext: where it is, and what it has written
    byContext,  \* errorsByContext
    lines,      \* what Error() has rendered: contexts, and texts under them
    err         \* whether Validate returned an error

vars == <<config, reply, verrs, pc, turn, walk, byContext, lines, err>>

VError(c) == [context : Contexts(c), text : Texts]

\* A loop is left for what is at another label.
Goto(label) == pc' = label /\ turn' = 0

-----------------------------------------------------------------------------
(* Validate.                                                                *)

Walk(json) == [ok |-> TRUE, at |-> json, res |-> <<>>]

Init ==
    /\ config \in Configs
    /\ reply = <<>>
    /\ verrs = <<>>
    /\ pc = "ask"
    /\ turn = 0
    /\ walk = Walk(config)
    /\ byContext = [c \in {} |-> <<>>]
    /\ lines = <<>>
    /\ err = FALSE

\* IsValid: a verdict, errors and an error of its own.  Without any of them
\* Validate is done; with them the configuration is needed as JSON, which may fail.
Ask ==
    /\ pc = "ask"
    /\ \E errors \in BoundedSeq(VError(config), MaxErrors), valid \in BOOLEAN, failed \in BOOLEAN :
         /\ reply' = errors
         /\ IF valid /\ ~failed /\ errors = <<>>
            THEN Goto("ended") /\ UNCHANGED <<verrs, err>>
            ELSE \/ verrs' = errors /\ Goto("name") /\ UNCHANGED err
                 \/ Goto("ended") /\ err' = TRUE /\ UNCHANGED verrs
    /\ UNCHANGED <<config, walk, byContext, lines>>

\* strings.CutPrefix(context, "(root)."): the root itself keeps its name.
WithoutRoot(context) == IF Len(context) > 1 /\ Head(context) = root THEN Tail(context) ELSE context

-----------------------------------------------------------------------------
(* jsonToConfigContext, one part of the context after the other.            *)

HasName(n) == IsMap(n) /\ "name" \in DOMAIN n.map /\ IsLeaf(n.map["name"])
              /\ n.map["name"].leaf \in STRING

NameOf(n) == n.map["name"].leaf

Lost == [ok |-> FALSE, at |-> Nil, res |-> <<>>]

\* Mutant of handleIndexedKey: the walk stays at the list.
handleIndexedKeyOnly(w, part) ==
    LET element == processArrayIndex(w.at, part)
    IN IF HasName(element)
       THEN [ok |-> TRUE, at |-> w.at, res |-> Append(w.res, NameOf(element))]
       ELSE Lost

\* A list element is named, and the walk goes on in it.
handleIndexedKey(w, part) ==
    LET element == processArrayIndex(w.at, part)
    IN IF HasName(element)
       THEN [ok |-> TRUE, at |-> element, res |-> Append(w.res, NameOf(element))]
       ELSE Lost

KeyStep(w, key) ==
    IF IsMap(w.at) /\ key \in DOMAIN w.at.map
    THEN [ok |-> TRUE, at |-> w.at.map[key], res |-> Append(w.res, key)]
    ELSE Lost

ContextStep(w, part) == IF isNumeric(part) THEN handleIndexedKey(w, part) ELSE KeyStep(w, part)

\* The context of the error whose turn it is.
Context == WithoutRoot(verrs[turn + 1].context)

Naming == pc = "name" /\ turn < Len(verrs)

jsonToConfigContext ==
    /\ Naming /\ walk.ok
    /\ Len(walk.res) < Len(Context)
    /\ walk' = ContextStep(walk, Context[Len(walk.res) + 1])
    /\ UNCHANGED <<config, reply, verrs, pc, turn, byContext, lines, err>>

\* The error gets the context that was found, or keeps the one the library gave it.
NameContext ==
    /\ Naming
    /\ \/ ~walk.ok /\ UNCHANGED verrs
       \/ /\ walk.ok /\ Len(walk.res) = Len(Context)
          /\ verrs' = [verrs EXCEPT ![turn + 1].context = walk.res]
    /\ turn' = turn + 1
    /\ walk' = Walk(config)
    /\ UNCHANGED <<config, reply, pc, byContext, lines, err>>

\* Validate returns the errors and ErrConfigValidation.
Return ==
    /\ pc = "name" /\ turn = Len(verrs)
    /\ err' = TRUE
    /\ Goto(IF verrs = <<>> THEN "ended" ELSE "sort")
    /\ UNCHANGED <<config, reply, verrs, walk, byContext, lines>>

-----------------------------------------------------------------------------
(* ValidationErrors.Error(), which validate prints.                         *)

InOrder(texts) == \A n, m \in DOMAIN texts : n < m => ~TextBefore(texts[m], texts[n])

\* sort.Sort is not stable and orders by text only; it sorts the errors in place.
Sort ==
    /\ pc = "sort"
    /\ \E order \in Bijection(DOMAIN verrs, DOMAIN verrs) :
         verrs' = [n \in DOMAIN verrs |-> verrs[order[n]]]
    /\ InOrder([n \in DOMAIN verrs |-> verrs'[n].text])
    /\ Goto("group")
    /\ UNCHANGED <<config, reply, walk, byContext, lines, err>>

\* The texts there are for a context.
ErrorsOf(c) == IF c \in DOMAIN byContext THEN byContext[c] ELSE <<>>

\* Mutant of GroupError: the last error of a context is the one that stays.
GroupLast ==
    /\ pc = "group" /\ turn < Len(verrs)
    /\ LET error == verrs[turn + 1]
       IN byContext' = [c \in DOMAIN byContext \cup {error.context} |->
                          IF c = error.context THEN <<error.text>> ELSE byContext[c]]
    /\ turn' = turn + 1
    /\ UNCHANGED <<config, reply, verrs, pc, walk, lines, err>>

GroupError ==
    /\ pc = "group" /\ turn < Len(verrs)
    /\ LET error == verrs[turn + 1]
       IN byContext' = [c \in DOMAIN byContext \cup {error.context} |->
                          IF c = error.context THEN Append(ErrorsOf(c), error.text)
                          ELSE byContext[c]]
    /\ turn' = turn + 1
    /\ UNCHANGED <<config, reply, verrs, pc, walk, lines, err>>

GroupEnds ==
    /\ pc = "group" /\ turn = Len(verrs)
    /\ Goto("render")
    /\ UNCHANGED <<config, reply, verrs, walk, byContext, lines, err>>

Rendered == {lines[n].context : n \in DOMAIN lines}

\* The context that is being rendered has had all of its errors.
ContextDone == lines # <<>> => turn = Len(byContext[lines[Len(lines)].context])

\* Mutant of RenderContext: a context is printed for each of its errors.
RenderPerError ==
    /\ pc = "render" /\ ContextDone
    /\ \E c \in DOMAIN byContext :
         /\ Cardinality({n \in DOMAIN lines : lines[n].context = c}) < Len(byContext[c])
         /\ lines' = Append(lines, [context |-> c, texts |-> <<>>])
    /\ turn' = 0
    /\ UNCHANGED <<config, reply, verrs, pc, walk, byContext, err>>

\* The next context; they come in alphabetical order, which nothing depends on.
RenderContext ==
    /\ pc = "render" /\ ContextDone
    /\ \E c \in DOMAIN byContext \ Rendered :
         lines' = Append(lines, [context |-> c, texts |-> <<>>])
    /\ turn' = 0
    /\ UNCHANGED <<config, reply, verrs, pc, walk, byContext, err>>

\* Its next error, which is left out if it is of type number_one_of.
RenderError ==
    /\ pc = "render" /\ ~ContextDone
    /\ LET text == byContext[lines[Len(lines)].context][turn + 1]
       IN lines' = IF text \in OneOf THEN lines
                   ELSE [lines EXCEPT ![Len(lines)].texts = Append(@, text)]
    /\ turn' = turn + 1
    /\ UNCHANGED <<config, reply, verrs, pc, walk, byContext, err>>

RenderEnds ==
    /\ pc = "render" /\ ContextDone
    /\ DOMAIN byContext = Rendered
    /\ Goto("ended")
    /\ UNCHANGED <<config, reply, verrs, walk, byContext, lines, err>>

Next ==
    \/ Ask \/ jsonToConfigContext \/ NameContext \/ Return
    \/ Sort \/ GroupError \/ GroupEnds
    \/ RenderContext \/ RenderError \/ RenderEnds

Spec == Init /\ [][Next]_vars

-----------------------------------------------------------------------------
\* Errors are only moved and renamed; what is printed is grouped.
TypeOK ==
    /\ config \in Configs
    /\ reply \in BoundedSeq(VError(config), MaxErrors)
    /\ Len(verrs) \in {0, Len(reply)}
    /\ \A n \in DOMAIN verrs :
          verrs[n].text \in Texts /\ verrs[n].context \in Seq(STRING)
    /\ pc \in {"ask", "name", "sort", "group", "render", "ended"}
    /\ turn \in 0..Len(verrs)
    /\ walk \in [ok : BOOLEAN, at : Value \cup {Nil}, res : Seq(STRING)]
    /\ \A c \in DOMAIN byContext : c \in Seq(STRING) /\ byContext[c] \in Seq(Texts) \ {<<>>}
    /\ lines \in Seq([context : DOMAIN byContext, texts : Seq(Texts \ OneOf)])
    /\ Len(lines) = Cardinality(Rendered)
    /\ err \in BOOLEAN

\* What a context says of the configuration, prefix by prefix: every part leads
\* somewhere, and the list elements on the way have names.
NodesOn(json, context) ==
    LET node[n \in 0..Len(context)] ==
            IF n = 0 THEN json ELSE processPathPart(node[n - 1], context[n])
    IN node

Nameable(json, context) ==
    \A n \in DOMAIN context :
        LET node == NodesOn(json, context)[n]
        IN node # Nil /\ (isNumeric(context[n]) => HasName(node))

Renamed(json, context) ==
    [n \in DOMAIN context |->
       IF isNumeric(context[n]) THEN NameOf(NodesOn(json, context)[n]) ELSE context[n]]

\* The context of an error that the reader sees: the error's own place with names for
\* the elements of lists, however deep and however often lists are nested; and if one
\* of them has no name, the library's context as it was.
Place(error) ==
    LET context == WithoutRoot(error.context)
    IN IF Nameable(config, context) THEN Renamed(config, context) ELSE error.context

\* An error as it was, with its context named.
Placed(error) == [context |-> Place(error), text |-> error.text]

\* The walk of jsonToConfigContext arrives at the place of each error, and no error's
\* walk has a bearing on another's.
ContextsAreNamed ==
    pc \in {"name", "sort"} =>
        \A n \in DOMAIN verrs :
            verrs[n] = IF pc = "name" /\ n > turn THEN reply[n] ELSE Placed(reply[n])

Shown == UNION {{n} \X DOMAIN lines[n].texts : n \in DOMAIN lines}

\* Nothing is lost or invented between the library and the reader: every error is
\* printed, once, under its place, and only number_one_of errors are left out, although
\* errors are sorted by a key that is not unique and grouped in a map.  The texts under
\* a context come in one order, whatever order the library found them in.
EveryErrorIsShown ==
    pc = "ended" /\ lines # <<>> =>
        /\ \A n \in DOMAIN lines : InOrder(lines[n].texts)
        /\ \A c \in Rendered \cup {Place(reply[n]) : n \in DOMAIN reply}, t \in Texts :
               Cardinality({s \in Shown : lines[s[1]].context = c /\ lines[s[1]].texts[s[2]] = t})
               = IF t \in OneOf THEN 0
                 ELSE Cardinality({n \in DOMAIN reply : Placed(reply[n]) = [context |-> c, text |-> t]})
=============================================================================
