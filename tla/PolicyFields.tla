----------------------------- MODULE PolicyFields -----------------------------
(***************************************************************************)
(* internal/policy: one expression of a policy on its way from the text to *)
(* what is published. requiredFields (cel.go) walks its syntax tree for    *)
(* the fields of the object it reads, TrimObjectInPlace (trim.go) cuts     *)
(* down an object to the fields published for its informer, and what is    *)
(* left is evaluated, coerced and sanitized.                               *)
(*                                                                         *)
(* A syntax tree has a name and its subtrees in the order the visitor meets *)
(* them. Only trees that pass the type checker are of interest: the operand *)
(* of a selection is an identifier, a selection, a call or a map literal.   *)
(* A path "a.b" is the sequence of its names; CEL names have no dots, so    *)
(* joining and cutting lose nothing. A value, and so an object, is the set  *)
(* of what is at each of its places, the path that leads there from its     *)
(* root.                                                                   *)
(*                                                                         *)
(* External: cel-go's visitor, which is pre-order, and its evaluation.     *)
(***************************************************************************)
EXTENDS Naturals, FiniteSets, SequencesExt

CONSTANTS
    Name,      \* the names of fields, and those of the places in a list
    Trees,     \* syntax trees, with all their subtrees
    Depth,     \* of a tree: those below it are less deep
    Exprs,     \* the trees that are expressions of policies
    Objects,   \* objects of the API server
    Others,    \* sets of paths other expressions on the resource may publish
    MaxBytes   \* DefaultLabelValueMaxBytes

VARIABLES
    pc,        \* "walk", "compiled", "published", "cached", "done"
    expr,      \* the expression
    toVisit,   \* nodes the visitor has yet to meet
    nextToken, \* names of selections whose root has not been met
    out,       \* the paths found
    fields,    \* what desiredGVRs publishes for the informer
    object,    \* an object as the API server sent it
    cached,    \* what the informer stores of it
    result,    \* what evaluating the expression on that gives
    sanitized  \* OnLabelSanitized was called

vars == <<pc, expr, toVisit, nextToken, out, fields, object, cached, result, sanitized>>

-----------------------------------------------------------------------------
(* Syntax trees.                                                           *)

Kinds == {"ident", "const", "select", "has", "call", "list", "map", "each"}
Selects == {"select", "has"}   \* has(e.f) is a selection to the visitor

Tree(kind, name, args) == [kind |-> kind, name |-> name, args |-> args]
Object == Tree("ident", "object", <<>>)

\* What the parser and the type checker let through; a comprehension's step appends
\* its body to an accumulator.
WellTyped(e) ==
    /\ e = Tree(e.kind, e.name, e.args) /\ e.kind \in Kinds /\ e.args \in Seq(Trees)
    /\ e.kind \in Selects \cup {"map"} => e.name \in Name
    /\ \A i \in DOMAIN e.args : Depth[e.args[i]] < Depth[e]
    /\ e.kind \in {"ident", "const"} => e.args = <<>>
    /\ e.kind \in Selects =>
          Len(e.args) = 1 /\ e.args[1].kind \in {"ident", "select", "call", "map"}
    /\ e.kind = "call" => e.args # <<>>
    /\ e.kind \in {"list", "map"} => Len(e.args) = 2
    /\ e.kind = "each" => Len(e.args) = 2 /\ Len(e.args[2].args) = 2

ASSUME TreesAssumption ==
    Depth \in [Trees -> Nat] /\ Exprs \subseteq Trees /\ \A e \in Trees : WellTyped(e)

-----------------------------------------------------------------------------
(* Values: strings are sequences of bytes; lists are indexed by name.      *)

Path == Seq(Name) \ {<<>>}
Cell == [place : Seq(Name), t : {"map", "list", "string"}, str : Seq(0 .. 255)]
Values == SUBSET Cell

At(place, t, str) == [place |-> place, t |-> t, str |-> str]
Err == {}
Str(bytes) == {At(<<>>, "string", bytes)}

IsMap(v) == At(<<>>, "map", <<>>) \in v
IsList(v) == At(<<>>, "list", <<>>) \in v
IsString(v) == \E c \in v : c.place = <<>> /\ c.t = "string"
Text(v) == (CHOOSE c \in v : c.place = <<>> /\ c.t = "string").str

Kids(v) == {c.place[1] : c \in {c \in v : c.place # <<>>}}
Sub(v, k) ==
    {At(Tail(c.place), c.t, c.str) : c \in {c \in v : c.place # <<>> /\ c.place[1] = k}}
Put(k, v) == {At(<<k>> \o c.place, c.t, c.str) : c \in v}
Gather(t, kids) == {At(<<>>, t, <<>>)} \cup UNION {Put(k, kids[k]) : k \in DOMAIN kids}

Get(v, f) == IF IsMap(v) THEN Sub(v, f) ELSE Err
Map(kids) == Gather("map", kids)
ListOf(kids) == IF \E k \in DOMAIN kids : kids[k] = Err THEN Err ELSE Gather("list", kids)

\* Always kept (trim.go).
identityFields ==
    << <<"apiVersion">>, <<"kind">>, <<"metadata", "name">>, <<"metadata", "namespace">>,
       <<"metadata", "resourceVersion">>, <<"metadata", "uid">> >>

ASSUME ValuesAssumption ==
    /\ {"0", "1", "name"} \subseteq Name /\ identityFields \in Seq(Path)
    /\ \A o \in Objects : o \in Values /\ IsMap(o)
    /\ \A other \in Others : other \subseteq Path /\ IsFiniteSet(other)
    /\ MaxBytes \in Nat \ {0}

\* The items of forEach are what they are, whatever the object was trimmed to.
Items == Map([k \in {"name"} |-> Str(<<73>>)])

\* What a tree evaluates to on an object o; x is the variable of a comprehension.
Eval[e \in Trees] == [o \in Values |-> [x \in Values |->
    LET arg(i) == Eval[e.args[i]][o][x]
        Elem(k) == IF IsList(arg(1)) THEN Sub(arg(1), k) ELSE Str(<<75>>)
    IN  CASE e.kind = "ident" ->
                CASE e.name = "object" -> o [] e.name = "item" -> Items
                  [] e.name = "x" -> x [] OTHER -> Err
          [] e.kind = "const" -> Str(<<65>>)
          [] e.kind = "select" -> Get(arg(1), e.name)
          [] e.kind = "has" ->
                IF ~IsMap(arg(1)) THEN Err
                ELSE Str(IF Sub(arg(1), e.name) # {} THEN <<84>> ELSE <<70>>)
          [] e.kind = "call" -> IF e.name = "dyn" THEN arg(1) ELSE Get(arg(1), e.name)
          [] e.kind = "list" -> ListOf([k \in {"0", "1"} |-> arg(IF k = "0" THEN 1 ELSE 2)])
          [] e.kind = "map" -> IF arg(2) = Err THEN Err ELSE Map([k \in {e.name} |-> arg(2)])
          [] e.kind = "each" ->
                IF ~IsList(arg(1)) /\ ~IsMap(arg(1)) THEN Err
                ELSE ListOf([k \in Kids(arg(1)) |-> Eval[e.args[2].args[2]][o][Elem(k)]])]]

Evaluated(e, o) == Eval[e][o][Err]

-----------------------------------------------------------------------------
(* requiredFields, a step for every node visited.                          *)

Init ==
    /\ pc = "walk"
    /\ expr \in Exprs
    /\ toVisit = <<expr>>
    /\ nextToken = <<>>
    /\ out = <<>>
    /\ fields = {}
    /\ object = Err /\ cached = Err /\ result = Err
    /\ sanitized = FALSE

Visited == toVisit[1]
Meet(kinds) ==
    /\ pc = "walk" /\ toVisit # <<>> /\ Visited.kind \in kinds
    /\ toVisit' = Visited.args \o Tail(toVisit)
    /\ UNCHANGED <<pc, expr, fields, object, cached, result, sanitized>>

MeetSelect ==
    /\ Meet(Selects)
    /\ nextToken' = Append(nextToken, Visited.name)
    /\ UNCHANGED out

\* Seeded fault: only the root object ends a path.
MeetIdentKeeps ==
    /\ Meet({"ident"})
    /\ IF Visited.name = "object" /\ nextToken # <<>>
       THEN out' = Append(out, Reverse(nextToken)) /\ nextToken' = <<>>
       ELSE UNCHANGED <<out, nextToken>>

\* Any identifier ends a path; it counts if it is the root object.
MeetIdent ==
    /\ Meet({"ident"})
    /\ out' = IF Visited.name = "object" /\ nextToken # <<>>
              THEN Append(out, Reverse(nextToken)) ELSE out
    /\ nextToken' = <<>>

\* Seeded fault: what is selected from a call is credited to its argument.
MeetCallKeeps ==
    /\ Meet({"call"})
    /\ UNCHANGED <<nextToken, out>>

\* What is selected from the result of a call is not a path of the object.
MeetCall ==
    /\ Meet({"call"})
    /\ nextToken' = <<>>
    /\ UNCHANGED out

\* Literals, constants and comprehensions are not looked at.
MeetOther ==
    /\ Meet({"const", "list", "map", "each"})
    /\ UNCHANGED <<nextToken, out>>

Compiled ==
    /\ pc = "walk" /\ toVisit = <<>>
    /\ pc' = "compiled"
    /\ UNCHANGED <<expr, toVisit, nextToken, out, fields, object, cached, result, sanitized>>

-----------------------------------------------------------------------------
(* Publishing and trimming.                                                *)

\* The paths of all expressions on a resource are put together, as a set.
Publish(other) ==
    /\ pc = "compiled"
    /\ fields' = ToSet(out) \cup other
    /\ pc' = "published"
    /\ UNCHANGED <<expr, toVisit, nextToken, out, object, cached, result, sanitized>>

\* Seeded fault: the first path with a name decides, not the shortest.
FirstDecides(paths) ==
    LET g[n \in 0 .. Len(paths)] ==
            IF n = 0 THEN [leaf |-> {}, branch |-> [k \in Name |-> <<>>]]
            ELSE LET before == g[n - 1]
                     p == paths[n]
                 IN  IF Len(p) = 1
                     THEN [before EXCEPT !.leaf =
                             IF before.branch[p[1]] = <<>> THEN @ \cup {p[1]} ELSE @]
                     ELSE IF p[1] \in before.leaf THEN before
                     ELSE [before EXCEPT !.branch[p[1]] = Append(@, Tail(p))]
    IN  g[Len(paths)]

\* Path by path; one that ends at a name takes the place of those that go on from
\* it. No branch is an empty list.
groupPaths(paths) ==
    LET g[n \in 0 .. Len(paths)] ==
            IF n = 0 THEN [leaf |-> {}, branch |-> [k \in Name |-> <<>>]]
            ELSE LET before == g[n - 1]
                     p == paths[n]
                 IN  IF Len(p) = 1
                     THEN [leaf |-> before.leaf \cup {p[1]},
                           branch |-> [before.branch EXCEPT ![p[1]] = <<>>]]
                     ELSE IF p[1] \in before.leaf THEN before
                     ELSE [before EXCEPT !.branch[p[1]] = Append(@, Tail(p))]
    IN  g[Len(paths)]

trimAt[paths \in Seq(Path)] == [m \in Values |->
    LET g == groupPaths(paths)
        Kept(k) == IF k \in g.leaf THEN Sub(m, k)
                   ELSE IF g.branch[k] # <<>> /\ IsMap(Sub(m, k))
                   THEN trimAt[g.branch[k]][Sub(m, k)]
                   ELSE {}
    IN  Map([k \in Kids(m) |-> Kept(k)])]

\* The informer's transform, on the published paths in any order.
Cache(o) ==
    /\ pc = "published"
    /\ object' = o
    /\ \E paths \in SetToSeqs(fields) : cached' = trimAt[paths \o identityFields][o]
    /\ pc' = "cached"
    /\ UNCHANGED <<expr, toVisit, nextToken, out, fields, result, sanitized>>

-----------------------------------------------------------------------------
(* Evaluating a label's value.                                             *)

Control == 0 .. 31 \cup {127}
Continuation == 128 .. 191   \* the bytes b with b & 0xC0 = 0x80
Blanked(s) == [i \in DOMAIN s |-> IF s[i] \in Control THEN 32 ELSE s[i]]

\* Seeded fault: the byte before the cut is looked at, not the one after it.
CutOneOff(s) ==
    IF Len(s) <= MaxBytes THEN Len(s)
    ELSE Max({0} \cup {end \in 1 .. MaxBytes : s[end] \notin Continuation})

\* Where the value is cut: back from the limit to the start of a character.
Cut(s) ==
    IF Len(s) <= MaxBytes THEN Len(s)
    ELSE Max({0} \cup {end \in 1 .. MaxBytes : s[end + 1] \notin Continuation})

sanitizeLabelValue(s) == SubSeq(Blanked(s), 1, Cut(Blanked(s)))
needsSanitize(s) == Len(s) > MaxBytes \/ \E i \in DOMAIN s : s[i] \in Control

\* Seeded fault: a value of any type is taken.
CoerceAny(v) == IF IsString(v) THEN Str(sanitizeLabelValue(Text(v))) ELSE v

\* What the builder makes of a value: a label is a string, forEach takes a list,
\* and anything else is an error that leaves the series out.
Coerce(v) ==
    IF IsString(v) THEN Str(sanitizeLabelValue(Text(v)))
    ELSE IF IsList(v) THEN v ELSE Err

Evaluate ==
    /\ pc = "cached"
    /\ LET v == Evaluated(expr, cached)
       IN  /\ result' = Coerce(v)
           /\ sanitized' = (IsString(v) /\ needsSanitize(Text(v)))
    /\ pc' = "done"
    /\ UNCHANGED <<expr, toVisit, nextToken, out, fields, object, cached>>

-----------------------------------------------------------------------------
Next ==
    \/ MeetSelect \/ MeetIdent \/ MeetCall \/ MeetOther \/ Compiled
    \/ \E other \in Others : Publish(other)
    \/ \E o \in Objects : Cache(o)
    \/ Evaluate

Spec == Init /\ [][Next]_vars

-----------------------------------------------------------------------------
(* Properties.                                                             *)

\* What a tree reads of the root object when `rest` is selected from its value; the
\* empty path is the whole of the object.
PathsRead[e \in Trees] == [rest \in Seq(Name) |->
    IF e = Object THEN {rest}
    ELSE IF e.kind \in Selects THEN PathsRead[e.args[1]][<<e.name>> \o rest]
    ELSE UNION {PathsRead[e.args[i]][<<>>] : i \in DOMAIN e.args}]

Subtrees[e \in Trees] == {e} \cup UNION {Subtrees[e.args[i]] : i \in DOMAIN e.args}

\* The expression uses the root object in selections only, and selects from no
\* literal.
SpelledOut(e) ==
    /\ <<>> \notin PathsRead[e][<<>>]
    /\ \A d \in Subtrees[e] : d.kind \in Selects => d.args[1].kind # "map"

\* Type correctness; what is published is a finite set of paths, and an outcome is a
\* string, a list or an error.
TypeOK ==
    /\ pc \in {"walk", "compiled", "published", "cached", "done"}
    /\ expr \in Exprs /\ toVisit \in Seq(Trees)
    /\ nextToken \in Seq(Name) /\ out \in Seq(Path)
    /\ fields \in SUBSET Path /\ IsFiniteSet(fields)
    /\ object \in Values /\ cached \in Values
    /\ result \in Values /\ (result = Err \/ IsString(result) \/ IsList(result))
    /\ sanitized \in BOOLEAN

\* requiredFields finds the paths an expression reads, no more and no less, wherever
\* they stand among calls, literals, comprehensions and the paths of other
\* variables (cel.go:251-283): more would grow the caches, less fail the policy.
RequiredFieldsAreRead ==
    pc # "walk" /\ SpelledOut(expr) => ToSet(out) = PathsRead[expr][<<>>]

\* What is kept of an object does not depend on the order of the paths, nor on
\* what else is published: a place is kept if a path ends at it or above it, or
\* goes on below it and finds a map there (trim.go:29-60). On the way it takes
\* maps only.
AllMaps(v, q) == \A i \in 0 .. Len(q) : At(SubSeq(q, 1, i), "map", <<>>) \in v
Keeps(v, p, c) ==
    \/ IsPrefix(p, c.place) /\ AllMaps(v, Front(p))
    \/ IsPrefix(c.place, p) /\ AllMaps(v, c.place) /\ c = At(c.place, "map", <<>>)
Trimmed(v, paths) == {c \in v : \E p \in paths : Keeps(v, p, c)}

TrimKeepsPaths == pc = "cached" => cached = Trimmed(object, fields \cup ToSet(identityFields))

\* An expression has the same outcome, an error included, on the trimmed object as
\* on the one the API server sent.
Agrees == pc = "done" => result = Coerce(Evaluated(expr, object))
SpelledOutAgrees == SpelledOut(expr) => Agrees

\* "requiredFields determines which root-object fields the CEL program needs at
\* evaluation time, by walking its AST" (cel.go:251-252): so whatever the
\* expression, trimming to them must not change what it evaluates to.
AlwaysAgrees == Agrees

\* A string is made of characters that end at `ends`: the first byte of each tells
\* how many there are, and the others are continuation bytes.
Width(b) == IF b < 128 THEN 1 ELSE IF b < 224 THEN 2 ELSE IF b < 240 THEN 3 ELSE 4
MadeOfCharacters(s, ends) ==
    /\ {0, Len(s)} \subseteq ends
    /\ \A i \in ends \ {Len(s)} :
          /\ s[i + 1] \notin Continuation
          /\ i + Width(s[i + 1]) \in ends
          /\ \A j \in i + 1 .. i + Width(s[i + 1]) - 1 :
                j \notin ends /\ s[j + 1] \in Continuation

\* A label's value is as much of what its expression gives as fits the limit in
\* whole characters, with every control character made a space, and the hook
\* that counts sanitized labels is called for the values that changed only
\* (cel.go:516-572).
LabelKeepsCharacters ==
    pc = "done" /\ IsString(result) =>
        LET raw == Text(Evaluated(expr, cached))
            kept == Len(Text(result))
        IN  /\ sanitized <=> Text(result) # raw
            /\ \A ends \in SUBSET (0 .. Len(raw)) : MadeOfCharacters(raw, ends) =>
                  /\ kept \in ends /\ kept <= MaxBytes
                  /\ Text(result) = Blanked(SubSeq(raw, 1, kept))
                  /\ kept < Len(raw) => kept + Width(raw[kept + 1]) > MaxBytes
===============================================================================
