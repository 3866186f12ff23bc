---------------------------- MODULE MCPolicyFields ----------------------------
(* Instances of PolicyFields for TLC.                                      *)
EXTENDS PolicyFields

-----------------------------------------------------------------------------
(* Syntax trees.                                                           *)

Item == Tree("ident", "item", <<>>)
Var == Tree("ident", "x", <<>>)
Const == Tree("const", "c", <<>>)
Field(e, f) == Tree("select", f, <<e>>)
Has(e, f) == Tree("has", f, <<e>>)                 \* has(e.f)
Index(e, f) == Tree("call", f, <<e, Const>>)       \* e["f"]
Dyn(e) == Tree("call", "dyn", <<e>>)
List(e1, e2) == Tree("list", "", <<e1, e2>>)
Literal(f, e) == Tree("map", f, <<Const, e>>)      \* {"f": e}
Each(range, body) ==                               \* range.map(x, body)
    Tree("each", "x", <<range, Tree("call", "_+_", <<Tree("ident", "accu", <<>>), body>>)>>)

Names == {"apiVersion", "kind", "metadata", "spec", "name", "namespace", "labels", "uid",
          "resourceVersion", "k", "0", "1"}

RECURSIVE Within(_), DepthOf(_)
Within(e) == {e} \cup UNION {Within(e.args[i]) : i \in DOMAIN e.args}
DepthOf(e) == 1 + Max({0} \cup {DepthOf(e.args[i]) : i \in DOMAIN e.args})

AllTrees == UNION {Within(e) : e \in Exprs}
AllDepths == [e \in AllTrees |-> DepthOf(e)]

-----------------------------------------------------------------------------
(* Expressions.                                                            *)

Tops == {Field(Object, f) : f \in {"metadata", "spec"}}
Chains == Tops \cup {Field(e, f) : e \in Tops, f \in {"name", "labels"}}
          \cup {Field(Field(Field(Object, "spec"), "name"), "name")}
OffRoot == {Const, Field(Item, "name"), Field(Field(Item, "spec"), "name")}
Atoms == Chains \cup OffRoot

\* Every construct around an atom.
Forms ==
    Atoms
    \cup {Has(Field(Object, "spec"), f) : f \in {"name", "labels"}}
    \cup {Index(e, "name") : e \in Chains}
    \cup {Field(Index(e, "name"), "name") : e \in Chains}
    \cup {Field(Dyn(e), "name") : e \in Chains}
    \cup {Index(Literal("k", e), "k") : e \in Chains}
    \cup {Each(e, body) : e \in Chains,
            body \in {Field(Var, "name"), Field(Field(Object, "metadata"), "name")}}

\* The expressions of the passing run: one or two of these side by side.
SpelledOutExprs == Forms \cup {List(a, b) : a \in Forms,
        b \in {Field(Field(Object, "spec"), "name"), Field(Field(Object, "metadata"), "labels")}}

\* Expressions that reach the object in ways requiredFields does not follow.
ByIndex == {Index(Object, "spec"), Field(Index(Object, "spec"), "name"),
            Index(Index(Object, "spec"), "name")}
OfLiteral == {Field(Literal("k", e), "k") : e \in Chains}
AnyExprs == Forms \cup ByIndex \cup OfLiteral

OtherPaths == {{}, {<<"spec">>}, {<<"spec", "labels", "name">>, <<"metadata">>}}

-----------------------------------------------------------------------------
(* Objects. Their strings are made of up to two characters of one to three  *)
(* bytes, one of them a control character.                                  *)

Characters == {<<9>>, <<65>>, <<195, 169>>, <<226, 130, 172>>}
Texts == {<<>>} \cup Characters \cup {a \o b : a \in Characters, b \in Characters}

A == Str(<<65>>)
Named == Map([k \in {"name"} |-> A])

Metadata == {Named} \cup {Map("name" :> A @@ "labels" :> l) : l \in {Named, Map(<<>>)}}
Specs ==
    UNION {{Map("name" :> n @@ "labels" :> l), Map("name" :> n), Map("labels" :> l)} :
              n \in {A, Named, ListOf([i \in {"0"} |-> Named])}, l \in {A, Named}}
    \cup {Map(<<>>), A}

SmallObjects ==
    {Map("kind" :> A @@ "metadata" :> m) : m \in Metadata}
    \cup {Map("kind" :> A @@ "metadata" :> m @@ "spec" :> s) : m \in Metadata, s \in Specs}
    \cup {Map("kind" :> A @@ "metadata" :> Named @@
              "spec" :> Map("name" :> Str(text))) : text \in Texts}

===============================================================================
