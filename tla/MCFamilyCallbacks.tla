--------------------------- MODULE MCFamilyCallbacks ---------------------------
(* Instances of FamilyCallbacks for TLC.                                   *)
EXTENDS FamilyCallbacks

CONSTANTS c1, c2, r1, o1, o2, i1, i2, none,
          forEach1, value1, label1, itemLabel, broken

Metric(id, forEach, value, ls) ==
    [id |-> id, forEach |-> forEach, value |-> value, labels |-> ls]
Fam(name, metrics) == [name |-> name, metrics |-> metrics]
Generator(families) == [resource |-> r1, families |-> families]

\* A family with a plain metric and one over items, of which one label does not
\* compile, beside another family of the same generator.
Mixed == Generator(<<
    Fam("a", <<Metric(1, none, value1, <<label1>>),
               Metric(2, forEach1, none, <<itemLabel, broken>>)>>),
    Fam("b", <<Metric(3, none, value1, <<>>)>>)>>)

\* The same family once more, next to metrics that must not be published.
Faulty == Generator(<<
    Fam("a", <<Metric(4, none, broken, <<label1>>),
               Metric(5, broken, none, <<label1>>),
               Metric(6, none, itemLabel, <<>>),
               Metric(7, none, none, <<>>)>>)>>)

\* Nothing compiles, though the second metric has nothing broken but a label.
Hopeless == Generator(<<
    Fam("a", <<Metric(8, none, broken, <<broken>>),
               Metric(9, none, none, <<broken>>)>>)>>)

Registries == {{<<Mixed>>, <<Hopeless, Faulty>>}}
SmallRegistry == {{<<Generator(<<Fam("a", <<Metric(1, none, none, <<>>)>>)>>)>>}}

Items == (o1 :> <<i1, i2>>) @@ (o2 :> <<>>)
NoItems == [o \in Object |-> <<>>]

SomeFaults == {{<<label1, o1, none>>, <<itemLabel, o1, i1>>},
               {<<value1, o1, none>>, <<forEach1, o2, none>>}}
===============================================================================
