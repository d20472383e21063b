----------------------------- MODULE MCManifest -----------------------------
(* Values of Manifest's constants for TLC. *)
EXTENDS Manifest, TLC

CONSTANTS w1, w2

\* A schema over the dim e and possibly t, with possibly the attribute p.
SchemaOf(dims, attrs, partial, rest) ==
    [dimensions |-> dims, attributes |-> attrs, properties |-> << >>,
     partial |-> partial, rest |-> rest]

E == "e" :> "str"
ET == E @@ ("t" :> "str")
P(dims) == "p" :> [dtype |-> "float", dims |-> dims]
Empty == SchemaOf(<< >>, << >>, Undeclared, 1)
WithAttribute == SchemaOf(E, P({"e"}), {"e"}, 1)
Renoted == [WithAttribute EXCEPT !.rest = 2]
Unpartial == [WithAttribute EXCEPT !.partial = Undeclared]
WithDim == SchemaOf(ET, << >>, {"e", "t"}, 1)
Retyped == [WithDim EXCEPT !.attributes = "p" :> [dtype |-> "str", dims |-> {"e"}]]
Both == [SchemaOf(ET, P({"e", "t"}), {"e", "t"}, 1)
            EXCEPT !.properties = <<"e", "kind">> :> "str"]

MCSchemas == {Empty, WithAttribute, Renoted, Unpartial, WithDim, Retyped, Both}
=============================================================================
