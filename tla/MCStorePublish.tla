--------------------------- MODULE MCStorePublish ---------------------------
(* Values of StorePublish's constants for TLC. *)
EXTENDS StorePublish, TLC

CONSTANTS w1, w2, r1, r2, r3

E == "e" :> "str"

\* Two schemas that cannot follow one another, and one that widens the first.
Narrow == [dimensions |-> E, attributes |-> << >>, properties |-> << >>,
           partial |-> {"e"}, rest |-> 1]
Wide == [Narrow EXCEPT !.attributes = "p" :> [dtype |-> "float", dims |-> {"e"}]]
Other == [Narrow EXCEPT !.dimensions = "e" :> "float"]

MCSchemas == {Narrow, Wide, Other}

Symmetry == Permutations({r1, r2, r3})
=============================================================================
