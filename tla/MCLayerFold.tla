----------------------------- MODULE MCLayerFold ----------------------------
(* Values of LayerFold's constants for TLC. *)
EXTENDS LayerFold, TLC

CONSTANTS a, b, h, l, MaxRows

\* Two dims in `partial`: rows name the label a of e and the label h of s.
ESLabels == [e |-> {a, b}, s |-> {h, l}]
ESRows == {rows \in SUBSET [e : {a, Null}, s : {h, Null}] : Ordered(rows)}
ESAxes == {[e |-> {a, b}, s |-> {h, l}], [e |-> NoFile, s |-> NoFile], [e |-> {b}, s |-> NoFile]}

\* One dim in `partial` and one outside it.
EULabels == [e |-> {a, b}, u |-> {h, l}]
EURows == {rows \in SUBSET [e : {a, Null}, u : {h, l, Null}] :
              Cardinality(rows) <= MaxRows /\ Ordered(rows)}
EUAxes == {[e |-> {a, b}, u |-> {h, l}], [e |-> NoFile, u |-> NoFile],
           [e |-> {b}, u |-> NoFile], [e |-> NoFile, u |-> {h}]}
=============================================================================
