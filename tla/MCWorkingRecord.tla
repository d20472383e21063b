--------------------------- MODULE MCWorkingRecord --------------------------
(* Values of WorkingRecord's constants for TLC. *)
EXTENDS WorkingRecord, TLC

CONSTANTS a, b, h, l, MaxBaseRows

\* One dim in `partial`, e, and one outside it, u.
EULabels == [e |-> {a, b}, u |-> {h, l}]
EURow == [e : {a, b, Null}, u : {h, l, Null}]
BaseRow == [e : {a, Null}, u : {h, l, Null}]

\* What a layer restates: both axes, u without l, u never, nothing, e without a.
Whole == EULabels
Some == [e |-> {a, b}, u |-> {h}]
NoUnit == [e |-> {a, b}, u |-> NoFile]
Neither == [e |-> NoFile, u |-> NoFile]
Dropped == [e |-> {b}, u |-> NoFile]

\* Paths of one layer, and of two with a row each.
Single == {[files |-> <<f>>, rows |-> <<rows>>] :
              f \in {Whole, Some, NoUnit},
              rows \in {r \in SUBSET BaseRow : Cardinality(r) <= MaxBaseRows}}
Double == {[files |-> <<Whole, f>>, rows |-> <<{r1}, {r2}>>] :
              f \in {Neither, Dropped}, r1 \in BaseRow, r2 \in BaseRow}
EUBases == {p \in Single \cup Double : Written(p)}

\* A call gives one row, or a label's row with one that is more specific.
EUCalls == {{r} : r \in EURow} \cup {{[e |-> a, u |-> Null], [e |-> a, u |-> h]}}

\* Two dims in `partial`, e and f, and one outside them, a label each; a base of
\* one layer that may leave any of them NULL, and calls of one row.
EFULabels == [e |-> {a}, f |-> {b}, u |-> {h}]
EFURow == [e : {a, Null}, f : {b, Null}, u : {h, Null}]
EFUBases == {p \in {[files |-> <<EFULabels>>, rows |-> <<{r}>>] : r \in EFURow} : Written(p)}

EFUCalls == {{r} : r \in EFURow}
=============================================================================
