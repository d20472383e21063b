------------------------------ MODULE NodeFold ------------------------------
(***************************************************************************)
(* A node of the revision tree as a fold leaves it - its owner map, its    *)
(* axes and its dead labels - and the step that folds one more layer onto  *)
(* it.  Written layers and staged edits fold by this one step.             *)
(***************************************************************************)
EXTENDS OwnerMap, Naturals

CONSTANT NoFile       \* no file for the dim in a layer, or in any so far

NoAxes == [d \in Dims |-> NoFile]
NoneDead == [d \in Dims |-> {}]
NoCache == [map |-> {}, axes |-> NoAxes, dead |-> NoneDead]
Held(a, d) == IF a[d] = NoFile THEN {} ELSE a[d]

\* _fold_axis: the deepest restatement, else what there was.
FoldAxes(before, files) ==
    [d \in Dims |-> IF files[d] = NoFile THEN before[d] ELSE files[d]]

\* The labels a restatement omits that the one before it held.
Removed(before, files) ==
    [d \in Dims |-> IF files[d] = NoFile THEN {} ELSE Held(before, d) \ files[d]]

\* Mutant: only the last layer's removals are dead.
FoldDeadOfLast(was_dead, before, files) ==
    [d \in Dims |-> IF d \in Partial THEN {} ELSE Removed(before, files)[d]]

\* The dims whose dead labels are kept, for reads to drop rows by.
Mortal == Dims \ Partial

\* resolve_coords: the labels some layer removed and the final axis lacks, for
\* the dims the map does not key.
FoldDead(was_dead, before, files) ==
    [d \in Dims |->
        IF d \notin Mortal THEN {}
        ELSE IF files[d] = NoFile THEN was_dead[d]
        ELSE (was_dead[d] \cup Held(before, d)) \ files[d]]

\* Mutant: the layer's number is left out by one.
FoldOntoBefore(node, layer, files, rows) ==
    [map |-> FoldAttributes(node.map, Own(layer - 1, rows), Removed(node.axes, files)),
     axes |-> FoldAxes(node.axes, files),
     dead |-> FoldDead(node.dead, node.axes, files)]

\* One layer folded onto a node.
FoldOnto(node, layer, files, rows) ==
    [map |-> FoldAttributes(node.map, Own(layer, rows), Removed(node.axes, files)),
     axes |-> FoldAxes(node.axes, files),
     dead |-> FoldDead(node.dead, node.axes, files)]

\* A layer's rows name every label that a row below, which they meet, names on a
\* dim outside `partial` where they leave it NULL.
FilledOver(below, rows) ==
    \A q \in below, r \in rows :
        Meet(q.at, r) /\ (Named(q.at) \cap Others) \ Named(r) # {} =>
            \E f \in rows :
                /\ Reaches(f, Met(r, q.at))
                /\ Named(r) \cup (Named(q.at) \cap Others) \subseteq Named(f)
=============================================================================
