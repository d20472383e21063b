-------------------------- MODULE MCRevisionCache ---------------------------
(* Values of RevisionCache's constants for TLC. *)
EXTENDS RevisionCache

CONSTANTS t1, t2, r1, r2, r3

\* An id tells nothing: up to the order they are published in, any three revisions
\* with at most one other root beside r1 and r2 under it.
InOrder == [id \in Ids |-> CASE id = r1 -> {Root} [] id = r2 -> {r1} [] id = r3 -> {Root, r1, r2}]
=============================================================================
