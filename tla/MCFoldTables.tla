---------------------------- MODULE MCFoldTables ----------------------------
(* Values of FoldTables' constants for TLC. *)
EXTENDS FoldTables, TLC

CONSTANTS a, b, h, l, x, y, r1, r2

\* No row is written along w.
At(e, u) == [e |-> e, u |-> u, w |-> Null]
Files(e, u, w) == [e |-> e, u |-> u, w |-> w]
Path(files, rows) == [files |-> files, rows |-> rows]

\* `partial` names e at first, u too later, and w never.
MCPartials == <<{"e"}, {"e", "u"}>>

\* Three layers: the labels; a label of u and one of w removed; that of u is added
\* again, a label of e removed, and a row written for all of u beside one naming a
\* label.
MCPaths ==
    {Path(<<Files({a, b}, {h, l}, {x, y}), Files(NoFile, {h}, {x}), Files({a}, {h, l}, NoFile)>>,
          <<{At(a, h), At(a, l), At(b, Null)}, {At(b, h)}, {At(a, Null), At(a, h)}>>)}

Threads == Permutations({r1, r2})
=============================================================================
