------------------------------ MODULE LayerFold -----------------------------
(***************************************************************************)
(* A path of the revision tree, grown by one layer at a time, and what its *)
(* deepest node reads: the fold of the owner map and of the axes, live or  *)
(* from the materialised caches of an ancestor.                            *)
(*                                                                         *)
(* Every layer the writer accepts may follow: rows of one attribute, and   *)
(* whole restatements of the axes.  The order of an axis is left out.  The *)
(* layers come from a WorkingRecord where FillsEvery, else from anywhere.  *)
(***************************************************************************)
EXTENDS NodeFold, Sequences

CONSTANTS Labels,       \* the labels of each dim
          Axes,         \* what a layer may restate: sets of labels, or NoFile
          Rows,         \* the sets of rows a layer may write
          MaxDepth,     \* how many layers a path has at most
          MaxCaches,    \* how many of its nodes are materialised at most
          FillsEvery,   \* whether writers fill in every label, as `set` does
          Readds        \* whether labels outside `partial` are added again

ASSUME DepthAssumption == MaxDepth \in Nat \ {0} /\ MaxCaches \in Nat
ASSUME NullAssumption == \A d \in Dims : Null \notin Labels[d]
AllLabels == UNION {Labels[d] : d \in Dims}
Row == [Dims -> AllLabels \cup {Null}]

ASSUME RowsAssumption == \A rows \in Rows : rows \subseteq Row
ASSUME AxesAssumption == \A files \in Axes : \A d \in Dims : files[d] = NoFile \/ files[d] \subseteq Labels[d]
ASSUME DimsAssumption == Partial \cap Others = {} /\ IsFiniteSet(Partial \cup Others)

VARIABLES axis_files,    \* per layer, what it restates each dim's axis as
          written,       \* per layer, its rows
          owner_map,     \* the deepest node's owner map
          axes,          \* its resolved axes, NoFile where no layer has one
          dead,          \* its dead labels, of the dims outside `partial`
          refused,       \* the fold refuses the last layer: no read of it
          caches         \* the materialised nodes' map, axes and dead labels

vars == <<axis_files, written, owner_map, axes, dead, refused, caches>>

Depth == Len(written)

TypeOK ==
    /\ written \in Seq(SUBSET Row)
    /\ Depth <= MaxDepth
    /\ Len(axis_files) = Depth
    /\ \A d \in Dims : Held(axes, d) \subseteq Labels[d]
    /\ \A d \in Dims : dead[d] \subseteq Labels[d] \ Held(axes, d)
    /\ owner_map \subseteq [key : [Partial -> AllLabels \cup {Null}], layer : 1 .. Depth,
                            varies : SUBSET Dims, broadcast : SUBSET Dims]
    /\ refused \in BOOLEAN
    /\ DOMAIN caches \subseteq 1 .. Depth

Init ==
    /\ axis_files = << >>
    /\ written = << >>
    /\ owner_map = {}
    /\ axes = NoAxes
    /\ dead = NoneDead
    /\ refused = FALSE
    /\ caches = << >>

-----------------------------------------------------------------------------
Node == [map |-> owner_map, axes |-> axes, dead |-> dead]

\* Mutant: nothing is filled in.
NoneFilled(kept, rows) == TRUE

\* _spread: a WorkingRecord that leaves a dim outside `partial` NULL, over a
\* row its base reads naming it, also writes the row that names the label there.
EveryLabelFilled(kept, rows) == FilledOver(Resolved(kept, written, dead), rows)

KeptBelow(files, rows) == Kept(owner_map, Own(Depth + 1, rows), Removed(axes, files))

\* The writer accepts the layer: its rows are ordered and name labels held.
Accepted(files, rows) ==
    /\ ~ refused /\ Depth < MaxDepth
    /\ Ordered(rows)
    /\ \A r \in rows : \A d \in Named(r) : r[d] \in Held(FoldAxes(axes, files), d)
    /\ FillsEvery => EveryLabelFilled(KeptBelow(files, rows), rows)
    /\ ~ Readds => \A d \in Others : Held(files, d) \cap dead[d] = {}

\* root() or child() writes a layer, and a read folds it.
Layer(files, rows) ==
    LET folded == FoldOnto(Node, Depth + 1, files, rows)
    IN /\ Accepted(files, rows)
       /\ Filled(KeptBelow(files, rows), Own(Depth + 1, rows))
       /\ axis_files' = Append(axis_files, files)
       /\ written' = Append(written, rows)
       /\ owner_map' = folded.map
       /\ axes' = folded.axes
       /\ dead' = folded.dead
       /\ UNCHANGED <<refused, caches>>

\* It writes one the fold refuses (_refuse_unfilled): every read of it fails.
LayerRefused(files, rows) ==
    /\ Accepted(files, rows)
    /\ ~ Filled(KeptBelow(files, rows), Own(Depth + 1, rows))
    /\ refused' = TRUE
    /\ UNCHANGED <<axis_files, written, owner_map, axes, dead, caches>>

Deepest(depths) == CHOOSE k \in depths : \A j \in depths : j <= k

\* The deepest materialised node above depth n (_base_and_above), 0 if none.
Base(n) ==
    LET above == {k \in DOMAIN caches : k < n}
    IN IF above = {} THEN 0 ELSE Deepest(above)

\* The node at depth n, folded from its base.
Folded(n) ==
    LET base == Base(n)
        fold[k \in base .. n] ==
            IF k = base THEN (IF base = 0 THEN NoCache ELSE caches[base])
            ELSE FoldOnto(fold[k - 1], k, axis_files[k], written[k])
    IN fold[n]

\* Mutant: the dead labels are not cached.
CachedWithoutDead(n) == [Folded(n) EXCEPT !.dead = NoneDead]

\* What materialise writes: the map, the axes and the dead labels.
Cached(n) == Folded(n)

\* Revision.materialise, of the node or of one above it.
Materialise(n) ==
    /\ n \in 1 .. Depth
    /\ n \notin DOMAIN caches
    /\ Cardinality(DOMAIN caches) < MaxCaches
    /\ caches' = [k \in DOMAIN caches \cup {n} |-> IF k = n THEN Cached(n) ELSE caches[k]]
    /\ UNCHANGED <<axis_files, written, owner_map, axes, dead, refused>>

Next ==
    \/ \E files \in Axes, rows \in Rows : Layer(files, rows)
    \/ \E files \in Axes, rows \in Rows : LayerRefused(files, rows)
    \/ \E n \in 1 .. MaxDepth : Materialise(n)

Spec == Init /\ [][Next]_vars

-----------------------------------------------------------------------------
Coordinates ==
    {c \in [Dims -> UNION {Labels[d] : d \in Dims}] : \A d \in Dims : c[d] \in Held(axes, d)}

\* What a layer removed of a partial dim.
RemovedAt(n, d) ==
    LET before == {k \in 1 .. n - 1 : axis_files[k][d] # NoFile}
    IN IF before = {} \/ axis_files[n][d] = NoFile THEN {}
       ELSE axis_files[Deepest(before)][d] \ axis_files[n][d]

\* A row of layer n still counts: no deeper layer removed a label it names in
\* a partial dim, or restated its key whole.
Counts(n, r) ==
    \A k \in n + 1 .. Depth :
        /\ \A d \in Partial : r[d] \notin RemovedAt(k, d)
        /\ ~ \E s \in written[k] : Reaches(Key(s), Key(r))

\* The answer at a coordinate: of the rows that count and reach it, the deepest
\* layer's, and of that layer's the most specific.
Answer(c) ==
    LET here == {x \in (1 .. Depth) \X UNION {written[k] : k \in 1 .. Depth} :
                    x[2] \in written[x[1]] /\ Reaches(x[2], c) /\ Counts(x[1], x[2])}
        deepest == {x \in here : \A y \in here : y[1] <= x[1]}
    IN {x \in deepest : \A y \in deepest : Named(y[2]) \subseteq Named(x[2])}

\* What a read answers: nothing where no row reaches, or where rows cross.
ReadAt(c) ==
    {<<j.layer, j.row>> : j \in Settled(Resolved(owner_map, written, dead), c)}

\* A read answers every coordinate with the deepest layer's most specific row,
\* though it knows neither the layers nor the `partial` dims: what the fold
\* keeps, drops and adds makes the broadcast rule enough.
DeepestWins == \A c \in Coordinates : ReadAt(c) = Answer(c)

\* No rows cross where one counts (settle raises there).
NoneCross == \A c \in Coordinates : Answer(c) # {} => ReadAt(c) # {}

\* Neither the owner map nor a read names a label the axes lack: what is removed
\* is gone, from keys the fold derived too, and a label of `partial` added again
\* finds no old row.
OnlyLiveLabels ==
    /\ \A m \in owner_map : \A d \in Named(m.key) : m.key[d] \in Held(axes, d)
    /\ \A j \in Resolved(owner_map, written, dead) :
         \A d \in Named(j.at) : j.at[d] \in Held(axes, d)

\* Whichever ancestors are materialised, and from whichever caches those were
\* folded, a node reads the same.
CachesChangeNothing ==
    Folded(Depth) = Node

\* Rows at coordinates a category of d reaches, its labels being those.
OfCategory(rows, d, labels) ==
    {j \in rows : j.at[d] \in labels \/ (j.at[d] = Null /\ labels # {})}

\* A dim the rows name is in the one set, one they leave NULL in the other.
Tell(flags, rows) ==
    \A j \in rows :
        /\ Named(j.at) \subseteq flags.varies
        /\ Dims \ Named(j.at) \subseteq flags.broadcast

\* docs/design/use/reading.md, Flags: read off the map alone, flags tell every
\* container the rows a read returns need, over the record and over the labels of
\* any category, though an overlap row has the flags of one of the two rows it
\* stands for.
FlagsTellRows ==
    LET resolved == Resolved(owner_map, written, dead)
    IN /\ Tell(Flags(owner_map), resolved)
       /\ \A d \in Partial : \A labels \in SUBSET Held(axes, d) :
            Tell(FlagsOf(owner_map, d, labels), OfCategory(resolved, d, labels))

\* Nor do they tell of a container that stays empty, where a map keys every dim:
\* of another dim, the rows that named it may be dead.
FlagsTellNoMore ==
    \A d \in Partial : \A labels \in SUBSET Held(axes, d) :
        LET flags == FlagsOf(owner_map, d, labels)
            rows == OfCategory(Resolved(owner_map, written, dead), d, labels)
        IN /\ \A e \in flags.varies : \E j \in rows : j.at[e] # Null
           /\ \A e \in flags.broadcast : \E j \in rows : j.at[e] = Null
=============================================================================
