---------------------------- MODULE WorkingRecord ---------------------------
(***************************************************************************)
(* Edits staged over a base record, and what the record reads with them.   *)
(*                                                                         *)
(* The base is a node of the revision tree, folded from the layers of its  *)
(* path; the staging area is one more layer, which `set` changes in place. *)
(* One attribute is enough, since attributes never meet.  A staged row     *)
(* carries the value of the row it was written as: a value is told by that *)
(* row and by its source, a base layer or one of the calls.                *)
(* The order of an axis and its properties are in StagedAxes.              *)
(***************************************************************************)
EXTENDS NodeFold, Sequences

CONSTANTS Labels,      \* the labels of each dim
          Bases,       \* the paths edits may start from: axis files and rows per layer
          CallRows,    \* the sets of rows one `set` may give
          MaxCalls,    \* how many sets are made
          MaxAxisEdits,  \* how many adds and removes
          EditedDims   \* the dims whose labels are added and removed

AllLabels == UNION {Labels[d] : d \in Dims}
Row == [Dims -> AllLabels \cup {Null}]

ASSUME BoundsAssumption == MaxCalls \in Nat /\ MaxAxisEdits \in Nat
ASSUME DimsAssumption == Partial \cap Others = {} /\ IsFiniteSet(Partial \cup Others)
ASSUME LabelsAssumption ==
    \A d \in Dims : Null \notin Labels[d] /\ \A labels \in SUBSET Labels[d] : NoFile # labels
ASSUME CallsAssumption == \A rows \in CallRows : rows # {} /\ rows \subseteq Row

\* A path folded.
FoldPath(path) ==
    LET fold[k \in 0 .. Len(path.rows)] ==
            IF k = 0 THEN NoCache ELSE FoldOnto(fold[k - 1], k, path.files[k], path.rows[k])
    IN fold[Len(path.rows)]

\* A path a writer can have left: every layer's rows are ordered, name labels
\* held, and are filled over the layers below, as what `set` stages is.
Written(path) ==
    \A k \in 1 .. Len(path.rows) :
        LET below == FoldPath([files |-> SubSeq(path.files, 1, k - 1), rows |-> SubSeq(path.rows, 1, k - 1)])
            kept == Kept(below.map, Own(k, path.rows[k]), Removed(below.axes, path.files[k]))
        IN /\ Ordered(path.rows[k])
           /\ \A r \in path.rows[k] : \A d \in Named(r) : r[d] \in Held(FoldAxes(below.axes, path.files[k]), d)
           /\ FilledOver(Resolved(kept, path.rows, below.dead), path.rows[k])

ASSUME BasesAssumption ==
    \A p \in Bases :
        /\ p.rows \in Seq(SUBSET Row)
        /\ p.files \in Seq([Dims -> {NoFile} \cup SUBSET AllLabels])
        /\ Len(p.files) = Len(p.rows)
        /\ \A k \in 1 .. Len(p.rows) : \A d \in Dims :
             p.files[k][d] = NoFile \/ p.files[k][d] \subseteq Labels[d]
        /\ Written(p)

VARIABLES base,      \* the path of the base: its layers' axis files and rows
          node,      \* its fold
          axis,      \* per dim, its staged axis, or NoFile
          table,     \* the rows of the attribute's staging table
          made,      \* whether it has one
          calls,     \* the rows of each set since the last rollback (history)
          edits      \* how many adds and removes were made (history)

vars == <<base, node, axis, table, made, calls, edits>>

BaseDepth == Len(base.rows)

\* What the base reads: the rows its layers own, without those of dead labels.
BaseRows == Resolved(node.map, base.rows, node.dead)

\* The labels of a dim, staged edits included.
HeldNow(d) == Held(FoldAxes(node.axes, axis), d)

Placed(rows) == {t.at : t \in rows}

TypeOK ==
    /\ base \in Bases
    /\ \A d \in Dims : axis[d] = NoFile \/ axis[d] \subseteq Labels[d]
    /\ Len(calls) <= MaxCalls
    /\ table \subseteq [at : Row, source : 1 .. BaseDepth + Len(calls), row : Row]
    /\ made \in BOOLEAN

Init ==
    /\ base \in Bases
    /\ node = FoldPath(base)
    /\ axis = NoAxes
    /\ table = {}
    /\ made = FALSE
    /\ calls = << >>
    /\ edits = 0

-----------------------------------------------------------------------------
\* _delete_covered: the staged rows a call's rows leave.
Uncovering(rows) == {t \in table : ~ \E r \in rows : Reaches(r, t.at)}

\* Mutant: a call replaces the rows at its own places only.
ReplacedAtPlace(rows) ==
    {t \in table : t.at \notin rows}
        \cup {[at |-> r, source |-> BaseDepth + Len(calls) + 1, row |-> r] : r \in rows}

\* _insert: the staged rows left by a call, and its own.
Replaced(rows) ==
    Uncovering(rows)
        \cup {[at |-> r, source |-> BaseDepth + Len(calls) + 1, row |-> r] : r \in rows}

\* Mutant: a key is carried only where its row names no other dim.
CarryingBroadcasts(staged) == {Key(t.at) : t \in {s \in staged : Named(s.at) \subseteq Partial}}

\* The keys whose extent the layer must carry: those naming every `partial` dim
\* the base holds an axis of.
Carrying(staged) ==
    {k \in {Key(t.at) : t \in staged} :
        \A d \in Partial : node.axes[d] # NoFile => k[d] # Null}

\* The labels a base row takes outside `partial`: NULL is every label the axis
\* holds now, and stays NULL where it holds none.
Extents(at) ==
    {x \in [Others -> AllLabels \cup {Null}] :
        \A d \in Others :
            IF at[d] # Null THEN x[d] = at[d]
            ELSE IF HeldNow(d) = {} THEN x[d] = Null
            ELSE x[d] \in HeldNow(d)}

\* _most_named: of the rows at one place, those that named the most there.
MostNamed(rows) ==
    {x.put : x \in {y \in rows : \A z \in rows : z.put.at = y.put.at => z.named <= y.named}}

\* _reaching: the base's value at each whole coordinate of the carried keys.
Reaching(staged) ==
    MostNamed(UNION {{[put |-> [at |-> [d \in Dims |-> IF d \in Partial THEN k[d] ELSE x[d]],
                               source |-> j.layer, row |-> j.row],
                      named |-> Cardinality(Named(j.at))] :
                      k \in {i \in Carrying(staged) : \A d \in Named(j.at) \cap Partial : i[d] = j.at[d]},
                      x \in Extents(j.at)} : j \in BaseRows})

\* _uncovered: without the rows at coordinates a staged row reaches.
Uncovered(rows, staged) == {x \in rows : ~ \E t \in staged : Reaches(t.at, x.at)}

\* _spread: each staged row leaving a dim outside `partial` NULL, along the
\* labels that the base rows crossing it name there.
Spread(staged) ==
    LET crossing ==
            {tj \in staged \X BaseRows :
                LET above == Named(tj[1].at)
                    below == Named(tj[2].at)
                IN /\ (below \ above) \cap Others # {}
                   /\ ~ (above \cap Partial \subseteq below)
                   /\ Meet(tj[1].at, tj[2].at)}
        written == MostNamed({[put |-> [tj[1] EXCEPT !.at = Met(tj[1].at, tj[2].at)],
                               named |-> Cardinality(Named(tj[1].at) \cap Partial)] : tj \in crossing})
    IN {w \in written : w.at \notin Placed(staged)}

\* Mutant: no row is spread.
CompleteWithoutSpread(staged) ==
    IF Others = {} \/ node.map = {} THEN staged
    ELSE staged \cup Uncovered(Reaching(staged), staged)

\* _complete_owned_whole: the extent the layer carries along dims outside
\* `partial`, where the base has the attribute.
Complete(staged) ==
    IF Others = {} \/ node.map = {} THEN staged
    ELSE LET carried == staged \cup Uncovered(Reaching(staged), staged)
         IN carried \cup Spread(carried)

\* Every label the rows name is on its axis, as staged (refuse_unheld).
AllHeld(rows) == \A r \in rows : \A d \in Named(r) : r[d] \in HeldNow(d)

\* set of the attribute.
SetRows(rows) ==
    /\ Len(calls) < MaxCalls
    /\ AllHeld(rows)
    /\ table' = Complete(Replaced(rows))
    /\ made' = TRUE
    /\ calls' = Append(calls, rows)
    /\ UNCHANGED <<base, node, axis, edits>>

\* set refused for a label its axis lacks, after its table was made (_ensure).
SetRefused(rows) ==
    /\ Len(calls) < MaxCalls
    /\ ~ AllHeld(rows)
    /\ ~ made
    /\ made' = TRUE
    /\ UNCHANGED <<base, node, axis, table, calls, edits>>

\* add: the axis is staged whole, with the label.
AddLabel(d, label) ==
    /\ edits < MaxAxisEdits
    /\ d \in EditedDims
    /\ axis' = [axis EXCEPT ![d] = HeldNow(d) \cup {label}]
    /\ edits' = edits + 1
    /\ UNCHANGED <<base, node, table, made, calls>>

\* remove: the axis is staged whole, without the label.
RemoveLabel(d, label) ==
    /\ edits < MaxAxisEdits
    /\ d \in EditedDims
    /\ axis' = [axis EXCEPT ![d] = HeldNow(d) \ {label}]
    /\ edits' = edits + 1
    /\ UNCHANGED <<base, node, table, made, calls>>

\* Mutant: the staged rows of the attribute are kept.
RollbackAxesOnly ==
    /\ axis' = NoAxes
    /\ calls' = << >>
    /\ UNCHANGED <<base, node, table, made, edits>>

\* rollback: every staging table is dropped.
Rollback ==
    /\ axis' = NoAxes
    /\ table' = {}
    /\ made' = FALSE
    /\ calls' = << >>
    /\ UNCHANGED <<base, node, edits>>

Next ==
    \/ \E rows \in CallRows : SetRows(rows)
    \/ \E rows \in CallRows : SetRefused(rows)
    \/ \E d \in Dims : \E label \in Labels[d] : AddLabel(d, label)
    \/ \E d \in Dims : \E label \in Labels[d] : RemoveLabel(d, label)
    \/ Rollback

Spec == Init /\ [][Next]_vars

-----------------------------------------------------------------------------
\* Mutant: the rows of removed labels stay in the layer.
CollapsedNothing == table

\* _collapsed_attribute: the staged layer's rows, without those naming a label
\* its staged axis lacks.
Collapsed ==
    {t \in table : \A d \in Named(t.at) : axis[d] # NoFile => t.at[d] \in axis[d]}

StagedRows == Placed(Collapsed)
Layers == Append(base.rows, StagedRows)
StagedNode == FoldOnto(node, BaseDepth + 1, axis, StagedRows)
KeptBelow == Kept(node.map, Own(BaseDepth + 1, StagedRows), Removed(node.axes, axis))

Coordinates == {c \in [Dims -> AllLabels] : \A d \in Dims : c[d] \in HeldNow(d)}

Values(rows, c) == {<<j.layer, j.row>> : j \in Settled(rows, c)}

\* What the record reads at a coordinate, a staged row giving the value it was
\* staged with.
Read(c) ==
    {IF v[1] <= BaseDepth THEN {v}
     ELSE {<<t.source, t.row>> : t \in {s \in Collapsed : s.at = v[2]}} :
     v \in Values(Resolved(StagedNode.map, Layers, StagedNode.dead), c)}

SetAt(c) == {k \in 1 .. Len(calls) : \E r \in calls[k] : Reaches(r, c)}

\* The most specific row of the last call reaching a coordinate.
LastSet(c) ==
    LET last == CHOOSE k \in SetAt(c) : \A j \in SetAt(c) : j <= k
        here == {r \in calls[last] : Reaches(r, c)}
    IN {{<<BaseDepth + last, r>>} : r \in {x \in here : \A y \in here : Named(y) \subseteq Named(x)}}

\* The rows of the calls no later call covers.
Asked ==
    UNION {{r \in calls[k] : ~ \E j \in k + 1 .. Len(calls) : \E s \in calls[j] : Reaches(s, r)} :
           k \in 1 .. Len(calls)}

\* A read returns what was last set, whatever was carried and spread between the
\* calls, and labels removed and added again meanwhile.
LastSetWins ==
    Ordered(Asked) =>
        \A c \in Coordinates : SetAt(c) # {} => Read(c) = LastSet(c)

\* A coordinate no call reaches.
Untouched(c) == SetAt(c) = {}
ReadsBase(c) == Read(c) = {{v} : v \in Values(BaseRows, c)}

\* A call reaches the coordinate's key by a row that names less of `partial`.
KeyBroadcast(c) ==
    \E k \in 1 .. Len(calls) : \E r \in calls[k] :
        Reaches(Key(r), c) /\ Named(Key(r)) # Partial

\* What no call reaches still reads the base, beside coordinates of its own key
\* that were set, carried or spread, and after removals and additions: only rows
\* naming every `partial` dim take over a key, and they carry its extent.
CarriedReadsBase ==
    Ordered(Asked) =>
        \A c \in Coordinates : Untouched(c) /\ ~ KeyBroadcast(c) => ReadsBase(c)

\* What is carried, spread and left by removals is a layer the writer accepts:
\* where the calls' own rows are ordered, so are the staged ones, and they name
\* labels their axes hold.
StagedLayersAccepted ==
    /\ Ordered(Asked) => Ordered(StagedRows)
    /\ AllHeld(StagedRows)

\* The fold accepts what is staged (_refuse_unfilled).
StagedLayersFold == Filled(KeptBelow, Own(BaseDepth + 1, StagedRows))

\* What LayerFold assumes of a staged layer (FillsEvery).
StagedLayersFilled ==
    FilledOver(Resolved(KeptBelow, base.rows, node.dead), StagedRows)
=============================================================================
