----------------------------- MODULE StagedAxes -----------------------------
(***************************************************************************)
(* The axes of a WorkingRecord: `add`, `remove` and property edits of two  *)
(* kinds of subject, dims with labels and a multi-dim with tuples of them. *)
(*                                                                         *)
(* The first edit of an axis copies the base's into a staging table, whose *)
(* rows keep a position; each subject has one property, which may refer to *)
(* a dim.  A call that is refused is refused before it stages, so it is no *)
(* step here.  A call gives each label once.                               *)
(***************************************************************************)
EXTENDS Naturals, Sequences, FiniteSets

CONSTANTS Plain, Multi, Over, Refers, NoRef, NoValue,     \* as in EditedAxes
          Labels,      \* the labels of each dim
          Values,      \* the values the property of each subject may take
          Calls,       \* per subject, the sequences of labels `add` is given
          Bases,       \* the records edits may start from: axes and dead labels
          NoFile,      \* the base has no axis of the dim
          MaxEdits     \* how many edits are made

Subjects == Plain \cup {Multi}
Fields == DOMAIN Over
Tuples == {t \in [Fields -> UNION {Labels[d] : d \in Plain}] : \A f \in Fields : t[f] \in Labels[Over[f]]}
NamesOf(s) == IF s = Multi THEN Tuples ELSE Labels[s]
RowsOf(s) == [label : NamesOf(s), value : Values[s]]

\* A base no writer left a label twice or a dangling reference in.
Sound(b) ==
    LET axis(s) == IF b.axes[s] = NoFile THEN << >> ELSE b.axes[s]
        rows(s) == {axis(s)[i] : i \in DOMAIN axis(s)}
        held(s) == {r.label : r \in rows(s)}
    IN /\ \A s \in Subjects :
            /\ axis(s) \in Seq(RowsOf(s))
            /\ \A i, j \in DOMAIN axis(s) : axis(s)[i].label = axis(s)[j].label => i = j
       /\ \A r \in rows(Multi) : \A f \in Fields : r.label[f] \in held(Over[f])
       /\ \A s \in Subjects : Refers[s] # NoRef =>
             \A r \in rows(s) : r.value \in held(Refers[s]) \cup {NoValue}
       /\ \A d \in Plain : b.dead[d] \subseteq Labels[d] \ held(d)

ASSUME SubjectsAssumption == Multi \notin Plain /\ NoRef \notin Subjects
ASSUME OverAssumption == Over \in [Fields -> Plain]
ASSUME RefersAssumption == Refers \in [Subjects -> Plain \cup {NoRef}]
ASSUME NoValueAssumption == \A d \in Plain : NoValue \notin Labels[d]
ASSUME CallsAssumption ==
    \A s \in Subjects : \A names \in Calls[s] :
        /\ names \in Seq(NamesOf(s))
        /\ \A i, j \in DOMAIN names : names[i] = names[j] => i = j
ASSUME BasesAssumption == \A b \in Bases : Sound(b)
ASSUME EditsAssumption == MaxEdits \in Nat

VARIABLES base,      \* per subject its axis, a sequence of labels and values; dead labels
          staged,    \* the staging tables of the subjects that have one
          edits,     \* how many edits were made (history)
          added      \* per subject pairs of labels the base lacks, the second one
                     \* added when the first was there (history)

vars == <<base, staged, edits, added>>

-----------------------------------------------------------------------------
BaseAxis(s) == IF base.axes[s] = NoFile THEN << >> ELSE base.axes[s]
BasePlaces(s) == DOMAIN BaseAxis(s)
BaseLabels(s) == {BaseAxis(s)[i].label : i \in BasePlaces(s)}
BasePlace(s, x) == CHOOSE i \in BasePlaces(s) : BaseAxis(s)[i].label = x

\* Mutant: rows are numbered from zero.
NumberedFromZero(s) ==
    {[label |-> BaseAxis(s)[i].label, value |-> BaseAxis(s)[i].value, position |-> i - 1] : i \in BasePlaces(s)}

\* The base's axis as _ensure copies it, numbered in its order.
Numbered(s) ==
    {[label |-> BaseAxis(s)[i].label, value |-> BaseAxis(s)[i].value, position |-> i] : i \in BasePlaces(s)}

Staged == DOMAIN staged

\* The rows of an axis as staged: what an edit changes, and what a read shows.
Rows(s) == IF s \in Staged THEN staged[s] ELSE Numbered(s)
HeldNow(s) == {r.label : r \in Rows(s)}

TypeOK ==
    /\ base \in Bases
    /\ Staged \subseteq Subjects
    /\ \A s \in Staged :
          staged[s] \subseteq [label : NamesOf(s), value : Values[s], position : Nat \ {0}]
    /\ edits \in 0 .. MaxEdits
    /\ DOMAIN added = Subjects
    /\ \A s \in Subjects : \A p \in added[s] : {p[1], p[2]} \subseteq NamesOf(s) \ BaseLabels(s)

Init ==
    /\ base \in Bases
    /\ staged = << >>
    /\ edits = 0
    /\ added = [s \in Subjects |-> {}]

-----------------------------------------------------------------------------
\* Mutant: only staged positions count.
LastStaged(s) ==
    LET taken == {r.position : r \in Rows(s)} \cup {0}
    IN CHOOSE p \in taken : \A q \in taken : q <= p

\* The last position the staged table or the base holds.
Last(s) ==
    LET taken == {r.position : r \in Rows(s)} \cup {Len(BaseAxis(s))}
    IN CHOOSE p \in taken : \A q \in taken : q <= p

\* _positioned: a label's staged place, else its place in the base, else one
\* after all of them, in the order given.
Placed(s, names, i) ==
    LET name == names[i]
        here == {r \in Rows(s) : r.label = name}
    IN IF here # {} THEN (CHOOSE r \in here : TRUE).position
       ELSE IF name \in BaseLabels(s) THEN BasePlace(s, name)
       ELSE Last(s) + i

\* _insert by key: the rows of the labels given are replaced whole.
Inserted(s, names, value) ==
    {r \in Rows(s) : \A i \in DOMAIN names : names[i] # r.label}
        \cup {[label |-> names[i], value |-> value, position |-> Placed(s, names, i)] : i \in DOMAIN names}

\* _require_live: a value of a property that refers to a dim is a label of it.
LiveValue(s, value) ==
    IF Refers[s] = NoRef THEN value \in Values[s] ELSE value \in HeldNow(Refers[s]) \cup {NoValue}

\* refuse_unheld of a tuple: each coordinate holds a label of its dim.
HeldTuple(t) == \A f \in Fields : t[f] \in HeldNow(Over[f])

\* Tables staged, again or for the first time.
Stage(tables) ==
    staged' = [s \in Staged \cup DOMAIN tables |-> IF s \in DOMAIN tables THEN tables[s] ELSE staged[s]]

\* What the labels given come after: those there, and those given before.
New(s, names) == {i \in DOMAIN names : names[i] \notin HeldNow(s) \cup BaseLabels(s)}
Later(s, names) ==
    ((HeldNow(s) \ BaseLabels(s)) \X {names[i] : i \in New(s, names)})
        \cup {<<names[p[1]], names[p[2]]>> : p \in {q \in New(s, names) \X New(s, names) : q[1] < q[2]}}

AddRows(s, names, value) ==
    /\ Stage([x \in {s} |-> Inserted(s, names, value)])
    /\ added' = [added EXCEPT ![s] = @ \cup Later(s, names)]
    /\ edits' = edits + 1
    /\ UNCHANGED base

\* add, of labels of a dim.
AddLabels(d, names, value) ==
    /\ edits < MaxEdits
    /\ LiveValue(d, value)
    /\ AddRows(d, names, value)

\* add, of tuples: each coordinate names a label.
AddTuples(names, value) ==
    /\ edits < MaxEdits
    /\ \A i \in DOMAIN names : HeldTuple(names[i])
    /\ LiveValue(Multi, value)
    /\ AddRows(Multi, names, value)

\* Mutant: a tuple goes only where each coordinate over the dim names a removed label.
NamingTwice(d, gone) ==
    {r \in Rows(Multi) : \E f \in Fields : Over[f] = d /\ r.label[f] \in gone
                            /\ \A g \in Fields : Over[g] = d => r.label[g] \in gone}

\* The tuples with a coordinate over the dim that names a removed label.
Naming(d, gone) == {r \in Rows(Multi) : \E f \in Fields : Over[f] = d /\ r.label[f] \in gone}

\* Mutant: the base's properties are looked at.
UnnamedInBase(d, gone) ==
    \A s \in Subjects : Refers[s] = d => \A r \in Numbered(s) : r.value \notin gone

\* _require_unnamed: no property as staged holds a label to remove.
Unnamed(d, gone) ==
    \A s \in Subjects : Refers[s] = d => \A r \in Rows(s) : r.value \notin gone

Gone(s, gone) == {r \in Rows(s) : r.label \notin gone}
Among(pairs, names) == {p \in pairs : p[1] \in names /\ p[2] \in names}

\* remove of a dim's labels: the tuples naming them go, the multi-dim staged
\* only if there are any, and then the labels.
RemoveLabels(d, gone) ==
    /\ edits < MaxEdits
    /\ Unnamed(d, gone)
    /\ Stage([x \in {d} \cup (IF Naming(d, gone) = {} THEN {} ELSE {Multi}) |->
                 IF x = d THEN Gone(d, gone) ELSE Rows(Multi) \ Naming(d, gone)])
    /\ added' = [added EXCEPT ![d] = Among(@, HeldNow(d) \ gone),
                              ![Multi] = Among(@, {r.label : r \in Rows(Multi) \ Naming(d, gone)})]
    /\ edits' = edits + 1
    /\ UNCHANGED base

\* remove of tuples.
RemoveTuples(gone) ==
    /\ edits < MaxEdits
    /\ Stage([x \in {Multi} |-> Gone(Multi, gone)])
    /\ added' = [added EXCEPT ![Multi] = Among(@, HeldNow(Multi) \ gone)]
    /\ edits' = edits + 1
    /\ UNCHANGED base

\* Mutant: a patch stages the rows it names, not the base's whole axis.
PatchedAlone(s, names, value) ==
    {[r EXCEPT !.value = value] : r \in {q \in Rows(s) : q.label \in names}}

\* _patch: one column of the rows named, over the whole axis.
Patched(s, names, value) ==
    {IF r.label \in names THEN [r EXCEPT !.value = value] ELSE r : r \in Rows(s)}

\* The labels a set of a property may reach: some its axis holds, or, by a
\* scalar, all of them.  None given, or none found by a keyword, stages nothing.
Reached(d) == SUBSET HeldNow(d) \ {{}}

\* set of a property of a dim.
SetProperty(d, names, value) ==
    /\ edits < MaxEdits
    /\ LiveValue(d, value)
    /\ Stage([x \in {d} |-> Patched(d, names, value)])
    /\ edits' = edits + 1
    /\ UNCHANGED <<base, added>>

\* What keywords may select of the multi-dim's tuples: all, those with a label
\* at one coordinate, and those storing a value.
Selections ==
    {HeldNow(Multi)}
        \cup ({{t \in HeldNow(Multi) : t[f] = x} : f \in Fields, x \in UNION {HeldNow(d) : d \in Plain}} \ {{}})
        \cup {{r.label : r \in {q \in Rows(Multi) : q.value = v}} : v \in Values[Multi]}

\* set of the multi-dim's property: none found by a coordinate is refused, none
\* found by a property still stages the axis, one the base lacks too.
SetTuples(names, value) ==
    /\ edits < MaxEdits
    /\ LiveValue(Multi, value)
    /\ Stage([x \in {Multi} |-> Patched(Multi, names, value)])
    /\ edits' = edits + 1
    /\ UNCHANGED <<base, added>>

\* rollback.
Rollback ==
    /\ staged' = << >>
    /\ added' = [s \in Subjects |-> {}]
    /\ UNCHANGED <<base, edits>>

Next ==
    \/ \E d \in Plain : \E names \in Calls[d], value \in Values[d] : AddLabels(d, names, value)
    \/ \E names \in Calls[Multi], value \in Values[Multi] : AddTuples(names, value)
    \/ \E d \in Plain : \E gone \in SUBSET Labels[d] \ {{}} : RemoveLabels(d, gone)
    \/ \E t \in Tuples : RemoveTuples({t})
    \/ \E d \in Plain : \E names \in Reached(d), value \in Values[d] : SetProperty(d, names, value)
    \/ \E names \in Selections, value \in Values[Multi] : SetTuples(names, value)
    \/ Rollback

Spec == Init /\ [][Next]_vars

-----------------------------------------------------------------------------
\* What the writer checks of the staged axes, as a layer over the base.

HeldOnce(s) == \A r, q \in Rows(s) : r.label = q.label => r = q

\* _refuse_reordered: labels the base holds stay in its order.
InBaseOrder(s) ==
    \A r, q \in {x \in Rows(s) : x.label \in BaseLabels(s)} :
        r.position < q.position <=> BasePlace(s, r.label) < BasePlace(s, q.label)

DeadNow(d) ==
    IF d \in Staged THEN (base.dead[d] \cup BaseLabels(d)) \ HeldNow(d) ELSE base.dead[d]
Killed(d) == IF d \in Staged THEN BaseLabels(d) \ HeldNow(d) ELSE {}

\* _require_living_references: the values of a restated subject are checked
\* against every dead label, any other reference against the labels removed.
LivingReferences ==
    /\ \A r \in Rows(Multi) : \A f \in Fields : r.label[f] \notin Killed(Over[f])
    /\ \A s \in Subjects : Refers[s] # NoRef =>
          \A r \in Rows(s) : r.value \notin (IF s \in Staged THEN DeadNow(Refers[s]) ELSE Killed(Refers[s]))

\* Whatever was added, removed and set, the writer accepts the axes as staged:
\* each label once, in the base's order, no tuple naming a label that is not
\* held, no reference to one that is dead.
StagedAxesAccepted ==
    /\ \A s \in Staged : HeldOnce(s) /\ InBaseOrder(s)
    /\ Multi \in Staged => \A r \in Rows(Multi) : HeldTuple(r.label)
    /\ LivingReferences

\* Where a label stands: those of the base in its order, then the others as they
\* were last added.
Precedes(s, x, y) ==
    IF x \in BaseLabels(s) /\ y \in BaseLabels(s) THEN BasePlace(s, x) < BasePlace(s, y)
    ELSE IF x \in BaseLabels(s) \/ y \in BaseLabels(s) THEN x \in BaseLabels(s)
    ELSE <<x, y>> \in added[s]

\* A label keeps its place through every edit, a label of the base removed and
\* added again takes its own back, and a new one goes last.
PlacesKept ==
    \A s \in Subjects : \A r, q \in Rows(s) :
        r.label # q.label => (r.position < q.position <=> Precedes(s, r.label, q.label))

-----------------------------------------------------------------------------
Valued(rows) ==
    [x \in {r.label : r \in rows} |-> (CHOOSE r \in rows : r.label = x).value]

\* What a read shows, with the edits and without.
Shown == [s \in Subjects |-> Valued(Rows(s))]
ShownOfBase == [s \in Subjects |-> Valued(Numbered(s))]

Promise == INSTANCE EditedAxes WITH rows <- Shown, start <- ShownOfBase

\* Staging tables, copies and positions implement axes edited in place, in which
\* no reference dangles.
ImplementsEditedAxes == Promise!EditsSpec
ReferencesHeld == Promise!Whole
=============================================================================
