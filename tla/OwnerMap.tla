------------------------------ MODULE OwnerMap ------------------------------
(***************************************************************************)
(* How the rows of one attribute, written by several layers, resolve: the  *)
(* owner map a fold keeps, the join that reads the owned rows back, and    *)
(* the broadcast rule that settles them.                                   *)
(*                                                                         *)
(* A row is a function from the attribute's dims to a label or to Null,    *)
(* which stands for every label.  Its value is not modelled: a value is    *)
(* told by the row and the layer it came from.  An owner-map row is a      *)
(* record of its key (a label or Null per dim in `partial`), its layer and *)
(* its flags.  Attributes never meet, so one is enough.                    *)
(***************************************************************************)
EXTENDS FiniteSets

CONSTANTS Partial,    \* the dims in `partial`: the columns of the map's key
          Others,     \* the attribute's other dims
          Null        \* a row's value on a dim it does not name

Dims == Partial \cup Others

Named(r) == {d \in DOMAIN r : r[d] # Null}
Key(r) == [d \in Partial |-> r[d]]

\* Two rows or keys reach a common coordinate: they agree where both name.
Meet(a, b) == \A d \in Named(a) \cap Named(b) : a[d] = b[d]

\* Every label either names; the first one's where both do.
Met(a, b) == [d \in DOMAIN a |-> IF a[d] = Null THEN b[d] ELSE a[d]]

\* A row reaches a coordinate or key, and what it names is named there too.
Reaches(r, at) == \A d \in Named(r) : at[d] = r[d]

Nested(a, b) == Named(a) \subseteq Named(b) \/ Named(b) \subseteq Named(a)

\* unsettled: two rows meet, neither is more specific, and no third names there
\* what both name.
Unsettled(a, b, rows) ==
    /\ Meet(a, b)
    /\ ~ Nested(a, b)
    /\ ~ \E c \in rows : Named(c) = Named(a) \cup Named(b) /\ Reaches(c, Met(a, b))

\* write_layer accepts the rows of one layer (_refuse_unordered).
Ordered(rows) == \A a, b \in rows : ~ Unsettled(a, b, rows)

-----------------------------------------------------------------------------
\* _own: a layer's owner-map rows, one per key as written, with the flags of
\* the rows at the key.
Own(layer, rows) ==
    {[key |-> k, layer |-> layer,
      varies |-> {d \in Dims : \E r \in rows : Key(r) = k /\ r[d] # Null},
      broadcast |-> {d \in Dims : \E r \in rows : Key(r) = k /\ r[d] = Null}] :
     k \in {Key(r) : r \in rows}}

\* Mutant: a parent's row survives the removal of a label it names.
KeptDespiteRemoval(parent, own, removed) ==
    {p \in parent : ~ \E o \in own : Reaches(o.key, p.key)}

\* The parent's rows left: those naming no removed label that no row of the
\* layer covers whole.
Kept(parent, own, removed) ==
    {p \in parent :
        /\ \A d \in Partial : p.key[d] \notin removed[d]
        /\ ~ \E o \in own : Reaches(o.key, p.key)}

\* Parent rows beside the layer's rows they share a key with (_pair).
Pairs(kept, own) ==
    {po \in kept \X own :
        /\ ~ (Named(po[2].key) \subseteq Named(po[1].key))
        /\ Meet(po[1].key, po[2].key)}

\* _refuse_unfilled lets the layer through: where a row of its own leaves a dim
\* outside `partial` NULL over a parent row naming it, it has a row of flags
\* that name the dim at the key the two share.
Filled(kept, own) ==
    \A po \in Pairs(kept, own) :
        LET p == po[1]
            o == po[2]
        IN \A d \in (p.varies \ o.varies) \cap Others :
             \E f \in own : f.key = Met(o.key, p.key) /\ d \in f.varies

\* Mutant: the parent row keeps what the two cross at.
OverlapsToParent(kept, own) ==
    {[po[1] EXCEPT !.key = Met(po[2].key, po[1].key)] :
     po \in {q \in Pairs(kept, own) : ~ Nested(q[1].key, q[2].key)}}

\* _overlaps: one more row for each crossing pair, naming every label either
\* names, owned and flagged as the layer's own row.
Overlaps(kept, own) ==
    {[po[2] EXCEPT !.key = Met(po[2].key, po[1].key)] :
     po \in {q \in Pairs(kept, own) : ~ Nested(q[1].key, q[2].key)}}

\* fold_attributes: a layer folded onto its parent's map.
FoldAttributes(parent, own, removed) ==
    LET kept == Kept(parent, own, removed)
    IN kept \cup own \cup Overlaps(kept, own)

-----------------------------------------------------------------------------
\* _as_stored: what the rows behind an owner-map row hold on a dim.
Stored(m, d) ==
    (IF d \in m.varies THEN {m.key[d]} ELSE {})
        \cup (IF d \in m.broadcast THEN {Null} ELSE {})

\* The owned rows of an owner-map row among its layer's rows, each where it is
\* owned: NULL takes the map row's label.
Owned(m, rows) ==
    {[at |-> [d \in Dims |-> IF d \in Partial /\ r[d] = Null THEN m.key[d] ELSE r[d]],
      layer |-> m.layer, row |-> r] :
     r \in {s \in rows : \A d \in Partial : s[d] \in Stored(m, d)}}

\* Whether a layer's rows name different sets of partial dims (_owners), so
\* that two of them may be owned at one place.
Contested(map) ==
    \E m, n \in map :
        m.layer = n.layer /\ m.varies \cap Partial # n.varies \cap Partial

\* _most_specific: of the rows at one place, the one naming every partial dim
\* the others name.
MostSpecific(joined) ==
    {j \in joined :
        \A k \in joined :
            k.at = j.at => Named(k.row) \cap Partial \subseteq Named(j.row) \cap Partial}

\* _living: the rows naming no dead label outside the key.
Living(joined, dead) == {j \in joined : \A d \in Others : j.at[d] \notin dead[d]}

\* Record._relation: the owned rows still living.
Resolved(map, rows, dead) ==
    LET joined == UNION {Owned(m, rows[m.layer]) : m \in map}
        chosen == IF Contested(map) THEN MostSpecific(joined) ELSE joined
    IN Living(chosen, dead)

\* settle at one coordinate: the rows naming all that the rows reaching it
\* name.  There is one, unless rows cross there.
Settled(resolved, c) ==
    LET here == {j \in resolved : Reaches(j.at, c)}
    IN {j \in here : \A k \in here : Named(k.at) \subseteq Named(j.at)}

-----------------------------------------------------------------------------
\* _flag_rows: the dims map rows say their rows name, and leave NULL.
Flags(map) ==
    [varies |-> UNION {m.varies : m \in map},
     broadcast |-> UNION {m.broadcast : m \in map}]

\* Mutant: a row that leaves the dim NULL counts for no category.
OwnedReachingByName(map, d, labels) == {m \in map : m.key[d] \in labels}

\* Mutant: a row that leaves the dim NULL counts for a category without labels.
OwnedReachingNone(map, d, labels) == {m \in map : m.key[d] \in labels \cup {Null}}

\* _owned_reaching: the map rows that reach one of the labels a category has.
OwnedReaching(map, d, labels) ==
    {m \in map : m.key[d] \in labels \/ (m.key[d] = Null /\ labels # {})}

\* Fold.flags of a category, which has labels on d.
FlagsOf(map, d, labels) == Flags(OwnedReaching(map, d, labels))
=============================================================================
