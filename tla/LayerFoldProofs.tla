--------------------------- MODULE LayerFoldProofs --------------------------
(***************************************************************************)
(* What the fold guarantees for every schema, every axis and row a layer   *)
(* may hold, and every length of the path.                                 *)
(***************************************************************************)
EXTENDS LayerFold, LeastNumbers, TLAPS

Keys == [Partial -> AllLabels \cup {Null}]
MapRows(layers) == [key : Keys, layer : layers, varies : SUBSET Dims, broadcast : SUBSET Dims]

-----------------------------------------------------------------------------
(* What the operators return.                                              *)

\* A layer's map rows are its rows' keys, under its own number.
LEMMA OwnRows ==
    ASSUME NEW layer, NEW rows \in SUBSET Row, NEW m \in Own(layer, rows)
    PROVE  /\ m \in MapRows({layer})
           /\ \E r \in rows : m.key = Key(r)
<1>1. PICK k \in {Key(r) : r \in rows} :
          m = [key |-> k, layer |-> layer,
               varies |-> {d \in Dims : \E r \in rows : Key(r) = k /\ r[d] # Null},
               broadcast |-> {d \in Dims : \E r \in rows : Key(r) = k /\ r[d] = Null}]
  BY DEF Own
<1>2. k \in Keys
  BY DEF Keys, Key, Row, Dims
<1> QED
  BY <1>1, <1>2 DEF MapRows

\* Where two keys meet, each label named is one of theirs.
LEMMA MetKey ==
    ASSUME NEW a \in Keys, NEW b \in Keys
    PROVE  /\ Met(a, b) \in Keys
           /\ \A d \in Partial : Met(a, b)[d] = Null \/ Met(a, b)[d] = a[d] \/ Met(a, b)[d] = b[d]
  BY DEF Met, Keys

\* A folded row is the parent's, the layer's, or both at what they cross.
LEMMA FoldedRow ==
    ASSUME NEW parent, NEW own, NEW removed, NEW m \in FoldAttributes(parent, own, removed)
    PROVE  \/ m \in Kept(parent, own, removed)
           \/ m \in own
           \/ \E p \in Kept(parent, own, removed), o \in own :
                m = [o EXCEPT !.key = Met(o.key, p.key)]
  BY DEF FoldAttributes, Overlaps, Pairs

LEMMA KeptRow ==
    ASSUME NEW parent, NEW own, NEW removed, NEW p \in Kept(parent, own, removed)
    PROVE  p \in parent /\ \A d \in Partial : p.key[d] \notin removed[d]
  BY DEF Kept

-----------------------------------------------------------------------------
(* The inductive invariant.                                                *)

\* Every key of the map names labels of the axes, and a label a row names in a
\* dim the map does not key is on the axis or dead.
KeysLive == \A m \in owner_map : \A d \in Partial : m.key[d] # Null => m.key[d] \in Held(axes, d)

RowsKnown ==
    \A n \in 1 .. Depth : \A r \in written[n] : \A d \in Others :
        r[d] # Null => r[d] \in Held(axes, d) \cup dead[d]

IInv == TypeOK /\ KeysLive /\ RowsKnown

\* What a layer leaves of the axes and the dead labels.
LEMMA AxesStep ==
    ASSUME NEW files \in Axes, NEW d \in Dims, Held(axes, d) \subseteq Labels[d],
           dead[d] \subseteq Labels[d] \ Held(axes, d)
    PROVE  LET after == FoldAxes(axes, files)
               gone == FoldDead(dead, axes, files)
           IN /\ Held(after, d) \subseteq Labels[d]
              /\ gone[d] \subseteq Labels[d] \ Held(after, d)
              /\ d \notin Partial => Held(axes, d) \cup dead[d] \subseteq Held(after, d) \cup gone[d]
              /\ Held(axes, d) \ Removed(axes, files)[d] \subseteq Held(after, d)
<1>1. CASE files[d] = NoFile
  BY <1>1 DEF FoldAxes, FoldDead, Mortal, Removed, Held
<1>2. CASE files[d] # NoFile
  <2>1. files[d] \subseteq Labels[d]
    BY <1>2, AxesAssumption
  <2> QED
    BY <1>2, <2>1 DEF FoldAxes, FoldDead, Mortal, Removed, Held
<1> QED
  BY <1>1, <1>2

LEMMA LayerType ==
    ASSUME IInv, NEW files \in Axes, NEW rows \in Rows, Layer(files, rows)
    PROVE  TypeOK'
<1> DEFINE own == Own(Depth + 1, rows)
           kept == Kept(owner_map, own, Removed(axes, files))
<1>1. rows \in SUBSET Row
  BY RowsAssumption
<1>2. /\ axis_files' = Append(axis_files, files)
      /\ written' = Append(written, rows)
      /\ owner_map' = FoldAttributes(owner_map, own, Removed(axes, files))
      /\ axes' = FoldAxes(axes, files)
      /\ dead' = FoldDead(dead, axes, files)
      /\ UNCHANGED <<refused, caches>>
      /\ Depth < MaxDepth
  BY DEF Layer, FoldOnto, Node, Accepted
<1>3. Depth \in Nat /\ written' \in Seq(SUBSET Row) /\ Depth' = Depth + 1
  BY <1>1, <1>2 DEF IInv, TypeOK, Depth
<1>4. Len(axis_files') = Depth'
  BY <1>2, <1>3 DEF IInv, TypeOK, Depth
<1>5. \A d \in Dims : Held(axes, d)' \subseteq Labels[d] /\ dead'[d] \subseteq Labels[d] \ Held(axes, d)'
  BY <1>2, AxesStep DEF IInv, TypeOK, Held
<1>6. owner_map' \subseteq MapRows(1 .. Depth')
  <2> SUFFICES ASSUME NEW m \in owner_map' PROVE m \in MapRows(1 .. Depth')
    OBVIOUS
  <2>1. \A p \in kept : p \in MapRows(1 .. Depth)
    BY KeptRow DEF IInv, TypeOK, MapRows, Keys
  <2>2. \A o \in own : o \in MapRows({Depth + 1})
    BY <1>1, OwnRows
  <2>3. CASE m \in kept
    BY <1>3, <2>1, <2>3 DEF MapRows
  <2>4. CASE m \in own
    BY <1>3, <2>2, <2>4 DEF MapRows
  <2>5. ASSUME NEW p \in kept, NEW o \in own, m = [o EXCEPT !.key = Met(o.key, p.key)]
        PROVE  m \in MapRows(1 .. Depth')
    <3>1. Met(o.key, p.key) \in Keys
      BY <2>1, <2>2, MetKey DEF MapRows
    <3> QED
      BY <1>3, <2>2, <2>5, <3>1 DEF MapRows
  <2> QED
    BY <1>2, <2>3, <2>4, <2>5, FoldedRow
<1>7. DOMAIN caches' \subseteq 1 .. Depth' /\ refused' \in BOOLEAN
  BY <1>2, <1>3 DEF IInv, TypeOK
<1> QED
  BY <1>2, <1>3, <1>4, <1>5, <1>6, <1>7, DepthAssumption DEF TypeOK, MapRows, Keys

LEMMA LayerKeys ==
    ASSUME IInv, NEW files \in Axes, NEW rows \in Rows, Layer(files, rows)
    PROVE  KeysLive'
<1> DEFINE own == Own(Depth + 1, rows)
           kept == Kept(owner_map, own, Removed(axes, files))
<1>1. rows \in SUBSET Row
  BY RowsAssumption
<1>2. /\ owner_map' = FoldAttributes(owner_map, own, Removed(axes, files))
      /\ axes' = FoldAxes(axes, files)
  BY DEF Layer, FoldOnto, Node
<1>3. ASSUME NEW p \in kept, NEW d \in Partial, p.key[d] # Null
      PROVE  p.key[d] \in Held(axes, d)'
  <2>1. p \in owner_map /\ p.key[d] \notin Removed(axes, files)[d]
    BY KeptRow
  <2>2. p.key[d] \in Held(axes, d)
    BY <1>3, <2>1 DEF IInv, KeysLive
  <2> QED
    BY <1>2, <2>1, <2>2, AxesStep DEF IInv, TypeOK, Held, Dims
<1>4. ASSUME NEW o \in own, NEW d \in Partial, o.key[d] # Null
      PROVE  o.key[d] \in Held(axes, d)'
  <2>1. PICK r \in rows : o.key = Key(r)
    BY <1>1, OwnRows
  <2>2. r[d] = o.key[d] /\ d \in Named(r)
    BY <1>1, <1>4, <2>1 DEF Key, Named, Row, Dims
  <2> QED
    BY <1>2, <2>2 DEF Layer, Accepted, Held
<1> SUFFICES ASSUME NEW m \in owner_map', NEW d \in Partial, m.key[d] # Null
             PROVE  m.key[d] \in Held(axes, d)'
  BY DEF KeysLive, Held
<1>5. CASE m \in kept \/ m \in own
  BY <1>3, <1>4, <1>5
<1>6. ASSUME NEW p \in kept, NEW o \in own, m = [o EXCEPT !.key = Met(o.key, p.key)]
      PROVE  m.key[d] \in Held(axes, d)'
  <2>1. o \in MapRows({Depth + 1})
    BY <1>1, OwnRows
  <2>2. p.key \in Keys
    BY KeptRow DEF IInv, TypeOK, Keys
  <2>3. m.key = Met(o.key, p.key)
    BY <1>6, <2>1 DEF MapRows
  <2>4. m.key[d] = o.key[d] \/ m.key[d] = p.key[d]
    BY <2>1, <2>2, <2>3, MetKey DEF MapRows
  <2> QED
    BY <1>3, <1>4, <2>4
<1> QED
  BY <1>2, <1>5, <1>6, FoldedRow

LEMMA LayerRows ==
    ASSUME IInv, NEW files \in Axes, NEW rows \in Rows, Layer(files, rows)
    PROVE  RowsKnown'
<1>1. /\ written' = Append(written, rows)
      /\ axes' = FoldAxes(axes, files)
      /\ dead' = FoldDead(dead, axes, files)
  BY DEF Layer, FoldOnto, Node
<1>2. Depth \in Nat /\ Depth' = Depth + 1 /\ written \in Seq(SUBSET Row)
  BY <1>1, RowsAssumption DEF IInv, TypeOK, Depth
<1> SUFFICES ASSUME NEW n \in 1 .. Depth', NEW r \in written'[n], NEW d \in Others, r[d] # Null
             PROVE  r[d] \in Held(axes, d)' \cup dead'[d]
  BY DEF RowsKnown, Held
<1>3. CASE n = Depth + 1
  <2>1. r \in rows /\ d \in Named(r)
    BY <1>1, <1>2, <1>3, RowsAssumption DEF Depth, Named, Row, Dims
  <2> QED
    BY <1>1, <2>1 DEF Layer, Accepted, Held
<1>4. CASE n \in 1 .. Depth
  <2>1. r \in written[n]
    BY <1>1, <1>2, <1>4 DEF Depth
  <2>2. r[d] \in Held(axes, d) \cup dead[d]
    BY <1>4, <2>1 DEF IInv, RowsKnown
  <2> QED
    BY <1>1, <2>2, AxesStep, DimsAssumption DEF IInv, TypeOK, Held, Dims
<1> QED
  BY <1>2, <1>3, <1>4

LEMMA Inductive == IInv /\ [Next]_vars => IInv'
<1> SUFFICES ASSUME IInv, [Next]_vars PROVE IInv'
  OBVIOUS
<1>1. ASSUME NEW files \in Axes, NEW rows \in Rows, Layer(files, rows) PROVE IInv'
  BY <1>1, LayerType, LayerKeys, LayerRows DEF IInv
<1>2. ASSUME NEW files \in Axes, NEW rows \in Rows, LayerRefused(files, rows) PROVE IInv'
  BY <1>2 DEF LayerRefused, IInv, TypeOK, KeysLive, RowsKnown, Held, Depth
<1>3. ASSUME NEW n \in 1 .. MaxDepth, Materialise(n) PROVE IInv'
  <2>1. DOMAIN caches' \subseteq 1 .. Depth
    BY <1>3 DEF Materialise, IInv, TypeOK
  <2> QED
    BY <1>3, <2>1 DEF Materialise, IInv, TypeOK, KeysLive, RowsKnown, Held, Depth
<1>4. CASE UNCHANGED vars
  BY <1>4 DEF vars, IInv, TypeOK, KeysLive, RowsKnown, Held, Depth
<1> QED
  BY <1>1, <1>2, <1>3, <1>4 DEF Next

LEMMA Initially == Init => IInv
<1> SUFFICES ASSUME Init PROVE IInv
  OBVIOUS
<1>1. Depth = 0 /\ written \in Seq(SUBSET Row) /\ Len(axis_files) = 0
  BY DEF Init, Depth
<1>2. \A d \in Dims : Held(axes, d) = {} /\ dead[d] = {}
  BY DEF Init, NoAxes, NoneDead, Held
<1>3. DOMAIN caches \subseteq 1 .. Depth /\ owner_map = {} /\ refused = FALSE
  BY DEF Init
<1>4. TypeOK
  <2>1. 0 <= MaxDepth
    BY DepthAssumption
  <2> QED
    BY <1>1, <1>2, <1>3, <2>1 DEF TypeOK
<1>5. KeysLive /\ RowsKnown
  BY <1>1, <1>3 DEF KeysLive, RowsKnown
<1> QED
  BY <1>4, <1>5 DEF IInv

LEMMA Invariant == Spec => []IInv
  BY Initially, Inductive, PTL DEF Spec

-----------------------------------------------------------------------------
(* The theorems.                                                           *)

\* The fold keeps its state well typed, for every schema and path: each map row
\* is owned by a layer of the path, and no live label is dead (fold_attributes,
\* resolve_coords).
THEOREM TypeCorrect == Spec => []TypeOK
  BY Invariant, PTL DEF IInv

\* A resolved row is owned at its map row's key.
LEMMA ResolvedRow ==
    ASSUME TypeOK, NEW j \in Resolved(owner_map, written, dead)
    PROVE  /\ \A d \in Others : j.at[d] \notin dead[d]
           /\ DOMAIN j.at = Dims
           /\ \E m \in owner_map :
                \E r \in written[m.layer] :
                  /\ \A d \in Partial : j.at[d] = m.key[d]
                  /\ \A d \in Others : j.at[d] = r[d]
<1>1. /\ j \in UNION {Owned(m, written[m.layer]) : m \in owner_map}
      /\ \A d \in Others : j.at[d] \notin dead[d]
  BY DEF Resolved, Living, MostSpecific
<1>2. PICK m \in owner_map : j \in Owned(m, written[m.layer])
  BY <1>1
<1>3. PICK r \in {s \in written[m.layer] : \A d \in Partial : s[d] \in Stored(m, d)} :
          j = [at |-> [d \in Dims |-> IF d \in Partial /\ r[d] = Null THEN m.key[d] ELSE r[d]],
               layer |-> m.layer, row |-> r]
  BY <1>2 DEF Owned
<1>4. \A d \in Partial : r[d] = m.key[d] \/ r[d] = Null
  BY <1>3 DEF Stored
<1> QED
  BY <1>1, <1>3, <1>4, DimsAssumption DEF Dims

\* Whatever labels layers remove and add again, no key of the owner map and no
\* row a read returns names a label the axes lack (fold_attributes, _living).
THEOREM OnlyLiveLabelsRead == Spec => []OnlyLiveLabels
<1>1. ASSUME IInv PROVE OnlyLiveLabels
  <2>1. ASSUME NEW m \in owner_map, NEW d \in Named(m.key) PROVE m.key[d] \in Held(axes, d)
    <3>1. m.key \in Keys
      BY <1>1 DEF IInv, TypeOK, Keys
    <3> QED
      BY <1>1, <3>1 DEF IInv, KeysLive, Named, Keys
  <2>2. ASSUME NEW j \in Resolved(owner_map, written, dead), NEW d \in Named(j.at)
        PROVE  j.at[d] \in Held(axes, d)
    <3>1. PICK m \in owner_map : \E s \in written[m.layer] :
            /\ \A e \in Partial : j.at[e] = m.key[e]
            /\ \A e \in Others : j.at[e] = s[e]
      BY <1>1, ResolvedRow DEF IInv
    <3>2. PICK r \in written[m.layer] :
            /\ \A e \in Partial : j.at[e] = m.key[e]
            /\ \A e \in Others : j.at[e] = r[e]
      BY <3>1
    <3>3. d \in Dims /\ j.at[d] # Null
      BY <1>1, ResolvedRow DEF IInv, Named
    <3>4. CASE d \in Partial
      BY <1>1, <3>2, <3>3, <3>4 DEF IInv, KeysLive
    <3>5. CASE d \in Others
      <4>1. m.layer \in 1 .. Depth
        BY <1>1 DEF IInv, TypeOK
      <4>2. j.at[d] \notin dead[d]
        BY <1>1, <3>5, ResolvedRow DEF IInv
      <4> QED
        BY <1>1, <3>2, <3>3, <3>5, <4>1, <4>2 DEF IInv, RowsKnown
    <3> QED
      BY <3>3, <3>4, <3>5 DEF Dims
  <2> QED
    BY <2>1, <2>2 DEF OnlyLiveLabels
<1> QED
  BY <1>1, Invariant, PTL

-----------------------------------------------------------------------------
(* Caches.  The path's nodes, each folded onto the one above it, are what  *)
(* every cache and every read of one holds.                                *)

\* The nodes of the path down to depth n.
Nodes(h, n) ==
    /\ h[0] = NoCache
    /\ \A k \in 1 .. n : h[k] = FoldOnto(h[k - 1], k, axis_files[k], written[k])

CInv ==
    /\ axis_files \in Seq(Axes)
    /\ \E h : /\ Nodes(h, Depth)
              /\ h[Depth] = Node
              /\ \A n \in DOMAIN caches : caches[n] = h[n]

LEMMA BaseIs ==
    ASSUME TypeOK, NEW n \in Nat
    PROVE  Base(n) = 0 \/ (Base(n) \in DOMAIN caches /\ Base(n) \in 1 .. n - 1)
<1> DEFINE above == {k \in DOMAIN caches : k < n}
<1>1. CASE above = {}
  BY <1>1 DEF Base
<1>2. CASE above # {}
  <2>1. \A k \in above : k \in Nat /\ k <= n /\ k >= 1
    BY DEF TypeOK
  <2>2. \E k \in above : \A j \in above : j <= k
    BY <1>2, <2>1, Greatest
  <2>3. Base(n) \in above
    BY <1>2, <2>2 DEF Base, Deepest
  <2> QED
    BY <2>1, <2>3
<1> QED
  BY <1>1, <1>2

\* Whichever cache a fold starts from, it gives the node.
LEMMA FoldedIs ==
    ASSUME TypeOK, NEW h, NEW n \in 0 .. Depth, Nodes(h, Depth),
           \A k \in DOMAIN caches : caches[k] = h[k]
    PROVE  Folded(n) = h[n]
<1>1. n \in Nat /\ Depth \in Nat
  BY DEF TypeOK, Depth
<1>2. PICK base \in 0 .. n : /\ base = Base(n)
                             /\ base = 0 \/ base \in DOMAIN caches
  BY <1>1, BaseIs
<1>3. h[base] = IF base = 0 THEN NoCache ELSE caches[base]
  BY <1>2 DEF Nodes
<1>4. \A k \in base + 1 .. n : h[k] = FoldOnto(h[k - 1], k, axis_files[k], written[k])
  BY <1>1 DEF Nodes
<1> DEFINE Is(f) == f = [k \in base .. n |-> IF k = base THEN (IF base = 0 THEN NoCache ELSE caches[base])
                                             ELSE FoldOnto(f[k - 1], k, axis_files[k], written[k])]
<1>5. PICK g : g = [k \in base .. n |-> h[k]]
  OBVIOUS
<1>6. Is(g)
  <2>1. \A k \in base .. n : k # base => k \in base + 1 .. n /\ k - 1 \in base .. n
    BY <1>1
  <2>2. \A k \in base .. n : g[k] = IF k = base THEN (IF base = 0 THEN NoCache ELSE caches[base])
                                    ELSE FoldOnto(g[k - 1], k, axis_files[k], written[k])
    BY <1>3, <1>4, <1>5, <2>1
  <2> QED
    BY <1>5, <2>2
<1>7. PICK f : f = CHOOSE x : Is(x)
  OBVIOUS
<1>8. Is(f)
  BY <1>6, <1>7
<1>9. Folded(n) = f[n]
  BY <1>2, <1>7 DEF Folded
<1>10. f[n] = h[n]
  <2> DEFINE S == {k \in base .. n : f[k] # h[k]}
  <2>1. \A k \in base .. n : f[k] = IF k = base THEN h[base]
                                    ELSE FoldOnto(f[k - 1], k, axis_files[k], written[k])
    BY <1>3, <1>8
  <2>2. SUFFICES ASSUME S # {} PROVE FALSE
    BY <1>1
  <2>3. PICK m \in S : \A k \in S : m <= k
    <3>1. S \in SUBSET Nat
      BY <1>1
    <3> HIDE DEF S
    <3> QED
      BY <2>2, <3>1, Least
  <2>4. m # base
    BY <2>1, <1>1
  <2>5. m - 1 \in base .. n /\ m - 1 \notin S /\ m \in base + 1 .. n /\ m \in base .. n
    BY <1>1, <2>3, <2>4
  <2>6. f[m - 1] = h[m - 1] /\ f[m] # h[m]
    BY <2>3, <2>5
  <2>7. f[m] = FoldOnto(f[m - 1], m, axis_files[m], written[m])
    BY <2>1, <2>4, <2>5
  <2> QED
    BY <1>4, <2>5, <2>6, <2>7
<1> QED
  BY <1>9, <1>10

LEMMA CachesLayer ==
    ASSUME IInv, CInv, NEW files \in Axes, NEW rows \in Rows, Layer(files, rows)
    PROVE  CInv'
<1>1. /\ axis_files' = Append(axis_files, files)
      /\ written' = Append(written, rows)
      /\ Node' = FoldOnto(Node, Depth + 1, files, rows)
      /\ caches' = caches
  BY DEF Layer, FoldOnto, Node
<1>2. Depth \in Nat /\ Depth' = Depth + 1 /\ Len(axis_files) = Depth /\ axis_files \in Seq(Axes)
  BY <1>1, RowsAssumption DEF IInv, TypeOK, CInv, Depth
<1>3. PICK h : /\ Nodes(h, Depth)
               /\ h[Depth] = Node
               /\ \A n \in DOMAIN caches : caches[n] = h[n]
  BY DEF CInv
<1>4. PICK g : g = [k \in 0 .. Depth + 1 |-> IF k <= Depth THEN h[k] ELSE Node']
  OBVIOUS
<1>5. \A k \in 1 .. Depth : axis_files'[k] = axis_files[k] /\ written'[k] = written[k]
  BY <1>1, <1>2 DEF IInv, TypeOK, Depth
<1>6. axis_files'[Depth + 1] = files /\ written'[Depth + 1] = rows
  BY <1>1, <1>2 DEF IInv, TypeOK, Depth
<1>7. /\ \A k \in 0 .. Depth : g[k] = h[k]
      /\ g[Depth + 1] = Node'
  BY <1>2, <1>4
<1>8. \A k \in 1 .. Depth + 1 : g[k] = FoldOnto(g[k - 1], k, axis_files'[k], written'[k])
  <2> SUFFICES ASSUME NEW k \in 1 .. Depth + 1
               PROVE  g[k] = FoldOnto(g[k - 1], k, axis_files'[k], written'[k])
    OBVIOUS
  <2>1. CASE k = Depth + 1
    <3>1. k - 1 = Depth /\ g[k - 1] = Node
      BY <1>2, <1>3, <1>7, <2>1
    <3> QED
      BY <1>1, <1>6, <1>7, <2>1, <3>1
  <2>2. CASE k # Depth + 1
    <3>1. k \in 1 .. Depth /\ k \in 0 .. Depth /\ k - 1 \in 0 .. Depth
      BY <1>2, <2>2
    <3>2. h[k] = FoldOnto(h[k - 1], k, axis_files[k], written[k])
      BY <1>3, <3>1 DEF Nodes
    <3> QED
      BY <1>5, <1>7, <3>1, <3>2
  <2> QED
    BY <2>1, <2>2
<1>9. g[0] = NoCache
  BY <1>2, <1>3, <1>7 DEF Nodes
<1>10. \A n \in DOMAIN caches' : caches'[n] = g[n]
  BY <1>1, <1>2, <1>3, <1>7 DEF IInv, TypeOK
<1>11. axis_files' \in Seq(Axes)
  BY <1>1, <1>2
<1>12. Nodes(g, Depth)' /\ g[Depth'] = Node'
  BY <1>2, <1>7, <1>8, <1>9 DEF Nodes
<1> QED
  BY <1>10, <1>11, <1>12 DEF CInv

LEMMA CachesInductive == IInv /\ CInv /\ [Next]_vars => CInv'
<1> SUFFICES ASSUME IInv, CInv, [Next]_vars PROVE CInv'
  OBVIOUS
<1>1. ASSUME NEW files \in Axes, NEW rows \in Rows, Layer(files, rows) PROVE CInv'
  BY <1>1, CachesLayer
<1>2. ASSUME UNCHANGED <<axis_files, written, owner_map, axes, dead>>,
             \A h : /\ Nodes(h, Depth)
                    /\ \A n \in DOMAIN caches : caches[n] = h[n]
                    => \A n \in DOMAIN caches' : caches'[n] = h[n]
      PROVE  CInv'
  <2>1. Depth' = Depth /\ Node' = Node
    BY <1>2 DEF Depth, Node
  <2>2. PICK h : /\ Nodes(h, Depth)
                 /\ h[Depth] = Node
                 /\ \A n \in DOMAIN caches : caches[n] = h[n]
    BY DEF CInv
  <2>3. Nodes(h, Depth)'
    BY <1>2, <2>1, <2>2 DEF Nodes
  <2> QED
    BY <1>2, <2>1, <2>2, <2>3 DEF CInv
<1>3. ASSUME NEW files \in Axes, NEW rows \in Rows, LayerRefused(files, rows) PROVE CInv'
  BY <1>2, <1>3 DEF LayerRefused
<1>4. ASSUME NEW n \in 1 .. MaxDepth, Materialise(n) PROVE CInv'
  <2>1. ASSUME NEW h, Nodes(h, Depth), \A k \in DOMAIN caches : caches[k] = h[k],
               NEW k \in DOMAIN caches'
        PROVE  caches'[k] = h[k]
    <3>1. n \in 0 .. Depth /\ caches' = [i \in DOMAIN caches \cup {n} |->
                                          IF i = n THEN Cached(n) ELSE caches[i]]
      BY <1>4 DEF Materialise, IInv, TypeOK, Depth
    <3>2. Cached(n) = h[n]
      BY <2>1, <3>1, FoldedIs DEF Cached, IInv
    <3> QED
      BY <2>1, <3>1, <3>2
  <2> QED
    BY <1>2, <1>4, <2>1 DEF Materialise
<1>5. CASE UNCHANGED vars
  BY <1>2, <1>5 DEF vars
<1> QED
  BY <1>1, <1>3, <1>4, <1>5 DEF Next

LEMMA CachesInitially == Init => CInv
<1> SUFFICES ASSUME Init PROVE CInv
  OBVIOUS
<1>1. PICK h : h = [k \in {0} |-> NoCache]
  OBVIOUS
<1>2. Depth = 0 /\ axis_files \in Seq(Axes) /\ DOMAIN caches = {}
  BY DEF Init, Depth
<1>3. h[Depth] = Node
  BY <1>1, <1>2 DEF Init, Node, NoCache
<1>4. Nodes(h, Depth)
  BY <1>1, <1>2 DEF Nodes
<1> QED
  BY <1>2, <1>3, <1>4 DEF CInv

\* Whichever nodes of the path are materialised, in whatever order and from
\* whichever caches, a read of the deepest node that starts from the deepest
\* cache above it sees what the whole fold sees (Revision.materialise,
\* _base_and_above).
THEOREM CachesAreTransparent == Spec => []CachesChangeNothing
<1>1. ASSUME IInv, CInv PROVE CachesChangeNothing
  <2>1. PICK h : /\ Nodes(h, Depth)
                 /\ h[Depth] = Node
                 /\ \A n \in DOMAIN caches : caches[n] = h[n]
    BY <1>1 DEF CInv
  <2>2. Depth \in 0 .. Depth
    BY <1>1 DEF IInv, TypeOK, Depth
  <2> QED
    BY <1>1, <2>1, <2>2, FoldedIs DEF IInv, CachesChangeNothing
<1> QED
  BY <1>1, CachesInitially, CachesInductive, Invariant, Initially, PTL DEF Spec

-----------------------------------------------------------------------------
(***************************************************************************)
(* What reads get out of an owner map, for every schema, path and category.*)
(* The flags read off it tell every dim the rows it resolves to name or    *)
(* leave NULL: an overlap row carries its layer's flags only, and the      *)
(* parent row whose labels it names too is still in the map to tell of     *)
(* them.  And where the broadcast rule finds a row at all, it is the       *)
(* deepest layer's most specific one; it finds one wherever no rows cross, *)
(* which up to three dims of `partial`, or one and filled layers, keep so. *)
(***************************************************************************)

\* The key a map row's rows were written with: an overlap row has it extended.
AsWritten(m) == [d \in Partial |-> IF d \in m.varies THEN m.key[d] ELSE Null]

\* The flags of a map row are those of the rows behind it in its layer.
Flagged(m, rows) ==
    /\ \A d \in Partial : d \in m.varies => m.key[d] # Null /\ d \notin m.broadcast
    /\ \A r \in rows : Key(r) = AsWritten(m) =>
         \A d \in Dims : IF r[d] = Null THEN d \in m.broadcast ELSE d \in m.varies

FlagsAsWritten == \A m \in owner_map : Flagged(m, written[m.layer])

\* The labels of key k that no row of the map varies over, at k or above it.
Told(map, k) ==
    \A d \in Partial : k[d] # Null =>
        \E n \in map : d \in n.varies /\ \A e \in Partial : n.key[e] = Null \/ n.key[e] = k[e]

NamesTold == \A m \in owner_map : Told(owner_map, m.key)

FInv == IInv /\ FlagsAsWritten /\ NamesTold

-----------------------------------------------------------------------------
LEMMA OwnFlagged ==
    ASSUME NEW layer, NEW rows \in SUBSET Row, NEW o \in Own(layer, rows)
    PROVE  /\ Flagged(o, rows)
           /\ \A d \in Partial : o.key[d] # Null => d \in o.varies
<1>1. PICK s \in rows :
          o = [key |-> Key(s), layer |-> layer,
               varies |-> {d \in Dims : \E r \in rows : Key(r) = Key(s) /\ r[d] # Null},
               broadcast |-> {d \in Dims : \E r \in rows : Key(r) = Key(s) /\ r[d] = Null}]
  BY DEF Own
<1>2. ASSUME NEW r \in rows, Key(r) = Key(s), NEW d \in Partial PROVE r[d] = s[d]
  BY <1>2 DEF Key
<1>3. \A d \in Partial : o.key[d] = s[d] /\ d \in Dims
  BY <1>1 DEF Key, Dims
<1>4. \A d \in Partial : (d \in o.varies <=> s[d] # Null) /\ (d \in o.broadcast <=> s[d] = Null)
  BY <1>1, <1>2, <1>3
<1>5. AsWritten(o) = Key(s)
  BY <1>3, <1>4 DEF AsWritten, Key
<1>6. \A r \in rows : Key(r) = AsWritten(o) =>
        \A d \in Dims : IF r[d] = Null THEN d \in o.broadcast ELSE d \in o.varies
  BY <1>1, <1>5
<1> QED
  BY <1>3, <1>4, <1>6 DEF Flagged

\* A row extended to a longer key has the flags of the rows behind it still.
LEMMA Extended ==
    ASSUME NEW o, NEW m, NEW rows, Flagged(o, rows),
           m.varies = o.varies, m.broadcast = o.broadcast,
           \A d \in Partial : o.key[d] # Null => m.key[d] = o.key[d]
    PROVE  Flagged(m, rows)
<1>1. AsWritten(m) = AsWritten(o)
  BY DEF AsWritten, Flagged
<1> QED
  BY <1>1 DEF Flagged

\* A parent row that tells of a kept row's label is kept: what removes or covers
\* it would remove or cover the other too.
LEMMA TellerKept ==
    ASSUME NEW own, NEW removed, NEW parent, NEW p \in Kept(parent, own, removed),
           NEW n \in parent, p.key \in Keys, n.key \in Keys,
           \A o \in own : o.key \in Keys,
           \A d \in Partial : Null \notin removed[d],
           \A e \in Partial : n.key[e] = Null \/ n.key[e] = p.key[e]
    PROVE  n \in Kept(parent, own, removed)
<1>1. \A d \in Partial : n.key[d] \notin removed[d]
  BY DEF Kept
<1>2. ASSUME NEW o \in own, Reaches(o.key, n.key) PROVE FALSE
  <2>1. Reaches(o.key, p.key)
    BY <1>2 DEF Reaches, Named, Keys
  <2> QED
    BY <2>1 DEF Kept
<1> QED
  BY <1>1, <1>2 DEF Kept

LEMMA LayerFlags ==
    ASSUME FInv, NEW files \in Axes, NEW rows \in Rows, Layer(files, rows)
    PROVE  FlagsAsWritten' /\ NamesTold'
<1> DEFINE own == Own(Depth + 1, rows)
           removed == Removed(axes, files)
           kept == Kept(owner_map, own, removed)
<1>1. rows \in SUBSET Row
  BY RowsAssumption
<1>2. /\ written' = Append(written, rows)
      /\ owner_map' = FoldAttributes(owner_map, own, removed)
  BY DEF Layer, FoldOnto, Node
<1>3. Depth \in Nat /\ written \in Seq(SUBSET Row) /\ Depth = Len(written)
  BY DEF FInv, IInv, TypeOK, Depth
<1>4. written'[Depth + 1] = rows /\ \A k \in 1 .. Depth : written'[k] = written[k]
  BY <1>1, <1>2, <1>3
<1>5. \A o \in own : /\ o \in MapRows({Depth + 1})
                     /\ Flagged(o, rows)
                     /\ \A d \in Partial : o.key[d] # Null => d \in o.varies
  BY <1>1, OwnRows, OwnFlagged
<1>6. \A p \in kept : p \in owner_map /\ p.key \in Keys /\ p.layer \in 1 .. Depth
  BY KeptRow DEF FInv, IInv, TypeOK, Keys
<1>7. \A p \in kept : Flagged(p, written'[p.layer])
  BY <1>4, <1>6 DEF FInv, FlagsAsWritten
<1>8. \A o \in own : o.layer = Depth + 1 /\ Flagged(o, written'[o.layer])
  BY <1>4, <1>5 DEF MapRows
<1>9. \A d \in Partial : Null \notin removed[d]
  BY NullAssumption DEF FInv, IInv, TypeOK, Removed, Held, Dims
<1>10. kept \subseteq owner_map' /\ own \subseteq owner_map'
  BY <1>2 DEF FoldAttributes
<1>11. ASSUME NEW p \in kept, NEW d \in Partial, p.key[d] # Null
       PROVE  \E n \in kept : d \in n.varies /\ \A e \in Partial : n.key[e] = Null \/ n.key[e] = p.key[e]
  <2>1. PICK n \in owner_map :
          d \in n.varies /\ \A e \in Partial : n.key[e] = Null \/ n.key[e] = p.key[e]
    BY <1>6, <1>11 DEF FInv, NamesTold, Told
  <2>2. n.key \in Keys
    BY DEF FInv, IInv, TypeOK, Keys
  <2>3. \A o \in own : o.key \in Keys
    BY <1>5 DEF MapRows
  <2>4. n \in kept
    BY <1>6, <1>9, <2>1, <2>2, <2>3, TellerKept
  <2> QED
    BY <2>1, <2>4
<1>12. ASSUME NEW o \in own, NEW d \in Partial, o.key[d] # Null
       PROVE  d \in o.varies
  BY <1>5, <1>12
<1>13. ASSUME NEW m \in owner_map' PROVE Flagged(m, written'[m.layer]) /\ Told(owner_map', m.key)
  <2>1. CASE m \in kept
    <3>1. Told(owner_map', m.key)
      BY <1>10, <1>11, <2>1 DEF Told
    <3> QED
      BY <1>7, <2>1, <3>1
  <2>2. CASE m \in own
    <3>1. Told(owner_map', m.key)
      BY <1>10, <1>12, <2>2 DEF Told
    <3> QED
      BY <1>8, <2>2, <3>1
  <2>3. ASSUME NEW p \in kept, NEW o \in own, m = [o EXCEPT !.key = Met(o.key, p.key)],
               \A d \in Partial : o.key[d] # Null /\ p.key[d] # Null => o.key[d] = p.key[d]
        PROVE  Flagged(m, written'[m.layer]) /\ Told(owner_map', m.key)
    <3>1. /\ Flagged(m, rows)
          /\ m.layer = o.layer
          /\ \A d \in Partial :
               m.key[d] = IF o.key[d] = Null THEN p.key[d] ELSE o.key[d]
      <4>1. o \in MapRows({Depth + 1}) /\ Flagged(o, rows) /\ p.key \in Keys
        BY <1>5, <1>6
      <4>2. /\ m.key = Met(o.key, p.key)
            /\ m.varies = o.varies /\ m.broadcast = o.broadcast /\ m.layer = o.layer
        BY <2>3, <4>1 DEF MapRows
      <4>3. \A d \in Partial : m.key[d] = IF o.key[d] = Null THEN p.key[d] ELSE o.key[d]
        BY <4>1, <4>2 DEF MapRows, Keys, Met
      <4>4. Flagged(m, rows)
        BY <4>1, <4>2, <4>3, Extended
      <4> QED
        BY <4>2, <4>3, <4>4
    <3>2. Flagged(m, written'[m.layer])
      BY <1>4, <1>8, <3>1
    <3>3. ASSUME NEW d \in Partial, o.key[d] # Null
          PROVE  \E n \in owner_map' :
                   d \in n.varies /\ \A e \in Partial : n.key[e] = Null \/ n.key[e] = m.key[e]
      BY <1>10, <1>12, <3>1, <3>3
    <3>4. ASSUME NEW d \in Partial, p.key[d] # Null
          PROVE  \E n \in owner_map' :
                   d \in n.varies /\ \A e \in Partial : n.key[e] = Null \/ n.key[e] = m.key[e]
      <4>1. PICK n \in kept :
              d \in n.varies /\ \A e \in Partial : n.key[e] = Null \/ n.key[e] = p.key[e]
        BY <1>11, <3>4
      <4>2. \A e \in Partial : p.key[e] = Null \/ p.key[e] = m.key[e]
        BY <2>3, <3>1
      <4> QED
        BY <1>10, <4>1, <4>2
    <3> QED
      BY <3>1, <3>2, <3>3, <3>4 DEF Told
  <2>4. ASSUME m \notin kept, m \notin own
        PROVE  \E p \in kept, o \in own :
                 /\ m = [o EXCEPT !.key = Met(o.key, p.key)]
                 /\ \A d \in Partial : o.key[d] # Null /\ p.key[d] # Null => o.key[d] = p.key[d]
    <3>1. m \in Overlaps(kept, own)
      BY <1>2, <2>4 DEF FoldAttributes
    <3>2. PICK po \in Pairs(kept, own) : m = [po[2] EXCEPT !.key = Met(po[2].key, po[1].key)]
      BY <3>1 DEF Overlaps
    <3>3. po[1] \in kept /\ po[2] \in own /\ Meet(po[1].key, po[2].key)
      BY DEF Pairs
    <3>4. po[1].key \in Keys /\ po[2].key \in Keys
      BY <1>5, <1>6, <3>3 DEF MapRows
    <3>5. \A d \in Partial : po[2].key[d] # Null /\ po[1].key[d] # Null => po[2].key[d] = po[1].key[d]
      BY <3>3, <3>4 DEF Meet, Named, Keys
    <3> QED
      BY <3>2, <3>3, <3>5
  <2> QED
    BY <2>1, <2>2, <2>3, <2>4
<1> QED
  BY <1>13 DEF FlagsAsWritten, NamesTold, Told, Flagged, AsWritten

LEMMA FlagsInductive == FInv /\ [Next]_vars => FInv'
<1> SUFFICES ASSUME FInv, [Next]_vars PROVE FInv'
  OBVIOUS
<1>1. IInv'
  BY Inductive DEF FInv
<1>2. ASSUME NEW files \in Axes, NEW rows \in Rows, Layer(files, rows)
      PROVE  FlagsAsWritten' /\ NamesTold'
  BY <1>2, LayerFlags
<1>3. ASSUME UNCHANGED <<owner_map, written>> PROVE FlagsAsWritten' /\ NamesTold'
  <2>1. FlagsAsWritten /\ NamesTold
    BY DEF FInv
  <2>2. FlagsAsWritten'
    BY <1>3, <2>1 DEF FlagsAsWritten, Flagged, AsWritten
  <2>3. NamesTold'
    BY <1>3, <2>1 DEF NamesTold, Told
  <2> QED
    BY <2>2, <2>3
<1>4. \/ \E files \in Axes, rows \in Rows : Layer(files, rows)
      \/ UNCHANGED <<owner_map, written>>
  BY DEF Next, LayerRefused, Materialise, vars
<1> QED
  BY <1>1, <1>2, <1>3, <1>4 DEF FInv

LEMMA FlagsInvariant == Spec => []FInv
<1>1. Init => FInv
  BY Initially DEF FInv, Init, FlagsAsWritten, NamesTold
<1> QED
  BY <1>1, FlagsInductive, PTL DEF Spec

-----------------------------------------------------------------------------
\* A row read comes of a map row, and of a row written with the key it has there.
LEMMA RowBehind ==
    ASSUME FInv, NEW j \in Resolved(owner_map, written, dead)
    PROVE  \E m \in owner_map : \E r \in written[m.layer] :
              /\ Key(r) = AsWritten(m)
              /\ \A d \in Partial : j.at[d] = m.key[d]
              /\ \A d \in Others : j.at[d] = r[d]
<1>1. PICK m \in owner_map : j \in Owned(m, written[m.layer])
  BY DEF Resolved, Living, MostSpecific
<1>2. PICK r \in {s \in written[m.layer] : \A d \in Partial : s[d] \in Stored(m, d)} :
          j = [at |-> [d \in Dims |-> IF d \in Partial /\ r[d] = Null THEN m.key[d] ELSE r[d]],
               layer |-> m.layer, row |-> r]
  BY <1>1 DEF Owned
<1>3. \A d \in Partial : r[d] = IF d \in m.varies THEN m.key[d] ELSE Null
  <2> SUFFICES ASSUME NEW d \in Partial PROVE r[d] = IF d \in m.varies THEN m.key[d] ELSE Null
    OBVIOUS
  <2>1. r[d] \in Stored(m, d)
    BY <1>2
  <2>2. d \in m.varies => d \notin m.broadcast
    BY DEF FInv, FlagsAsWritten, Flagged
  <2> QED
    BY <2>1, <2>2 DEF Stored
<1>4. Key(r) = AsWritten(m)
  BY <1>3 DEF Key, AsWritten
<1>5. \A d \in Partial : j.at[d] = m.key[d]
  BY <1>2, <1>3 DEF Dims
<1>6. \A d \in Others : j.at[d] = r[d]
  BY <1>2, DimsAssumption DEF Dims
<1> QED
  BY <1>2, <1>4, <1>5, <1>6

\* Rows read, over the record and over the labels of any category, name only dims
\* the flags say vary, and leave NULL only those they say are broadcast
\* (Fold.flags, over a map folded by fold_attributes).
THEOREM FlagsComplete == Spec => []FlagsTellRows
<1>1. ASSUME FInv, NEW map \in SUBSET owner_map, NEW j \in Resolved(owner_map, written, dead),
             \A m \in owner_map : (\A e \in Partial : m.key[e] = Null \/ m.key[e] = j.at[e]) => m \in map
      PROVE  Named(j.at) \subseteq Flags(map).varies /\ Dims \ Named(j.at) \subseteq Flags(map).broadcast
  <2>1. PICK m \in owner_map : \E s \in written[m.layer] :
            /\ Key(s) = AsWritten(m)
            /\ \A d \in Partial : j.at[d] = m.key[d]
            /\ \A d \in Others : j.at[d] = s[d]
    BY <1>1, RowBehind
  <2>2. PICK r \in written[m.layer] :
            /\ Key(r) = AsWritten(m)
            /\ \A d \in Partial : j.at[d] = m.key[d]
            /\ \A d \in Others : j.at[d] = r[d]
    BY <2>1
  <2>3. m \in map /\ DOMAIN j.at = Dims
    BY <1>1, <2>2, ResolvedRow DEF FInv, IInv
  <2>4. \A d \in Dims : IF r[d] = Null THEN d \in m.broadcast ELSE d \in m.varies
    BY <1>1, <2>2 DEF FInv, FlagsAsWritten, Flagged
  <2>5. ASSUME NEW d \in Dims, j.at[d] # Null PROVE \E n \in map : d \in n.varies
    <3>1. CASE d \in Partial
      <4>1. PICK n \in owner_map :
              d \in n.varies /\ \A e \in Partial : n.key[e] = Null \/ n.key[e] = m.key[e]
        BY <1>1, <2>2, <2>5, <3>1 DEF FInv, NamesTold, Told
      <4> QED
        BY <1>1, <2>2, <4>1
    <3>2. CASE d \in Others
      BY <2>2, <2>3, <2>4, <2>5, <3>2 DEF Dims
    <3> QED
      BY <3>1, <3>2 DEF Dims
  <2>6. ASSUME NEW d \in Dims, j.at[d] = Null PROVE d \in m.broadcast
    <3>1. CASE d \in Partial
      <4>1. d \notin m.varies
        BY <1>1, <2>2, <2>6, <3>1 DEF FInv, FlagsAsWritten, Flagged
      <4>2. r[d] = Null
        BY <2>2, <3>1, <4>1 DEF Key, AsWritten
      <4> QED
        BY <2>4, <4>2
    <3>2. CASE d \in Others
      BY <2>2, <2>4, <2>6, <3>2
    <3> QED
      BY <3>1, <3>2 DEF Dims
  <2> QED
    BY <2>3, <2>5, <2>6 DEF Named, Flags
<1>2. ASSUME FInv PROVE FlagsTellRows
  <2>1. Tell(Flags(owner_map), Resolved(owner_map, written, dead))
    BY <1>1, <1>2 DEF Tell
  <2>2. ASSUME NEW d \in Partial, NEW labels \in SUBSET Held(axes, d)
        PROVE  Tell(FlagsOf(owner_map, d, labels),
                    OfCategory(Resolved(owner_map, written, dead), d, labels))
    <3> SUFFICES ASSUME NEW j \in OfCategory(Resolved(owner_map, written, dead), d, labels)
                 PROVE  /\ Named(j.at) \subseteq FlagsOf(owner_map, d, labels).varies
                        /\ Dims \ Named(j.at) \subseteq FlagsOf(owner_map, d, labels).broadcast
      BY DEF Tell
    <3>1. /\ j \in Resolved(owner_map, written, dead)
          /\ j.at[d] \in labels \/ j.at[d] = Null
          /\ labels # {}
      BY DEF OfCategory
    <3>2. \A m \in owner_map : (\A e \in Partial : m.key[e] = Null \/ m.key[e] = j.at[e]) =>
              m \in OwnedReaching(owner_map, d, labels)
      BY <3>1 DEF OwnedReaching
    <3>3. OwnedReaching(owner_map, d, labels) \in SUBSET owner_map
      BY DEF OwnedReaching
    <3> QED
      BY <1>1, <1>2, <3>1, <3>2, <3>3 DEF FlagsOf
  <2> QED
    BY <2>1, <2>2 DEF FlagsTellRows
<1> QED
  BY <1>2, FlagsInvariant, PTL

-----------------------------------------------------------------------------
(* Which layer answers.                                                    *)

\* The axes are the deepest restatement of each.
AxesLast ==
    \A d \in Partial :
        \/ axes[d] = NoFile /\ \A k \in 1 .. Depth : axis_files[k][d] = NoFile
        \/ \E k \in 1 .. Depth :
             /\ axis_files[k][d] # NoFile
             /\ axes[d] = axis_files[k][d]
             /\ \A j \in 1 .. Depth : axis_files[j][d] # NoFile => j <= k

Layered == \A n \in 1 .. Depth : Ordered(written[n])

\* What is in the map counts, and what counts is in the map under its own key.
Counting == \A m \in owner_map : Counts(m.layer, m.key)
Owning ==
    \A n \in 1 .. Depth : \A r \in written[n] : Counts(n, r) =>
        \E m \in owner_map : m.layer = n /\ m.key = Key(r) /\ AsWritten(m) = Key(r)

\* No row of the map has a deeper one over all of its key.
NoneCovered == \A m, n \in owner_map : m.layer < n.layer => ~ Reaches(n.key, m.key)

\* A key between the one a map row has and the one its rows were written with is
\* owned there too, where its layer wrote a row with it.
Refined ==
    \A m \in owner_map : \A u \in written[m.layer] :
        Reaches(Key(u), m.key) /\ Reaches(AsWritten(m), Key(u)) =>
            \E n \in owner_map : n.key = m.key /\ n.layer = m.layer /\ AsWritten(n) = Key(u)

\* Some row was written with the key a map row was written with.
Written == \A m \in owner_map : \E r \in written[m.layer] : Key(r) = AsWritten(m)

DInv ==
    /\ FInv
    /\ axis_files \in Seq(Axes)
    /\ AxesLast /\ Layered /\ Written
    /\ Counting /\ Owning /\ NoneCovered /\ Refined

\* What a layer does to the state.
LEMMA LayerStep ==
    ASSUME IInv, axis_files \in Seq(Axes),
           NEW files \in Axes, NEW rows \in Rows, Layer(files, rows)
    PROVE  /\ rows \in SUBSET Row /\ Ordered(rows)
           /\ Depth \in Nat /\ Depth' = Depth + 1
           /\ written'[Depth + 1] = rows
           /\ axis_files'[Depth + 1] = files
           /\ \A k \in 1 .. Depth : written'[k] = written[k] /\ axis_files'[k] = axis_files[k]
           /\ axis_files' \in Seq(Axes)
           /\ owner_map' = FoldAttributes(owner_map, Own(Depth + 1, rows), Removed(axes, files))
           /\ axes' = FoldAxes(axes, files)
<1>1. /\ axis_files' = Append(axis_files, files)
      /\ written' = Append(written, rows)
      /\ owner_map' = FoldAttributes(owner_map, Own(Depth + 1, rows), Removed(axes, files))
      /\ axes' = FoldAxes(axes, files)
      /\ Ordered(rows)
  BY DEF Layer, FoldOnto, Node, Accepted
<1>2. rows \in SUBSET Row
  BY RowsAssumption
<1>3. /\ Depth \in Nat /\ written \in Seq(SUBSET Row)
      /\ Depth = Len(written) /\ Depth = Len(axis_files)
  BY DEF IInv, TypeOK, Depth
<1>4. Depth' = Depth + 1 /\ axis_files' \in Seq(Axes)
  BY <1>1, <1>2, <1>3 DEF Depth
<1>5. written'[Depth + 1] = rows /\ \A k \in 1 .. Depth : written'[k] = written[k]
  <2>1. written' = Append(written, rows) /\ written \in Seq(SUBSET Row) /\ rows \in SUBSET Row
    BY <1>1, <1>2, <1>3
  <2>2. Depth = Len(written) /\ Depth \in Nat
    BY <1>3
  <2>3. written'[Depth + 1] = rows
    BY <2>1, <2>2
  <2>4. \A k \in 1 .. Depth : written'[k] = written[k]
    BY <2>1, <2>2
  <2> QED
    BY <2>3, <2>4
<1>6. axis_files'[Depth + 1] = files /\ \A k \in 1 .. Depth : axis_files'[k] = axis_files[k]
  BY <1>1, <1>3
<1> QED
  BY <1>1, <1>2, <1>3, <1>4, <1>5, <1>6

\* The axes stay the deepest restatement of each.
LEMMA LayerAxes ==
    ASSUME DInv, NEW files \in Axes, NEW rows \in Rows, Layer(files, rows)
    PROVE  AxesLast'
<1>1. /\ Depth \in Nat /\ Depth' = Depth + 1
      /\ axis_files'[Depth + 1] = files
      /\ \A k \in 1 .. Depth : axis_files'[k] = axis_files[k]
      /\ axes' = FoldAxes(axes, files)
  BY LayerStep DEF DInv, FInv
<1> SUFFICES ASSUME NEW d \in Partial
             PROVE  \/ axes'[d] = NoFile /\ \A k \in 1 .. Depth' : axis_files'[k][d] = NoFile
                    \/ \E k \in 1 .. Depth' :
                         /\ axis_files'[k][d] # NoFile
                         /\ axes'[d] = axis_files'[k][d]
                         /\ \A j \in 1 .. Depth' : axis_files'[j][d] # NoFile => j <= k
  BY DEF AxesLast
<1>2. CASE files[d] = NoFile
  <2>1. axes'[d] = axes[d]
    BY <1>1, <1>2 DEF FoldAxes, Dims
  <2>2. CASE axes[d] = NoFile /\ \A k \in 1 .. Depth : axis_files[k][d] = NoFile
    BY <1>1, <1>2, <2>1, <2>2
  <2>3. ASSUME NEW k \in 1 .. Depth, axis_files[k][d] # NoFile, axes[d] = axis_files[k][d],
               \A j \in 1 .. Depth : axis_files[j][d] # NoFile => j <= k
        PROVE  \E q \in 1 .. Depth' :
                 /\ axis_files'[q][d] # NoFile
                 /\ axes'[d] = axis_files'[q][d]
                 /\ \A j \in 1 .. Depth' : axis_files'[j][d] # NoFile => j <= q
    BY <1>1, <1>2, <2>1, <2>3
  <2> QED
    BY <2>2, <2>3 DEF DInv, AxesLast
<1>3. CASE files[d] # NoFile
  <2>1. axes'[d] = files[d] /\ Depth + 1 \in 1 .. Depth'
    BY <1>1, <1>3 DEF FoldAxes, Dims
  <2> QED
    BY <1>1, <1>3, <2>1
<1> QED
  BY <1>2, <1>3

\* A set of depths has one deepest, where one is as deep as any.
LEMMA DeepestIs ==
    ASSUME NEW S \in SUBSET Nat, NEW k \in S, \A j \in S : j <= k
    PROVE  Deepest(S) = k
<1>1. Deepest(S) \in S /\ \A j \in S : j <= Deepest(S)
  BY DEF Deepest
<1>2. Deepest(S) <= k /\ k <= Deepest(S) /\ Deepest(S) \in Nat /\ k \in Nat
  BY <1>1
<1> QED
  BY <1>2

LEMMA DeepestOf ==
    ASSUME NEW S \in SUBSET Nat, S # {}, NEW n \in Nat, \A j \in S : j <= n
    PROVE  Deepest(S) \in S
<1>1. PICK k \in S : \A j \in S : j <= k
  BY Greatest
<1> QED
  BY <1>1, DeepestIs

\* What the new layer removes is what the fold drops keys by, and what the layers
\* above it removed they still do.
LEMMA RemovedStep ==
    ASSUME DInv, NEW files \in Axes, NEW rows \in Rows, Layer(files, rows), NEW d \in Partial
    PROVE  /\ \A n : n = Depth + 1 => RemovedAt(n, d)' = Removed(axes, files)[d]
           /\ \A q \in 1 .. Depth : RemovedAt(q, d)' = RemovedAt(q, d)
<1>1. /\ Depth \in Nat /\ Depth' = Depth + 1
      /\ axis_files'[Depth + 1] = files
      /\ \A k \in 1 .. Depth : axis_files'[k] = axis_files[k]
  BY LayerStep DEF DInv, FInv
<1> DEFINE before(q) == {k \in 1 .. q - 1 : axis_files[k][d] # NoFile}
           before1(q) == {k \in 1 .. q - 1 : axis_files'[k][d] # NoFile}
<1>2. \A q \in 1 .. Depth + 1 : before1(q) = before(q)
  BY <1>1
<1>3. ASSUME NEW q \in 1 .. Depth PROVE RemovedAt(q, d)' = RemovedAt(q, d)
  <2>1. RemovedAt(q, d) = IF before(q) = {} \/ axis_files[q][d] = NoFile THEN {}
                          ELSE axis_files[Deepest(before(q))][d] \ axis_files[q][d]
    BY DEF RemovedAt
  <2>2. RemovedAt(q, d)' = IF before1(q) = {} \/ axis_files'[q][d] = NoFile THEN {}
                           ELSE axis_files'[Deepest(before1(q))][d] \ axis_files'[q][d]
    BY DEF RemovedAt
  <2>3. before(q) # {} => Deepest(before(q)) \in 1 .. Depth
    <3> SUFFICES ASSUME before(q) # {} PROVE Deepest(before(q)) \in 1 .. Depth
      OBVIOUS
    <3>1. before(q) \in SUBSET Nat /\ q \in Nat /\ \A k \in before(q) : k <= q /\ k \in 1 .. Depth
      BY <1>1
    <3> HIDE DEF before
    <3> QED
      BY <3>1, DeepestOf
  <2>4. before1(q) = before(q) /\ axis_files'[q] = axis_files[q]
    BY <1>1, <1>2
  <2> HIDE DEF before, before1
  <2> QED
    BY <1>1, <2>1, <2>2, <2>3, <2>4
<1>4. ASSUME NEW n, n = Depth + 1 PROVE RemovedAt(n, d)' = Removed(axes, files)[d]
  <2>1. RemovedAt(n, d)' =
            IF before(n) = {} \/ files[d] = NoFile THEN {}
            ELSE axis_files'[Deepest(before(n))][d] \ files[d]
    <3>1. RemovedAt(n, d)' =
            IF before1(n) = {} \/ axis_files'[n][d] = NoFile THEN {}
            ELSE axis_files'[Deepest(before1(n))][d] \ axis_files'[n][d]
      BY DEF RemovedAt
    <3>2. before1(n) = before(n)
      BY <1>1, <1>2, <1>4
    <3> HIDE DEF before, before1
    <3> QED
      BY <1>1, <1>4, <3>1, <3>2
  <2>2. before(n) = {k \in 1 .. Depth : axis_files[k][d] # NoFile}
    BY <1>1, <1>4
  <2>3. CASE axes[d] = NoFile /\ \A k \in 1 .. Depth : axis_files[k][d] = NoFile
    <3>1. before(n) = {}
      BY <2>2, <2>3
    <3> QED
      BY <2>1, <2>3, <3>1 DEF Removed, Held, Dims
  <2>4. ASSUME NEW k \in 1 .. Depth, axis_files[k][d] # NoFile, axes[d] = axis_files[k][d],
               \A j \in 1 .. Depth : axis_files[j][d] # NoFile => j <= k
        PROVE  RemovedAt(n, d)' = Removed(axes, files)[d]
    <3>1. before(n) \in SUBSET Nat /\ k \in before(n) /\ \A j \in before(n) : j <= k
      BY <1>1, <2>2, <2>4
    <3>2. Deepest(before(n)) = k
      <4> HIDE DEF before
      <4> QED
        BY <3>1, DeepestIs
    <3>3. before(n) # {} /\ axis_files'[k] = axis_files[k]
      BY <1>1, <3>1
    <3> HIDE DEF before
    <3> QED
      BY <2>1, <2>4, <3>2, <3>3 DEF Removed, Held, Dims
  <2> QED
    BY <2>3, <2>4 DEF DInv, AxesLast
<1> QED
  BY <1>3, <1>4

\* A key reaches what has its labels.
LEMMA KeyReaches ==
    ASSUME NEW a \in Keys, NEW b
    PROVE  Reaches(a, b) <=> \A d \in Partial : a[d] = Null \/ b[d] = a[d]
  BY DEF Reaches, Named, Keys

LEMMA KeyOfRow ==
    ASSUME NEW r \in Row
    PROVE  Key(r) \in Keys /\ \A d \in Partial : Key(r)[d] = r[d]
  BY DEF Key, Keys, Row, Dims

LEMMA KeyOfKey ==
    ASSUME NEW k \in Keys
    PROVE  Key(k) = k
  BY DEF Key, Keys

LEMMA WrittenKey ==
    ASSUME NEW m, m.key \in Keys
    PROVE  /\ AsWritten(m) \in Keys
           /\ \A d \in Partial : AsWritten(m)[d] = Null \/ AsWritten(m)[d] = m.key[d]
  BY DEF AsWritten, Keys

\* What counted counts on, unless the new layer removes a label of its key or
\* restates it: just what the fold keeps a map row by.
LEMMA CountsStep ==
    ASSUME DInv, NEW files \in Axes, NEW rows \in Rows, Layer(files, rows), NEW k
    PROVE  /\ \A n : n = Depth + 1 => Counts(n, k)'
           /\ \A n \in 1 .. Depth :
                Counts(n, k)' <=> /\ Counts(n, k)
                                  /\ \A d \in Partial : k[d] \notin Removed(axes, files)[d]
                                  /\ ~ \E s \in rows : Reaches(Key(s), Key(k))
<1>1. /\ Depth \in Nat /\ Depth' = Depth + 1
      /\ written'[Depth + 1] = rows
      /\ \A q \in 1 .. Depth : written'[q] = written[q]
  BY LayerStep DEF DInv, FInv
<1>2. \A d \in Partial :
        /\ \A q : q = Depth + 1 => RemovedAt(q, d)' = Removed(axes, files)[d]
        /\ \A q \in 1 .. Depth : RemovedAt(q, d)' = RemovedAt(q, d)
  BY RemovedStep
<1> DEFINE Below(q) == /\ \A d \in Partial : k[d] \notin RemovedAt(q, d)
                       /\ ~ \E s \in written[q] : Reaches(Key(s), Key(k))
           Last == /\ \A d \in Partial : k[d] \notin Removed(axes, files)[d]
                   /\ ~ \E s \in rows : Reaches(Key(s), Key(k))
<1>3. \A q \in 1 .. Depth : Below(q)' <=> Below(q)
  BY <1>1, <1>2
<1>4. \A q : q = Depth + 1 => (Below(q)' <=> Last)
  BY <1>1, <1>2
<1>5. \A n : /\ Counts(n, k) <=> \A q \in n + 1 .. Depth : Below(q)
             /\ Counts(n, k)' <=> \A q \in n + 1 .. Depth' : Below(q)'
  BY DEF Counts
<1>6. ASSUME NEW n, n = Depth + 1 PROVE Counts(n, k)'
  <2>1. n + 1 .. Depth' = {}
    BY <1>1, <1>6
  <2> QED
    BY <1>5, <2>1
<1>7. ASSUME NEW n \in 1 .. Depth PROVE Counts(n, k)' <=> Counts(n, k) /\ Last
  <2>1. \A q : q \in n + 1 .. Depth' <=> q \in n + 1 .. Depth \/ q = Depth + 1
    BY <1>1
  <2>2. \A q \in n + 1 .. Depth : q \in 1 .. Depth
    BY <1>1
  <2> HIDE DEF Below, Last
  <2> QED
    BY <1>3, <1>4, <1>5, <2>1, <2>2
<1> QED
  BY <1>6, <1>7

\* A row's key counts as the row does, and what a map row was written with counts
\* where its longer key does.
LEMMA CountsKey ==
    ASSUME NEW n, NEW r, NEW k, \A d \in Partial : Key(r)[d] = Key(k)[d]
    PROVE  Counts(n, r) <=> Counts(n, k)
<1>1. \A d \in Partial : r[d] = k[d]
  BY DEF Key
<1>2. Key(r) = Key(k)
  BY <1>1 DEF Key
<1> QED
  BY <1>1, <1>2 DEF Counts

LEMMA CountsShorter ==
    ASSUME IInv, axis_files \in Seq(Axes), NEW n \in Nat,
           NEW k \in Keys, NEW l \in Keys, \A d \in Partial : l[d] = Null \/ l[d] = k[d],
           Counts(n, k)
    PROVE  Counts(n, l)
<1> SUFFICES ASSUME NEW q \in n + 1 .. Depth
             PROVE  /\ \A d \in Partial : l[d] \notin RemovedAt(q, d)
                    /\ ~ \E s \in written[q] : Reaches(Key(s), Key(l))
  BY DEF Counts
<1>1. /\ \A d \in Partial : k[d] \notin RemovedAt(q, d)
      /\ ~ \E s \in written[q] : Reaches(Key(s), Key(k))
  BY DEF Counts
<1>2. ASSUME NEW d \in Partial PROVE Null \notin RemovedAt(q, d)
  <2> DEFINE before == {i \in 1 .. q - 1 : axis_files[i][d] # NoFile}
  <2>1. RemovedAt(q, d) \subseteq IF before = {} THEN {} ELSE axis_files[Deepest(before)][d]
    BY DEF RemovedAt
  <2>2. ASSUME before # {} PROVE Null \notin axis_files[Deepest(before)][d]
    <3>1. Depth \in Nat /\ Depth = Len(axis_files) /\ q \in Nat /\ q <= Depth
      BY DEF IInv, TypeOK, Depth
    <3>2. before \in SUBSET Nat /\ \A j \in before : j <= q /\ j \in 1 .. Len(axis_files)
      BY <3>1
    <3>3. Deepest(before) \in before
      <4> HIDE DEF before
      <4> QED
        BY <2>2, <3>1, <3>2, DeepestOf
    <3>4. axis_files[Deepest(before)] \in Axes /\ axis_files[Deepest(before)][d] # NoFile
      BY <3>2, <3>3
    <3> QED
      BY <3>4, AxesAssumption, NullAssumption DEF Dims
  <2> HIDE DEF before
  <2> QED
    BY <2>1, <2>2
<1>3. \A s : Reaches(Key(s), l) => Reaches(Key(s), k)
  BY DEF Reaches, Named, Key, Keys
<1> QED
  BY <1>1, <1>2, <1>3, KeyOfKey

\* A layer's own map rows: one for each key its rows were written with.
LEMMA OwnAsWritten ==
    ASSUME NEW layer, NEW rows \in SUBSET Row
    PROVE  /\ \A o \in Own(layer, rows) :
                /\ o \in MapRows({layer}) /\ o.layer = layer /\ AsWritten(o) = o.key
                /\ \E r \in rows : o.key = Key(r)
           /\ \A r \in rows : \E o \in Own(layer, rows) : o.key = Key(r)
<1>1. ASSUME NEW o \in Own(layer, rows)
      PROVE  /\ o \in MapRows({layer}) /\ o.layer = layer /\ AsWritten(o) = o.key
             /\ \E r \in rows : o.key = Key(r)
  <2>1. o \in MapRows({layer}) /\ \E r \in rows : o.key = Key(r)
    BY OwnRows
  <2>2. \A d \in Partial : o.key[d] # Null => d \in o.varies
    BY OwnFlagged
  <2>3. AsWritten(o) = o.key
    BY <2>1, <2>2 DEF AsWritten, MapRows, Keys
  <2> QED
    BY <2>1, <2>3 DEF MapRows
<1>2. ASSUME NEW r \in rows PROVE \E o \in Own(layer, rows) : o.key = Key(r)
  <2> DEFINE o == [key |-> Key(r), layer |-> layer,
                   varies |-> {d \in Dims : \E s \in rows : Key(s) = Key(r) /\ s[d] # Null},
                   broadcast |-> {d \in Dims : \E s \in rows : Key(s) = Key(r) /\ s[d] = Null}]
  <2>1. o \in Own(layer, rows)
    BY DEF Own
  <2>2. o.key = Key(r)
    OBVIOUS
  <2> HIDE DEF o
  <2> QED
    BY <2>1, <2>2
<1> QED
  BY <1>1, <1>2

\* m stands where o and p cross.
Crosses(m, o, p) ==
    /\ m.key \in Keys /\ m.layer = o.layer /\ m.varies = o.varies /\ m.broadcast = o.broadcast
    /\ \A d \in Partial : m.key[d] = IF o.key[d] = Null THEN p.key[d] ELSE o.key[d]
    /\ \A d \in Partial : o.key[d] # Null /\ p.key[d] # Null => o.key[d] = p.key[d]
    /\ AsWritten(m) = AsWritten(o)

LEMMA MapStep ==
    ASSUME DInv, NEW files \in Axes, NEW rows \in Rows, Layer(files, rows),
           NEW own, own = Own(Depth + 1, rows),
           NEW kept, kept = Kept(owner_map, own, Removed(axes, files))
    PROVE  /\ kept \subseteq owner_map /\ kept \subseteq owner_map' /\ own \subseteq owner_map'
           /\ \A p \in kept : /\ p.key \in Keys /\ p.layer \in 1 .. Depth
                              /\ \A d \in Partial : p.key[d] \notin Removed(axes, files)[d]
                              /\ ~ \E o \in own : Reaches(o.key, p.key)
           /\ \A m \in owner_map' \ (kept \cup own) : \E p \in kept, o \in own : Crosses(m, o, p)
           /\ \A p \in kept, o \in own :
                Meet(p.key, o.key) /\ ~ Nested(p.key, o.key) => \E m \in owner_map' : Crosses(m, o, p)
<1>1. owner_map' = kept \cup own \cup Overlaps(kept, own)
  BY DEF Layer, FoldOnto, Node, FoldAttributes
<1>2. \A p \in kept : /\ p \in owner_map /\ p.key \in Keys /\ p.layer \in 1 .. Depth
                      /\ \A d \in Partial : p.key[d] \notin Removed(axes, files)[d]
                      /\ ~ \E o \in own : Reaches(o.key, p.key)
  BY DEF Kept, DInv, FInv, IInv, TypeOK, Keys
<1>3. \A o \in own : o \in MapRows({Depth + 1}) /\ AsWritten(o) = o.key
  BY OwnAsWritten, RowsAssumption
<1>4. ASSUME NEW p \in kept, NEW o \in own, Meet(p.key, o.key) \/ Meet(o.key, p.key),
             NEW m, m = [o EXCEPT !.key = Met(o.key, p.key)]
      PROVE  Crosses(m, o, p)
  <2>1. p.key \in Keys /\ o.key \in Keys
    BY <1>2, <1>3 DEF MapRows
  <2>2. /\ m.key = Met(o.key, p.key) /\ m.layer = o.layer
        /\ m.varies = o.varies /\ m.broadcast = o.broadcast
    BY <1>3, <1>4 DEF MapRows
  <2>3. m.key \in Keys /\ \A d \in Partial : m.key[d] = IF o.key[d] = Null THEN p.key[d] ELSE o.key[d]
    BY <2>1, <2>2 DEF Met, Keys
  <2>4. \A d \in Partial : o.key[d] # Null /\ p.key[d] # Null => o.key[d] = p.key[d]
    BY <1>4, <2>1 DEF Meet, Named, Keys
  <2>5. AsWritten(m) = AsWritten(o)
    <3>1. \A d \in Partial : d \in o.varies => m.key[d] = o.key[d]
      <4> SUFFICES ASSUME NEW d \in Partial, d \in o.varies PROVE m.key[d] = o.key[d]
        OBVIOUS
      <4>1. o.key[d] # Null
        BY OwnFlagged, RowsAssumption DEF Flagged
      <4> QED
        BY <2>3, <4>1
    <3> QED
      BY <2>2, <3>1 DEF AsWritten
  <2> QED
    BY <2>2, <2>3, <2>4, <2>5 DEF Crosses
<1>5. ASSUME NEW m \in owner_map' \ (kept \cup own) PROVE \E p \in kept, o \in own : Crosses(m, o, p)
  <2>1. PICK po \in Pairs(kept, own) : m = [po[2] EXCEPT !.key = Met(po[2].key, po[1].key)]
    BY <1>1 DEF Overlaps
  <2>2. po[1] \in kept /\ po[2] \in own /\ Meet(po[1].key, po[2].key)
    BY DEF Pairs
  <2> QED
    BY <1>4, <2>1, <2>2
<1>6. ASSUME NEW p \in kept, NEW o \in own, Meet(p.key, o.key), ~ Nested(p.key, o.key)
      PROVE  \E m \in owner_map' : Crosses(m, o, p)
  <2>1. <<p, o>> \in Pairs(kept, own) /\ <<p, o>>[1] = p /\ <<p, o>>[2] = o
    BY <1>6 DEF Pairs, Nested
  <2>2. [o EXCEPT !.key = Met(o.key, p.key)] \in Overlaps(kept, own)
    <3>1. <<p, o>> \in {q \in Pairs(kept, own) : ~ Nested(q[1].key, q[2].key)}
      BY <1>6, <2>1
    <3> QED
      BY <2>1, <3>1 DEF Overlaps
  <2> QED
    BY <1>1, <1>4, <1>6, <2>2
<1> QED
  BY <1>1, <1>2, <1>5, <1>6

-----------------------------------------------------------------------------
(* Each part of the invariant, over a layer.                               *)

LEMMA LayerCounting ==
    ASSUME DInv, NEW files \in Axes, NEW rows \in Rows, Layer(files, rows)
    PROVE  Counting'
<1> DEFINE own == Own(Depth + 1, rows)
           kept == Kept(owner_map, own, Removed(axes, files))
<1>1. /\ kept \subseteq owner_map
      /\ \A p \in kept : /\ p.key \in Keys /\ p.layer \in 1 .. Depth
                         /\ \A d \in Partial : p.key[d] \notin Removed(axes, files)[d]
                         /\ ~ \E o \in own : Reaches(o.key, p.key)
      /\ \A m \in owner_map' \ (kept \cup own) : \E p \in kept, o \in own : Crosses(m, o, p)
  BY MapStep
<1>2. /\ \A o \in own : o.layer = Depth + 1
      /\ \A r \in rows : \E o \in own : o.key = Key(r)
  <2>1. rows \in SUBSET Row
    BY RowsAssumption
  <2>2. \A o \in own : /\ o \in MapRows({Depth + 1}) /\ o.layer = Depth + 1 /\ AsWritten(o) = o.key
                       /\ \E r \in rows : o.key = Key(r)
    BY <2>1, OwnAsWritten
  <2>3. \A r \in rows : \E o \in own : o.key = Key(r)
    BY <2>1, OwnAsWritten
  <2> QED
    BY <2>2, <2>3
<1> HIDE DEF own, kept
<1>3. ASSUME NEW p \in kept PROVE Counts(p.layer, p.key)'
  <2>1. Counts(p.layer, p.key)
    BY <1>1 DEF DInv, Counting
  <2>2. ~ \E s \in rows : Reaches(Key(s), Key(p.key))
    BY <1>1, <1>2, KeyOfKey
  <2> QED
    BY <1>1, <2>1, <2>2, CountsStep
<1>4. ASSUME NEW m \in owner_map', m \notin kept PROVE Counts(m.layer, m.key)'
  <2>1. m.layer = Depth + 1
    BY <1>1, <1>2, <1>4 DEF Crosses
  <2> QED
    BY <2>1, CountsStep
<1> QED
  BY <1>3, <1>4 DEF Counting

LEMMA LayerOwning ==
    ASSUME DInv, NEW files \in Axes, NEW rows \in Rows, Layer(files, rows)
    PROVE  Owning'
<1> DEFINE own == Own(Depth + 1, rows)
           kept == Kept(owner_map, own, Removed(axes, files))
<1>1. kept \subseteq owner_map' /\ own \subseteq owner_map'
  BY MapStep
<1>2. /\ \A o \in own : o.layer = Depth + 1 /\ AsWritten(o) = o.key /\ \E r \in rows : o.key = Key(r)
      /\ \A r \in rows : \E o \in own : o.key = Key(r)
  <2>1. rows \in SUBSET Row
    BY RowsAssumption
  <2>2. \A o \in own : /\ o \in MapRows({Depth + 1}) /\ o.layer = Depth + 1 /\ AsWritten(o) = o.key
                       /\ \E r \in rows : o.key = Key(r)
    BY <2>1, OwnAsWritten
  <2>3. \A r \in rows : \E o \in own : o.key = Key(r)
    BY <2>1, OwnAsWritten
  <2> QED
    BY <2>2, <2>3
<1>3. /\ Depth \in Nat /\ Depth' = Depth + 1
      /\ written'[Depth + 1] = rows
      /\ \A k \in 1 .. Depth : written'[k] = written[k]
  BY LayerStep DEF DInv, FInv
<1> SUFFICES ASSUME NEW n \in 1 .. Depth', NEW r \in written'[n], Counts(n, r)'
             PROVE  \E m \in owner_map' : m.layer = n /\ m.key = Key(r) /\ AsWritten(m) = Key(r)
  BY DEF Owning, AsWritten
<1>4. CASE n = Depth + 1
  <2>1. PICK o \in own : o.key = Key(r)
    BY <1>2, <1>3, <1>4
  <2> HIDE DEF own, kept
  <2> QED
    BY <1>1, <1>2, <1>4, <2>1
<1>5. CASE n \in 1 .. Depth
  <2>1. /\ Counts(n, r)
        /\ \A d \in Partial : r[d] \notin Removed(axes, files)[d]
        /\ ~ \E s \in rows : Reaches(Key(s), Key(r))
    BY <1>5, CountsStep
  <2>2. PICK m \in owner_map : m.layer = n /\ m.key = Key(r) /\ AsWritten(m) = Key(r)
    BY <1>3, <1>5, <2>1 DEF DInv, Owning
  <2>3. \A d \in Partial : m.key[d] \notin Removed(axes, files)[d]
    BY <2>1, <2>2 DEF Key
  <2>4. ~ \E o \in own : Reaches(o.key, m.key)
    <3> HIDE DEF own, kept
    <3> QED
      BY <1>2, <2>1, <2>2
  <2>5. m \in kept
    BY <2>3, <2>4 DEF Kept
  <2> HIDE DEF own, kept
  <2> QED
    BY <1>1, <2>2, <2>5
<1> QED
  BY <1>3, <1>4, <1>5

LEMMA LayerCovered ==
    ASSUME DInv, NEW files \in Axes, NEW rows \in Rows, Layer(files, rows)
    PROVE  NoneCovered'
<1> DEFINE own == Own(Depth + 1, rows)
           kept == Kept(owner_map, own, Removed(axes, files))
<1>1. /\ kept \subseteq owner_map
      /\ \A p \in kept : /\ p.key \in Keys /\ p.layer \in 1 .. Depth
                         /\ ~ \E o \in own : Reaches(o.key, p.key)
      /\ \A m \in owner_map' \ (kept \cup own) : \E p \in kept, o \in own : Crosses(m, o, p)
  BY MapStep
<1>2. \A o \in own : o.layer = Depth + 1 /\ o.key \in Keys
  BY OwnAsWritten, RowsAssumption DEF MapRows
<1>3. Depth \in Nat
  BY LayerStep DEF DInv, FInv
<1> HIDE DEF own, kept
<1> SUFFICES ASSUME NEW m \in owner_map', NEW n \in owner_map', m.layer < n.layer,
                    Reaches(n.key, m.key)
             PROVE  FALSE
  BY DEF NoneCovered
<1>4. \A q \in owner_map' \ kept : q.layer = Depth + 1
  BY <1>1, <1>2 DEF Crosses
<1>5. m \in kept
  <2>1. n.layer \in 1 .. Depth + 1
    BY <1>1, <1>3, <1>4
  <2> QED
    BY <1>3, <1>4, <2>1
<1>6. CASE n \in kept
  BY <1>1, <1>5, <1>6 DEF DInv, NoneCovered
<1>7. CASE n \in own
  BY <1>1, <1>5, <1>7
<1>8. ASSUME NEW p \in kept, NEW o \in own, Crosses(n, o, p) PROVE FALSE
  <2>1. Reaches(o.key, m.key)
    BY <1>2, <1>8, KeyReaches DEF Crosses
  <2> QED
    BY <1>1, <1>5, <2>1
<1> QED
  BY <1>1, <1>6, <1>7, <1>8

LEMMA LayerRefined ==
    ASSUME DInv, NEW files \in Axes, NEW rows \in Rows, Layer(files, rows)
    PROVE  Refined'
<1> DEFINE own == Own(Depth + 1, rows)
           kept == Kept(owner_map, own, Removed(axes, files))
<1>1. /\ kept \subseteq owner_map /\ kept \subseteq owner_map' /\ own \subseteq owner_map'
      /\ \A p \in kept : p.key \in Keys /\ p.layer \in 1 .. Depth
      /\ \A m \in owner_map' \ (kept \cup own) : \E p \in kept, o \in own : Crosses(m, o, p)
  BY MapStep
<1>2. \A p \in kept, o \in own :
        Meet(p.key, o.key) /\ ~ Nested(p.key, o.key) => \E m \in owner_map' : Crosses(m, o, p)
  BY MapStep
<1>3. rows \in SUBSET Row
  BY RowsAssumption
<1>4. \A o \in own : /\ o.layer = Depth + 1 /\ o.key \in Keys /\ AsWritten(o) = o.key
                     /\ \E r \in rows : o.key = Key(r)
  <2>1. \A o \in own : /\ o \in MapRows({Depth + 1}) /\ o.layer = Depth + 1 /\ AsWritten(o) = o.key
                       /\ \E r \in rows : o.key = Key(r)
    BY <1>3, OwnAsWritten
  <2> QED
    BY <2>1 DEF MapRows
<1>5. \A r \in rows : \E o \in own : o.key = Key(r)
  BY <1>3, OwnAsWritten
<1>6. /\ Depth \in Nat
      /\ written'[Depth + 1] = rows
      /\ \A k \in 1 .. Depth : written'[k] = written[k]
  BY LayerStep DEF DInv, FInv
<1>7. \A n \in kept, p \in owner_map : n.key = p.key => p \in kept
  BY DEF Kept
<1> HIDE DEF own, kept
<1> SUFFICES ASSUME NEW m \in owner_map', NEW u \in written'[m.layer],
                    Reaches(Key(u), m.key), Reaches(AsWritten(m), Key(u))
             PROVE  \E n \in owner_map' : n.key = m.key /\ n.layer = m.layer /\ AsWritten(n) = Key(u)
  BY DEF Refined, AsWritten
<1>8. CASE m \in kept
  <2>1. m \in owner_map /\ u \in written[m.layer]
    BY <1>1, <1>6, <1>8
  <2>2. PICK n \in owner_map : n.key = m.key /\ n.layer = m.layer /\ AsWritten(n) = Key(u)
    BY <2>1 DEF DInv, Refined
  <2>3. n \in kept
    BY <1>7, <1>8, <2>2
  <2> QED
    BY <1>1, <2>2, <2>3
<1>9. CASE m \in own
  <2>1. u \in rows /\ Key(u) \in Keys
    BY <1>3, <1>4, <1>6, <1>9, KeyOfRow
  <2>2. m.key \in Keys /\ Reaches(m.key, Key(u)) /\ AsWritten(m) = m.key
    BY <1>4, <1>9
  <2>3. \A d \in Partial : m.key[d] = Key(u)[d]
    BY <2>1, <2>2, KeyReaches
  <2>4. m.key = Key(u)
    BY <2>1, <2>2, <2>3 DEF Keys
  <2> QED
    BY <2>2, <2>4
<1>10. ASSUME NEW p \in kept, NEW o \in own, Crosses(m, o, p)
       PROVE  \E n \in owner_map' : n.key = m.key /\ n.layer = m.layer /\ AsWritten(n) = Key(u)
  <2>1. m.layer = Depth + 1 /\ AsWritten(m) = o.key /\ o.key \in Keys /\ p.key \in Keys /\ m.key \in Keys
    BY <1>1, <1>4, <1>10 DEF Crosses
  <2>2. u \in rows /\ Key(u) \in Keys
    BY <1>3, <1>6, <2>1, KeyOfRow
  <2>3. PICK ou \in own : ou.key = Key(u)
    BY <1>5, <2>2
  <2>4. ou.layer = Depth + 1 /\ AsWritten(ou) = Key(u)
    BY <1>4, <2>3
  <2>5. /\ \A d \in Partial : Key(u)[d] = Null \/ Key(u)[d] = m.key[d]
        /\ \A d \in Partial : o.key[d] = Null \/ o.key[d] = Key(u)[d]
    BY <2>1, <2>2, KeyReaches
  <2>6. /\ \A d \in Partial : m.key[d] = IF o.key[d] = Null THEN p.key[d] ELSE o.key[d]
        /\ \A d \in Partial : o.key[d] # Null /\ p.key[d] # Null => o.key[d] = p.key[d]
    BY <1>10 DEF Crosses
  <2>7. \A d \in Partial : p.key[d] = Null \/ p.key[d] = m.key[d]
    BY <2>6
  <2>8. Meet(p.key, Key(u))
    BY <2>1, <2>2, <2>5, <2>7 DEF Meet, Named, Keys
  <2>9. CASE Named(p.key) \subseteq Named(Key(u))
    <3>1. \A d \in Partial : m.key[d] = Key(u)[d]
      BY <2>1, <2>2, <2>5, <2>6, <2>7, <2>9 DEF Named, Keys
    <3>2. m.key = Key(u)
      BY <2>1, <2>2, <3>1 DEF Keys
    <3> QED
      BY <1>1, <2>1, <2>3, <2>4, <3>2
  <2>10. CASE ~ (Named(p.key) \subseteq Named(Key(u)))
    <3>1. ~ (Named(Key(u)) \subseteq Named(p.key))
      <4>1. Named(o.key) \subseteq Named(Key(u))
        BY <2>1, <2>2, <2>5 DEF Named, Keys
      <4>2. ASSUME Named(o.key) \subseteq Named(p.key) PROVE FALSE
        <5>1. Reaches(o.key, p.key)
          BY <2>1, <2>6, <4>2 DEF Reaches, Named, Keys
        <5>2. ~ \E q \in own : Reaches(q.key, p.key)
          BY MapStep DEF own, kept
        <5> QED
          BY <5>1, <5>2
      <4> QED
        BY <4>1, <4>2
    <3>2. PICK n \in owner_map' : Crosses(n, ou, p)
      BY <1>2, <2>3, <2>8, <2>10, <3>1 DEF Nested
    <3>3. /\ n.key \in Keys /\ n.layer = ou.layer /\ AsWritten(n) = AsWritten(ou)
          /\ \A d \in Partial : n.key[d] = IF ou.key[d] = Null THEN p.key[d] ELSE ou.key[d]
      BY <3>2 DEF Crosses
    <3>4. \A d \in Partial : n.key[d] = m.key[d]
      BY <2>3, <2>5, <2>6, <3>3
    <3>5. n.key = m.key
      BY <2>1, <3>3, <3>4 DEF Keys
    <3> QED
      BY <2>1, <2>4, <3>3, <3>5
  <2> QED
    BY <2>9, <2>10
<1> QED
  BY <1>1, <1>8, <1>9, <1>10

LEMMA LayerWritten ==
    ASSUME DInv, NEW files \in Axes, NEW rows \in Rows, Layer(files, rows)
    PROVE  Written'
<1> DEFINE own == Own(Depth + 1, rows)
           kept == Kept(owner_map, own, Removed(axes, files))
<1>1. /\ kept \subseteq owner_map
      /\ \A p \in kept : p.layer \in 1 .. Depth
      /\ \A m \in owner_map' \ (kept \cup own) : \E p \in kept, o \in own : Crosses(m, o, p)
  BY MapStep
<1>2. \A o \in own : /\ o \in MapRows({Depth + 1}) /\ o.layer = Depth + 1 /\ AsWritten(o) = o.key
                     /\ \E r \in rows : o.key = Key(r)
  BY RowsAssumption, OwnAsWritten
<1>3. /\ written'[Depth + 1] = rows
      /\ \A k \in 1 .. Depth : written'[k] = written[k]
  BY LayerStep DEF DInv, FInv
<1> HIDE DEF own, kept
<1> SUFFICES ASSUME NEW m \in owner_map' PROVE \E r \in written'[m.layer] : Key(r) = AsWritten(m)
  BY DEF Written, AsWritten
<1>4. CASE m \in kept
  BY <1>1, <1>3, <1>4 DEF DInv, Written
<1>5. CASE m \in own
  BY <1>2, <1>3, <1>5
<1>6. ASSUME NEW p \in kept, NEW o \in own, Crosses(m, o, p)
      PROVE  \E r \in written'[m.layer] : Key(r) = AsWritten(m)
  <2>1. m.layer = o.layer /\ AsWritten(m) = AsWritten(o)
    BY <1>6 DEF Crosses
  <2> QED
    BY <1>2, <1>3, <2>1
<1> QED
  BY <1>1, <1>4, <1>5, <1>6

LEMMA ReadsInductive == DInv /\ [Next]_vars => DInv'
<1> SUFFICES ASSUME DInv, [Next]_vars PROVE DInv'
  OBVIOUS
<1>1. FInv'
  BY FlagsInductive DEF DInv
<1>2. ASSUME NEW files \in Axes, NEW rows \in Rows, Layer(files, rows) PROVE DInv'
  <2>1. axis_files' \in Seq(Axes)
    BY <1>2, LayerStep DEF DInv, FInv
  <2>2. Layered'
    <3>1. /\ Depth \in Nat /\ Depth' = Depth + 1
          /\ written'[Depth + 1] = rows /\ Ordered(rows)
          /\ \A k \in 1 .. Depth : written'[k] = written[k]
      BY <1>2, LayerStep DEF DInv, FInv
    <3>2. \A n \in 1 .. Depth' : Ordered(written'[n])
      BY <3>1 DEF DInv, Layered
    <3> QED
      BY <3>2 DEF Layered, Ordered, Unsettled
  <2> QED
    BY <1>1, <1>2, <2>1, <2>2, LayerAxes, LayerCounting, LayerOwning, LayerCovered,
       LayerRefined, LayerWritten DEF DInv
<1>3. ASSUME UNCHANGED <<axis_files, written, owner_map, axes>> PROVE DInv'
  <2>1. Depth' = Depth /\ axis_files' = axis_files /\ written' = written
        /\ owner_map' = owner_map /\ axes' = axes
    BY <1>3 DEF Depth
  <2>2. \A n, r : Counts(n, r)' <=> Counts(n, r)
    BY <2>1 DEF Counts, RemovedAt
  <2>3. AxesLast' /\ Layered' /\ Written' /\ NoneCovered'
    BY <2>1 DEF DInv, AxesLast, Layered, Ordered, Unsettled, Written, AsWritten, NoneCovered
  <2>4. Counting' /\ Owning' /\ Refined'
    BY <2>1, <2>2 DEF DInv, Counting, Owning, Refined, AsWritten
  <2> QED
    BY <1>1, <2>1, <2>3, <2>4 DEF DInv
<1>4. \/ \E files \in Axes, rows \in Rows : Layer(files, rows)
      \/ UNCHANGED <<axis_files, written, owner_map, axes>>
  BY DEF Next, LayerRefused, Materialise, vars
<1> QED
  BY <1>2, <1>3, <1>4

LEMMA ReadsInvariant == Spec => []DInv
<1>1. ASSUME Init PROVE DInv
  <2>1. FInv
    BY <1>1, Initially DEF FInv, Init, FlagsAsWritten, NamesTold
  <2>2. Depth = 0 /\ axis_files = << >> /\ owner_map = {} /\ axes = NoAxes
    BY <1>1 DEF Init, Depth
  <2>3. axis_files \in Seq(Axes)
    BY <2>2
  <2> QED
    BY <2>1, <2>2, <2>3 DEF DInv, AxesLast, Layered, Written, Counting, Owning, NoneCovered,
                            Refined, NoAxes, Dims
<1> QED
  BY <1>1, ReadsInductive, PTL DEF Spec

-----------------------------------------------------------------------------
(* What the rows read are.                                                 *)

\* A row where a map row owns it.
Placed(m, r) ==
    [at |-> [d \in Dims |-> IF d \in Partial /\ r[d] = Null THEN m.key[d] ELSE r[d]],
     layer |-> m.layer, row |-> r]

Joined == UNION {Owned(m, written[m.layer]) : m \in owner_map}

LEMMA MapTyped ==
    ASSUME DInv, NEW m \in owner_map
    PROVE  /\ m.layer \in 1 .. Depth /\ m.layer \in Nat /\ m.key \in Keys
           /\ AsWritten(m) \in Keys
           /\ \A d \in Partial : AsWritten(m)[d] = Null \/ AsWritten(m)[d] = m.key[d]
           /\ written[m.layer] \subseteq Row
           /\ Ordered(written[m.layer])
<1>1. m.layer \in 1 .. Depth /\ m.key \in Keys
  BY DEF DInv, FInv, IInv, TypeOK, Keys
<1>2. Depth \in Nat /\ Depth = Len(written) /\ written \in Seq(SUBSET Row)
  BY DEF DInv, FInv, IInv, TypeOK, Depth
<1> QED
  BY <1>1, <1>2, WrittenKey DEF DInv, Layered

LEMMA PlacedIs ==
    ASSUME DInv, NEW m \in owner_map, NEW r \in written[m.layer], Key(r) = AsWritten(m)
    PROVE  /\ Placed(m, r).layer = m.layer /\ Placed(m, r).row = r
           /\ Placed(m, r).at \in Row /\ r \in Row
           /\ \A d \in Partial : Placed(m, r).at[d] = m.key[d]
           /\ \A d \in Others : Placed(m, r).at[d] = r[d]
           /\ Named(r) \subseteq Named(Placed(m, r).at)
           /\ \A d \in Named(r) : Placed(m, r).at[d] = r[d]
<1>1. /\ r \in Row /\ m.key \in Keys
      /\ \A d \in Partial : AsWritten(m)[d] = Null \/ AsWritten(m)[d] = m.key[d]
  BY MapTyped
<1>2. \A d \in Partial : r[d] = Null \/ r[d] = m.key[d]
  BY <1>1 DEF Key
<1>3. /\ Placed(m, r).layer = m.layer /\ Placed(m, r).row = r
      /\ Placed(m, r).at = [d \in Dims |-> IF d \in Partial /\ r[d] = Null THEN m.key[d] ELSE r[d]]
  BY DEF Placed
<1>4. Placed(m, r).at \in Row
  BY <1>1, <1>3 DEF Row, Keys, Dims
<1>5. \A d \in Partial : Placed(m, r).at[d] = m.key[d]
  BY <1>2, <1>3 DEF Dims
<1>6. \A d \in Others : Placed(m, r).at[d] = r[d]
  BY <1>3, DimsAssumption DEF Dims
<1>7. \A d \in Dims : r[d] = Null \/ Placed(m, r).at[d] = r[d]
  BY <1>3
<1> QED
  BY <1>1, <1>3, <1>4, <1>5, <1>6, <1>7 DEF Named, Row

LEMMA OwnedIs ==
    ASSUME DInv, NEW m \in owner_map
    PROVE  \A j : j \in Owned(m, written[m.layer]) <=> \E r \in written[m.layer] :
                                                       Key(r) = AsWritten(m) /\ j = Placed(m, r)
<1>1. ASSUME NEW r \in written[m.layer]
      PROVE  (\A d \in Partial : r[d] \in Stored(m, d)) <=> Key(r) = AsWritten(m)
  <2>1. \A d \in Partial : d \in m.varies => d \notin m.broadcast
    BY DEF DInv, FInv, FlagsAsWritten, Flagged
  <2>2. \A d \in Partial : d \notin m.varies => d \in m.broadcast
    <3>1. PICK s \in written[m.layer] : Key(s) = AsWritten(m)
      BY DEF DInv, Written
    <3>2. \A d \in Partial : d \notin m.varies => s[d] = Null
      BY <3>1 DEF Key, AsWritten
    <3>3. \A d \in Dims : s[d] = Null => d \in m.broadcast
      BY <3>1 DEF DInv, FInv, FlagsAsWritten, Flagged
    <3> QED
      BY <3>2, <3>3 DEF Dims
  <2>3. \A d \in Partial : r[d] \in Stored(m, d) <=> r[d] = AsWritten(m)[d]
    BY <2>1, <2>2 DEF Stored, AsWritten
  <2>4. Key(r) = AsWritten(m) <=> \A d \in Partial : r[d] = AsWritten(m)[d]
    BY DEF Key, AsWritten
  <2> QED
    BY <2>3, <2>4
<1>2. \A j : j \in Owned(m, written[m.layer]) <=>
          \E r \in written[m.layer] : (\A d \in Partial : r[d] \in Stored(m, d)) /\ j = Placed(m, r)
  BY DEF Owned, Placed
<1> QED
  BY <1>1, <1>2

LEMMA JoinedIs ==
    ASSUME DInv
    PROVE  \A j : j \in Joined <=> \E m \in owner_map : \E r \in written[m.layer] :
                                      Key(r) = AsWritten(m) /\ j = Placed(m, r)
  BY OwnedIs DEF Joined

LEMMA ResolvedIs ==
    ASSUME NEW j
    PROVE  j \in Resolved(owner_map, written, dead) <=>
             /\ j \in Joined
             /\ Contested(owner_map) => \A k \in Joined : k.at = j.at =>
                  Named(k.row) \cap Partial \subseteq Named(j.row) \cap Partial
             /\ \A d \in Others : j.at[d] \notin dead[d]
  BY DEF Resolved, Living, MostSpecific, Joined

\* What counts and reaches a coordinate is read, where it was written.
LEMMA CountedIsRead ==
    ASSUME DInv, NEW c \in Coordinates, NEW n \in 1 .. Depth, NEW r \in written[n],
           Counts(n, r), Reaches(r, c)
    PROVE  \E j \in Resolved(owner_map, written, dead) : j.at = r /\ j.layer = n /\ j.row = r
<1>1. PICK m \in owner_map : m.layer = n /\ m.key = Key(r) /\ AsWritten(m) = Key(r)
  BY DEF DInv, Owning
<1> DEFINE j == Placed(m, r)
<1>2. /\ j.layer = n /\ j.row = r /\ j.at \in Row /\ r \in Row
      /\ \A d \in Partial : j.at[d] = m.key[d]
      /\ \A d \in Others : j.at[d] = r[d]
  BY <1>1, PlacedIs
<1>3. j \in Joined
  BY <1>1, JoinedIs
<1> HIDE DEF j
<1>4. j.at = r
  <2>1. \A d \in Dims : j.at[d] = r[d]
    BY <1>1, <1>2 DEF Key, Dims
  <2> QED
    BY <1>2, <2>1 DEF Row
<1>5. ASSUME NEW k \in Joined, k.at = j.at PROVE Named(k.row) \subseteq Named(j.row)
  <2>1. PICK m2 \in owner_map : \E r2 \in written[m2.layer] : Key(r2) = AsWritten(m2) /\ k = Placed(m2, r2)
    BY JoinedIs
  <2>2. Named(k.row) \subseteq Named(k.at)
    BY <2>1, PlacedIs
  <2> QED
    BY <1>2, <1>4, <1>5, <2>2
<1>6. ASSUME NEW d \in Others PROVE j.at[d] \notin dead[d]
  <2>1. dead[d] \subseteq Labels[d] \ Held(axes, d) /\ c[d] \in Held(axes, d) /\ d \in Dims
    BY DEF DInv, FInv, IInv, TypeOK, Coordinates, Dims
  <2>2. r[d] = Null \/ r[d] = c[d]
    BY <1>2, <2>1 DEF Reaches, Named, Row
  <2> QED
    BY <1>4, <2>1, <2>2, NullAssumption
<1> QED
  BY <1>2, <1>3, <1>4, <1>5, <1>6, ResolvedIs

LEMMA CountingIs ==
    ASSUME DInv, NEW c \in Coordinates
    PROVE  LET here == {x \in (1 .. Depth) \X UNION {written[k] : k \in 1 .. Depth} :
                          x[2] \in written[x[1]] /\ Reaches(x[2], c) /\ Counts(x[1], x[2])}
           IN /\ \A x : x \in here <=> \E n \in 1 .. Depth : \E r \in written[n] :
                            x = <<n, r>> /\ Reaches(r, c) /\ Counts(n, r)
              /\ \A x : x \in Answer(c) <=>
                   /\ x \in here
                   /\ \A y \in here : y[1] <= x[1]
                   /\ \A y \in here : y[1] = x[1] => Named(y[2]) \subseteq Named(x[2])
<1> DEFINE here == {x \in (1 .. Depth) \X UNION {written[k] : k \in 1 .. Depth} :
                      x[2] \in written[x[1]] /\ Reaches(x[2], c) /\ Counts(x[1], x[2])}
           deepest == {x \in here : \A y \in here : y[1] <= x[1]}
<1>1. \A x : x \in here <=> \E n \in 1 .. Depth : \E r \in written[n] :
                            x = <<n, r>> /\ Reaches(r, c) /\ Counts(n, r)
  OBVIOUS
<1>2. \A x \in here : x[1] \in Nat
  BY DEF DInv, FInv, IInv, TypeOK, Depth
<1>3. Answer(c) = {x \in deepest : \A y \in deepest : Named(y[2]) \subseteq Named(x[2])}
  BY DEF Answer
<1>4. \A x \in deepest : \A y : y \in deepest <=> y \in here /\ y[1] = x[1]
  <2> HIDE DEF here
  <2>1. \A y : y \in deepest <=> y \in here /\ \A z \in here : z[1] <= y[1]
    OBVIOUS
  <2> HIDE DEF deepest
  <2> QED
    BY <1>2, <2>1
<1>5. \A x : x \in Answer(c) <=>
               /\ x \in here
               /\ \A y \in here : y[1] <= x[1]
               /\ \A y \in here : y[1] = x[1] => Named(y[2]) \subseteq Named(x[2])
  <2> HIDE DEF here
  <2>1. \A y : y \in deepest <=> y \in here /\ \A z \in here : z[1] <= y[1]
    OBVIOUS
  <2> HIDE DEF deepest
  <2> QED
    BY <1>3, <1>4, <2>1
<1> QED
  BY <1>1, <1>5

\* There is at most one answer.
LEMMA OneAnswer ==
    ASSUME DInv, NEW c \in Coordinates, NEW x \in Answer(c), NEW y \in Answer(c)
    PROVE  x = y
<1>1. PICK n \in 1 .. Depth : \E r \in written[n] : x = <<n, r>> /\ Reaches(r, c)
  BY CountingIs
<1>2. PICK r \in written[n] : x = <<n, r>> /\ Reaches(r, c)
  BY <1>1
<1>3. PICK q \in 1 .. Depth : \E s \in written[q] : y = <<q, s>> /\ Reaches(s, c)
  BY CountingIs
<1>4. PICK s \in written[q] : y = <<q, s>> /\ Reaches(s, c)
  BY <1>3
<1>5. x[1] = n /\ x[2] = r /\ y[1] = q /\ y[2] = s
  BY <1>2, <1>4
<1>6. x[1] <= y[1] /\ y[1] <= x[1]
  BY CountingIs
<1>7. n = q
  BY <1>5, <1>6
<1>8. Named(x[2]) \subseteq Named(y[2]) /\ Named(y[2]) \subseteq Named(x[2])
  BY <1>5, <1>7, CountingIs
<1>9. written[n] \subseteq Row
  BY DEF DInv, FInv, IInv, TypeOK, Depth
<1>10. r = s
  <2>1. r \in Row /\ s \in Row /\ Named(r) = Named(s)
    BY <1>5, <1>7, <1>8, <1>9
  <2>2. \A d \in Dims : r[d] = s[d]
    BY <1>2, <1>4, <2>1 DEF Reaches, Named, Row
  <2> QED
    BY <2>1, <2>2 DEF Row
<1> QED
  BY <1>2, <1>4, <1>7, <1>10

\* The row the broadcast rule settles on is the deepest layer's most specific.
LEMMA SettledIsAnswer ==
    ASSUME DInv, NEW c \in Coordinates,
           NEW j \in Settled(Resolved(owner_map, written, dead), c)
    PROVE  <<j.layer, j.row>> \in Answer(c)
<1> DEFINE resolved == Resolved(owner_map, written, dead)
<1>1. /\ j \in resolved /\ Reaches(j.at, c)
      /\ \A k \in resolved : Reaches(k.at, c) => Named(k.at) \subseteq Named(j.at)
  BY DEF Settled
<1>2. j \in Joined
  BY <1>1, ResolvedIs
<1>3. PICK m \in owner_map : \E r \in written[m.layer] : Key(r) = AsWritten(m) /\ j = Placed(m, r)
  BY <1>2, JoinedIs
<1>4. PICK r \in written[m.layer] : Key(r) = AsWritten(m) /\ j = Placed(m, r)
  BY <1>3
<1>5. /\ j.layer = m.layer /\ j.row = r /\ j.at \in Row /\ r \in Row
      /\ \A d \in Partial : j.at[d] = m.key[d]
      /\ \A d \in Others : j.at[d] = r[d]
      /\ Named(r) \subseteq Named(j.at)
      /\ \A d \in Named(r) : j.at[d] = r[d]
  BY <1>4, PlacedIs
<1>6. /\ m.layer \in 1 .. Depth /\ m.layer \in Nat /\ m.key \in Keys /\ AsWritten(m) \in Keys
      /\ \A d \in Partial : AsWritten(m)[d] = Null \/ AsWritten(m)[d] = m.key[d]
      /\ written[m.layer] \subseteq Row
      /\ Ordered(written[m.layer])
  BY MapTyped
<1>7. Reaches(r, c)
  BY <1>1, <1>5 DEF Reaches, Named
<1>8. Counts(m.layer, r)
  <2>1. Counts(m.layer, m.key)
    BY DEF DInv, Counting
  <2>2. Counts(m.layer, AsWritten(m))
    BY <1>6, <2>1, CountsShorter DEF DInv, FInv
  <2> QED
    BY <1>4, <1>6, <2>2, CountsKey, KeyOfKey
<1>9. ASSUME NEW n \in 1 .. Depth, NEW s \in written[n], Reaches(s, c), Counts(n, s)
      PROVE  Named(s) \subseteq Named(j.at) /\ n <= m.layer
  <2>1. PICK k \in resolved : k.at = s /\ k.layer = n /\ k.row = s
    BY <1>9, CountedIsRead
  <2>2. Named(s) \subseteq Named(j.at)
    BY <1>1, <1>9, <2>1
  <2>3. PICK m2 \in owner_map : \E s2 \in written[m2.layer] : Key(s2) = AsWritten(m2) /\ k = Placed(m2, s2)
    BY <2>1, ResolvedIs, JoinedIs
  <2>4. m2.layer = n /\ m2.key \in Keys /\ \A d \in Partial : k.at[d] = m2.key[d]
    BY <2>1, <2>3, PlacedIs, MapTyped
  <2>5. s \in Row
    BY <1>9 DEF DInv, FInv, IInv, TypeOK, Depth
  <2>6. \A d \in Partial : m2.key[d] = Null \/ m.key[d] = m2.key[d]
    <3> SUFFICES ASSUME NEW d \in Partial, m2.key[d] # Null PROVE m.key[d] = m2.key[d]
      OBVIOUS
    <3>1. d \in Dims /\ s[d] = m2.key[d] /\ d \in Named(s)
      BY <2>1, <2>4, <2>5 DEF Dims, Named, Row
    <3>2. d \in Named(j.at)
      BY <2>2, <3>1
    <3> QED
      BY <1>1, <1>5, <1>9, <3>1, <3>2 DEF Reaches
  <2>7. Reaches(m2.key, m.key)
    BY <2>4, <2>6, KeyReaches
  <2>8. ~ (m.layer < m2.layer)
    BY <2>7 DEF DInv, NoneCovered
  <2> QED
    BY <1>6, <2>2, <2>4, <2>8
<1>10. ASSUME NEW t \in written[m.layer], Reaches(t, c), Named(r) \subseteq Named(t),
              Named(t) \subseteq Named(j.at)
       PROVE  Named(t) \subseteq Named(r)
  <2>1. t \in Row /\ Key(t) \in Keys /\ \A d \in Partial : Key(t)[d] = t[d]
    BY <1>6, KeyOfRow
  <2>2. \A d \in Dims : t[d] = Null \/ t[d] = j.at[d]
    <3> SUFFICES ASSUME NEW d \in Dims, t[d] # Null PROVE t[d] = j.at[d]
      OBVIOUS
    <3>1. d \in Named(t) /\ d \in Named(j.at)
      BY <1>10, <2>1 DEF Named, Row
    <3> QED
      BY <1>1, <1>10, <3>1 DEF Reaches
  <2>3. \A d \in Partial : Key(t)[d] = Null \/ m.key[d] = Key(t)[d]
    BY <1>5, <2>1, <2>2 DEF Dims
  <2>4. \A d \in Partial : AsWritten(m)[d] = Null \/ Key(t)[d] = AsWritten(m)[d]
    <3> SUFFICES ASSUME NEW d \in Partial, AsWritten(m)[d] # Null PROVE Key(t)[d] = AsWritten(m)[d]
      OBVIOUS
    <3>1. d \in Dims /\ r[d] = AsWritten(m)[d] /\ d \in Named(r)
      BY <1>4, <1>5 DEF Dims, Key, Named, Row
    <3> QED
      BY <1>5, <1>10, <2>1, <2>2, <3>1 DEF Named
  <2>5. Reaches(Key(t), m.key) /\ Reaches(AsWritten(m), Key(t))
    BY <1>6, <2>1, <2>3, <2>4, KeyReaches
  <2>6. PICK n \in owner_map : n.key = m.key /\ n.layer = m.layer /\ AsWritten(n) = Key(t)
    BY <1>10, <2>5 DEF DInv, Refined
  <2>7. t \in written[n.layer] /\ Key(t) = AsWritten(n)
    BY <2>6
  <2> DEFINE k == Placed(n, t)
  <2>8. k \in Joined
    BY <2>7, JoinedIs
  <2>9. /\ k.row = t /\ k.at \in Row
        /\ \A d \in Partial : k.at[d] = m.key[d]
        /\ \A d \in Others : k.at[d] = t[d]
    BY <2>6, <2>7, PlacedIs
  <2> HIDE DEF k
  <2>10. \A d \in Others : t[d] = j.at[d]
    <3> SUFFICES ASSUME NEW d \in Others PROVE t[d] = j.at[d]
      OBVIOUS
    <3>1. d \in Dims /\ j.at[d] = r[d]
      BY <1>5 DEF Dims
    <3>2. CASE t[d] = Null
      <4>1. d \notin Named(r)
        BY <1>10, <2>1, <3>1, <3>2 DEF Named
      <4> QED
        BY <1>5, <3>1, <3>2, <4>1 DEF Named, Row
    <3> QED
      BY <2>2, <3>1, <3>2
  <2>11. k.at = j.at
    <3>1. \A d \in Dims : k.at[d] = j.at[d]
      BY <1>5, <2>9, <2>10 DEF Dims
    <3> QED
      BY <1>5, <2>9, <3>1 DEF Row
  <2>12. ASSUME ~ Contested(owner_map) PROVE Named(t) \cap Partial \subseteq Named(r)
    <3>1. n.varies \cap Partial = m.varies \cap Partial
      BY <2>6, <2>12 DEF Contested
    <3>2. AsWritten(n) = AsWritten(m)
      BY <2>6, <3>1 DEF AsWritten
    <3>3. \A d \in Partial : t[d] = r[d]
      BY <1>4, <2>6, <3>2 DEF Key
    <3> QED
      BY <1>5, <2>1, <3>3 DEF Named, Row
  <2>13. ASSUME Contested(owner_map) PROVE Named(t) \cap Partial \subseteq Named(r)
    BY <1>1, <1>5, <2>8, <2>9, <2>11, <2>13, ResolvedIs
  <2>14. Named(t) \cap Others \subseteq Named(r)
    BY <1>5, <2>1, <2>10 DEF Named, Row
  <2> QED
    BY <2>1, <2>12, <2>13, <2>14 DEF Named, Row, Dims
<1>11. ASSUME NEW s \in written[m.layer], Reaches(s, c), Counts(m.layer, s)
       PROVE  Named(s) \subseteq Named(r)
  <2>1. Named(s) \subseteq Named(j.at) /\ s \in Row
    BY <1>6, <1>9, <1>11
  <2>2. Meet(r, s)
    BY <1>7, <1>11 DEF Meet, Reaches
  <2>3. ~ Unsettled(r, s, written[m.layer])
    BY <1>6 DEF Ordered
  <2>4. CASE Named(r) \subseteq Named(s)
    BY <1>10, <1>11, <2>1, <2>4
  <2>5. ASSUME NEW t \in written[m.layer], Named(t) = Named(r) \cup Named(s), Reaches(t, Met(r, s))
        PROVE  Named(s) \subseteq Named(r)
    <3>1. t \in Row /\ Named(t) \subseteq Dims
      BY <1>6 DEF Row, Named
    <3>2. \A d \in Named(t) : c[d] = t[d]
      <4> SUFFICES ASSUME NEW d \in Named(t) PROVE c[d] = t[d]
        OBVIOUS
      <4>1. t[d] = Met(r, s)[d] /\ d \in Dims
        BY <2>5, <3>1 DEF Reaches
      <4>2. Met(r, s)[d] = IF r[d] = Null THEN s[d] ELSE r[d]
        BY <1>5, <4>1 DEF Met, Row
      <4> QED
        BY <1>5, <1>7, <1>11, <2>1, <2>5, <4>1, <4>2 DEF Reaches, Named, Row
    <3>3. Reaches(t, c)
      BY <3>2 DEF Reaches
    <3> QED
      BY <1>5, <1>10, <2>1, <2>5, <3>3
  <2> QED
    BY <2>2, <2>3, <2>4, <2>5 DEF Unsettled, Nested
<1>12. \A n \in 1 .. Depth : \A s \in written[n] : Reaches(s, c) /\ Counts(n, s) =>
         n <= m.layer /\ (n = m.layer => Named(s) \subseteq Named(r))
  BY <1>9, <1>11
<1> DEFINE here == {x \in (1 .. Depth) \X UNION {written[k] : k \in 1 .. Depth} :
                      x[2] \in written[x[1]] /\ Reaches(x[2], c) /\ Counts(x[1], x[2])}
<1>13. \A x : x \in here <=> \E n \in 1 .. Depth : \E s \in written[n] :
                            x = <<n, s>> /\ Reaches(s, c) /\ Counts(n, s)
  BY CountingIs
<1>14. \A y \in here : y[1] <= m.layer /\ (y[1] = m.layer => Named(y[2]) \subseteq Named(r))
  <2> HIDE DEF here
  <2> QED
    BY <1>12, <1>13
<1>15. <<m.layer, r>> \in here
  <2> HIDE DEF here
  <2> QED
    BY <1>6, <1>7, <1>8, <1>13
<1>16. <<m.layer, r>> \in Answer(c)
  BY <1>14, <1>15, CountingIs
<1> QED
  BY <1>5, <1>16

\* No read is wrong: at a coordinate it answers with the deepest layer's most
\* specific row, or with nothing (settle raises where rows cross).
THEOREM ReadsAreNeverWrong ==
    Spec => [](\A c \in Coordinates : ReadAt(c) # {} => ReadAt(c) = Answer(c))
<1>1. ASSUME DInv, NEW c \in Coordinates, ReadAt(c) # {} PROVE ReadAt(c) = Answer(c)
  <2>1. ReadAt(c) \subseteq Answer(c)
    BY <1>1, SettledIsAnswer DEF ReadAt
  <2>2. ASSUME NEW x \in Answer(c) PROVE x \in ReadAt(c)
    <3>1. PICK y \in ReadAt(c) : y \in Answer(c)
      BY <1>1, <2>1
    <3> QED
      BY <1>1, <3>1, OneAnswer
  <2> QED
    BY <2>1, <2>2
<1>2. DInv => \A c \in Coordinates : ReadAt(c) # {} => ReadAt(c) = Answer(c)
  BY <1>1
<1> QED
  BY <1>2, ReadsInvariant, PTL

\* Where no rows cross, every coordinate reads the deepest layer's most specific
\* row: what fold_attributes keeps, drops and adds loses no row and no order.
THEOREM DeepestWinsUncrossed == Spec => [](NoneCross => DeepestWins)
<1>1. Spec => [](\A c \in Coordinates : ReadAt(c) # {} => ReadAt(c) = Answer(c))
  BY ReadsAreNeverWrong
<1>2. (\A c \in Coordinates : ReadAt(c) # {} => ReadAt(c) = Answer(c)) => (NoneCross => DeepestWins)
  BY DEF NoneCross, DeepestWins
<1> QED
  BY <1>1, <1>2, PTL

-----------------------------------------------------------------------------
(* Where every dim is in `partial`.                                        *)

LEMMA NamesFinite ==
    ASSUME NEW T \in SUBSET Dims, NEW S \in SUBSET T
    PROVE  /\ IsFiniteSet(S) /\ Cardinality(S) \in Nat /\ Cardinality(T) \in Nat
           /\ Cardinality(S) <= Cardinality(T)
<1>1. IsFiniteSet(T)
  BY DimsAssumption, FS_Subset DEF Dims
<1>2. IsFiniteSet(S) /\ Cardinality(S) <= Cardinality(T)
  BY <1>1, FS_Subset
<1> QED
  BY <1>1, <1>2, FS_CardinalityType

\* Among sets of dims there is one no other is larger than.
LEMMA Largest ==
    ASSUME NEW SS \in SUBSET (SUBSET Dims), SS # {}
    PROVE  \E A \in SS : \A B \in SS : A \subseteq B => A = B
<1> DEFINE sizes == {Cardinality(B) : B \in SS}
<1>1. \A B \in SS : B \subseteq Dims /\ IsFiniteSet(B) /\ Cardinality(B) \in Nat
                    /\ Cardinality(Dims) \in Nat /\ Cardinality(B) <= Cardinality(Dims)
  BY NamesFinite
<1>2. sizes \in SUBSET Nat /\ sizes # {} /\ \A k \in sizes : k <= Cardinality(Dims)
  BY <1>1
<1>3. PICK n \in sizes : \A k \in sizes : k <= n
  <2> HIDE DEF sizes
  <2> QED
    BY <1>1, <1>2, Greatest
<1>4. PICK A \in SS : n = Cardinality(A)
  OBVIOUS
<1>5. ASSUME NEW B \in SS, A \subseteq B PROVE A = B
  <2>1. Cardinality(B) <= Cardinality(A)
    BY <1>3, <1>4
  <2>2. IsFiniteSet(B) /\ Cardinality(A) \in Nat /\ Cardinality(B) \in Nat
    BY <1>1
  <2>3. Cardinality(A) <= Cardinality(B) /\ (Cardinality(A) = Cardinality(B) => A = B)
    BY <1>5, <2>2, FS_Subset
  <2> QED
    BY <2>1, <2>2, <2>3
<1> QED
  BY <1>5

\* At every key of the map a row is read.
LEMMA PlaceRead ==
    ASSUME DInv, Others = {}, NEW m \in owner_map
    PROVE  \E j \in Resolved(owner_map, written, dead) : j.at = m.key
<1>1. Dims = Partial
  BY DEF Dims
<1> DEFINE rows == {r \in written[m.layer] : \E n \in owner_map :
                      n.key = m.key /\ n.layer = m.layer /\ Key(r) = AsWritten(n)}
           names == {Named(r) : r \in rows}
<1>2. /\ m.layer \in 1 .. Depth /\ m.layer \in Nat /\ m.key \in Keys
      /\ written[m.layer] \subseteq Row /\ Ordered(written[m.layer])
  BY MapTyped
<1>3. names \in SUBSET (SUBSET Partial) /\ names # {}
  <2>1. \A r \in rows : Named(r) \subseteq Partial
    BY <1>1, <1>2 DEF Named, Row
  <2>2. rows # {}
    BY DEF DInv, Written
  <2> QED
    BY <2>1, <2>2
<1>4. PICK r \in rows : \A s \in rows : Named(r) \subseteq Named(s) => Named(r) = Named(s)
  <2>1. PICK A \in names : \A B \in names : A \subseteq B => A = B
    <3> HIDE DEF names
    <3> QED
      BY <1>1, <1>3, Largest
  <2> QED
    BY <2>1
<1>5. PICK n \in owner_map : n.key = m.key /\ n.layer = m.layer /\ Key(r) = AsWritten(n)
  OBVIOUS
<1> DEFINE j == Placed(n, r)
<1>6. /\ j.row = r /\ j.at \in Row /\ r \in Row
      /\ \A d \in Partial : j.at[d] = m.key[d]
      /\ \A d \in Named(r) : j.at[d] = r[d]
  BY <1>5, PlacedIs
<1>7. j \in Joined
  BY <1>5, JoinedIs
<1> HIDE DEF j
<1>8. j.at = m.key
  <2>1. j.at \in [Partial -> AllLabels \cup {Null}] /\ m.key \in [Partial -> AllLabels \cup {Null}]
    BY <1>1, <1>2, <1>6 DEF Row, Keys
  <2> QED
    BY <1>6, <2>1
<1>9. ASSUME NEW k \in Joined, k.at = j.at PROVE Named(k.row) \subseteq Named(r)
  <2>1. PICK q \in owner_map : \E s \in written[q.layer] : Key(s) = AsWritten(q) /\ k = Placed(q, s)
    BY JoinedIs
  <2>2. PICK s \in written[q.layer] : Key(s) = AsWritten(q) /\ k = Placed(q, s)
    BY <2>1
  <2>3. /\ k.row = s /\ s \in Row
        /\ \A d \in Partial : k.at[d] = q.key[d]
        /\ \A d \in Named(s) : k.at[d] = s[d]
    BY <2>2, PlacedIs
  <2>4. q.layer \in Nat /\ q.key \in Keys
    BY MapTyped
  <2>5. q.key = m.key
    <3>1. \A d \in Partial : q.key[d] = m.key[d]
      BY <1>6, <1>9, <2>3
    <3> QED
      BY <1>2, <2>4, <3>1 DEF Keys
  <2>6. q.layer = m.layer
    <3>1. Reaches(q.key, m.key) /\ Reaches(m.key, q.key)
      BY <2>5 DEF Reaches
    <3>2. ~ (q.layer < m.layer) /\ ~ (m.layer < q.layer)
      BY <3>1 DEF DInv, NoneCovered
    <3> QED
      BY <1>2, <2>4, <3>2
  <2>7. s \in written[m.layer] /\ s \in rows
    BY <2>2, <2>5, <2>6
  <2>8. Meet(r, s)
    BY <1>6, <1>9, <2>3 DEF Meet
  <2>9. CASE Nested(r, s)
    <3>1. Named(r) \subseteq Named(s) => Named(r) = Named(s)
      BY <1>4, <2>7
    <3> QED
      BY <2>3, <2>9, <3>1 DEF Nested
  <2>10. ASSUME NEW t \in written[m.layer], Named(t) = Named(r) \cup Named(s), Reaches(t, Met(r, s))
         PROVE  Named(s) \subseteq Named(r)
    <3>1. t \in Row /\ Key(t) \in Keys /\ \A d \in Partial : Key(t)[d] = t[d]
      BY <1>2, KeyOfRow
    <3>2. \A d \in Named(t) : m.key[d] = t[d]
      <4> SUFFICES ASSUME NEW d \in Named(t) PROVE m.key[d] = t[d]
        OBVIOUS
      <4>1. t[d] = Met(r, s)[d] /\ d \in Dims
        BY <2>10, <3>1 DEF Reaches, Named, Row
      <4>2. Met(r, s)[d] = IF r[d] = Null THEN s[d] ELSE r[d]
        BY <1>6, <4>1 DEF Met, Row
      <4>3. d \in Named(r) \/ d \in Named(s)
        BY <2>10
      <4> QED
        BY <1>1, <1>6, <1>9, <2>3, <4>1, <4>2, <4>3 DEF Named, Row
    <3>3. Reaches(Key(t), m.key)
      <4>1. \A d \in Partial : Key(t)[d] = Null \/ m.key[d] = Key(t)[d]
        BY <1>1, <3>1, <3>2 DEF Named, Row
      <4> QED
        BY <3>1, <4>1, KeyReaches
    <3>4. Reaches(AsWritten(n), Key(t))
      <4>1. Key(r) \in Keys /\ \A d \in Partial : Key(r)[d] = r[d]
        BY <1>6, KeyOfRow
      <4>2. \A d \in Partial : r[d] = Null \/ t[d] = r[d]
        <5> SUFFICES ASSUME NEW d \in Partial, r[d] # Null PROVE t[d] = r[d]
          OBVIOUS
        <5>1. d \in Named(r) /\ d \in Named(t)
          BY <1>1, <1>6, <2>10 DEF Named, Row
        <5> QED
          BY <1>6, <3>2, <5>1
      <4> QED
        BY <1>5, <3>1, <4>1, <4>2, KeyReaches
    <3>5. t \in written[n.layer] /\ Reaches(Key(t), n.key)
      BY <1>5, <3>3
    <3>6. PICK i \in owner_map : i.key = n.key /\ i.layer = n.layer /\ AsWritten(i) = Key(t)
      BY <3>4, <3>5 DEF DInv, Refined
    <3>7. t \in rows
      BY <1>5, <3>6
    <3>8. Named(r) = Named(t)
      BY <1>4, <2>10, <3>7
    <3> QED
      BY <2>10, <3>8
  <2>11. ~ Unsettled(r, s, written[m.layer])
    BY <1>2, <2>7 DEF Ordered
  <2> QED
    BY <2>3, <2>8, <2>9, <2>10, <2>11 DEF Unsettled
<1>10. j \in Resolved(owner_map, written, dead)
  BY <1>6, <1>7, <1>9, ResolvedIs
<1> QED
  BY <1>8, <1>10

\* The key a map row was written with is a key of the map.
LEMMA WrittenOwned ==
    ASSUME DInv, NEW m \in owner_map
    PROVE  \E n \in owner_map : n.key = AsWritten(m)
<1>1. /\ m.layer \in 1 .. Depth /\ m.layer \in Nat /\ m.key \in Keys
      /\ AsWritten(m) \in Keys
      /\ \A d \in Partial : AsWritten(m)[d] = Null \/ AsWritten(m)[d] = m.key[d]
  BY MapTyped
<1>2. PICK r \in written[m.layer] : Key(r) = AsWritten(m)
  BY DEF DInv, Written
<1>3. Counts(m.layer, m.key)
  BY DEF DInv, Counting
<1>4. Counts(m.layer, AsWritten(m))
  BY <1>1, <1>3, CountsShorter DEF DInv, FInv
<1>5. Counts(m.layer, r)
  BY <1>1, <1>2, <1>4, CountsKey, KeyOfKey
<1> QED
  BY <1>1, <1>2, <1>5 DEF DInv, Owning

\* Where every dim is in `partial`, flags tell of no container that stays empty
\* (Fold.flags): at every key of the map, and at the key behind it, a row is read.
THEOREM FlagsExact == ASSUME Others = {} PROVE Spec => []FlagsTellNoMore
<1>1. ASSUME DInv, NEW d \in Partial, NEW labels \in SUBSET Held(axes, d),
             NEW e, NEW m \in OwnedReaching(owner_map, d, labels)
      PROVE  /\ e \in m.varies =>
                  \E j \in OfCategory(Resolved(owner_map, written, dead), d, labels) : j.at[e] # Null
             /\ e \in m.broadcast =>
                  \E j \in OfCategory(Resolved(owner_map, written, dead), d, labels) : j.at[e] = Null
  <2>1. /\ m \in owner_map /\ labels # {}
        /\ m.key[d] \in labels \/ m.key[d] = Null
    BY DEF OwnedReaching
  <2>2. /\ m.varies \subseteq Partial /\ m.broadcast \subseteq Partial
        /\ \A q \in Partial : q \in m.varies => m.key[q] # Null /\ q \notin m.broadcast
    BY <1>1, <2>1 DEF DInv, FInv, IInv, TypeOK, FlagsAsWritten, Flagged, Dims
  <2>3. ASSUME e \in m.varies
        PROVE  \E j \in OfCategory(Resolved(owner_map, written, dead), d, labels) : j.at[e] # Null
    <3>1. PICK j \in Resolved(owner_map, written, dead) : j.at = m.key
      BY <1>1, <2>1, PlaceRead
    <3> QED
      BY <2>1, <2>2, <2>3, <3>1 DEF OfCategory
  <2>4. ASSUME e \in m.broadcast
        PROVE  \E j \in OfCategory(Resolved(owner_map, written, dead), d, labels) : j.at[e] = Null
    <3>1. PICK n \in owner_map : n.key = AsWritten(m)
      BY <1>1, <2>1, WrittenOwned
    <3>2. PICK j \in Resolved(owner_map, written, dead) : j.at = AsWritten(m)
      BY <1>1, <3>1, PlaceRead
    <3>3. AsWritten(m)[e] = Null /\ (AsWritten(m)[d] = m.key[d] \/ AsWritten(m)[d] = Null)
      BY <2>2, <2>4 DEF AsWritten
    <3> QED
      BY <2>1, <3>2, <3>3 DEF OfCategory
  <2> QED
    BY <2>3, <2>4
<1>2. ASSUME DInv PROVE FlagsTellNoMore
  <2> SUFFICES ASSUME NEW d \in Partial, NEW labels \in SUBSET Held(axes, d)
               PROVE  LET flags == FlagsOf(owner_map, d, labels)
                          rows == OfCategory(Resolved(owner_map, written, dead), d, labels)
                      IN /\ \A e \in flags.varies : \E j \in rows : j.at[e] # Null
                         /\ \A e \in flags.broadcast : \E j \in rows : j.at[e] = Null
    BY DEF FlagsTellNoMore
  <2>1. \A e : /\ e \in FlagsOf(owner_map, d, labels).varies =>
                    \E m \in OwnedReaching(owner_map, d, labels) : e \in m.varies
               /\ e \in FlagsOf(owner_map, d, labels).broadcast =>
                    \E m \in OwnedReaching(owner_map, d, labels) : e \in m.broadcast
    BY DEF FlagsOf, Flags
  <2> QED
    BY <1>1, <1>2, <2>1
<1> QED
  BY <1>2, ReadsInvariant, PTL

-----------------------------------------------------------------------------
(* Where every dim is in `partial`, and there are three of them at most, no *)
(* rows cross: what a layer covers it can cover only with rows of its own,  *)
(* or with what those cross its parent's rows at.                           *)

\* q reaches the coordinate c and names there what m and n name.
Joins(q, m, n, c) == Reaches(q.key, c) /\ Named(q.key) = Named(m.key) \cup Named(n.key)

\* Rows of the map that reach a coordinate have one that joins them there.
Closed ==
    \A c \in [Partial -> AllLabels] : \A m, n \in owner_map :
        Reaches(m.key, c) /\ Reaches(n.key, c) => \E q \in owner_map : Joins(q, m, n, c)

\* Four of anything are more than three.
LEMMA FourAreMany ==
    ASSUME Cardinality(Partial) <= 3,
           NEW u \in Partial, NEW v \in Partial, NEW x \in Partial, NEW y \in Partial
    PROVE  u = v \/ u = x \/ u = y \/ v = x \/ v = y \/ x = y
<1> SUFFICES ASSUME u # v, u # x, u # y, v # x, v # y, x # y PROVE FALSE
  OBVIOUS
<1>1. IsFiniteSet({u}) /\ Cardinality({u}) = 1
  BY FS_Singleton
<1>2. IsFiniteSet({u} \cup {v}) /\ Cardinality({u} \cup {v}) = 2
  BY <1>1, FS_AddElement
<1>3. IsFiniteSet({u} \cup {v} \cup {x}) /\ Cardinality({u} \cup {v} \cup {x}) = 3
  <2>1. x \notin {u} \cup {v}
    OBVIOUS
  <2> QED
    BY <1>2, <2>1, FS_AddElement
<1>4. Cardinality({u} \cup {v} \cup {x} \cup {y}) = 4
  <2>1. y \notin {u} \cup {v} \cup {x}
    OBVIOUS
  <2> QED
    BY <1>3, <2>1, FS_AddElement
<1>5. {u} \cup {v} \cup {x} \cup {y} \subseteq Partial
  OBVIOUS
<1>6. Cardinality({u} \cup {v} \cup {x} \cup {y}) <= Cardinality(Partial) /\ Cardinality(Partial) \in Nat
  BY <1>5, NamesFinite DEF Dims
<1> QED
  BY <1>4, <1>6

\* What sets of dims a layer leaves: K are those of the rows kept, O the layer's
\* own, M all of them.
Leaves(K, O, M) ==
    /\ K \subseteq M /\ O \subseteq M
    /\ \A A \in O, B \in K : A \cup B \in M
    /\ \A A \in O, B \in O : A \cup B \in O
    /\ \A A \in K, B \in K : \/ A \cup B \in K
                             \/ \E C \in O : C \cup A = A \cup B \/ C \cup B = A \cup B
    /\ \A A \in M : A \in K \/ A \in O \/ \E C \in O, B \in K : A = C \cup B

LEMMA ClosedSets ==
    ASSUME NEW K, NEW O, NEW M, Leaves(K, O, M)
    PROVE  \A A \in M, B \in M : A \cup B \in M
<1> USE DEF Leaves
<1>1. ASSUME NEW C \in O, NEW A \in K, NEW B \in K PROVE C \cup (A \cup B) \in M
  <2>1. CASE A \cup B \in K
    BY <2>1
  <2>2. ASSUME NEW D \in O, D \cup A = A \cup B PROVE C \cup (A \cup B) \in M
    <3>1. C \cup (A \cup B) = (C \cup D) \cup A
      BY <2>2
    <3> QED
      BY <3>1
  <2>3. ASSUME NEW D \in O, D \cup B = A \cup B PROVE C \cup (A \cup B) \in M
    <3>1. C \cup (A \cup B) = (C \cup D) \cup B
      BY <2>3
    <3> QED
      BY <3>1
  <2> QED
    BY <2>1, <2>2, <2>3
<1>2. ASSUME NEW A \in K, NEW B \in M PROVE A \cup B \in M /\ B \cup A \in M
  <2>1. A \cup B = B \cup A
    OBVIOUS
  <2>2. CASE B \in K
    <3>1. \A C \in O : C \cup A \in M /\ C \cup B \in M
      BY <2>2
    <3> QED
      BY <2>1, <2>2, <3>1
  <2>3. CASE B \in O
    BY <2>1, <2>3
  <2>4. ASSUME NEW C \in O, NEW D \in K, B = C \cup D PROVE A \cup B \in M
    <3>1. A \cup B = C \cup (A \cup D)
      BY <2>4
    <3> QED
      BY <1>1, <3>1
  <2>5. B \in K \/ B \in O \/ \E C \in O, D \in K : B = C \cup D
    OBVIOUS
  <2>6. A \cup B \in M
    BY <2>2, <2>3, <2>4, <2>5
  <2> QED
    BY <2>1, <2>6
<1>3. ASSUME NEW A \in O, NEW B \in M PROVE A \cup B \in M
  <2>1. CASE B \in K \/ B \in O
    BY <2>1
  <2>2. ASSUME NEW C \in O, NEW D \in K, B = C \cup D PROVE A \cup B \in M
    <3>1. A \cup B = (A \cup C) \cup D
      BY <2>2
    <3> QED
      BY <3>1
  <2>3. B \in K \/ B \in O \/ \E C \in O, D \in K : B = C \cup D
    OBVIOUS
  <2> QED
    BY <2>1, <2>2, <2>3
<1>4. ASSUME NEW A \in M, NEW B \in M, NEW C \in O, NEW D \in K, A = C \cup D PROVE A \cup B \in M
  <2>1. CASE B \in K \/ B \in O
    <3>1. A \cup B = B \cup A
      OBVIOUS
    <3> QED
      BY <1>2, <1>3, <2>1, <3>1
  <2>2. ASSUME NEW E \in O, NEW F \in K, B = E \cup F PROVE A \cup B \in M
    <3>1. A \cup B = (C \cup E) \cup (D \cup F)
      BY <1>4, <2>2
    <3>2. C \cup E \in O
      OBVIOUS
    <3>3. (C \cup E) \cup (D \cup F) \in M
      BY <1>1, <3>2
    <3> QED
      BY <3>1, <3>3
  <2>3. B \in K \/ B \in O \/ \E E \in O, F \in K : B = E \cup F
    OBVIOUS
  <2> QED
    BY <2>1, <2>2, <2>3
<1> SUFFICES ASSUME NEW A \in M, NEW B \in M PROVE A \cup B \in M
  OBVIOUS
<1>5. A \in K \/ A \in O \/ \E C \in O, D \in K : A = C \cup D
  OBVIOUS
<1> QED
  BY <1>2, <1>3, <1>4, <1>5

LEMMA CrossReaches ==
    ASSUME NEW m, NEW o, NEW p, NEW c, Crosses(m, o, p), o.key \in Keys, p.key \in Keys
    PROVE  /\ Reaches(o.key, c) /\ Reaches(p.key, c) => Reaches(m.key, c)
           /\ Reaches(m.key, c) => Reaches(o.key, c) /\ Reaches(p.key, c)
           /\ Named(m.key) = Named(o.key) \cup Named(p.key)
<1>1. /\ m.key \in Keys
      /\ \A d \in Partial : m.key[d] = IF o.key[d] = Null THEN p.key[d] ELSE o.key[d]
      /\ \A d \in Partial : o.key[d] # Null /\ p.key[d] # Null => o.key[d] = p.key[d]
  BY DEF Crosses
<1>2. Named(m.key) = Named(o.key) \cup Named(p.key)
  BY <1>1 DEF Named, Keys
<1>3. Reaches(o.key, c) /\ Reaches(p.key, c) => Reaches(m.key, c)
  BY <1>1, KeyReaches
<1>4. Reaches(m.key, c) => Reaches(o.key, c) /\ Reaches(p.key, c)
  <2>1. (\A d \in Partial : m.key[d] = Null \/ c[d] = m.key[d]) =>
          \A d \in Partial : (o.key[d] = Null \/ c[d] = o.key[d]) /\ (p.key[d] = Null \/ c[d] = p.key[d])
    BY <1>1
  <2> QED
    BY <1>1, <2>1, KeyReaches
<1> QED
  BY <1>2, <1>3, <1>4

LEMMA MapStepTyped ==
    ASSUME DInv, NEW files \in Axes, NEW rows \in Rows, Layer(files, rows)
    PROVE  /\ \A o \in Own(Depth + 1, rows) : o.key \in Keys /\ \E r \in rows : o.key = Key(r)
           /\ \A r \in rows : \E o \in Own(Depth + 1, rows) : o.key = Key(r)
           /\ \A d \in Partial : Null \notin Removed(axes, files)[d]
<1>1. rows \in SUBSET Row
  BY RowsAssumption
<1>2. \A o \in Own(Depth + 1, rows) :
        /\ o \in MapRows({Depth + 1}) /\ o.layer = Depth + 1 /\ AsWritten(o) = o.key
        /\ \E r \in rows : o.key = Key(r)
  BY <1>1, OwnAsWritten
<1>3. \A o \in Own(Depth + 1, rows) : o.key \in Keys
  BY <1>2 DEF MapRows
<1>4. \A r \in rows : \E o \in Own(Depth + 1, rows) : o.key = Key(r)
  BY <1>1, OwnAsWritten
<1>5. \A d \in Partial : Null \notin Removed(axes, files)[d]
  BY NullAssumption DEF DInv, FInv, IInv, TypeOK, Removed, Held, Dims
<1> QED
  BY <1>2, <1>3, <1>4, <1>5

\* Two of the layer's rows that reach a coordinate: one names what both name.
LEMMA OwnClosed ==
    ASSUME DInv, Others = {}, NEW files \in Axes, NEW rows \in Rows, Layer(files, rows),
           NEW c \in [Partial -> AllLabels]
    PROVE  \A o, q \in Own(Depth + 1, rows) : Reaches(o.key, c) /\ Reaches(q.key, c) =>
             \E t \in Own(Depth + 1, rows) :
                Reaches(t.key, c) /\ Named(t.key) = Named(o.key) \cup Named(q.key)
<1> SUFFICES ASSUME NEW o \in Own(Depth + 1, rows), NEW q \in Own(Depth + 1, rows),
                    Reaches(o.key, c), Reaches(q.key, c)
             PROVE  \E t \in Own(Depth + 1, rows) :
                      Reaches(t.key, c) /\ Named(t.key) = Named(o.key) \cup Named(q.key)
  OBVIOUS
<1>1. rows \in SUBSET Row /\ Ordered(rows)
  BY RowsAssumption DEF Layer, Accepted
<1>2. \A r \in rows : Key(r) \in Keys /\ Named(Key(r)) = Named(r)
                      /\ \A d \in Partial : Key(r)[d] = r[d]
  <2> SUFFICES ASSUME NEW r \in rows
               PROVE  Key(r) \in Keys /\ Named(Key(r)) = Named(r) /\ \A d \in Partial : Key(r)[d] = r[d]
    OBVIOUS
  <2>1. r \in Row /\ Key(r) \in Keys /\ \A d \in Partial : Key(r)[d] = r[d]
    BY <1>1, KeyOfRow
  <2> QED
    BY <2>1 DEF Named, Keys, Row, Dims
<1>3. PICK r \in rows : o.key = Key(r)
  BY MapStepTyped
<1>4. PICK s \in rows : q.key = Key(s)
  BY MapStepTyped
<1>5. /\ \A d \in Named(r) : c[d] = r[d]
      /\ \A d \in Named(s) : c[d] = s[d]
  <2>1. Named(r) \subseteq Partial /\ Named(s) \subseteq Partial
    BY <1>1, <1>3, <1>4 DEF Named, Row, Dims
  <2> QED
    BY <1>2, <1>3, <1>4, <2>1 DEF Reaches
<1>6. CASE Nested(r, s)
  <2>1. Named(o.key) \cup Named(q.key) = Named(o.key) \/ Named(o.key) \cup Named(q.key) = Named(q.key)
    BY <1>2, <1>3, <1>4, <1>6 DEF Nested
  <2> QED
    BY <2>1
<1>7. ASSUME NEW t \in rows, Named(t) = Named(r) \cup Named(s), Reaches(t, Met(r, s))
      PROVE  \E x \in Own(Depth + 1, rows) :
                Reaches(x.key, c) /\ Named(x.key) = Named(o.key) \cup Named(q.key)
  <2>1. PICK x \in Own(Depth + 1, rows) : x.key = Key(t)
    BY MapStepTyped
  <2>2. Named(x.key) = Named(o.key) \cup Named(q.key)
    BY <1>2, <1>3, <1>4, <1>7, <2>1
  <2>3. \A d \in Named(t) : c[d] = t[d]
    <3> SUFFICES ASSUME NEW d \in Named(t) PROVE c[d] = t[d]
      OBVIOUS
    <3>1. t[d] = Met(r, s)[d] /\ d \in Dims /\ r \in Row /\ s \in Row
      BY <1>1, <1>7 DEF Reaches, Named, Row
    <3>2. Met(r, s)[d] = IF r[d] = Null THEN s[d] ELSE r[d]
      BY <3>1 DEF Met, Row
    <3> QED
      BY <1>5, <1>7, <3>1, <3>2 DEF Named, Row
  <2>4. Reaches(x.key, c)
    <3>1. Named(t) = Named(Key(t)) /\ \A d \in Partial : Key(t)[d] = t[d]
      BY <1>2
    <3>2. Named(t) \subseteq Partial
      BY <1>1 DEF Named, Row, Dims
    <3> QED
      BY <2>1, <2>3, <3>1, <3>2 DEF Reaches
  <2> QED
    BY <2>2, <2>4
<1>8. Meet(r, s)
  BY <1>5 DEF Meet
<1>9. ~ Unsettled(r, s, rows)
  BY <1>1 DEF Ordered
<1> QED
  BY <1>6, <1>7, <1>8, <1>9 DEF Unsettled

LEMMA LayerClosed ==
    ASSUME DInv, Closed, Others = {}, Cardinality(Partial) <= 3,
           NEW files \in Axes, NEW rows \in Rows, Layer(files, rows)
    PROVE  Closed'
<1> DEFINE own == Own(Depth + 1, rows)
           kept == Kept(owner_map, own, Removed(axes, files))
<1>1. /\ kept \subseteq owner_map /\ kept \subseteq owner_map' /\ own \subseteq owner_map'
      /\ \A p \in kept : /\ p.key \in Keys
                         /\ \A d \in Partial : p.key[d] \notin Removed(axes, files)[d]
                         /\ ~ \E o \in own : Reaches(o.key, p.key)
      /\ \A m \in owner_map' \ (kept \cup own) : \E p \in kept, o \in own : Crosses(m, o, p)
  BY MapStep
<1>2. \A p \in kept, o \in own :
        Meet(p.key, o.key) /\ ~ Nested(p.key, o.key) => \E m \in owner_map' : Crosses(m, o, p)
  BY MapStep
<1>3. \A o \in own : o.key \in Keys
  BY MapStepTyped
<1>4. \A d \in Partial : Null \notin Removed(axes, files)[d]
  BY MapStepTyped
<1> SUFFICES \A c \in [Partial -> AllLabels] : \A m, n \in owner_map' :
               Reaches(m.key, c) /\ Reaches(n.key, c) => \E q \in owner_map' : Joins(q, m, n, c)
  BY DEF Closed
<1> TAKE c \in [Partial -> AllLabels]
<1> TAKE a, b \in owner_map'
<1> HAVE Reaches(a.key, c) /\ Reaches(b.key, c)
<1>0. \A o, q \in own : Reaches(o.key, c) /\ Reaches(q.key, c) =>
        \E t \in own : Reaches(t.key, c) /\ Named(t.key) = Named(o.key) \cup Named(q.key)
  BY OwnClosed
<1> DEFINE At(map) == {m \in map : Reaches(m.key, c)}
           K == {Named(m.key) : m \in At(kept)}
           O == {Named(m.key) : m \in At(own)}
           M == {Named(m.key) : m \in At(owner_map')}
<1>5. K \subseteq M /\ O \subseteq M
  BY <1>1
<1>6. ASSUME NEW o \in At(own), NEW p \in At(kept)
      PROVE  /\ Named(o.key) \cup Named(p.key) \in M
             /\ ~ (Named(o.key) \subseteq Named(p.key))
  <2>1. o.key \in Keys /\ p.key \in Keys
    BY <1>1, <1>3
  <2>2. \A d \in Partial : /\ o.key[d] = Null \/ c[d] = o.key[d]
                           /\ p.key[d] = Null \/ c[d] = p.key[d]
    BY <2>1, KeyReaches
  <2>3. Meet(p.key, o.key)
    BY <2>1, <2>2 DEF Meet, Named, Keys
  <2>4. ~ (Named(o.key) \subseteq Named(p.key))
    <3> SUFFICES ASSUME Named(o.key) \subseteq Named(p.key) PROVE Reaches(o.key, p.key)
      BY <1>1
    <3> QED
      BY <2>1, <2>2 DEF Reaches, Named, Keys
  <2>5. CASE Named(p.key) \subseteq Named(o.key)
    <3>1. Named(o.key) \cup Named(p.key) = Named(o.key)
      BY <2>5
    <3>2. Named(o.key) \in O
      OBVIOUS
    <3> QED
      BY <1>5, <2>4, <3>1, <3>2
  <2>6. CASE ~ (Named(p.key) \subseteq Named(o.key))
    <3>1. PICK m \in owner_map' : Crosses(m, o, p)
      BY <1>2, <2>3, <2>4, <2>6 DEF Nested
    <3>2. Reaches(m.key, c) /\ Named(m.key) = Named(o.key) \cup Named(p.key)
      BY <2>1, <3>1, CrossReaches
    <3>3. Named(m.key) \in M
      BY <3>2
    <3> QED
      BY <2>4, <3>2, <3>3
  <2> QED
    BY <2>5, <2>6
<1>7. ASSUME NEW o \in At(own), NEW q \in At(own) PROVE Named(o.key) \cup Named(q.key) \in O
  <2>1. PICK t \in own : Reaches(t.key, c) /\ Named(t.key) = Named(o.key) \cup Named(q.key)
    <3>1. o \in own /\ q \in own /\ Reaches(o.key, c) /\ Reaches(q.key, c)
      OBVIOUS
    <3> HIDE DEF own
    <3> QED
      BY <1>0, <3>1
  <2>2. t \in At(own)
    BY <2>1
  <2> QED
    BY <2>1, <2>2
<1>8. ASSUME NEW p \in At(kept), NEW n \in At(kept)
      PROVE  \/ Named(p.key) \cup Named(n.key) \in K
             \/ \E C \in O : \/ C \cup Named(p.key) = Named(p.key) \cup Named(n.key)
                             \/ C \cup Named(n.key) = Named(p.key) \cup Named(n.key)
  <2>1. PICK x \in owner_map : Reaches(x.key, c) /\ Named(x.key) = Named(p.key) \cup Named(n.key)
    <3>1. p \in owner_map /\ n \in owner_map /\ Reaches(p.key, c) /\ Reaches(n.key, c)
      BY <1>1
    <3> QED
      BY <3>1 DEF Closed, Joins
  <2>2. x.key \in Keys /\ p.key \in Keys /\ n.key \in Keys
    BY <1>1, MapTyped
  <2>3. \A d \in Partial : x.key[d] \notin Removed(axes, files)[d]
    <3> SUFFICES ASSUME NEW d \in Partial PROVE x.key[d] \notin Removed(axes, files)[d]
      OBVIOUS
    <3>1. CASE x.key[d] = Null
      BY <1>4, <3>1
    <3>2. CASE x.key[d] # Null
      <4>1. d \in Named(p.key) \/ d \in Named(n.key)
        BY <2>1, <2>2, <3>2 DEF Named, Keys
      <4>2. x.key[d] = p.key[d] \/ x.key[d] = n.key[d]
        BY <2>1, <2>2, <3>2, <4>1 DEF Reaches, Named, Keys
      <4> QED
        BY <1>1, <4>2
    <3> QED
      BY <3>1, <3>2
  <2>4. CASE x \in kept
    <3>1. Named(x.key) \in K
      BY <2>1, <2>4
    <3> QED
      BY <2>1, <3>1
  <2>5. CASE x \notin kept
    <3>1. PICK o \in own : Reaches(o.key, x.key)
      BY <2>3, <2>5 DEF Kept
    <3>2. o.key \in Keys /\ Reaches(o.key, c) /\ Named(o.key) \subseteq Named(x.key)
      <4>1. o.key \in Keys
        BY <1>3
      <4>2. \A d \in Partial : o.key[d] = Null \/ x.key[d] = o.key[d]
        BY <3>1, <4>1, KeyReaches
      <4>3. \A d \in Partial : x.key[d] = Null \/ c[d] = x.key[d]
        BY <2>1, <2>2, KeyReaches
      <4>4. \A d \in Partial : o.key[d] = Null \/ c[d] = o.key[d]
        BY <4>2, <4>3
      <4> QED
        BY <2>2, <4>1, <4>2, <4>4, KeyReaches DEF Named, Keys
    <3>3. o \in At(own) /\ Named(o.key) \in O
      BY <3>2
    <3>4. ~ (Named(o.key) \subseteq Named(p.key)) /\ ~ (Named(o.key) \subseteq Named(n.key))
      BY <1>6, <3>3
    <3>5. Named(o.key) \subseteq Partial /\ Named(p.key) \subseteq Partial /\ Named(n.key) \subseteq Partial
      BY <2>2, <3>2 DEF Named, Keys
    <3>6. \/ Named(o.key) \cup Named(p.key) = Named(p.key) \cup Named(n.key)
          \/ Named(o.key) \cup Named(n.key) = Named(p.key) \cup Named(n.key)
      <4> SUFFICES ASSUME Named(o.key) \cup Named(p.key) # Named(p.key) \cup Named(n.key),
                          Named(o.key) \cup Named(n.key) # Named(p.key) \cup Named(n.key)
                   PROVE  FALSE
        OBVIOUS
      <4>1. PICK y \in Named(n.key) : y \notin Named(p.key) /\ y \notin Named(o.key)
        BY <2>1, <3>2
      <4>2. PICK z \in Named(p.key) : z \notin Named(n.key) /\ z \notin Named(o.key)
        BY <2>1, <3>2
      <4>3. PICK u \in Named(o.key) : u \notin Named(p.key)
        BY <3>4
      <4>4. PICK v \in Named(o.key) : v \notin Named(n.key)
        BY <3>4
      <4>5. u \in Named(n.key) /\ v \in Named(p.key)
        BY <2>1, <3>2, <4>3, <4>4
      <4>6. u \in Partial /\ v \in Partial /\ z \in Partial /\ y \in Partial
        BY <3>5
      <4>7. u # v /\ u # z /\ u # y /\ v # z /\ v # y /\ z # y
        BY <4>1, <4>2, <4>3, <4>4, <4>5
      <4> QED
        BY <4>6, <4>7, FourAreMany
    <3> QED
      BY <3>3, <3>6
  <2> QED
    BY <2>4, <2>5
<1>9. ASSUME NEW m \in At(owner_map')
      PROVE  \/ Named(m.key) \in K
             \/ Named(m.key) \in O
             \/ \E C \in O, B \in K : Named(m.key) = C \cup B
  <2>1. CASE m \in kept \/ m \in own
    BY <2>1
  <2>2. ASSUME NEW p \in kept, NEW o \in own, Crosses(m, o, p)
        PROVE  \E C \in O, B \in K : Named(m.key) = C \cup B
    <3>1. o.key \in Keys /\ p.key \in Keys
      BY <1>1, <1>3
    <3>2. Reaches(o.key, c) /\ Reaches(p.key, c) /\ Named(m.key) = Named(o.key) \cup Named(p.key)
      BY <2>2, <3>1, CrossReaches
    <3>3. Named(o.key) \in O /\ Named(p.key) \in K
      BY <3>2
    <3> QED
      BY <3>2, <3>3
  <2> QED
    BY <1>1, <2>1, <2>2
<1>10. Named(a.key) \cup Named(b.key) \in M
  <2>1. Named(a.key) \in M /\ Named(b.key) \in M
    OBVIOUS
  <2>2. \A A \in O, B \in K : A \cup B \in M
    BY <1>6
  <2>3. \A A \in O, B \in O : A \cup B \in O
    BY <1>7
  <2>4. \A A \in K, B \in K : \/ A \cup B \in K
                              \/ \E C \in O : C \cup A = A \cup B \/ C \cup B = A \cup B
    <3> SUFFICES ASSUME NEW A \in K, NEW B \in K
                 PROVE  A \cup B \in K \/ \E C \in O : C \cup A = A \cup B \/ C \cup B = A \cup B
      OBVIOUS
    <3>1. PICK p \in At(kept) : A = Named(p.key)
      OBVIOUS
    <3>2. PICK n \in At(kept) : B = Named(n.key)
      OBVIOUS
    <3> HIDE DEF K, O
    <3> QED
      BY <1>8, <3>1, <3>2
  <2>5. \A A \in M : A \in K \/ A \in O \/ \E C \in O, B \in K : A = C \cup B
    BY <1>9
  <2> HIDE DEF K, O, M
  <2> QED
    <3>1. Leaves(K, O, M)
      BY <1>5, <2>2, <2>3, <2>4, <2>5 DEF Leaves
    <3> QED
      BY <2>1, <3>1, ClosedSets
<1> QED
  BY <1>10 DEF Joins

LEMMA ClosedNext ==
    ASSUME Others = {}, Cardinality(Partial) <= 3
    PROVE  DInv /\ Closed /\ [Next]_vars => Closed'
<1> SUFFICES ASSUME DInv, Closed, [Next]_vars PROVE Closed'
  OBVIOUS
<1>1. ASSUME NEW files \in Axes, NEW rows \in Rows, Layer(files, rows) PROVE Closed'
  BY <1>1, LayerClosed
<1>2. ASSUME UNCHANGED owner_map PROVE Closed'
  BY <1>2 DEF Closed
<1>3. (\E files \in Axes, rows \in Rows : Layer(files, rows)) \/ UNCHANGED owner_map
  BY DEF Next, LayerRefused, Materialise, vars
<1> QED
  BY <1>1, <1>2, <1>3

\* A row read is at a key of the map.
LEMMA ReadAtKey ==
    ASSUME DInv, Others = {}, NEW j \in Resolved(owner_map, written, dead)
    PROVE  j.at \in Keys /\ \E m \in owner_map : j.at = m.key
<1>1. PICK m \in owner_map : \E r \in written[m.layer] : Key(r) = AsWritten(m) /\ j = Placed(m, r)
  BY ResolvedIs, JoinedIs
<1>2. j.at \in Row /\ \A d \in Partial : j.at[d] = m.key[d]
  BY <1>1, PlacedIs
<1>3. j.at \in Keys /\ m.key \in Keys
  BY <1>2, MapTyped DEF Row, Keys, Dims
<1>4. j.at = m.key
  BY <1>2, <1>3 DEF Keys
<1> QED
  BY <1>3, <1>4

LEMMA ClosedSettles ==
    ASSUME DInv, Closed, Others = {}
    PROVE  NoneCross
<1> SUFFICES ASSUME NEW c \in Coordinates, Answer(c) # {} PROVE ReadAt(c) # {}
  BY DEF NoneCross
<1> DEFINE resolved == Resolved(owner_map, written, dead)
           SS == {Named(j.at) : j \in {k \in resolved : Reaches(k.at, c)}}
<1>1. c \in [Partial -> AllLabels]
  BY DEF Coordinates, AllLabels, Dims
<1>2. \A j \in resolved : j.at \in Keys /\ \E m \in owner_map : j.at = m.key
  BY ReadAtKey
<1>3. SS \in SUBSET (SUBSET Partial)
  BY <1>2 DEF Named, Keys
<1>4. SS # {}
  <2>1. PICK n \in 1 .. Depth : \E r \in written[n] : Reaches(r, c) /\ Counts(n, r)
    BY CountingIs
  <2>2. PICK r \in written[n] : Reaches(r, c) /\ Counts(n, r)
    BY <2>1
  <2>3. PICK j \in resolved : j.at = r
    BY <2>2, CountedIsRead
  <2>4. Named(j.at) \in SS
    BY <2>2, <2>3
  <2> QED
    BY <2>4
<1>5. PICK A \in SS : \A B \in SS : A \subseteq B => A = B
  <2>1. SS \in SUBSET (SUBSET Dims)
    BY <1>3 DEF Dims
  <2> HIDE DEF SS
  <2> QED
    BY <1>4, <2>1, Largest
<1>6. PICK j \in resolved : Reaches(j.at, c) /\ A = Named(j.at)
  OBVIOUS
<1>7. ASSUME NEW k \in resolved, Reaches(k.at, c) PROVE Named(k.at) \subseteq Named(j.at)
  <2>1. PICK m \in owner_map : j.at = m.key
    BY <1>2
  <2>2. PICK n \in owner_map : k.at = n.key
    BY <1>2
  <2>3. Reaches(m.key, c) /\ Reaches(n.key, c)
    BY <1>6, <1>7, <2>1, <2>2
  <2>4. PICK q \in owner_map : Reaches(q.key, c) /\ Named(q.key) = Named(m.key) \cup Named(n.key)
    <3>1. \E q \in owner_map : Joins(q, m, n, c)
      BY <1>1, <2>3 DEF Closed
    <3> QED
      BY <3>1 DEF Joins
  <2>5. PICK i \in resolved : i.at = q.key
    BY PlaceRead
  <2>6. Named(i.at) \in SS
    BY <2>4, <2>5
  <2>7. Named(i.at) = A \cup Named(k.at)
    BY <1>6, <2>1, <2>2, <2>4, <2>5
  <2>8. A = Named(i.at)
    <3>1. A \subseteq Named(i.at)
      BY <2>7
    <3> HIDE DEF SS
    <3> QED
      BY <1>5, <2>6, <3>1
  <2> QED
    BY <1>6, <2>7, <2>8
<1>8. j \in Settled(resolved, c)
  BY <1>6, <1>7 DEF Settled
<1> QED
  BY <1>8 DEF ReadAt

\* With at most three dims, all in `partial`, no rows cross and every coordinate
\* reads the deepest layer's most specific row (fold_attributes, settle).
THEOREM DeepestWinsOfThree ==
    ASSUME Others = {}, Cardinality(Partial) <= 3
    PROVE  Spec => []DeepestWins
<1>1. Init => Closed
  BY DEF Init, Closed
<1>2. DInv /\ Closed /\ [Next]_vars => Closed'
  BY ClosedNext
<1>3. Spec => []Closed
  BY <1>1, <1>2, ReadsInvariant, PTL DEF Spec
<1>4. DInv /\ Closed => NoneCross
  BY ClosedSettles
<1>5. Spec => [](NoneCross => DeepestWins)
  BY DeepestWinsUncrossed
<1> QED
  BY <1>3, <1>4, <1>5, ReadsInvariant, PTL

-----------------------------------------------------------------------------
(* Where `partial` has one dim at most, and every layer fills what it       *)
(* leaves NULL outside it, no rows cross either: keys are nested, so the    *)
(* rows that could cross are those along the other dims, and a filled layer *)
(* has one that names what both name.                                       *)

\* Every map row is as it was written: no layer has crossed another's key.
Plain == \A m \in owner_map : AsWritten(m) = m.key

\* A coordinate along labels that are not dead.
AliveAt(c) == \A d \in Others : c[d] \notin dead[d]

\* t reaches the coordinate c and names there what r and q name.
Unites(t, r, q, c) == Reaches(t, c) /\ Named(t) = Named(r) \cup Named(q)

\* Owned rows that reach a living coordinate have one that unites them there.
RowsClosed ==
    \A c \in [Dims -> AllLabels] : AliveAt(c) =>
        \A m, n \in owner_map : \A r \in written[m.layer], q \in written[n.layer] :
            Key(r) = m.key /\ Key(q) = n.key /\ Reaches(r, c) /\ Reaches(q, c) =>
                \E k \in owner_map : \E t \in written[k.layer] : Key(t) = k.key /\ Unites(t, r, q, c)

\* Two of one dim are one.
LEMMA OneDim ==
    ASSUME Cardinality(Partial) <= 1, NEW u \in Partial, NEW v \in Partial
    PROVE  u = v
<1> SUFFICES ASSUME u # v PROVE FALSE
  OBVIOUS
<1>1. IsFiniteSet({u}) /\ Cardinality({u}) = 1
  BY FS_Singleton
<1>2. Cardinality({u} \cup {v}) = 2
  BY <1>1, FS_AddElement
<1>3. {u} \cup {v} \in SUBSET Partial /\ Partial \in SUBSET Dims
  BY DEF Dims
<1>4. Cardinality({u} \cup {v}) <= Cardinality(Partial) /\ Cardinality(Partial) \in Nat
  BY <1>3, NamesFinite
<1> QED
  BY <1>2, <1>4

LEMMA OneDimNests ==
    ASSUME Cardinality(Partial) <= 1, NEW a \in Keys, NEW b \in Keys
    PROVE  /\ Nested(a, b)
           /\ ~ (Named(a) \subseteq Named(b)) => Named(b) = {}
<1>1. Named(a) \subseteq Partial /\ Named(b) \subseteq Partial
  BY DEF Named, Keys
<1>2. \A u, v \in Partial : u = v
  BY OneDim
<1> QED
  BY <1>1, <1>2 DEF Nested

\* An owned row that reaches a living coordinate is read where it was written,
\* in the map or in what is left of it.
LEMMA OwnedIsRead ==
    ASSUME DInv, Plain, NEW map \in SUBSET owner_map, NEW m \in map,
           NEW r \in written[m.layer], Key(r) = m.key,
           NEW c \in [Dims -> AllLabels], AliveAt(c), Reaches(r, c)
    PROVE  r \in Row /\ \E j \in Resolved(map, written, dead) : j.at = r
<1>1. Key(r) = AsWritten(m) /\ m \in owner_map
  BY DEF Plain
<1> DEFINE j == Placed(m, r)
<1>2. /\ j.row = r /\ j.at \in Row /\ r \in Row
      /\ \A d \in Partial : j.at[d] = m.key[d]
      /\ \A d \in Others : j.at[d] = r[d]
  BY <1>1, PlacedIs
<1>3. j \in Owned(m, written[m.layer])
  BY <1>1, OwnedIs
<1> HIDE DEF j
<1>4. j.at = r
  <2>1. \A d \in Dims : j.at[d] = r[d]
    BY <1>2 DEF Key, Dims
  <2> QED
    BY <1>2, <2>1 DEF Row
<1> DEFINE joined == UNION {Owned(n, written[n.layer]) : n \in map}
<1>5. j \in joined
  BY <1>3
<1>6. ASSUME NEW k \in joined, k.at = j.at PROVE Named(k.row) \subseteq Named(j.row)
  <2>1. PICK n \in map : k \in Owned(n, written[n.layer])
    OBVIOUS
  <2>2. PICK s \in written[n.layer] : Key(s) = AsWritten(n) /\ k = Placed(n, s)
    BY <2>1, OwnedIs
  <2>3. Named(k.row) \subseteq Named(k.at)
    BY <2>2, PlacedIs
  <2> QED
    BY <1>2, <1>4, <1>6, <2>3
<1>7. ASSUME NEW d \in Others PROVE j.at[d] \notin dead[d]
  <2>1. dead[d] \subseteq Labels[d] /\ d \in Dims
    BY DEF DInv, FInv, IInv, TypeOK, Dims
  <2>2. r[d] = Null \/ r[d] = c[d]
    BY <1>2, <2>1 DEF Reaches, Named, Row
  <2> QED
    BY <1>4, <2>1, <2>2, NullAssumption DEF AliveAt
<1>8. j \in Resolved(map, written, dead)
  BY <1>5, <1>6, <1>7 DEF Resolved, MostSpecific, Living
<1> QED
  BY <1>2, <1>4, <1>8

LEMMA PlainStep ==
    ASSUME DInv, Plain, Cardinality(Partial) <= 1,
           NEW files \in Axes, NEW rows \in Rows, Layer(files, rows),
           NEW own, own = Own(Depth + 1, rows),
           NEW kept, kept = Kept(owner_map, own, Removed(axes, files))
    PROVE  owner_map' = kept \cup own /\ Plain'
<1>1. /\ kept \subseteq owner_map /\ kept \subseteq owner_map' /\ own \subseteq owner_map'
      /\ \A p \in kept : p.key \in Keys
  BY MapStep
<1>2. \A o \in own : o.key \in Keys /\ AsWritten(o) = o.key
  <2>1. \A o \in own : o \in MapRows({Depth + 1}) /\ AsWritten(o) = o.key
    BY OwnAsWritten, RowsAssumption
  <2> QED
    BY <2>1, MapStepTyped
<1>3. Overlaps(kept, own) = {}
  <2> SUFFICES ASSUME NEW po \in Pairs(kept, own), ~ Nested(po[1].key, po[2].key) PROVE FALSE
    BY DEF Overlaps
  <2>1. po[1] \in kept /\ po[2] \in own
    BY DEF Pairs
  <2> QED
    BY <1>1, <1>2, <2>1, OneDimNests
<1>4. owner_map' = kept \cup own
  BY <1>3 DEF Layer, FoldOnto, Node, FoldAttributes
<1>5. \A m \in owner_map' : AsWritten(m) = m.key
  BY <1>1, <1>2, <1>4 DEF Plain
<1>6. Plain'
  BY <1>5 DEF Plain, AsWritten
<1> QED
  BY <1>4, <1>6

\* A coordinate alive after a layer was alive before, where none restores labels.
LEMMA AliveBefore ==
    ASSUME DInv, ~ Readds, NEW files \in Axes, NEW rows \in Rows, Layer(files, rows),
           NEW c, AliveAt(c)'
    PROVE  AliveAt(c)
<1> SUFFICES ASSUME NEW d \in Others, c[d] \in dead[d] PROVE FALSE
  BY DEF AliveAt
<1>1. dead' = FoldDead(dead, axes, files) /\ Held(files, d) \cap dead[d] = {}
  BY DEF Layer, FoldOnto, Node, Accepted
<1>2. d \in Dims /\ d \in Mortal
  BY DimsAssumption DEF Dims, Mortal
<1>3. c[d] \in dead'[d]
  BY <1>1, <1>2 DEF FoldDead, Held
<1> QED
  BY <1>3 DEF AliveAt

\* Two rows of the layer, by what the writer accepts (_refuse_unordered).
LEMMA RowsUnite ==
    ASSUME NEW rows \in SUBSET Row, Ordered(rows), NEW r \in rows, NEW q \in rows,
           NEW c, Reaches(r, c), Reaches(q, c)
    PROVE  \E t \in rows : Unites(t, r, q, c)
<1>1. CASE Named(r) \subseteq Named(q)
  <2>1. Unites(q, r, q, c)
    BY <1>1 DEF Unites
  <2> QED
    BY <2>1
<1>2. CASE Named(q) \subseteq Named(r)
  <2>1. Unites(r, r, q, c)
    BY <1>2 DEF Unites
  <2> QED
    BY <2>1
<1>3. ASSUME NEW t \in rows, Named(t) = Named(r) \cup Named(q), Reaches(t, Met(r, q))
      PROVE  Unites(t, r, q, c)
  <2>1. ASSUME NEW d \in Named(t) PROVE c[d] = t[d]
    <3>1. t[d] = Met(r, q)[d] /\ d \in DOMAIN r
      BY <1>3, <2>1 DEF Reaches, Named, Row
    <3>2. Met(r, q)[d] = IF r[d] = Null THEN q[d] ELSE r[d]
      BY <3>1 DEF Met
    <3> QED
      BY <1>3, <2>1, <3>1, <3>2 DEF Reaches, Named
  <2> QED
    BY <1>3, <2>1 DEF Unites, Reaches
<1>4. Meet(r, q)
  BY DEF Meet, Reaches
<1>5. ~ Unsettled(r, q, rows)
  BY DEF Ordered
<1> QED
  BY <1>1, <1>2, <1>3, <1>4, <1>5 DEF Unsettled, Nested

\* A row below and one of the layer that covers less than its key: the layer is
\* filled along what the one below names (_spread).
LEMMA FilledUnites ==
    ASSUME NEW below, NEW rows \in SUBSET Row, FilledOver(below, rows),
           NEW j \in below, j.at \in Row, NEW q \in rows, Named(j.at) \subseteq Others \cup Named(q),
           NEW c, Reaches(j.at, c), Reaches(q, c)
    PROVE  \E t \in rows : Unites(t, j.at, q, c)
<1>1. CASE Named(j.at) \subseteq Named(q)
  <2>1. Unites(q, j.at, q, c)
    BY <1>1 DEF Unites
  <2> QED
    BY <2>1
<1>2. CASE ~ (Named(j.at) \subseteq Named(q))
  <2>1. Meet(j.at, q)
    BY DEF Meet, Reaches
  <2>2. (Named(j.at) \cap Others) \ Named(q) # {}
    BY <1>2
  <2>3. PICK f \in rows : /\ Reaches(f, Met(q, j.at))
                          /\ Named(q) \cup (Named(j.at) \cap Others) \subseteq Named(f)
    BY <2>1, <2>2 DEF FilledOver
  <2>4. ASSUME NEW d \in Named(f)
        PROVE  c[d] = f[d] /\ d \in Named(q) \cup Named(j.at)
    <3>1. f[d] = Met(q, j.at)[d] /\ d \in Dims /\ f[d] # Null
      BY <2>3, <2>4 DEF Reaches, Named, Row
    <3>2. Met(q, j.at)[d] = IF q[d] = Null THEN j.at[d] ELSE q[d]
      BY <3>1 DEF Met, Row
    <3> QED
      BY <3>1, <3>2 DEF Reaches, Named, Row
  <2>5. Named(f) = Named(j.at) \cup Named(q)
    BY <2>3, <2>4
  <2>6. Unites(f, j.at, q, c)
    BY <2>4, <2>5 DEF Unites, Reaches
  <2> QED
    BY <2>6
<1> QED
  BY <1>1, <1>2

LEMMA LayerRowsClosed ==
    ASSUME DInv, Plain, RowsClosed, FillsEvery, ~ Readds, Cardinality(Partial) <= 1,
           NEW files \in Axes, NEW rows \in Rows, Layer(files, rows)
    PROVE  RowsClosed'
<1> DEFINE own == Own(Depth + 1, rows)
           kept == Kept(owner_map, own, Removed(axes, files))
<1>1. /\ rows \in SUBSET Row /\ Ordered(rows)
      /\ written'[Depth + 1] = rows
      /\ \A k \in 1 .. Depth : written'[k] = written[k]
  BY LayerStep DEF DInv, FInv
<1>2. /\ kept \subseteq owner_map
      /\ \A p \in kept : /\ p.key \in Keys /\ p.layer \in 1 .. Depth
                         /\ \A d \in Partial : p.key[d] \notin Removed(axes, files)[d]
                         /\ ~ \E o \in own : Reaches(o.key, p.key)
  BY MapStep
<1>3. owner_map' = kept \cup own
  BY PlainStep
<1>4. /\ \A o \in own : o.layer = Depth + 1 /\ o.key \in Keys
      /\ \A r \in rows : \E o \in own : o.key = Key(r)
  <2>1. \A o \in own : o \in MapRows({Depth + 1}) /\ o.layer = Depth + 1
    BY <1>1, OwnAsWritten
  <2> QED
    BY <2>1, MapStepTyped
<1>5. /\ \A p \in kept : written'[p.layer] = written[p.layer]
      /\ \A o \in own : written'[o.layer] = rows
  BY <1>1, <1>2, <1>4
<1>6. FilledOver(Resolved(kept, written, dead), rows)
  BY DEF Layer, Accepted, EveryLabelFilled, KeptBelow
<1> HIDE DEF own, kept
\* What unites rows at a coordinate, in the map the layer leaves.
<1> DEFINE Owns(m, r) == r \in written'[m.layer] /\ Key(r) = m.key
           United(r, q, c) == \E k \in owner_map' : \E t \in written'[k.layer] :
                                Key(t) = k.key /\ Unites(t, r, q, c)
<1>7. ASSUME NEW r, NEW q, NEW c, NEW t \in rows, Unites(t, r, q, c) PROVE United(r, q, c)
  <2>1. PICK o \in own : o.key = Key(t)
    BY <1>4
  <2>2. o \in owner_map' /\ t \in written'[o.layer]
    BY <1>3, <1>5, <2>1
  <2> QED
    BY <1>7, <2>1, <2>2
<1>8. ASSUME NEW c \in [Dims -> AllLabels], AliveAt(c),
             NEW m \in kept, NEW n \in own, NEW r, NEW q, Owns(m, r), Owns(n, q),
             Reaches(r, c), Reaches(q, c)
      PROVE  United(r, q, c) /\ United(q, r, c)
  <2>1. r \in written[m.layer] /\ q \in rows
    BY <1>5, <1>8
  <2>2. r \in Row /\ \E j \in Resolved(kept, written, dead) : j.at = r
    BY <1>2, <1>8, <2>1, OwnedIsRead
  <2>3. PICK j \in Resolved(kept, written, dead) : j.at = r
    BY <2>2
  <2>4. /\ m.key \in Keys /\ n.key \in Keys /\ ~ Reaches(n.key, m.key)
        /\ \A d \in Partial : m.key[d] = r[d] /\ n.key[d] = q[d]
    BY <1>2, <1>4, <1>8 DEF Key
  <2>5. ~ (Named(n.key) \subseteq Named(m.key))
    <3> SUFFICES ASSUME Named(n.key) \subseteq Named(m.key) PROVE FALSE
      OBVIOUS
    <3>1. ASSUME NEW d \in Named(n.key) PROVE m.key[d] = n.key[d]
      <4>1. d \in Partial /\ q[d] # Null /\ r[d] # Null
        BY <2>4, <3>1 DEF Named, Keys
      <4>2. d \in Named(r) /\ d \in Named(q)
        BY <1>1, <2>1, <2>2, <4>1 DEF Named, Row, Dims
      <4> QED
        BY <1>8, <2>4, <4>1, <4>2 DEF Reaches
    <3> QED
      BY <2>4, <3>1 DEF Reaches
  <2>6. Named(m.key) = {}
    BY <2>4, <2>5, OneDimNests
  <2>7. Named(r) \subseteq Others \cup Named(q)
    BY <2>2, <2>4, <2>6 DEF Named, Row, Keys, Dims
  <2>8. PICK t \in rows : Unites(t, r, q, c)
    <3>1. j.at \in Row /\ Named(j.at) \subseteq Others \cup Named(q) /\ Reaches(j.at, c)
      BY <1>8, <2>2, <2>3, <2>7
    <3>2. \E t \in rows : Unites(t, j.at, q, c)
      BY <1>1, <1>6, <1>8, <2>1, <3>1, FilledUnites
    <3> QED
      BY <2>3, <3>2
  <2>9. Unites(t, q, r, c)
    <3>1. Named(q) \cup Named(r) = Named(r) \cup Named(q)
      OBVIOUS
    <3> QED
      BY <2>8, <3>1 DEF Unites
  <2> HIDE DEF United
  <2> QED
    BY <1>7, <2>8, <2>9
<1>9. ASSUME NEW c \in [Dims -> AllLabels], AliveAt(c),
             NEW m \in kept, NEW n \in kept, NEW r, NEW q, Owns(m, r), Owns(n, q),
             Reaches(r, c), Reaches(q, c)
      PROVE  United(r, q, c)
  <2>1. r \in written[m.layer] /\ q \in written[n.layer] /\ m \in owner_map /\ n \in owner_map
    BY <1>2, <1>5, <1>9
  <2>2. PICK k \in owner_map : \E t \in written[k.layer] : Key(t) = k.key /\ Unites(t, r, q, c)
    BY <1>9, <2>1 DEF RowsClosed
  <2>3. PICK t \in written[k.layer] : Key(t) = k.key /\ Unites(t, r, q, c)
    BY <2>2
  <2>4. /\ r \in Row /\ q \in Row /\ t \in Row
        /\ m.key \in Keys /\ n.key \in Keys /\ k.key \in Keys
    BY <1>2, <2>1, MapTyped
  <2>5. \A d \in Partial : m.key[d] = r[d] /\ n.key[d] = q[d] /\ k.key[d] = t[d]
    BY <1>9, <2>3 DEF Key
  <2>6. \A d \in Partial : \/ r[d] # Null /\ t[d] = r[d]
                           \/ q[d] # Null /\ t[d] = q[d]
                           \/ r[d] = Null /\ q[d] = Null /\ t[d] = Null
    <3> SUFFICES ASSUME NEW d \in Partial
                 PROVE  \/ r[d] # Null /\ t[d] = r[d]
                        \/ q[d] # Null /\ t[d] = q[d]
                        \/ r[d] = Null /\ q[d] = Null /\ t[d] = Null
      OBVIOUS
    <3>1. \A x \in Row : d \in Named(x) <=> x[d] # Null
      BY DEF Named, Row, Dims
    <3> QED
      BY <1>9, <2>3, <2>4, <3>1 DEF Unites, Reaches
  <2>7. k.key = m.key \/ k.key = n.key
    <3>1. CASE \A d \in Partial : k.key[d] = m.key[d]
      BY <2>4, <3>1 DEF Keys
    <3>2. CASE \E d \in Partial : k.key[d] # m.key[d]
      <4>1. PICK d \in Partial : k.key[d] # m.key[d]
        BY <3>2
      <4>2. k.key[d] = n.key[d]
        BY <2>5, <2>6, <4>1
      <4>3. \A x \in Partial : x = d
        BY OneDim
      <4>4. \A x \in Partial : k.key[x] = n.key[x]
        BY <4>2, <4>3
      <4> QED
        BY <2>4, <4>4 DEF Keys
    <3> QED
      BY <3>1, <3>2
  <2>8. k \in kept
    BY <1>2, <2>7 DEF kept, Kept
  <2>9. t \in written'[k.layer]
    BY <1>5, <2>3, <2>8
  <2> QED
    BY <1>3, <2>3, <2>8, <2>9
<1>10. ASSUME NEW c \in [Dims -> AllLabels], AliveAt(c)', NEW m \in owner_map', NEW n \in owner_map',
              NEW r \in written'[m.layer], NEW q \in written'[n.layer],
              Key(r) = m.key, Key(q) = n.key, Reaches(r, c), Reaches(q, c)
       PROVE  United(r, q, c)
  <2>1. AliveAt(c)
    BY <1>10, AliveBefore
  <2>2. Owns(m, r) /\ Owns(n, q)
    BY <1>10
  <2>3. CASE m \in own /\ n \in own
    <3>1. r \in rows /\ q \in rows
      BY <1>5, <2>3
    <3>2. PICK t \in rows : Unites(t, r, q, c)
      BY <1>1, <1>10, <3>1, RowsUnite
    <3> HIDE DEF United
    <3> QED
      BY <1>7, <3>2
  <2> HIDE DEF United, Owns
  <2>4. CASE m \in kept /\ n \in own
    BY <1>8, <1>10, <2>1, <2>2, <2>4
  <2>5. CASE m \in own /\ n \in kept
    BY <1>8, <1>10, <2>1, <2>2, <2>5
  <2>6. CASE m \in kept /\ n \in kept
    BY <1>9, <1>10, <2>1, <2>2, <2>6
  <2> QED
    BY <1>3, <2>3, <2>4, <2>5, <2>6
<1>11. \A c \in [Dims -> AllLabels] : AliveAt(c)' =>
         \A m, n \in owner_map' : \A r \in written'[m.layer], q \in written'[n.layer] :
           Key(r) = m.key /\ Key(q) = n.key /\ Reaches(r, c) /\ Reaches(q, c) =>
             \E k \in owner_map' : \E t \in written'[k.layer] : Key(t) = k.key /\ Unites(t, r, q, c)
  BY <1>10
<1> QED
  BY <1>11 DEF RowsClosed

LEMMA RowsClosedNext ==
    ASSUME FillsEvery, ~ Readds, Cardinality(Partial) <= 1
    PROVE  DInv /\ Plain /\ RowsClosed /\ [Next]_vars => Plain' /\ RowsClosed'
<1> SUFFICES ASSUME DInv, Plain, RowsClosed, [Next]_vars PROVE Plain' /\ RowsClosed'
  OBVIOUS
<1>1. ASSUME NEW files \in Axes, NEW rows \in Rows, Layer(files, rows) PROVE Plain' /\ RowsClosed'
  BY <1>1, PlainStep, LayerRowsClosed
<1>2. ASSUME UNCHANGED <<owner_map, written, dead>> PROVE Plain' /\ RowsClosed'
  BY <1>2 DEF Plain, AsWritten, RowsClosed, AliveAt
<1>3. \/ \E files \in Axes, rows \in Rows : Layer(files, rows)
      \/ UNCHANGED <<owner_map, written, dead>>
  BY DEF Next, LayerRefused, Materialise, vars
<1> QED
  BY <1>1, <1>2, <1>3

LEMMA RowsSettle ==
    ASSUME DInv, Plain, RowsClosed
    PROVE  NoneCross
<1> SUFFICES ASSUME NEW c \in Coordinates, Answer(c) # {} PROVE ReadAt(c) # {}
  BY DEF NoneCross
<1> DEFINE resolved == Resolved(owner_map, written, dead)
           SS == {Named(j.at) : j \in {k \in resolved : Reaches(k.at, c)}}
<1>1. c \in [Dims -> AllLabels] /\ AliveAt(c)
  BY DEF Coordinates, AllLabels, AliveAt, DInv, FInv, IInv, TypeOK, Dims
<1>2. ASSUME NEW j \in resolved
      PROVE  \E m \in owner_map : \E r \in written[m.layer] : r \in Row /\ Key(r) = m.key /\ j.at = r
  <2>1. PICK m \in owner_map : \E r \in written[m.layer] : Key(r) = AsWritten(m) /\ j = Placed(m, r)
    BY ResolvedIs, JoinedIs
  <2>2. PICK r \in written[m.layer] : Key(r) = AsWritten(m) /\ j = Placed(m, r)
    BY <2>1
  <2>3. /\ j.at \in Row /\ r \in Row
        /\ \A d \in Partial : j.at[d] = m.key[d]
        /\ \A d \in Others : j.at[d] = r[d]
    BY <2>2, PlacedIs
  <2>4. Key(r) = m.key
    BY <2>2 DEF Plain
  <2>5. \A d \in Dims : j.at[d] = r[d]
    BY <2>3, <2>4 DEF Key, Dims
  <2>6. j.at = r
    BY <2>3, <2>5 DEF Row
  <2> QED
    BY <2>3, <2>4, <2>6
<1>3. SS \in SUBSET (SUBSET Dims)
  BY <1>2 DEF Named, Row
<1>4. SS # {}
  <2>1. PICK n \in 1 .. Depth : \E r \in written[n] : Reaches(r, c) /\ Counts(n, r)
    BY CountingIs
  <2>2. PICK r \in written[n] : Reaches(r, c) /\ Counts(n, r)
    BY <2>1
  <2>3. PICK j \in resolved : j.at = r
    BY <2>2, CountedIsRead
  <2>4. Named(j.at) \in SS
    BY <2>2, <2>3
  <2> QED
    BY <2>4
<1>5. PICK A \in SS : \A B \in SS : A \subseteq B => A = B
  <2> HIDE DEF SS
  <2> QED
    BY <1>3, <1>4, Largest
<1>6. PICK j \in resolved : Reaches(j.at, c) /\ A = Named(j.at)
  OBVIOUS
<1>7. ASSUME NEW k \in resolved, Reaches(k.at, c) PROVE Named(k.at) \subseteq Named(j.at)
  <2>1. PICK m \in owner_map : \E r \in written[m.layer] : Key(r) = m.key /\ j.at = r
    BY <1>2
  <2>2. PICK n \in owner_map : \E q \in written[n.layer] : Key(q) = n.key /\ k.at = q
    BY <1>2
  <2>3. PICK x \in owner_map : \E t \in written[x.layer] : Key(t) = x.key /\ Unites(t, j.at, k.at, c)
    BY <1>1, <1>6, <1>7, <2>1, <2>2 DEF RowsClosed
  <2>4. PICK t \in written[x.layer] : Key(t) = x.key /\ Unites(t, j.at, k.at, c)
    BY <2>3
  <2>5. Reaches(t, c) /\ Named(t) = A \cup Named(k.at)
    BY <1>6, <2>4 DEF Unites
  <2>6. PICK i \in resolved : i.at = t
    BY <1>1, <2>4, <2>5, OwnedIsRead
  <2>7. Named(i.at) \in SS
    BY <2>5, <2>6
  <2>8. A = Named(i.at)
    <3>1. A \subseteq Named(i.at)
      BY <2>5, <2>6
    <3> HIDE DEF SS
    <3> QED
      BY <1>5, <2>7, <3>1
  <2> QED
    BY <1>6, <2>5, <2>6, <2>8
<1>8. j \in Settled(resolved, c)
  BY <1>6, <1>7 DEF Settled
<1> QED
  BY <1>8 DEF ReadAt

\* With one dim in `partial` and layers filled as a WorkingRecord fills them
\* (_spread), over labels outside `partial` that are not added again, every
\* coordinate reads the deepest layer's most specific row.
THEOREM DeepestWinsFilled ==
    ASSUME FillsEvery, ~ Readds, Cardinality(Partial) <= 1
    PROVE  Spec => []DeepestWins
<1>1. Init => Plain /\ RowsClosed
  BY DEF Init, Plain, RowsClosed
<1>2. DInv /\ Plain /\ RowsClosed /\ [Next]_vars => Plain' /\ RowsClosed'
  BY RowsClosedNext
<1>3. Spec => [](Plain /\ RowsClosed)
  BY <1>1, <1>2, ReadsInvariant, PTL DEF Spec
<1>4. DInv /\ Plain /\ RowsClosed => NoneCross
  BY RowsSettle
<1>5. Spec => [](NoneCross => DeepestWins)
  BY DeepestWinsUncrossed
<1> QED
  BY <1>3, <1>4, <1>5, ReadsInvariant, PTL
=============================================================================
