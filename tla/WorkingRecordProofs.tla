------------------------- MODULE WorkingRecordProofs ------------------------
(***************************************************************************)
(* What staging edits over a record guarantees, for every base, every call *)
(* and every order of calls, removals, additions and rollbacks.            *)
(***************************************************************************)
EXTENDS WorkingRecord, LeastNumbers

Keys == [Partial -> AllLabels \cup {Null}]
MapRows(layers) == [key : Keys, layer : layers, varies : SUBSET Dims, broadcast : SUBSET Dims]

-----------------------------------------------------------------------------
(* The base: the nodes of its path, each folded onto the one above it.     *)

Nodes(h, path, n) ==
    /\ h[0] = NoCache
    /\ \A k \in 1 .. n : h[k] = FoldOnto(h[k - 1], k, path.files[k], path.rows[k])

LEMMA NodesExist ==
    ASSUME NEW path, NEW n \in Nat
    PROVE  \E h : Nodes(h, path, n)
<1> DEFINE S == {k \in Nat : ~ \E h : Nodes(h, path, k)}
<1>1. SUFFICES S = {}
  OBVIOUS
<1>2. SUFFICES ASSUME S # {} PROVE FALSE
  OBVIOUS
<1>3. PICK m \in S : \A k \in S : m <= k
  BY <1>2, Least
<1>4. m # 0
  <2>1. Nodes([k \in {0} |-> NoCache], path, 0)
    BY DEF Nodes
  <2> QED
    BY <2>1
<1>5. m - 1 \in Nat /\ m - 1 \notin S
  BY <1>3, <1>4
<1>6. PICK h : Nodes(h, path, m - 1)
  BY <1>5
<1>7. PICK g : g = [k \in 0 .. m |-> IF k = m THEN FoldOnto(h[m - 1], m, path.files[m], path.rows[m]) ELSE h[k]]
  OBVIOUS
<1>8. g[0] = NoCache
  BY <1>4, <1>6, <1>7 DEF Nodes
<1>9. ASSUME NEW k \in 1 .. m PROVE g[k] = FoldOnto(g[k - 1], k, path.files[k], path.rows[k])
  <2>1. k - 1 \in 0 .. m /\ k - 1 # m /\ k \in 0 .. m
    OBVIOUS
  <2>2. g[k - 1] = h[k - 1]
    BY <1>7, <2>1
  <2>3. CASE k = m
    BY <1>7, <2>2, <2>3
  <2>4. CASE k # m
    <3>1. k \in 1 .. m - 1
      BY <2>4
    <3> QED
      BY <1>6, <1>7, <2>1, <2>2, <2>4, <3>1 DEF Nodes
  <2> QED
    BY <2>3, <2>4
<1>10. Nodes(g, path, m)
  BY <1>8, <1>9 DEF Nodes
<1> QED
  BY <1>10

\* Folding a path gives the last of them.
LEMMA FoldPathIs ==
    ASSUME NEW path, NEW n \in Nat, Len(path.rows) = n, NEW h, Nodes(h, path, n)
    PROVE  FoldPath(path) = h[n]
<1> DEFINE Is(f) == f = [k \in 0 .. Len(path.rows) |->
                           IF k = 0 THEN NoCache ELSE FoldOnto(f[k - 1], k, path.files[k], path.rows[k])]
<1>1. PICK g : g = [k \in 0 .. n |-> h[k]]
  OBVIOUS
<1>2. Is(g)
  <2>1. \A k \in 0 .. n : k # 0 => k \in 1 .. n /\ k - 1 \in 0 .. n
    OBVIOUS
  <2>2. \A k \in 0 .. n : g[k] = IF k = 0 THEN NoCache ELSE FoldOnto(g[k - 1], k, path.files[k], path.rows[k])
    BY <1>1, <2>1 DEF Nodes
  <2> QED
    BY <1>1, <2>2
<1>3. PICK f : f = CHOOSE x : Is(x)
  OBVIOUS
<1>4. Is(f)
  BY <1>2, <1>3
<1>5. FoldPath(path) = f[n]
  BY <1>3 DEF FoldPath
<1> DEFINE S == {k \in 0 .. n : f[k] # h[k]}
<1>6. \A k \in 0 .. n : f[k] = IF k = 0 THEN NoCache ELSE FoldOnto(f[k - 1], k, path.files[k], path.rows[k])
  BY <1>4
<1>7. ASSUME S # {} PROVE FALSE
  <2>1. S \in SUBSET Nat
    OBVIOUS
  <2>2. PICK m \in S : \A k \in S : m <= k
    <3> HIDE DEF S
    <3> QED
      BY <1>7, <2>1, Least
  <2>3. m # 0
    BY <1>6 DEF Nodes
  <2>4. m - 1 \in 0 .. n /\ m - 1 \notin S /\ m \in 1 .. n /\ m \in 0 .. n
    BY <2>2, <2>3
  <2>5. f[m - 1] = h[m - 1] /\ f[m] # h[m]
    BY <2>2, <2>4
  <2>6. f[m] = FoldOnto(f[m - 1], m, path.files[m], path.rows[m])
    BY <1>6, <2>3, <2>4
  <2> QED
    BY <2>4, <2>5, <2>6 DEF Nodes
<1> QED
  BY <1>5, <1>7

\* A path's layers up to the k-th fold to the k-th node.
LEMMA PrefixIs ==
    ASSUME NEW path \in Bases, NEW n \in Nat, Len(path.rows) = n, NEW h, Nodes(h, path, n), NEW k \in 1 .. n
    PROVE  FoldPath([files |-> SubSeq(path.files, 1, k - 1), rows |-> SubSeq(path.rows, 1, k - 1)]) = h[k - 1]
<1> DEFINE prefix == [files |-> SubSeq(path.files, 1, k - 1), rows |-> SubSeq(path.rows, 1, k - 1)]
<1>1. /\ path.rows \in Seq(SUBSET Row) /\ path.files \in Seq([Dims -> {NoFile} \cup SUBSET AllLabels])
      /\ Len(path.files) = n
  BY BasesAssumption
<1>2. Len(prefix.rows) = k - 1 /\ k - 1 \in Nat
  BY <1>1
<1>3. \A i \in 1 .. k - 1 : prefix.rows[i] = path.rows[i] /\ prefix.files[i] = path.files[i]
  BY <1>1
<1>4. Nodes(h, prefix, k - 1)
  BY <1>3 DEF Nodes
<1> QED
  BY <1>2, <1>4, FoldPathIs

\* A layer's map rows are its rows' keys, under its own number.
LEMMA OwnRows ==
    ASSUME NEW layer, NEW rows \in SUBSET Row
    PROVE  /\ \A m \in Own(layer, rows) : m \in MapRows({layer}) /\ \E r \in rows : m.key = Key(r)
           /\ \A r \in rows : \E m \in Own(layer, rows) : m.key = Key(r)
           /\ \A m, o \in Own(layer, rows) : m.key = o.key => m = o
<1> DEFINE MapRow(k) == [key |-> k, layer |-> layer,
                         varies |-> {d \in Dims : \E r \in rows : Key(r) = k /\ r[d] # Null},
                         broadcast |-> {d \in Dims : \E r \in rows : Key(r) = k /\ r[d] = Null}]
<1>1. \A r \in rows : Key(r) \in Keys
  BY DEF Keys, Key, Row, Dims
<1>2. Own(layer, rows) = {MapRow(k) : k \in {Key(r) : r \in rows}}
  BY DEF Own
<1>3. \A k \in Keys : MapRow(k) \in MapRows({layer}) /\ MapRow(k).key = k
  BY DEF MapRows
<1> HIDE DEF MapRow
<1>4. ASSUME NEW m \in Own(layer, rows)
      PROVE  m \in MapRows({layer}) /\ (\E r \in rows : m.key = Key(r)) /\ m = MapRow(m.key)
  <2>1. PICK r \in rows : m = MapRow(Key(r))
    BY <1>2
  <2> QED
    BY <1>1, <1>3, <2>1
<1>5. ASSUME NEW r \in rows PROVE \E m \in Own(layer, rows) : m.key = Key(r)
  <2>1. MapRow(Key(r)) \in Own(layer, rows) /\ MapRow(Key(r)).key = Key(r)
    BY <1>1, <1>2, <1>3
  <2> QED
    BY <2>1
<1>6. ASSUME NEW m \in Own(layer, rows), NEW o \in Own(layer, rows), m.key = o.key PROVE m = o
  <2>1. m = MapRow(m.key) /\ o = MapRow(o.key)
    BY <1>4
  <2> QED
    BY <1>6, <2>1
<1> QED
  BY <1>4, <1>5, <1>6

LEMMA OwnRow ==
    ASSUME NEW layer, NEW rows \in SUBSET Row, NEW m \in Own(layer, rows)
    PROVE  m \in MapRows({layer}) /\ \E r \in rows : m.key = Key(r)
  BY OwnRows

\* The flags of a layer's own row are those of its rows at the key.
LEMMA OwnFlags ==
    ASSUME NEW layer, NEW rows \in SUBSET Row, NEW m \in Own(layer, rows)
    PROVE  /\ \A d : d \in m.varies <=> d \in Dims /\ \E r \in rows : Key(r) = m.key /\ r[d] # Null
           /\ \A d : d \in m.broadcast <=> d \in Dims /\ \E r \in rows : Key(r) = m.key /\ r[d] = Null
<1>1. /\ m.varies = {d \in Dims : \E r \in rows : Key(r) = m.key /\ r[d] # Null}
      /\ m.broadcast = {d \in Dims : \E r \in rows : Key(r) = m.key /\ r[d] = Null}
  <2>1. \A o \in Own(layer, rows) :
          /\ o.varies = {d \in Dims : \E r \in rows : Key(r) = o.key /\ r[d] # Null}
          /\ o.broadcast = {d \in Dims : \E r \in rows : Key(r) = o.key /\ r[d] = Null}
    BY DEF Own
  <2> QED
    BY <2>1
<1> QED
  BY <1>1

LEMMA OwnUnique ==
    ASSUME NEW layer, NEW rows \in SUBSET Row,
           NEW m \in Own(layer, rows), NEW o \in Own(layer, rows), m.key = o.key
    PROVE  m = o
  BY OwnRows

\* Every key of its rows has one.
LEMMA OwnOf ==
    ASSUME NEW layer, NEW rows \in SUBSET Row, NEW r \in rows
    PROVE  \E m \in Own(layer, rows) : m.key = Key(r)
<1>1. \A q \in rows : \E m \in Own(layer, rows) : m.key = Key(q)
  BY OwnRows
<1> QED
  BY <1>1

LEMMA MetKey ==
    ASSUME NEW a \in Keys, NEW b \in Keys
    PROVE  /\ Met(a, b) \in Keys
           /\ \A d \in Partial : Met(a, b)[d] = Null \/ Met(a, b)[d] = a[d] \/ Met(a, b)[d] = b[d]
  BY DEF Met, Keys

\* What is known of a node, its number of layers and their rows: its parts are
\* typed; its keys name labels held, and so do its rows outside `partial`, or
\* labels that are dead.
Folded(nd, rows, n) ==
    /\ nd.map \subseteq MapRows(1 .. n)
    /\ \A d \in Dims : nd.axes[d] = NoFile \/ nd.axes[d] \subseteq Labels[d]
    /\ \A d \in Dims : nd.dead[d] \subseteq Labels[d] \ Held(nd.axes, d)
    /\ \A m \in nd.map : \A d \in Partial : m.key[d] # Null => m.key[d] \in Held(nd.axes, d)
    /\ \A k \in 1 .. n : \A r \in rows[k] : \A d \in Others :
         r[d] # Null => r[d] \in Held(nd.axes, d) \cup nd.dead[d]

\* A layer whose rows are typed and name labels held.
Fits(nd, files, rows) ==
    /\ rows \in SUBSET Row
    /\ \A d \in Dims : files[d] = NoFile \/ files[d] \subseteq Labels[d]
    /\ \A r \in rows : \A d \in Named(r) : r[d] \in Held(FoldAxes(nd.axes, files), d)

LEMMA AxesStep ==
    ASSUME NEW nd, NEW rows, NEW n, Folded(nd, rows, n), NEW files, NEW own, Fits(nd, files, own),
           NEW d \in Dims
    PROVE  LET after == FoldAxes(nd.axes, files)
               gone == FoldDead(nd.dead, nd.axes, files)
           IN /\ after[d] = NoFile \/ after[d] \subseteq Labels[d]
              /\ Held(after, d) \subseteq Labels[d]
              /\ gone[d] \subseteq Labels[d] \ Held(after, d)
              /\ d \notin Partial => Held(nd.axes, d) \cup nd.dead[d] \subseteq Held(after, d) \cup gone[d]
              /\ Held(nd.axes, d) \ Removed(nd.axes, files)[d] \subseteq Held(after, d)
<1>1. /\ nd.axes[d] = NoFile \/ nd.axes[d] \subseteq Labels[d]
      /\ nd.dead[d] \subseteq Labels[d] \ Held(nd.axes, d)
      /\ files[d] = NoFile \/ files[d] \subseteq Labels[d]
  BY DEF Folded, Fits
<1>2. CASE files[d] = NoFile
  BY <1>1, <1>2 DEF FoldAxes, FoldDead, Mortal, Removed, Held
<1>3. CASE files[d] # NoFile
  BY <1>1, <1>3 DEF FoldAxes, FoldDead, Mortal, Removed, Held
<1> QED
  BY <1>2, <1>3

LEMMA FoldedStep ==
    ASSUME NEW n \in Nat, NEW rows, NEW nd, Folded(nd, rows, n), NEW files, Fits(nd, files, rows[n + 1])
    PROVE  Folded(FoldOnto(nd, n + 1, files, rows[n + 1]), rows, n + 1)
<1> DEFINE own == Own(n + 1, rows[n + 1])
           kept == Kept(nd.map, own, Removed(nd.axes, files))
           next == FoldOnto(nd, n + 1, files, rows[n + 1])
           after == FoldAxes(nd.axes, files)
           gone == FoldDead(nd.dead, nd.axes, files)
<1>1. /\ next.map = kept \cup own \cup Overlaps(kept, own)
      /\ next.axes = after /\ next.dead = gone
  BY DEF FoldOnto, FoldAttributes
<1>2. rows[n + 1] \in SUBSET Row
  BY DEF Fits
<1>3. \A p \in kept : /\ p \in MapRows(1 .. n) /\ p \in nd.map
                      /\ \A d \in Partial : p.key[d] # Null => p.key[d] \in Held(after, d)
  <2>1. \A p \in kept : p \in nd.map /\ \A d \in Partial : p.key[d] \notin Removed(nd.axes, files)[d]
    BY DEF Kept
  <2>2. \A d \in Partial : Held(nd.axes, d) \ Removed(nd.axes, files)[d] \subseteq Held(after, d)
    BY <1>2, AxesStep DEF Dims
  <2> QED
    BY <2>1, <2>2 DEF Folded
<1>4. \A o \in own : /\ o \in MapRows({n + 1})
                     /\ \A d \in Partial : o.key[d] # Null => o.key[d] \in Held(after, d)
  <2>1. ASSUME NEW o \in own
        PROVE  o \in MapRows({n + 1}) /\ \E r \in rows[n + 1] : o.key = Key(r)
    BY <1>2, OwnRow
  <2>2. ASSUME NEW r \in rows[n + 1], NEW d \in Partial, r[d] # Null PROVE r[d] \in Held(after, d)
    BY <1>2, <2>2 DEF Fits, Named, Row, Dims
  <2>3. \A r \in rows[n + 1] : \A d \in Partial : Key(r)[d] = r[d]
    BY DEF Key
  <2> QED
    BY <2>1, <2>2, <2>3
<1> HIDE DEF kept, own
<1>5. ASSUME NEW m \in next.map
      PROVE  m \in MapRows(1 .. n + 1) /\ \A d \in Partial : m.key[d] # Null => m.key[d] \in Held(after, d)
  <2>1. CASE m \in kept
    BY <1>3, <2>1 DEF MapRows
  <2>2. CASE m \in own
    BY <1>4, <2>2 DEF MapRows
  <2>3. ASSUME NEW p \in kept, NEW o \in own, m = [o EXCEPT !.key = Met(o.key, p.key)]
        PROVE  m \in MapRows(1 .. n + 1) /\ \A d \in Partial : m.key[d] # Null => m.key[d] \in Held(after, d)
    <3>1. o.key \in Keys /\ p.key \in Keys
      BY <1>3, <1>4 DEF MapRows
    <3>2. /\ Met(o.key, p.key) \in Keys
          /\ \A d \in Partial : \/ Met(o.key, p.key)[d] = Null \/ Met(o.key, p.key)[d] = o.key[d]
                                \/ Met(o.key, p.key)[d] = p.key[d]
      BY <3>1, MetKey
    <3>3. m.key = Met(o.key, p.key) /\ m \in MapRows(1 .. n + 1)
      BY <1>4, <2>3, <3>2 DEF MapRows
    <3> QED
      BY <1>3, <1>4, <3>2, <3>3
  <2> QED
    BY <1>1, <2>1, <2>2, <2>3 DEF Overlaps, Pairs
<1>6. \A d \in Dims : /\ after[d] = NoFile \/ after[d] \subseteq Labels[d]
                      /\ gone[d] \subseteq Labels[d] \ Held(after, d)
  BY AxesStep
<1>7. ASSUME NEW k \in 1 .. n + 1, NEW r \in rows[k], NEW d \in Others, r[d] # Null
      PROVE  r[d] \in Held(after, d) \cup gone[d]
  <2>1. CASE k = n + 1
    BY <1>2, <1>7, <2>1 DEF Fits, Named, Row, Dims
  <2>2. CASE k # n + 1
    <3>1. k \in 1 .. n
      BY <2>2
    <3>2. r[d] \in Held(nd.axes, d) \cup nd.dead[d]
      BY <1>7, <3>1 DEF Folded
    <3>3. d \in Dims /\ d \notin Partial
      BY DimsAssumption DEF Dims
    <3>4. Held(nd.axes, d) \cup nd.dead[d] \subseteq Held(after, d) \cup gone[d]
      BY <3>3, AxesStep
    <3> QED
      BY <3>2, <3>4
  <2> QED
    BY <2>1, <2>2
<1>8. next.map \subseteq MapRows(1 .. n + 1)
  BY <1>5
<1> HIDE DEF next, after, gone
<1>9. Folded(next, rows, n + 1)
  BY <1>1, <1>5, <1>6, <1>7, <1>8 DEF Folded
<1> QED
  BY <1>9 DEF next

\* What a layer of a base is: its rows are ordered, fit what is below, and are
\* filled over what they leave of it.
LEMMA LayerOfBase ==
    ASSUME NEW path \in Bases, NEW n \in Nat, Len(path.rows) = n, NEW h, Nodes(h, path, n), NEW k \in 1 .. n
    PROVE  /\ Ordered(path.rows[k])
           /\ Fits(h[k - 1], path.files[k], path.rows[k])
           /\ FilledOver(Resolved(Kept(h[k - 1].map, Own(k, path.rows[k]), Removed(h[k - 1].axes, path.files[k])),
                                  path.rows, h[k - 1].dead),
                         path.rows[k])
<1> DEFINE below == FoldPath([files |-> SubSeq(path.files, 1, k - 1), rows |-> SubSeq(path.rows, 1, k - 1)])
<1>1. below = h[k - 1]
  BY PrefixIs
<1>2. /\ path.rows[k] \in SUBSET Row
      /\ \A d \in Dims : path.files[k][d] = NoFile \/ path.files[k][d] \subseteq Labels[d]
  BY BasesAssumption
<1>3. /\ Ordered(path.rows[k])
      /\ \A r \in path.rows[k] : \A d \in Named(r) : r[d] \in Held(FoldAxes(below.axes, path.files[k]), d)
      /\ FilledOver(Resolved(Kept(below.map, Own(k, path.rows[k]), Removed(below.axes, path.files[k])),
                             path.rows, below.dead),
                    path.rows[k])
  <2>1. Written(path)
    BY BasesAssumption
  <2> QED
    BY <2>1 DEF Written
<1> HIDE DEF below
<1> QED
  BY <1>1, <1>2, <1>3 DEF Fits

\* By induction over its layers, this is known of every node of a base.
LEMMA NodesFolded ==
    ASSUME NEW path \in Bases, NEW n \in Nat, Len(path.rows) = n, NEW h, Nodes(h, path, n)
    PROVE  \A k \in 0 .. n : Folded(h[k], path.rows, k)
<1> DEFINE S == {k \in 0 .. n : ~ Folded(h[k], path.rows, k)}
<1>1. SUFFICES ASSUME S # {} PROVE FALSE
  OBVIOUS
<1>2. S \in SUBSET Nat
  OBVIOUS
<1>3. PICK m \in S : \A k \in S : m <= k
  <2> HIDE DEF S
  <2> QED
    BY <1>1, <1>2, Least
<1>4. Folded(NoCache, path.rows, 0)
  BY DEF Folded, NoCache, NoAxes, NoneDead, Held
<1>5. m # 0
  BY <1>3, <1>4 DEF Nodes
<1>6. m - 1 \in 0 .. n /\ m - 1 \notin S /\ m \in 1 .. n /\ m - 1 \in Nat /\ (m - 1) + 1 = m
  BY <1>3, <1>5
<1>7. Folded(h[m - 1], path.rows, m - 1) /\ Fits(h[m - 1], path.files[m], path.rows[m])
  BY <1>6, LayerOfBase
<1>8. Folded(FoldOnto(h[m - 1], m, path.files[m], path.rows[m]), path.rows, m)
  <2>1. PICK i \in Nat : i = m - 1 /\ i + 1 = m
    BY <1>6
  <2>2. Folded(h[i], path.rows, i) /\ Fits(h[i], path.files[m], path.rows[i + 1])
    BY <1>7, <2>1
  <2>3. Folded(FoldOnto(h[i], i + 1, path.files[m], path.rows[i + 1]), path.rows, i + 1)
    BY <2>2, FoldedStep
  <2> QED
    BY <2>1, <2>3
<1> QED
  BY <1>3, <1>6, <1>8 DEF Nodes

LEMMA BaseFolded ==
    ASSUME NEW path \in Bases
    PROVE  Folded(FoldPath(path), path.rows, Len(path.rows)) /\ Len(path.rows) \in Nat
<1>1. PICK n \in Nat : Len(path.rows) = n
  BY BasesAssumption
<1>2. PICK h : Nodes(h, path, n)
  BY NodesExist
<1>3. FoldPath(path) = h[n] /\ n \in 0 .. n
  BY <1>1, <1>2, FoldPathIs
<1> QED
  BY <1>1, <1>2, <1>3, NodesFolded

-----------------------------------------------------------------------------
(* What the base reads.                                                    *)

OfBase == base \in Bases /\ node = FoldPath(base)

\* A row of the base names labels held there, at its place and as written.
LEMMA BaseRow ==
    ASSUME OfBase, NEW j \in BaseRows
    PROVE  /\ j.layer \in 1 .. BaseDepth /\ BaseDepth \in Nat
           /\ j.row \in Row /\ j.at \in Row
           /\ Reaches(j.row, j.at)
           /\ \A d \in Dims : j.at[d] # Null => j.at[d] \in Held(node.axes, d)
<1>1. Folded(node, base.rows, BaseDepth) /\ BaseDepth \in Nat
  BY BaseFolded DEF OfBase, BaseDepth
<1>2. /\ j \in UNION {Owned(m, base.rows[m.layer]) : m \in node.map}
      /\ \A d \in Others : j.at[d] \notin node.dead[d]
  BY DEF BaseRows, Resolved, Living, MostSpecific
<1>3. PICK m \in node.map : j \in Owned(m, base.rows[m.layer])
  BY <1>2
<1>4. PICK r \in base.rows[m.layer] :
        /\ \A d \in Partial : r[d] \in Stored(m, d)
        /\ j = [at |-> [d \in Dims |-> IF d \in Partial /\ r[d] = Null THEN m.key[d] ELSE r[d]],
                layer |-> m.layer, row |-> r]
  BY <1>3 DEF Owned
<1>5. m.layer \in 1 .. BaseDepth /\ m.key \in Keys
  BY <1>1 DEF Folded, MapRows
<1>6. r \in Row
  <2>1. base.rows \in Seq(SUBSET Row)
    BY BasesAssumption DEF OfBase
  <2> QED
    BY <1>4, <1>5, <2>1 DEF BaseDepth
<1>7. j.at \in Row
  BY <1>4, <1>5, <1>6 DEF Row, Keys, Dims
<1>8. \A d \in Partial : (r[d] = m.key[d] \/ r[d] = Null) /\ j.at[d] = m.key[d]
  BY <1>4 DEF Stored, Dims
<1>9. \A d \in Others : j.at[d] = r[d]
  BY <1>4, DimsAssumption DEF Dims
<1>10. Reaches(r, j.at)
  BY <1>4, <1>6 DEF Reaches, Named, Row
<1>11. ASSUME NEW d \in Dims, j.at[d] # Null PROVE j.at[d] \in Held(node.axes, d)
  <2>1. CASE d \in Partial
    BY <1>1, <1>8, <1>11, <2>1 DEF Folded
  <2>2. CASE d \in Others
    <3>1. r[d] \in Held(node.axes, d) \cup node.dead[d]
      BY <1>1, <1>4, <1>5, <1>9, <1>11, <2>2 DEF Folded
    <3> QED
      BY <1>2, <1>9, <2>2, <3>1
  <2> QED
    BY <2>1, <2>2 DEF Dims
<1> QED
  BY <1>1, <1>4, <1>5, <1>6, <1>7, <1>10, <1>11

-----------------------------------------------------------------------------
(* What is carried and spread.                                             *)

StagedBy(n) == [at : Row, source : 1 .. n, row : Row]

\* A base row taken to a key and to an extent it reaches (_reaching).
Put(j, k, x) == [at |-> [d \in Dims |-> IF d \in Partial THEN k[d] ELSE x[d]], source |-> j.layer, row |-> j.row]
Takes(j, k, x, staged) ==
    /\ k \in Carrying(staged)
    /\ \A d \in Named(j.at) \cap Partial : k[d] = j.at[d]
    /\ x \in Extents(j.at)

LEMMA ReachingIs ==
    ASSUME NEW staged
    PROVE  \A y : y \in Reaching(staged) <=>
             \E j \in BaseRows : \E k, x :
               /\ Takes(j, k, x, staged) /\ y = Put(j, k, x)
               /\ \A i \in BaseRows : \A l, e :
                    Takes(i, l, e, staged) /\ Put(i, l, e).at = y.at =>
                      Cardinality(Named(i.at)) <= Cardinality(Named(j.at))
<1> DEFINE Of(j, k, x) == [put |-> Put(j, k, x), named |-> Cardinality(Named(j.at))]
           All == UNION {{Of(j, k, x) : k \in {i \in Carrying(staged) : \A d \in Named(j.at) \cap Partial : i[d] = j.at[d]},
                                        x \in Extents(j.at)} : j \in BaseRows}
<1>1. Reaching(staged) = MostNamed(All)
  BY DEF Reaching, Put
<1>2. \A z : z \in All <=> \E j \in BaseRows : \E k, x : Takes(j, k, x, staged) /\ z = Of(j, k, x)
  BY DEF Takes
<1>3. \A j, k, x : Of(j, k, x).put = Put(j, k, x) /\ Of(j, k, x).named = Cardinality(Named(j.at))
  OBVIOUS
<1> HIDE DEF Of, All
<1>4. \A y : y \in MostNamed(All) <=>
        \E a \in All : y = a.put /\ \A z \in All : z.put.at = a.put.at => z.named <= a.named
  BY DEF MostNamed
<1>5. ASSUME NEW y, NEW j \in BaseRows, NEW k, NEW x, Takes(j, k, x, staged), y = Put(j, k, x),
             \A i \in BaseRows : \A l, e : Takes(i, l, e, staged) /\ Put(i, l, e).at = y.at =>
                 Cardinality(Named(i.at)) <= Cardinality(Named(j.at))
      PROVE  y \in MostNamed(All)
  <2>1. Of(j, k, x) \in All
    BY <1>2, <1>5
  <2>2. ASSUME NEW z \in All, z.put.at = Of(j, k, x).put.at PROVE z.named <= Of(j, k, x).named
    <3>1. PICK i \in BaseRows : \E l, e : Takes(i, l, e, staged) /\ z = Of(i, l, e)
      BY <1>2
    <3>2. PICK l, e : Takes(i, l, e, staged) /\ z = Of(i, l, e)
      BY <3>1
    <3> QED
      BY <1>3, <1>5, <2>2, <3>2
  <2> QED
    BY <1>3, <1>4, <1>5, <2>1, <2>2
<1>6. ASSUME NEW y \in MostNamed(All)
      PROVE  \E j \in BaseRows : \E k, x :
               /\ Takes(j, k, x, staged) /\ y = Put(j, k, x)
               /\ \A i \in BaseRows : \A l, e :
                    Takes(i, l, e, staged) /\ Put(i, l, e).at = y.at =>
                      Cardinality(Named(i.at)) <= Cardinality(Named(j.at))
  <2>1. PICK a \in All : y = a.put /\ \A z \in All : z.put.at = a.put.at => z.named <= a.named
    BY <1>4
  <2>2. PICK j \in BaseRows : \E k, x : Takes(j, k, x, staged) /\ a = Of(j, k, x)
    BY <1>2
  <2>3. PICK k, x : Takes(j, k, x, staged) /\ a = Of(j, k, x)
    BY <2>2
  <2>4. ASSUME NEW i \in BaseRows, NEW l, NEW e, Takes(i, l, e, staged), Put(i, l, e).at = y.at
        PROVE  Cardinality(Named(i.at)) <= Cardinality(Named(j.at))
    <3>1. Of(i, l, e) \in All
      BY <1>2, <2>4
    <3> QED
      BY <1>3, <2>1, <2>3, <2>4, <3>1
  <2> QED
    BY <1>3, <2>1, <2>3, <2>4
<1> QED
  BY <1>1, <1>5, <1>6

\* A carried row's place: the key's label in `partial`; outside it the base row's,
\* a label held, or NULL where none is held.
TakenAt(at, j, k) ==
    /\ at \in Row /\ Reaches(j.at, at)
    /\ \A d \in Partial : at[d] = k[d]
    /\ \A d \in Others :
          \/ j.at[d] # Null /\ at[d] = j.at[d]
          \/ j.at[d] = Null /\ HeldNow(d) # {} /\ at[d] \in HeldNow(d)
          \/ j.at[d] = Null /\ HeldNow(d) = {} /\ at[d] = Null

LEMMA TakenPlace ==
    ASSUME OfBase, NEW staged, \A t \in staged : t.at \in Row,
           NEW j \in BaseRows, NEW k, NEW x, Takes(j, k, x, staged), NEW y, y = Put(j, k, x)
    PROVE  TakenAt(y.at, j, k) /\ \E t \in staged : k = Key(t.at)
<1>1. PICK t \in staged : k = Key(t.at)
  BY DEF Takes, Carrying
<1>2. /\ x \in [Others -> AllLabels \cup {Null}]
      /\ \A d \in Others :
            IF j.at[d] # Null THEN x[d] = j.at[d]
            ELSE IF HeldNow(d) = {} THEN x[d] = Null
            ELSE x[d] \in HeldNow(d)
  BY DEF Takes, Extents
<1>3. y.at = [d \in Dims |-> IF d \in Partial THEN k[d] ELSE x[d]]
  BY DEF Put
<1>4. t.at \in Row /\ j.at \in Row
  BY BaseRow
<1>5. y.at \in Row
  BY <1>1, <1>2, <1>3, <1>4 DEF Row, Key, Dims
<1>6. /\ \A d \in Partial : y.at[d] = k[d]
      /\ \A d \in Others : y.at[d] = x[d]
  BY <1>3, DimsAssumption DEF Dims
<1>7. Reaches(j.at, y.at)
  <2> SUFFICES ASSUME NEW d \in Named(j.at) PROVE y.at[d] = j.at[d]
    BY DEF Reaches
  <2>1. d \in Dims /\ j.at[d] # Null
    BY <1>4 DEF Named, Row
  <2> QED
    BY <1>2, <1>6, <2>1 DEF Takes, Dims
<1> QED
  BY <1>1, <1>2, <1>5, <1>6, <1>7 DEF TakenAt

\* A staged row that `_spread` writes out along what a base row names.
Crosses(t, j) ==
    /\ (Named(j.at) \ Named(t.at)) \cap Others # {}
    /\ ~ (Named(t.at) \cap Partial \subseteq Named(j.at))
    /\ Meet(t.at, j.at)

SpreadAt(t, j) == [t EXCEPT !.at = Met(t.at, j.at)]

LEMMA SpreadIs ==
    ASSUME NEW staged
    PROVE  /\ \A w \in Spread(staged) :
                /\ \E t \in staged, j \in BaseRows : Crosses(t, j) /\ w = SpreadAt(t, j)
                /\ w.at \notin Placed(staged)
           /\ \A t \in staged, j \in BaseRows :
                /\ Crosses(t, j) /\ SpreadAt(t, j).at \notin Placed(staged)
                /\ \A u \in staged, i \in BaseRows : Crosses(u, i) =>
                     Cardinality(Named(u.at) \cap Partial) <= Cardinality(Named(t.at) \cap Partial)
                => SpreadAt(t, j) \in Spread(staged)
<1> DEFINE crossing == {tj \in staged \X BaseRows : Crosses(tj[1], tj[2])}
           Of(tj) == [put |-> SpreadAt(tj[1], tj[2]), named |-> Cardinality(Named(tj[1].at) \cap Partial)]
           all == {Of(tj) : tj \in crossing}
<1>1. Spread(staged) = {w \in MostNamed(all) : w.at \notin Placed(staged)}
  BY DEF Spread, Crosses, SpreadAt
<1>2. \A tj : Of(tj).put = SpreadAt(tj[1], tj[2]) /\ Of(tj).named = Cardinality(Named(tj[1].at) \cap Partial)
  OBVIOUS
<1>3. \A tj \in crossing : tj[1] \in staged /\ tj[2] \in BaseRows /\ Crosses(tj[1], tj[2])
  OBVIOUS
<1>4. \A t \in staged, j \in BaseRows : Crosses(t, j) => <<t, j>> \in crossing
  OBVIOUS
<1> HIDE DEF crossing, Of
<1>5. \A y : y \in MostNamed(all) <=>
        \E a \in all : y = a.put /\ \A z \in all : z.put.at = a.put.at => z.named <= a.named
  BY DEF MostNamed
<1>6. ASSUME NEW w \in MostNamed(all)
      PROVE  \E t \in staged, j \in BaseRows : Crosses(t, j) /\ w = SpreadAt(t, j)
  <2>1. PICK tj \in crossing : w = Of(tj).put
    BY <1>5
  <2> QED
    BY <1>2, <1>3, <2>1
<1>7. ASSUME NEW t \in staged, NEW j \in BaseRows, Crosses(t, j),
             \A u \in staged, i \in BaseRows : Crosses(u, i) =>
               Cardinality(Named(u.at) \cap Partial) <= Cardinality(Named(t.at) \cap Partial)
      PROVE  SpreadAt(t, j) \in MostNamed(all)
  <2>1. Of(<<t, j>>) \in all
    BY <1>4, <1>7
  <2>2. ASSUME NEW z \in all PROVE z.named <= Of(<<t, j>>).named
    <3>1. PICK tj \in crossing : z = Of(tj)
      OBVIOUS
    <3>2. Cardinality(Named(tj[1].at) \cap Partial) <= Cardinality(Named(t.at) \cap Partial)
      BY <1>3, <1>7
    <3>3. z.named = Cardinality(Named(tj[1].at) \cap Partial)
      BY <1>2, <3>1
    <3>4. Of(<<t, j>>).named = Cardinality(Named(t.at) \cap Partial)
      BY <1>2
    <3> QED
      BY <3>2, <3>3, <3>4
  <2>3. SpreadAt(t, j) = Of(<<t, j>>).put
    BY <1>2
  <2> QED
    BY <1>5, <2>1, <2>2, <2>3
<1> QED
  BY <1>1, <1>6, <1>7

-----------------------------------------------------------------------------
(* Types, and the labels staged rows name.                                 *)

\* A label of an axis not staged is one the base holds.
HeldAt(at) == \A d \in Dims : at[d] # Null /\ axis[d] = NoFile => at[d] \in Held(node.axes, d)

IInv ==
    /\ TypeOK
    /\ OfBase
    /\ axis \in [Dims -> {NoFile} \cup SUBSET AllLabels]
    /\ calls \in Seq(CallRows)
    /\ \A t \in table : HeldAt(t.at)

LEMMA Lengths ==
    ASSUME IInv
    PROVE  /\ BaseDepth \in Nat /\ Len(calls) \in Nat
           /\ \A k \in 1 .. Len(calls) : calls[k] \in CallRows /\ calls[k] \subseteq Row
  BY BaseFolded, CallsAssumption DEF IInv, OfBase, BaseDepth

\* The axes, staged or not, hold labels of their dims.
LEMMA HeldTyped ==
    ASSUME IInv, NEW d \in Dims
    PROVE  /\ HeldNow(d) = IF axis[d] = NoFile THEN Held(node.axes, d) ELSE axis[d]
           /\ HeldNow(d) \subseteq Labels[d] /\ Labels[d] \subseteq AllLabels
           /\ Null \notin Labels[d]
           /\ Held(node.axes, d) \subseteq Labels[d]
<1>1. node.axes[d] = NoFile \/ node.axes[d] \subseteq Labels[d]
  BY BaseFolded DEF IInv, OfBase, Folded
<1>2. axis[d] = NoFile \/ axis[d] \subseteq Labels[d]
  BY DEF IInv, TypeOK
<1>3. HeldNow(d) = IF axis[d] = NoFile THEN Held(node.axes, d) ELSE axis[d]
  BY DEF HeldNow, FoldAxes, Held
<1>4. Null \notin Labels[d] /\ Labels[d] \subseteq AllLabels
  BY LabelsAssumption DEF AllLabels
<1> QED
  BY <1>1, <1>2, <1>3, <1>4 DEF Held

LEMMA CompleteHeld ==
    ASSUME IInv, NEW n \in Nat, BaseDepth <= n, NEW staged \in SUBSET StagedBy(n),
           \A t \in staged : HeldAt(t.at)
    PROVE  Complete(staged) \subseteq StagedBy(n) /\ \A t \in Complete(staged) : HeldAt(t.at)
<1> DEFINE carried == staged \cup Uncovered(Reaching(staged), staged)
<1>1. OfBase
  BY DEF IInv
<1>2. ASSUME NEW y \in Reaching(staged) PROVE y \in StagedBy(n) /\ HeldAt(y.at)
  <2>1. PICK j \in BaseRows : \E k, x : Takes(j, k, x, staged) /\ y = Put(j, k, x)
    BY ReachingIs
  <2>2. PICK k, x : Takes(j, k, x, staged) /\ y = Put(j, k, x)
    BY <2>1
  <2>3. TakenAt(y.at, j, k) /\ \E t \in staged : k = Key(t.at)
    <3>1. \A t \in staged : t.at \in Row
      BY DEF StagedBy
    <3> QED
      BY <1>1, <2>2, <3>1, TakenPlace
  <2>4. /\ j.layer \in 1 .. BaseDepth /\ BaseDepth \in Nat /\ j.row \in Row
        /\ \A d \in Dims : j.at[d] # Null => j.at[d] \in Held(node.axes, d)
    BY <1>1, BaseRow
  <2>5. y.source = j.layer /\ y.row = j.row /\ y = [at |-> y.at, source |-> y.source, row |-> y.row]
    BY <2>2 DEF Put
  <2>6. y \in StagedBy(n)
    BY <2>3, <2>4, <2>5 DEF StagedBy, TakenAt
  <2>7. ASSUME NEW d \in Dims, y.at[d] # Null, axis[d] = NoFile PROVE y.at[d] \in Held(node.axes, d)
    <3>1. HeldNow(d) = Held(node.axes, d)
      BY <2>7, HeldTyped
    <3>2. CASE d \in Partial
      <4>1. PICK t \in staged : k = Key(t.at)
        BY <2>3
      <4>2. y.at[d] = t.at[d]
        BY <2>3, <3>2, <4>1 DEF Key, TakenAt
      <4> QED
        BY <2>7, <4>2 DEF HeldAt
    <3>3. CASE d \in Others
      BY <2>3, <2>4, <2>7, <3>1, <3>3 DEF TakenAt
    <3> QED
      BY <3>2, <3>3 DEF Dims
  <2> QED
    BY <2>6, <2>7 DEF HeldAt
<1>3. carried \in SUBSET StagedBy(n) /\ \A t \in carried : HeldAt(t.at)
  BY <1>2 DEF Uncovered
<1> HIDE DEF carried
<1>4. ASSUME NEW w \in Spread(carried) PROVE w \in StagedBy(n) /\ HeldAt(w.at)
  <2>1. PICK t \in carried, j \in BaseRows : Crosses(t, j) /\ w = SpreadAt(t, j)
    BY SpreadIs
  <2>2. t \in StagedBy(n) /\ HeldAt(t.at)
    BY <1>3
  <2>3. j.at \in Row /\ \A d \in Dims : j.at[d] # Null => j.at[d] \in Held(node.axes, d)
    BY <1>1, BaseRow
  <2>4. w.at = Met(t.at, j.at) /\ Met(t.at, j.at) \in Row /\ w \in StagedBy(n)
    BY <2>1, <2>2, <2>3 DEF SpreadAt, StagedBy, Met, Row
  <2>5. \A d \in Dims : w.at[d] = IF t.at[d] = Null THEN j.at[d] ELSE t.at[d]
    BY <2>2, <2>4 DEF Met, StagedBy, Row
  <2> QED
    BY <2>2, <2>3, <2>4, <2>5 DEF HeldAt
<1>5. Complete(staged) \subseteq staged \cup carried \cup Spread(carried)
  BY DEF Complete, carried
<1> QED
  BY <1>3, <1>4, <1>5

LEMMA SetTyped ==
    ASSUME IInv, NEW rows \in CallRows, SetRows(rows)
    PROVE  IInv'
<1> DEFINE n == BaseDepth + Len(calls) + 1
           staged == Replaced(rows)
<1>1. /\ Len(calls) < MaxCalls /\ AllHeld(rows)
      /\ table' = Complete(staged) /\ made' = TRUE
      /\ calls' = Append(calls, rows)
      /\ UNCHANGED <<base, node, axis, edits>>
  BY DEF SetRows
<1>2. BaseDepth \in Nat /\ Len(calls) \in Nat /\ n \in Nat /\ BaseDepth <= n /\ rows \subseteq Row
  BY Lengths, CallsAssumption
<1>3. calls' \in Seq(CallRows) /\ Len(calls') = Len(calls) + 1 /\ Len(calls') <= MaxCalls
  BY <1>1, <1>2, BoundsAssumption DEF IInv
<1>4. \A t \in Replaced(rows) :
        \/ t \in table
        \/ \E r \in rows : t = [at |-> r, source |-> n, row |-> r]
  BY DEF Replaced, Uncovering
<1>5. \A r \in rows : r \in Row /\ HeldAt(r)
  <2> SUFFICES ASSUME NEW r \in rows, NEW d \in Dims, r[d] # Null, axis[d] = NoFile
               PROVE  r[d] \in Held(node.axes, d)
    BY <1>2 DEF HeldAt
  <2>1. d \in Named(r)
    BY <1>2 DEF Named, Row
  <2>2. r[d] \in HeldNow(d)
    BY <1>1, <2>1 DEF AllHeld
  <2> QED
    BY <2>2, HeldTyped
<1>6. staged \in SUBSET StagedBy(n) /\ \A t \in staged : HeldAt(t.at)
  <2> SUFFICES ASSUME NEW t \in staged PROVE t \in StagedBy(n) /\ HeldAt(t.at)
    OBVIOUS
  <2>1. CASE t \in table
    BY <1>2, <2>1 DEF IInv, TypeOK, StagedBy
  <2>2. ASSUME NEW r \in rows, t = [at |-> r, source |-> n, row |-> r]
        PROVE  t \in StagedBy(n) /\ HeldAt(t.at)
    <3>1. n \in 1 .. n
      BY <1>2
    <3> HIDE DEF n
    <3> QED
      BY <1>5, <2>2, <3>1 DEF StagedBy
  <2> QED
    BY <1>4, <2>1, <2>2
<1>7. table' \subseteq StagedBy(n) /\ \A t \in table' : HeldAt(t.at)
  <2> HIDE DEF n, staged
  <2> QED
    BY <1>1, <1>2, <1>6, CompleteHeld
<1>8. BaseDepth' = BaseDepth /\ n = BaseDepth + Len(calls')
  <2>1. BaseDepth' = BaseDepth
    BY <1>1 DEF BaseDepth
  <2> QED
    BY <1>2, <1>3, <2>1
<1>9. TypeOK'
  BY <1>1, <1>3, <1>7, <1>8 DEF TypeOK, IInv, StagedBy
<1>10. \A t \in table' : HeldAt(t.at)'
  BY <1>1, <1>7 DEF HeldAt
<1> QED
  BY <1>1, <1>3, <1>9, <1>10 DEF IInv, OfBase

\* add and remove stage the axis whole.
LEMMA AxisTyped ==
    ASSUME IInv, NEW d \in Dims, NEW labels \in SUBSET Labels[d],
           axis' = [axis EXCEPT ![d] = labels], UNCHANGED <<base, node, table, made, calls>>
    PROVE  IInv'
<1>1. labels # NoFile /\ labels \subseteq AllLabels
  BY LabelsAssumption DEF AllLabels
<1>2. axis \in [Dims -> {NoFile} \cup SUBSET AllLabels]
  BY DEF IInv
<1>3. axis' \in [Dims -> {NoFile} \cup SUBSET AllLabels] /\ axis'[d] = labels
  BY <1>1, <1>2
<1>4. \A e \in Dims : e # d => axis'[e] = axis[e]
  BY <1>2
<1>5. TypeOK'
  BY <1>3, <1>4 DEF IInv, TypeOK, BaseDepth
<1>6. ASSUME NEW t \in table' PROVE HeldAt(t.at)'
  BY <1>1, <1>3, <1>4 DEF IInv, HeldAt
<1> QED
  BY <1>3, <1>5, <1>6 DEF IInv, OfBase

LEMMA AxisEdits ==
    ASSUME IInv, NEW d \in Dims, NEW label \in Labels[d], AddLabel(d, label) \/ RemoveLabel(d, label)
    PROVE  \E labels \in SUBSET Labels[d] :
             axis' = [axis EXCEPT ![d] = labels] /\ UNCHANGED <<base, node, table, made, calls>>
<1>1. HeldNow(d) \subseteq Labels[d]
  BY HeldTyped
<1> QED
  BY <1>1 DEF AddLabel, RemoveLabel

LEMMA Inductive == IInv /\ [Next]_vars => IInv'
<1> SUFFICES ASSUME IInv, [Next]_vars PROVE IInv'
  OBVIOUS
<1>1. ASSUME NEW rows \in CallRows, SetRows(rows) PROVE IInv'
  BY <1>1, SetTyped
<1>2. ASSUME NEW rows \in CallRows, SetRefused(rows) PROVE IInv'
  <2>1. made' = TRUE /\ UNCHANGED <<base, node, axis, table, calls, edits>>
    BY <1>2 DEF SetRefused
  <2> QED
    BY <2>1 DEF IInv, TypeOK, OfBase, BaseDepth, HeldAt
<1>3. ASSUME NEW d \in Dims, NEW label \in Labels[d], AddLabel(d, label) \/ RemoveLabel(d, label)
      PROVE  IInv'
  BY <1>3, AxisEdits, AxisTyped
<1>4. CASE Rollback
  <2>1. axis' = NoAxes /\ table' = {} /\ made' = FALSE /\ calls' = << >> /\ UNCHANGED <<base, node, edits>>
    BY <1>4 DEF Rollback
  <2>2. calls' \in Seq(CallRows) /\ Len(calls') = 0
    BY <2>1
  <2>3. axis' \in [Dims -> {NoFile} \cup SUBSET AllLabels] /\ \A d \in Dims : axis'[d] = NoFile
    BY <2>1 DEF NoAxes
  <2>4. Len(calls') <= MaxCalls
    BY <2>2, BoundsAssumption
  <2>5. TypeOK'
    BY <2>1, <2>3, <2>4 DEF TypeOK, IInv
  <2> QED
    BY <2>1, <2>2, <2>3, <2>5 DEF IInv, OfBase
<1>5. CASE UNCHANGED vars
  BY <1>5 DEF vars, IInv, TypeOK, OfBase, BaseDepth, HeldAt
<1> QED
  BY <1>1, <1>2, <1>3, <1>4, <1>5 DEF Next

LEMMA Initially == Init => IInv
<1> SUFFICES ASSUME Init PROVE IInv
  OBVIOUS
<1>1. calls \in Seq(CallRows) /\ Len(calls) = 0
  BY DEF Init
<1>2. axis \in [Dims -> {NoFile} \cup SUBSET AllLabels] /\ \A d \in Dims : axis[d] = NoFile
  BY DEF Init, NoAxes
<1>3. Len(calls) <= MaxCalls
  BY <1>1, BoundsAssumption
<1>4. TypeOK
  BY <1>2, <1>3 DEF Init, TypeOK
<1> QED
  BY <1>1, <1>2, <1>4 DEF Init, IInv, OfBase

LEMMA Invariant == Spec => []IInv
  BY Initially, Inductive, PTL DEF Spec

\* Staged rows, axes and calls keep their types, for any dims, base and calls.
THEOREM EditsTypeCorrect == Spec => []TypeOK
  BY Invariant, PTL DEF IInv

\* What the writer looks at first (refuse_unheld): the layer staged names labels
\* its axes hold, whatever is carried and spread, and removed and added again
\* before or after.
THEOREM StagedRowsHeld == Spec => [](AllHeld(StagedRows))
<1>1. ASSUME IInv, NEW w \in StagedRows, NEW d \in Named(w) PROVE w[d] \in HeldNow(d)
  <2>1. PICK t \in Collapsed : w = t.at
    BY <1>1 DEF StagedRows, Placed
  <2>2. t \in table /\ (axis[d] # NoFile => w[d] \in axis[d])
    BY <1>1, <2>1 DEF Collapsed
  <2>3. t.at \in Row /\ d \in Dims /\ w[d] # Null
    BY <1>1, <2>1, <2>2 DEF IInv, TypeOK, Named, Row
  <2> QED
    BY <1>1, <2>1, <2>2, <2>3, HeldTyped DEF IInv, HeldAt
<1>2. IInv => AllHeld(StagedRows)
  BY <1>1 DEF AllHeld
<1> QED
  BY <1>2, Invariant, PTL

-----------------------------------------------------------------------------
(* One dim in `partial` and one outside it.  Keys are then nested, and the *)
(* map of every node is *plain*: each of its rows is a layer's own.        *)

\* At most one dim of either kind; labels added and removed only of the one in
\* `partial`, whose axis every base has.  What each part keeps out: two dims in
\* `partial`, a row spread over a more specific one of a later call; two outside
\* it, two values carried to one coordinate, since only the dims in `partial` rank
\* what is spread; labels added outside it, a coordinate the carried extent lacks;
\* a base without the partial axis, rows carried for a key that names no label,
\* which a later row naming one crosses.
Narrow ==
    /\ \A d, e \in Partial : d = e
    /\ \A d, e \in Others : d = e
    /\ EditedDims \subseteq Partial
    /\ \A path \in Bases : \A d \in Partial : FoldPath(path).axes[d] # NoFile

Plain(map, rows) ==
    \A m \in map : rows[m.layer] \in SUBSET Row /\ m \in Own(m.layer, rows[m.layer])

UniqueKeys(map) == \A m, o \in map : m.key = o.key => m = o

Where(layer, r) == [at |-> r, layer |-> layer, row |-> r]

\* What a plain map's rows own.
LEMMA ResolvedPlain ==
    ASSUME NEW map, NEW rows, NEW dead, Plain(map, rows)
    PROVE  \A j : j \in Resolved(map, rows, dead) <=>
             \E m \in map : \E r \in rows[m.layer] :
               Key(r) = m.key /\ (\A d \in Others : r[d] \notin dead[d]) /\ j = Where(m.layer, r)
<1> DEFINE joined == UNION {Owned(m, rows[m.layer]) : m \in map}
<1>1. ASSUME NEW m \in map
      PROVE  \A j : j \in Owned(m, rows[m.layer]) <=>
               \E r \in rows[m.layer] : Key(r) = m.key /\ j = Where(m.layer, r)
  <2>1. /\ rows[m.layer] \in SUBSET Row
        /\ m \in Own(m.layer, rows[m.layer])
    BY DEF Plain
  <2>2. m.key \in Keys /\ \E s \in rows[m.layer] : m.key = Key(s)
    <3>1. m \in MapRows({m.layer}) /\ \E s \in rows[m.layer] : m.key = Key(s)
      BY <2>1, OwnRow
    <3> QED
      BY <3>1 DEF MapRows
  <2>3. \A s \in rows[m.layer] : Key(s) = m.key => \A d \in Partial : s[d] = m.key[d]
    BY DEF Key
  <2> /\ \A d : d \in m.varies <=> d \in Dims /\ \E s \in rows[m.layer] : Key(s) = m.key /\ s[d] # Null
      /\ \A d : d \in m.broadcast <=> d \in Dims /\ \E s \in rows[m.layer] : Key(s) = m.key /\ s[d] = Null
    BY <2>1, OwnFlags
  <2>4. \A d \in Partial : d \in m.varies <=> m.key[d] # Null
    BY <2>2, <2>3 DEF Dims
  <2>5. \A d \in Partial : d \in m.broadcast <=> m.key[d] = Null
    BY <2>2, <2>3 DEF Dims
  <2>6. \A d \in Partial : Stored(m, d) = {m.key[d]}
    BY <2>4, <2>5 DEF Stored
  <2>7. ASSUME NEW r \in rows[m.layer]
        PROVE  (\A d \in Partial : r[d] \in Stored(m, d)) <=> Key(r) = m.key
    <3>1. m.key = [d \in Partial |-> m.key[d]]
      BY <2>2 DEF Keys
    <3>2. Key(r) = [d \in Partial |-> r[d]]
      BY DEF Key
    <3> QED
      BY <2>6, <3>1, <3>2
  <2>8. ASSUME NEW r \in rows[m.layer], Key(r) = m.key
        PROVE  [d \in Dims |-> IF d \in Partial /\ r[d] = Null THEN m.key[d] ELSE r[d]] = r
    <3>1. \A d \in Partial : m.key[d] = r[d]
      BY <2>3, <2>8
    <3>2. r \in Row
      BY <2>1
    <3> QED
      BY <3>1, <3>2 DEF Row
  <2> QED
    BY <2>7, <2>8 DEF Owned, Where
<1>2. \A j : j \in joined <=>
        \E m \in map : \E r \in rows[m.layer] : Key(r) = m.key /\ j = Where(m.layer, r)
  BY <1>1
<1>3. \A layer, r : Where(layer, r).at = r /\ Where(layer, r).row = r
  BY DEF Where
<1> HIDE DEF joined
<1>4. MostSpecific(joined) = joined
  <2>1. \A j \in joined : j.row = j.at
    BY <1>2, <1>3
  <2> QED
    BY <2>1 DEF MostSpecific
<1>5. Resolved(map, rows, dead) = {j \in joined : \A d \in Others : j.at[d] \notin dead[d]}
  BY <1>4 DEF Resolved, Living, joined
<1> QED
  BY <1>2, <1>3, <1>5

LEMMA KeysNest ==
    ASSUME Narrow, NEW a \in Keys, NEW b \in Keys
    PROVE  /\ Nested(a, b)
           /\ ~ (Named(a) \subseteq Named(b)) => Named(b) = {}
<1>1. Named(a) \subseteq Partial /\ Named(b) \subseteq Partial
  BY DEF Named, Keys
<1>2. \A u, v \in Partial : u = v
  BY DEF Narrow
<1> QED
  BY <1>1, <1>2 DEF Nested

\* A layer folded onto a plain map leaves a plain one.
LEMMA PlainStep ==
    ASSUME Narrow, NEW n \in Nat, NEW rows, NEW map \in SUBSET MapRows(1 .. n), Plain(map, rows), UniqueKeys(map),
           NEW removed, NEW own, own = Own(n + 1, rows[n + 1]), rows[n + 1] \in SUBSET Row
    PROVE  /\ FoldAttributes(map, own, removed) = Kept(map, own, removed) \cup own
           /\ Plain(Kept(map, own, removed) \cup own, rows)
           /\ UniqueKeys(Kept(map, own, removed) \cup own)
<1> DEFINE kept == Kept(map, own, removed)
<1>1. /\ kept \subseteq map
      /\ \A p \in kept : p.key \in Keys /\ ~ \E o \in own : Reaches(o.key, p.key)
  BY DEF Kept, MapRows
<1>2. \A o \in own : o.layer = n + 1 /\ o.key \in Keys
  <2>1. ASSUME NEW o \in own PROVE o \in MapRows({n + 1})
    BY OwnRow
  <2> QED
    BY <2>1 DEF MapRows
<1>3. \A m, o \in own : m.key = o.key => m = o
  BY OwnUnique
<1> HIDE DEF kept
<1>4. Overlaps(kept, own) = {}
  <2> SUFFICES ASSUME NEW po \in Pairs(kept, own), ~ Nested(po[1].key, po[2].key) PROVE FALSE
    BY DEF Overlaps
  <2>1. po[1] \in kept /\ po[2] \in own
    BY DEF Pairs
  <2> QED
    BY <1>1, <1>2, <2>1, KeysNest
<1>5. FoldAttributes(map, own, removed) = kept \cup own
  BY <1>4 DEF FoldAttributes, kept
<1>6. Plain(kept \cup own, rows)
  BY <1>1, <1>2 DEF Plain
<1>7. \A p \in kept, o \in own : p.key # o.key
  BY <1>1 DEF Reaches
<1>8. UniqueKeys(kept \cup own)
  BY <1>1, <1>3, <1>7 DEF UniqueKeys
<1> QED
  BY <1>5, <1>6, <1>8 DEF kept

LEMMA NodesPlain ==
    ASSUME Narrow, NEW path \in Bases, NEW n \in Nat, Len(path.rows) = n, NEW h, Nodes(h, path, n)
    PROVE  \A k \in 0 .. n : Plain(h[k].map, path.rows) /\ UniqueKeys(h[k].map)
<1> DEFINE Good(k) == Plain(h[k].map, path.rows) /\ UniqueKeys(h[k].map)
           S == {k \in 0 .. n : ~ Good(k)}
<1>1. SUFFICES ASSUME S # {} PROVE FALSE
  OBVIOUS
<1>2. S \in SUBSET Nat
  OBVIOUS
<1>3. PICK m \in S : \A k \in S : m <= k
  <2> HIDE DEF S
  <2> QED
    BY <1>1, <1>2, Least
<1>4. Good(0)
  BY DEF Nodes, NoCache, Plain, UniqueKeys
<1>5. m # 0
  BY <1>3, <1>4
<1>6. PICK i \in Nat : i = m - 1 /\ i + 1 = m /\ i \in 0 .. n /\ i \notin S /\ m \in 1 .. n
  BY <1>3, <1>5
<1>7. Good(i)
  BY <1>6
<1>8. h[i].map \in SUBSET MapRows(1 .. i) /\ path.rows[i + 1] \in SUBSET Row
  BY <1>6, NodesFolded, LayerOfBase DEF Folded, Fits
<1> DEFINE own == Own(i + 1, path.rows[i + 1])
           removed == Removed(h[i].axes, path.files[i + 1])
<1>9. h[i + 1].map = FoldAttributes(h[i].map, own, removed)
  <2>1. h[i + 1] = FoldOnto(h[i], i + 1, path.files[i + 1], path.rows[i + 1])
    <3>1. i + 1 \in 1 .. n /\ (i + 1) - 1 = i
      BY <1>6
    <3> QED
      BY <3>1 DEF Nodes
  <2> QED
    BY <2>1 DEF FoldOnto
<1>10. /\ FoldAttributes(h[i].map, own, removed) = Kept(h[i].map, own, removed) \cup own
       /\ Plain(Kept(h[i].map, own, removed) \cup own, path.rows)
       /\ UniqueKeys(Kept(h[i].map, own, removed) \cup own)
  <2> HIDE DEF removed
  <2> QED
    BY <1>7, <1>8, PlainStep
<1>11. Good(i + 1)
  BY <1>9, <1>10
<1> QED
  BY <1>3, <1>6, <1>11

LEMMA BasePlain ==
    ASSUME Narrow, OfBase
    PROVE  Plain(node.map, base.rows) /\ UniqueKeys(node.map) /\ node.map \subseteq MapRows(1 .. BaseDepth)
<1>1. PICK n \in Nat : Len(base.rows) = n
  BY BasesAssumption DEF OfBase
<1>2. PICK h : Nodes(h, base, n)
  BY NodesExist
<1>3. node = h[n] /\ n \in 0 .. n
  BY <1>1, <1>2, FoldPathIs DEF OfBase
<1>4. Plain(h[n].map, base.rows) /\ UniqueKeys(h[n].map)
  BY <1>1, <1>2, <1>3, NodesPlain DEF OfBase
<1>5. node.map \subseteq MapRows(1 .. BaseDepth)
  BY BaseFolded DEF OfBase, Folded, BaseDepth
<1> QED
  BY <1>3, <1>4, <1>5

LEMMA BaseRowPlain ==
    ASSUME Narrow, OfBase
    PROVE  /\ \A j : j \in BaseRows <=>
                \E m \in node.map : \E r \in base.rows[m.layer] :
                  Key(r) = m.key /\ (\A d \in Others : r[d] \notin node.dead[d]) /\ j = Where(m.layer, r)
           /\ \A i, j \in BaseRows : i.at = j.at => i = j
<1>1. \A j : j \in BaseRows <=>
        \E m \in node.map : \E r \in base.rows[m.layer] :
          Key(r) = m.key /\ (\A d \in Others : r[d] \notin node.dead[d]) /\ j = Where(m.layer, r)
  BY BasePlain, ResolvedPlain DEF BaseRows
<1>2. ASSUME NEW i \in BaseRows, NEW j \in BaseRows, i.at = j.at PROVE i = j
  <2>1. PICK m \in node.map : \E r \in base.rows[m.layer] : Key(r) = m.key /\ i = Where(m.layer, r)
    BY <1>1
  <2>2. PICK o \in node.map : \E r \in base.rows[o.layer] : Key(r) = o.key /\ j = Where(o.layer, r)
    BY <1>1
  <2>3. /\ Key(i.at) = m.key /\ i = Where(m.layer, i.at)
        /\ Key(j.at) = o.key /\ j = Where(o.layer, j.at)
    BY <2>1, <2>2 DEF Where
  <2>4. m = o
    BY <1>2, <2>3, BasePlain DEF UniqueKeys
  <2> QED
    BY <1>2, <2>3, <2>4
<1> QED
  BY <1>1, <1>2

-----------------------------------------------------------------------------
(* Rows: what they name, and where they meet.                              *)

LEMMA RowReaches ==
    ASSUME NEW a \in Row, NEW b
    PROVE  /\ Reaches(a, b) <=> \A d \in Dims : a[d] = Null \/ b[d] = a[d]
           /\ \A d : d \in Named(a) <=> d \in Dims /\ a[d] # Null
  BY DEF Reaches, Named, Row

LEMMA ReachesOn ==
    ASSUME NEW a \in Row, NEW b \in Row, NEW c, Reaches(a, b), Reaches(b, c)
    PROVE  Reaches(a, c)
  BY RowReaches

LEMMA ReachesSelf ==
    ASSUME NEW a
    PROVE  Reaches(a, a)
  BY DEF Reaches

\* Two rows reaching one place reach each other where one names less.
LEMMA ReachesNested ==
    ASSUME NEW a \in Row, NEW b \in Row, NEW c, Reaches(a, c), Reaches(b, c), Named(a) \subseteq Named(b)
    PROVE  Reaches(a, b)
  BY RowReaches

LEMMA SameRow ==
    ASSUME NEW a \in Row, NEW b \in Row, NEW c, Reaches(a, c), Reaches(b, c), Named(a) = Named(b)
    PROVE  a = b
<1>1. \A d \in Dims : a[d] = b[d]
  BY RowReaches
<1> QED
  BY <1>1 DEF Row

\* A row that names every dim is the place it reaches.
LEMMA WholeRow ==
    ASSUME NEW a \in Row, NEW c \in Row, Reaches(a, c), Dims \subseteq Named(a)
    PROVE  a = c
<1>1. \A d \in Dims : a[d] = c[d]
  BY RowReaches
<1> QED
  BY <1>1 DEF Row

\* What two rows meet at.
LEMMA MetRow ==
    ASSUME NEW a \in Row, NEW b \in Row, Meet(a, b)
    PROVE  /\ Met(a, b) \in Row
           /\ Named(Met(a, b)) = Named(a) \cup Named(b)
           /\ Reaches(a, Met(a, b)) /\ Reaches(b, Met(a, b))
           /\ \A c : Reaches(a, c) /\ Reaches(b, c) => Reaches(Met(a, b), c)
<1>1. \A d \in Dims : Met(a, b)[d] = IF a[d] = Null THEN b[d] ELSE a[d]
  BY DEF Met, Row
<1>2. Met(a, b) \in Row
  BY DEF Met, Row
<1>3. \A d \in Dims : a[d] # Null /\ b[d] # Null => a[d] = b[d]
  BY RowReaches DEF Meet
<1>4. Named(Met(a, b)) = Named(a) \cup Named(b)
  <2>1. \A d : d \in Named(Met(a, b)) <=> d \in Named(a) \/ d \in Named(b)
    BY <1>1, <1>2, RowReaches
  <2> QED
    BY <2>1
<1> QED
  BY <1>1, <1>2, <1>3, <1>4, RowReaches

LEMMA KeyOf ==
    ASSUME NEW a \in Row
    PROVE  /\ Key(a) \in Keys /\ \A d \in Partial : Key(a)[d] = a[d]
           /\ \A b : Reaches(Key(a), b) <=> \A d \in Partial : a[d] = Null \/ b[d] = a[d]
           /\ Named(Key(a)) = Named(a) \cap Partial
<1>1. Key(a) \in Keys /\ \A d \in Partial : Key(a)[d] = a[d]
  BY DEF Key, Keys, Row, Dims
<1>2. \A b : Reaches(Key(a), b) <=> \A d \in Partial : a[d] = Null \/ b[d] = a[d]
  BY <1>1 DEF Reaches, Named, Keys
<1>3. \A d : d \in Named(Key(a)) <=> d \in Named(a) /\ d \in Partial
  BY <1>1, RowReaches DEF Named, Keys, Dims
<1> QED
  BY <1>1, <1>2, <1>3

\* A row names one whole kind of dim, the other, both or none.
LEMMA NarrowNames ==
    ASSUME Narrow, NEW a \in Row, NEW d \in Named(a)
    PROVE  (d \in Partial => Partial \subseteq Named(a)) /\ (d \in Others => Others \subseteq Named(a))
  BY DEF Narrow

\* Two rows that are not nested: a label of the dim in `partial`, and one outside.
LEMMA NarrowCross ==
    ASSUME Narrow, NEW a \in Row, NEW b \in Row, ~ Nested(a, b)
    PROVE  /\ \/ Named(a) = Partial /\ Named(b) = Others
              \/ Named(a) = Others /\ Named(b) = Partial
           /\ Partial # {} /\ Others # {}
<1>1. PICK d \in Named(a) : d \notin Named(b)
  BY DEF Nested
<1>2. PICK e \in Named(b) : e \notin Named(a)
  BY DEF Nested
<1>3. d \in Dims /\ e \in Dims /\ Named(a) \subseteq Dims /\ Named(b) \subseteq Dims
  BY RowReaches
<1>4. CASE d \in Partial
  <2>1. Partial \subseteq Named(a) /\ e \in Others /\ Others \subseteq Named(b)
    BY <1>2, <1>3, <1>4, NarrowNames DEF Dims
  <2>2. Others \cap Named(a) = {} /\ Partial \cap Named(b) = {}
    BY <1>1, <1>2, <1>4, <2>1 DEF Narrow
  <2> QED
    BY <1>3, <1>4, <2>1, <2>2 DEF Dims
<1>5. CASE d \in Others
  <2>1. Others \subseteq Named(a) /\ e \in Partial /\ Partial \subseteq Named(b)
    BY <1>2, <1>3, <1>5, NarrowNames DEF Dims
  <2>2. Partial \cap Named(a) = {} /\ Others \cap Named(b) = {}
    BY <1>1, <1>2, <1>5, <2>1 DEF Narrow
  <2> QED
    BY <1>3, <1>5, <2>1, <2>2 DEF Dims
<1> QED
  BY <1>3, <1>4, <1>5 DEF Dims

\* What `_spread` writes out: a label of the dim in `partial`, along a base row
\* that names a label of the other one only.
LEMMA CrossIs ==
    ASSUME Narrow, NEW t, t.at \in Row, NEW j, j.at \in Row, Crosses(t, j)
    PROVE  /\ Named(t.at) = Partial /\ Named(j.at) = Others /\ Partial # {} /\ Others # {}
           /\ Met(t.at, j.at) \in Row /\ Named(Met(t.at, j.at)) = Dims
           /\ Reaches(t.at, Met(t.at, j.at)) /\ Reaches(j.at, Met(t.at, j.at))
<1>1. ~ (Named(j.at) \subseteq Named(t.at)) /\ ~ (Named(t.at) \subseteq Named(j.at)) /\ Meet(t.at, j.at)
  BY DEF Crosses
<1>2. /\ \/ Named(t.at) = Partial /\ Named(j.at) = Others
         \/ Named(t.at) = Others /\ Named(j.at) = Partial
      /\ Partial # {} /\ Others # {}
  BY <1>1, NarrowCross DEF Nested
<1>3. Named(t.at) = Partial /\ Named(j.at) = Others
  BY <1>2, DimsAssumption DEF Crosses
<1> QED
  BY <1>1, <1>2, <1>3, MetRow DEF Dims

LEMMA CrossedBy ==
    ASSUME Narrow, NEW t, t.at \in Row, NEW j, j.at \in Row, Meet(t.at, j.at),
           NEW d \in Named(j.at) \ Named(t.at), d \in Others,
           NEW e \in Named(t.at) \ Named(j.at), e \in Partial
    PROVE  Crosses(t, j)
  BY DEF Crosses

-----------------------------------------------------------------------------
(* What the staged rows are: the calls' own, spread from one of them, or   *)
(* carried from the base.                                                  *)

\* A row of a call that no later call covers.
AskedIn(k, r) == r \in calls[k] /\ \A j \in k + 1 .. Len(calls) : \A s \in calls[j] : ~ Reaches(s, r)

Staged(k, r) == [at |-> r, source |-> BaseDepth + k, row |-> r]

AsAsked(t) == \E k \in 1 .. Len(calls) : AskedIn(k, t.row) /\ t = Staged(k, t.row)

SpreadOut(t) ==
    \E k \in 1 .. Len(calls) :
        /\ AskedIn(k, t.row) /\ t.source = BaseDepth + k
        /\ Reaches(t.row, t.at)
        /\ Named(t.row) = Partial /\ Partial # {} /\ Others # {} /\ Named(t.at) = Dims
        /\ t.at \notin Asked

\* The most named of the base rows reaching a place.
Best(j, at) ==
    /\ j \in BaseRows /\ Reaches(j.at, at)
    /\ \A i \in BaseRows : Reaches(i.at, at) => Cardinality(Named(i.at)) <= Cardinality(Named(j.at))

Carried(t) ==
    /\ Partial \subseteq Named(t.at)
    /\ \A d \in Others : Held(node.axes, d) # {} => t.at[d] # Null
    /\ \E j : Best(j, t.at) /\ t.source = j.layer /\ t.row = j.row
    /\ \A r \in Asked : ~ Reaches(r, t.at)

AsksStaged == \A k \in 1 .. Len(calls) : \A r : AskedIn(k, r) => Staged(k, r) \in table

Origins == \A t \in table : AsAsked(t) \/ SpreadOut(t) \/ Carried(t)

\* Nothing staged is left to spread.
CrossingsSpread == \A t \in table, j \in BaseRows : Crosses(t, j) => Met(t.at, j.at) \in Placed(table)

\* The extent of a key the layer takes over whole: what the base reads there.
Extent(t, x) ==
    /\ x \in [Dims -> AllLabels] /\ Key(x) = Key(t.at)
    /\ \A d \in Others : x[d] \in Held(node.axes, d)
    /\ \E j \in BaseRows : Reaches(j.at, x)

ExtentsCarried ==
    \A t \in table : Partial \subseteq Named(t.at) => \A x : Extent(t, x) => \E s \in table : Reaches(s.at, x)

OthersAsRead == \A d \in Others : axis[d] = NoFile

WInv == IInv /\ OthersAsRead /\ AsksStaged /\ Origins /\ CrossingsSpread /\ ExtentsCarried

LEMMA AskedIs ==
    ASSUME IInv
    PROVE  /\ \A r : r \in Asked <=> \E k \in 1 .. Len(calls) : AskedIn(k, r)
           /\ Asked \subseteq Row
<1>1. \A r : r \in Asked <=> \E k \in 1 .. Len(calls) : AskedIn(k, r)
  BY DEF Asked, AskedIn
<1>2. \A k \in 1 .. Len(calls) : calls[k] \subseteq Row
  BY Lengths
<1> QED
  BY <1>1, <1>2 DEF AskedIn

\* A row is asked for by one call: of two, the later one covers the other's.
LEMMA AskedOnce ==
    ASSUME IInv, NEW k \in 1 .. Len(calls), NEW l \in 1 .. Len(calls), NEW r, AskedIn(k, r), AskedIn(l, r)
    PROVE  k = l
<1>1. Len(calls) \in Nat
  BY Lengths
<1>2. Reaches(r, r)
  BY ReachesSelf
<1>3. ~ (k < l) /\ ~ (l < k)
  BY <1>1, <1>2 DEF AskedIn
<1> QED
  BY <1>1, <1>3

\* What a call leaves of the rows asked for.
LEMMA AskedAfter ==
    ASSUME IInv, NEW rows \in CallRows, SetRows(rows), NEW n \in Nat, n = Len(calls) + 1
    PROVE  /\ Len(calls') = n
           /\ \A k \in 1 .. Len(calls) : \A r :
                AskedIn(k, r)' <=> AskedIn(k, r) /\ \A s \in rows : ~ Reaches(s, r)
           /\ \A r : AskedIn(n, r)' <=> r \in rows
           /\ \A r \in Asked' : r \in rows \/ r \in Asked
<1>1. calls' = Append(calls, rows) /\ calls \in Seq(CallRows) /\ Len(calls) \in Nat
  BY Lengths DEF SetRows, IInv
<1>2. /\ Len(calls') = n
      /\ \A k \in 1 .. Len(calls) : calls'[k] = calls[k]
      /\ calls'[n] = rows
  BY <1>1
<1>3. ASSUME NEW k \in 1 .. Len(calls), NEW r
      PROVE  AskedIn(k, r)' <=> AskedIn(k, r) /\ \A s \in rows : ~ Reaches(s, r)
  <2>1. ASSUME NEW j PROVE j \in k + 1 .. Len(calls') <=> j \in k + 1 .. Len(calls) \/ j = n
    BY <1>1, <1>2
  <2>2. \A j \in k + 1 .. Len(calls) : j \in 1 .. Len(calls)
    BY <1>1
  <2> QED
    BY <1>2, <2>1, <2>2 DEF AskedIn
<1>4. ASSUME NEW r PROVE AskedIn(n, r)' <=> r \in rows
  <2>1. \A j : j \notin n + 1 .. Len(calls')
    BY <1>1, <1>2
  <2> QED
    BY <1>2, <2>1 DEF AskedIn
<1>5. \A r \in Asked' : \E k \in 1 .. Len(calls') : AskedIn(k, r)'
  BY DEF Asked, AskedIn
<1>6. \A k \in 1 .. Len(calls') : k \in 1 .. Len(calls) \/ k = n
  BY <1>1, <1>2
<1>7. ASSUME NEW r \in Asked' PROVE r \in rows \/ r \in Asked
  <2>1. PICK k \in 1 .. Len(calls') : AskedIn(k, r)'
    BY <1>5
  <2>2. CASE k \in 1 .. Len(calls)
    <3>1. AskedIn(k, r)
      BY <1>3, <2>1, <2>2
    <3> QED
      BY <2>2, <3>1, AskedIs
  <2>3. CASE k = n
    BY <1>4, <2>1, <2>3
  <2> QED
    BY <1>6, <2>2, <2>3
<1> QED
  BY <1>1, <1>2, <1>3, <1>4, <1>7

-----------------------------------------------------------------------------
(* What a call carries and spreads.                                        *)

LEMMA NamedCount ==
    ASSUME NEW a \in Row
    PROVE  /\ IsFiniteSet(Named(a)) /\ Cardinality(Named(a)) \in Nat
           /\ Cardinality(Dims) \in Nat /\ Cardinality(Named(a)) <= Cardinality(Dims)
<1>1. IsFiniteSet(Dims) /\ Named(a) \subseteq Dims
  BY DimsAssumption, RowReaches DEF Dims
<1>2. IsFiniteSet(Named(a)) /\ Cardinality(Named(a)) <= Cardinality(Dims)
  BY <1>1, FS_Subset
<1> QED
  BY <1>1, <1>2, FS_CardinalityType

LEMMA BestExists ==
    ASSUME IInv, NEW x, NEW b \in BaseRows, Reaches(b.at, x)
    PROVE  \E j : Best(j, x)
<1> DEFINE S == {Cardinality(Named(j.at)) : j \in {i \in BaseRows : Reaches(i.at, x)}}
<1>1. OfBase
  BY DEF IInv
<1>2. \A j \in BaseRows : j.at \in Row
  BY <1>1, BaseRow
<1>3. S \in SUBSET Nat /\ \A k \in S : k <= Cardinality(Dims)
  BY <1>2, NamedCount
<1>4. Cardinality(Named(b.at)) \in S /\ Cardinality(Dims) \in Nat
  BY <1>2, NamedCount
<1>5. PICK m \in S : \A k \in S : k <= m
  <2> HIDE DEF S
  <2> QED
    BY <1>3, <1>4, Greatest
<1>6. PICK j \in BaseRows : Reaches(j.at, x) /\ m = Cardinality(Named(j.at))
  OBVIOUS
<1>7. Best(j, x)
  BY <1>5, <1>6 DEF Best
<1> QED
  BY <1>7

\* With nothing edited outside `partial`, a base row is taken to any place it
\* reaches whose key is carried and whose other labels are held.
LEMMA TakesAt ==
    ASSUME IInv, OthersAsRead, NEW staged, NEW k \in Carrying(staged), NEW at \in Row,
           \A d \in Partial : at[d] = k[d],
           \A d \in Others : at[d] \in Held(node.axes, d) \/ (Held(node.axes, d) = {} /\ at[d] = Null),
           NEW j \in BaseRows, Reaches(j.at, at)
    PROVE  \E x : Takes(j, k, x, staged) /\ Put(j, k, x).at = at
<1>1. j.at \in Row
  BY BaseRow DEF IInv
<1>2. \A d \in Others : HeldNow(d) = Held(node.axes, d)
  BY HeldTyped DEF OthersAsRead, Dims
<1>3. PICK x : x = [d \in Others |-> at[d]]
  OBVIOUS
<1>4. x \in [Others -> AllLabels \cup {Null}]
  BY <1>3 DEF Row, Dims
<1>5. \A d \in Others : x[d] = at[d] /\ (j.at[d] # Null => x[d] = j.at[d])
  BY <1>1, <1>3, RowReaches DEF Dims
<1>6. x \in Extents(j.at)
  BY <1>2, <1>4, <1>5 DEF Extents
<1>7. \A d \in Named(j.at) \cap Partial : k[d] = j.at[d]
  BY <1>1, RowReaches
<1>8. Put(j, k, x).at = at
  BY <1>3, DimsAssumption DEF Put, Row, Dims
<1> QED
  BY <1>6, <1>7, <1>8 DEF Takes

LEMMA CarryingIs ==
    ASSUME IInv, Narrow, NEW staged, \A t \in staged : t.at \in Row
    PROVE  \A k : k \in Carrying(staged) <=>
                    \E t \in staged : k = Key(t.at) /\ Partial \subseteq Named(t.at)
<1>1. \A d \in Partial : node.axes[d] # NoFile
  BY DEF IInv, OfBase, Narrow
<1>2. \A t \in staged : (\A d \in Partial : Key(t.at)[d] # Null) <=> Partial \subseteq Named(t.at)
  BY KeyOf, RowReaches DEF Dims
<1> QED
  BY <1>1, <1>2 DEF Carrying

\* A row carried, and why.
LEMMA CarriedIs ==
    ASSUME IInv, Narrow, OthersAsRead, NEW staged, \A t \in staged : t.at \in Row,
           NEW y \in Uncovered(Reaching(staged), staged)
    PROVE  /\ y.at \in Row /\ Partial \subseteq Named(y.at)
           /\ \A d \in Others : Held(node.axes, d) # {} => y.at[d] # Null
           /\ \E j : Best(j, y.at) /\ y.source = j.layer /\ y.row = j.row
           /\ \A t \in staged : ~ Reaches(t.at, y.at)
           /\ \E t \in staged : Key(t.at) = Key(y.at)
<1>1. y \in Reaching(staged) /\ \A t \in staged : ~ Reaches(t.at, y.at)
  BY DEF Uncovered
<1>2. PICK j \in BaseRows : \E k, x :
        /\ Takes(j, k, x, staged) /\ y = Put(j, k, x)
        /\ \A i \in BaseRows : \A l, e :
             Takes(i, l, e, staged) /\ Put(i, l, e).at = y.at => Cardinality(Named(i.at)) <= Cardinality(Named(j.at))
  BY <1>1, ReachingIs
<1>3. PICK k, x :
        /\ Takes(j, k, x, staged) /\ y = Put(j, k, x)
        /\ \A i \in BaseRows : \A l, e :
             Takes(i, l, e, staged) /\ Put(i, l, e).at = y.at => Cardinality(Named(i.at)) <= Cardinality(Named(j.at))
  BY <1>2
<1>4. TakenAt(y.at, j, k)
  BY <1>3, TakenPlace DEF IInv
<1>5. k \in Carrying(staged)
  BY <1>3 DEF Takes
<1>6. PICK t \in staged : k = Key(t.at) /\ Partial \subseteq Named(t.at)
  BY <1>5, CarryingIs
<1>7. y.at \in Row /\ Reaches(j.at, y.at) /\ \A d \in Partial : y.at[d] = k[d]
  BY <1>4 DEF TakenAt
<1>8. \A d \in Partial : y.at[d] = t.at[d]
  BY <1>6, <1>7, KeyOf
<1>9. Partial \subseteq Named(y.at) /\ Key(t.at) = Key(y.at)
  BY <1>6, <1>7, <1>8, RowReaches DEF Key, Dims
<1>10. \A d \in Others : HeldNow(d) = Held(node.axes, d) /\ Null \notin Held(node.axes, d)
  BY HeldTyped DEF OthersAsRead, Dims
<1>11. \A d \in Others : j.at[d] # Null => j.at[d] \in Held(node.axes, d)
  BY BaseRow DEF IInv, Dims
<1>12. ASSUME NEW d \in Others
       PROVE  y.at[d] \in Held(node.axes, d) \/ (Held(node.axes, d) = {} /\ y.at[d] = Null)
  <2>1. \/ j.at[d] # Null /\ y.at[d] = j.at[d]
        \/ j.at[d] = Null /\ HeldNow(d) # {} /\ y.at[d] \in HeldNow(d)
        \/ j.at[d] = Null /\ HeldNow(d) = {} /\ y.at[d] = Null
    BY <1>4 DEF TakenAt
  <2>2. HeldNow(d) = Held(node.axes, d) /\ (j.at[d] # Null => j.at[d] \in Held(node.axes, d))
    BY <1>10, <1>11
  <2> QED
    BY <2>1, <2>2
<1>13. ASSUME NEW i \in BaseRows, Reaches(i.at, y.at)
       PROVE  Cardinality(Named(i.at)) <= Cardinality(Named(j.at))
  BY <1>3, <1>5, <1>7, <1>12, <1>13, TakesAt
<1>14. Best(j, y.at)
  BY <1>7, <1>13 DEF Best
<1>15. y.source = j.layer /\ y.row = j.row
  BY <1>3 DEF Put
<1> QED
  BY <1>1, <1>6, <1>7, <1>9, <1>10, <1>12, <1>14, <1>15

\* The extent of every key a staged row names whole is staged.
LEMMA CarriedWhole ==
    ASSUME IInv, Narrow, OthersAsRead, NEW staged, \A t \in staged : t.at \in Row,
           NEW t \in staged, Partial \subseteq Named(t.at), NEW x, Extent(t, x),
           \A s \in staged : ~ Reaches(s.at, x)
    PROVE  \E s \in Uncovered(Reaching(staged), staged) : Reaches(s.at, x)
<1>1. x \in Row /\ Key(x) = Key(t.at) /\ \A d \in Others : x[d] \in Held(node.axes, d)
  BY DEF Extent, Row
<1>2. PICK k : k = Key(t.at) /\ k \in Carrying(staged)
  BY CarryingIs
<1>3. \A d \in Partial : x[d] = k[d]
  BY <1>1, <1>2, KeyOf
<1>4. PICK j : Best(j, x)
  BY BestExists DEF Extent
<1>5. j \in BaseRows /\ Reaches(j.at, x)
  BY <1>4 DEF Best
<1>6. PICK e : Takes(j, k, e, staged) /\ Put(j, k, e).at = x
  <2>1. \A d \in Others : x[d] \in Held(node.axes, d) \/ (Held(node.axes, d) = {} /\ x[d] = Null)
    BY <1>1
  <2> QED
    BY <1>1, <1>2, <1>3, <1>5, <2>1, TakesAt
<1>7. ASSUME NEW i \in BaseRows, NEW l, NEW f, Takes(i, l, f, staged), Put(i, l, f).at = x
      PROVE  Cardinality(Named(i.at)) <= Cardinality(Named(j.at))
  <2>1. PICK y : y = Put(i, l, f)
    OBVIOUS
  <2>2. TakenAt(y.at, i, l)
    BY <1>7, <2>1, TakenPlace DEF IInv
  <2> QED
    BY <1>4, <1>7, <2>1, <2>2 DEF TakenAt, Best
<1>8. Put(j, k, e) \in Reaching(staged)
  BY <1>5, <1>6, <1>7, ReachingIs
<1>9. Put(j, k, e) \in Uncovered(Reaching(staged), staged)
  BY <1>6, <1>8 DEF Uncovered
<1> QED
  BY <1>6, <1>9, ReachesSelf

-----------------------------------------------------------------------------
(* A call keeps what is known of the staged rows.                          *)

LEMMA ReplacedIs ==
    ASSUME IInv, NEW rows \in CallRows, NEW n \in Nat, n = Len(calls) + 1
    PROVE  /\ \A t : t \in Replaced(rows) <=>
                \/ t \in table /\ \A s \in rows : ~ Reaches(s, t.at)
                \/ \E r \in rows : t = Staged(n, r)
           /\ \A t \in Replaced(rows) : t.at \in Row
<1>1. BaseDepth + Len(calls) + 1 = BaseDepth + n
  BY Lengths
<1>2. \A t : t \in Replaced(rows) <=>
        \/ t \in table /\ \A s \in rows : ~ Reaches(s, t.at)
        \/ \E r \in rows : t = Staged(n, r)
  BY <1>1 DEF Replaced, Uncovering, Staged
<1>3. (\A t \in table : t.at \in Row) /\ rows \subseteq Row
  BY CallsAssumption DEF IInv, TypeOK
<1>4. \A r \in rows : Staged(n, r).at = r
  BY DEF Staged
<1> QED
  BY <1>2, <1>3, <1>4

LEMMA SetLeaves ==
    ASSUME NEW rows, SetRows(rows)
    PROVE  /\ UNCHANGED <<base, node, axis>> /\ BaseRows' = BaseRows /\ BaseDepth' = BaseDepth
           /\ table' = Complete(Replaced(rows))
           /\ \A k, r : Staged(k, r)' = Staged(k, r)
           /\ \A j, at : Best(j, at)' <=> Best(j, at)
           /\ \A t, x : Extent(t, x)' <=> Extent(t, x)
<1>1. UNCHANGED <<base, node, axis>> /\ table' = Complete(Replaced(rows))
  BY DEF SetRows
<1>2. BaseRows' = BaseRows /\ BaseDepth' = BaseDepth
  BY <1>1 DEF BaseRows, BaseDepth
<1> QED
  BY <1>1, <1>2 DEF Staged, Best, Extent

\* The rows still asked for are among those a call leaves.
LEMMA AsksReplaced ==
    ASSUME IInv, AsksStaged, NEW rows \in CallRows, SetRows(rows)
    PROVE  /\ AsksStaged'
           /\ \A r \in Asked' : \E t \in Replaced(rows) : t.at = r
<1>1. PICK n \in Nat : n = Len(calls) + 1
  BY Lengths
<1>2. /\ Len(calls') = n
      /\ \A k \in 1 .. Len(calls) : \A r : AskedIn(k, r)' <=> AskedIn(k, r) /\ \A s \in rows : ~ Reaches(s, r)
      /\ \A r : AskedIn(n, r)' <=> r \in rows
  BY <1>1, AskedAfter
<1>3. \A k, r : Staged(k, r)' = Staged(k, r) /\ Staged(k, r).at = r
  BY SetLeaves DEF Staged
<1>4. ASSUME NEW k \in 1 .. Len(calls'), NEW r, AskedIn(k, r)' PROVE Staged(k, r) \in Replaced(rows)
  <2>1. k \in 1 .. Len(calls) \/ k = n
    BY <1>1, <1>2, Lengths
  <2>2. CASE k \in 1 .. Len(calls)
    <3>1. AskedIn(k, r) /\ \A s \in rows : ~ Reaches(s, r)
      BY <1>2, <1>4, <2>2
    <3>2. Staged(k, r) \in table
      BY <2>2, <3>1 DEF AsksStaged
    <3> QED
      BY <1>1, <1>3, <3>1, <3>2, ReplacedIs
  <2>3. CASE k = n
    BY <1>1, <1>2, <1>4, <2>3, ReplacedIs
  <2> QED
    BY <2>1, <2>2, <2>3
<1>5. Replaced(rows) \subseteq table'
  BY SetLeaves DEF Complete
<1>6. AsksStaged'
  BY <1>3, <1>4, <1>5 DEF AsksStaged
<1>7. \A r \in Asked' : \E k \in 1 .. Len(calls') : AskedIn(k, r)'
  BY DEF Asked, AskedIn
<1> QED
  BY <1>3, <1>4, <1>6, <1>7

\* What a call leaves keeps its origin; its own rows are as asked.
LEMMA ReplacedOrigins ==
    ASSUME IInv, Origins, NEW rows \in CallRows, SetRows(rows), NEW t \in Replaced(rows)
    PROVE  AsAsked(t)' \/ SpreadOut(t)' \/ Carried(t)'
<1>1. PICK n \in Nat : n = Len(calls) + 1
  BY Lengths
<1>2. /\ Len(calls') = n
      /\ \A k \in 1 .. Len(calls) : \A r : AskedIn(k, r)' <=> AskedIn(k, r) /\ \A s \in rows : ~ Reaches(s, r)
      /\ \A r : AskedIn(n, r)' <=> r \in rows
      /\ \A r \in Asked' : r \in rows \/ r \in Asked
  BY <1>1, AskedAfter
<1>3. \A k \in 1 .. Len(calls) : k \in 1 .. Len(calls')
  BY <1>1, <1>2, Lengths
<1>4. \A k, r : Staged(k, r)' = Staged(k, r) /\ Staged(k, r).at = r /\ Staged(k, r).row = r
  BY SetLeaves DEF Staged
<1>5. UNCHANGED <<base, node, axis>> /\ BaseDepth' = BaseDepth /\ \A j, at : Best(j, at)' <=> Best(j, at)
  BY SetLeaves
<1>6. rows \subseteq Row /\ \A r : Reaches(r, r)
  BY CallsAssumption, ReachesSelf
<1>7. ASSUME NEW r \in rows, t = Staged(n, r) PROVE AsAsked(t)'
  <2>1. n \in 1 .. Len(calls')
    BY <1>1, <1>2, Lengths
  <2>2. t.row = r /\ AskedIn(n, r)'
    BY <1>2, <1>4, <1>7
  <2> QED
    BY <1>4, <1>7, <2>1, <2>2 DEF AsAsked
<1>8. ASSUME t \in table, \A s \in rows : ~ Reaches(s, t.at)
      PROVE  AsAsked(t)' \/ SpreadOut(t)' \/ Carried(t)'
  <2>1. t.row \in Row /\ t.at \in Row
    BY <1>8 DEF IInv, TypeOK
  <2>2. t.at \notin rows
    BY <1>6, <1>8
  <2>3. CASE AsAsked(t)
    <3>1. PICK k \in 1 .. Len(calls) : AskedIn(k, t.row) /\ t = Staged(k, t.row)
      BY <2>3 DEF AsAsked
    <3>2. t.at = t.row
      BY <1>4, <3>1
    <3>3. AskedIn(k, t.row)'
      BY <1>2, <1>8, <3>1, <3>2
    <3> QED
      BY <1>3, <1>4, <3>1, <3>3 DEF AsAsked
  <2>4. CASE SpreadOut(t)
    <3>1. PICK k \in 1 .. Len(calls) :
            /\ AskedIn(k, t.row) /\ t.source = BaseDepth + k
            /\ Reaches(t.row, t.at)
            /\ Named(t.row) = Partial /\ Partial # {} /\ Others # {} /\ Named(t.at) = Dims
            /\ t.at \notin Asked
      BY <2>4 DEF SpreadOut
    <3>2. \A s \in rows : ~ Reaches(s, t.row)
      BY <1>6, <1>8, <2>1, <3>1, ReachesOn
    <3>3. AskedIn(k, t.row)'
      BY <1>2, <3>1, <3>2
    <3>4. t.at \notin Asked'
      BY <1>2, <2>2, <3>1
    <3> QED
      BY <1>3, <1>5, <3>1, <3>3, <3>4 DEF SpreadOut
  <2>5. CASE Carried(t)
    <3>1. \A r \in Asked' : ~ Reaches(r, t.at)
      BY <1>2, <1>8, <2>5 DEF Carried
    <3> QED
      BY <1>5, <2>5, <3>1 DEF Carried
  <2> QED
    BY <1>8, <2>3, <2>4, <2>5 DEF Origins
<1> QED
  BY <1>1, <1>7, <1>8, ReplacedIs

LEMMA CompleteIs ==
    ASSUME NEW staged, NEW carried, carried = staged \cup Uncovered(Reaching(staged), staged)
    PROVE  /\ staged \subseteq Complete(staged)
           /\ \A t \in Complete(staged) : t \in carried \/ t \in Spread(carried)
           /\ Others # {} /\ BaseRows # {} => Complete(staged) = carried \cup Spread(carried)
<1>1. BaseRows # {} => node.map # {}
  BY DEF BaseRows, Resolved, Living, MostSpecific
<1> QED
  BY <1>1 DEF Complete

LEMMA CarriedOrigins ==
    ASSUME IInv, Narrow, OthersAsRead, AsksStaged, Origins, NEW rows \in CallRows, SetRows(rows),
           NEW t \in Replaced(rows) \cup Uncovered(Reaching(Replaced(rows)), Replaced(rows))
    PROVE  /\ AsAsked(t)' \/ SpreadOut(t)' \/ Carried(t)'
           /\ t.at \in Row
           /\ \E s \in Replaced(rows) : Key(s.at) = Key(t.at)
<1>1. \A s \in Replaced(rows) : s.at \in Row
  BY Lengths, ReplacedIs
<1>2. CASE t \in Replaced(rows)
  BY <1>1, <1>2, ReplacedOrigins
<1>3. CASE t \in Uncovered(Reaching(Replaced(rows)), Replaced(rows))
  <2>1. /\ t.at \in Row /\ Partial \subseteq Named(t.at)
        /\ \A d \in Others : Held(node.axes, d) # {} => t.at[d] # Null
        /\ \E j : Best(j, t.at) /\ t.source = j.layer /\ t.row = j.row
        /\ \A s \in Replaced(rows) : ~ Reaches(s.at, t.at)
        /\ \E s \in Replaced(rows) : Key(s.at) = Key(t.at)
    BY <1>1, <1>3, CarriedIs
  <2>2. \A r \in Asked' : ~ Reaches(r, t.at)
    BY <2>1, AsksReplaced
  <2>3. UNCHANGED <<base, node, axis>> /\ \A j, at : Best(j, at)' <=> Best(j, at)
    BY SetLeaves
  <2>4. Carried(t)'
    BY <2>1, <2>2, <2>3 DEF Carried
  <2> QED
    BY <2>1, <2>4
<1> QED
  BY <1>2, <1>3

LEMMA SpreadOrigins ==
    ASSUME IInv, Narrow, OthersAsRead, AsksStaged, Origins, NEW rows \in CallRows, SetRows(rows), IInv',
           NEW carried, carried = Replaced(rows) \cup Uncovered(Reaching(Replaced(rows)), Replaced(rows)),
           NEW w \in Spread(carried)
    PROVE  /\ SpreadOut(w)'
           /\ \E t \in carried : Key(w.at) = Key(t.at)
<1>1. w.at \notin Placed(carried) /\ \E t \in carried, j \in BaseRows : Crosses(t, j) /\ w = SpreadAt(t, j)
  BY SpreadIs
<1>2. PICK t \in carried, j \in BaseRows : Crosses(t, j) /\ w = SpreadAt(t, j)
  BY <1>1
<1>3. t.at \in Row /\ (AsAsked(t)' \/ SpreadOut(t)' \/ Carried(t)')
  BY CarriedOrigins
<1>4. j.at \in Row /\ BaseRows' = BaseRows /\ BaseDepth' = BaseDepth
  BY BaseRow, SetLeaves DEF IInv
<1>5. /\ Named(t.at) = Partial /\ Named(j.at) = Others /\ Partial # {} /\ Others # {}
      /\ Met(t.at, j.at) \in Row /\ Named(Met(t.at, j.at)) = Dims
      /\ Reaches(t.at, Met(t.at, j.at))
  BY <1>2, <1>3, <1>4, CrossIs
<1>6. ~ SpreadOut(t)' /\ ~ Carried(t)'
  <2>1. ~ SpreadOut(t)'
    BY <1>5, DimsAssumption DEF SpreadOut, Dims
  <2>2. PICK d \in Others : TRUE
    BY <1>5
  <2>3. j.at[d] \in Held(node.axes, d) /\ t.at[d] = Null
    <3>1. d \in Dims /\ d \notin Named(t.at) /\ d \in Named(j.at)
      BY <1>5, DimsAssumption DEF Dims
    <3> QED
      BY <1>3, <1>4, <3>1, BaseRow, RowReaches DEF IInv
  <2>4. node' = node
    BY SetLeaves
  <2> QED
    BY <2>1, <2>3, <2>4 DEF Carried
<1>7. PICK k \in 1 .. Len(calls') : AskedIn(k, t.row)' /\ t = Staged(k, t.row)'
  BY <1>3, <1>6 DEF AsAsked
<1>8. t = [at |-> t.row, source |-> BaseDepth + k, row |-> t.row]
  BY <1>4, <1>7 DEF Staged
<1>9. w.at = Met(t.at, j.at) /\ w.row = t.row /\ w.source = BaseDepth + k /\ t.at = t.row
  <2>1. w = [t EXCEPT !.at = Met(t.at, j.at)]
    BY <1>2 DEF SpreadAt
  <2> QED
    BY <1>8, <2>1
<1>10. w.at \notin Asked'
  <2>1. \A r \in Asked' : \E s \in Replaced(rows) : s.at = r
    BY AsksReplaced
  <2> QED
    BY <1>1, <2>1 DEF Placed
<1>11. SpreadOut(w)'
  BY <1>4, <1>5, <1>7, <1>9, <1>10 DEF SpreadOut
<1>12. Key(w.at) = Key(t.at)
  <2>1. \A d \in Partial : w.at[d] = t.at[d]
    BY <1>3, <1>5, <1>9, RowReaches DEF Dims
  <2> QED
    BY <2>1 DEF Key
<1> QED
  BY <1>11, <1>12

LEMMA SetKeeps ==
    ASSUME WInv, Narrow, NEW rows \in CallRows, SetRows(rows)
    PROVE  WInv'
<1> DEFINE staged == Replaced(rows)
           carried == staged \cup Uncovered(Reaching(staged), staged)
<1>1. IInv /\ OthersAsRead /\ AsksStaged /\ Origins /\ CrossingsSpread /\ ExtentsCarried
  BY DEF WInv
<1>2. IInv' /\ AsksStaged'
  BY <1>1, SetTyped, AsksReplaced
<1>3. /\ UNCHANGED <<base, node, axis>> /\ BaseRows' = BaseRows
      /\ table' = Complete(staged)
      /\ \A t, x : Extent(t, x)' <=> Extent(t, x)
  BY SetLeaves
<1>4. \A s \in staged : s.at \in Row
  BY <1>1, Lengths, ReplacedIs
<1>5. /\ staged \subseteq Complete(staged)
      /\ \A t \in Complete(staged) : t \in carried \/ t \in Spread(carried)
      /\ Others # {} /\ BaseRows # {} => Complete(staged) = carried \cup Spread(carried)
  <2> HIDE DEF staged
  <2> QED
    BY CompleteIs
<1>6. \A t \in carried :
        /\ AsAsked(t)' \/ SpreadOut(t)' \/ Carried(t)'
        /\ t.at \in Row
        /\ \E s \in staged : Key(s.at) = Key(t.at)
  BY <1>1, CarriedOrigins
<1>7. \A w \in Spread(carried) : SpreadOut(w)' /\ \E t \in carried : Key(w.at) = Key(t.at)
  <2> SUFFICES ASSUME NEW w \in Spread(carried)
               PROVE  SpreadOut(w)' /\ \E t \in carried : Key(w.at) = Key(t.at)
    OBVIOUS
  <2> HIDE DEF carried
  <2>1. carried = Replaced(rows) \cup Uncovered(Reaching(Replaced(rows)), Replaced(rows))
    BY DEF carried
  <2> QED
    BY <1>1, <1>2, <2>1, SpreadOrigins
<1>8. \A j \in BaseRows : j.at \in Row
  BY <1>1, BaseRow DEF IInv
<1> HIDE DEF carried, staged
<1>9. Origins'
  BY <1>3, <1>5, <1>6, <1>7 DEF Origins
<1>10. CrossingsSpread'
  <2> SUFFICES ASSUME NEW t \in table', NEW j \in BaseRows, Crosses(t, j)
               PROVE  Met(t.at, j.at) \in Placed(table')
    BY <1>3 DEF CrossingsSpread, Placed
  <2>1. t.at \in Row
    BY <1>2 DEF IInv, TypeOK
  <2>2. Named(t.at) = Partial /\ Named(j.at) = Others /\ Partial # {} /\ Others # {}
    BY <1>8, <2>1, CrossIs
  <2>3. t \in carried
    <3>1. ~ SpreadOut(t)'
      BY <2>2, DimsAssumption DEF SpreadOut, Dims
    <3> QED
      BY <1>3, <1>5, <1>7, <3>1
  <2>4. table' = carried \cup Spread(carried)
    BY <1>3, <1>5, <2>2
  <2>5. SpreadAt(t, j).at = Met(t.at, j.at)
    <3>1. t \in [at : Row, source : 1 .. (BaseDepth' + Len(calls')), row : Row]
      BY <1>2 DEF IInv, TypeOK
    <3> QED
      BY <3>1 DEF SpreadAt
  <2>6. CASE Met(t.at, j.at) \in Placed(carried)
    BY <2>4, <2>6 DEF Placed
  <2>7. CASE Met(t.at, j.at) \notin Placed(carried)
    <3>1. ASSUME NEW u \in carried, NEW i \in BaseRows, Crosses(u, i)
          PROVE  Cardinality(Named(u.at) \cap Partial) <= Cardinality(Named(t.at) \cap Partial)
      <4>1. Named(u.at) = Partial
        BY <1>6, <1>8, <3>1, CrossIs
      <4>2. Cardinality(Named(t.at)) \in Nat
        BY <2>1, NamedCount
      <4> QED
        BY <2>2, <4>1, <4>2
    <3>2. SpreadAt(t, j) \in Spread(carried)
      BY <2>3, <2>5, <2>7, <3>1, SpreadIs
    <3> QED
      BY <2>4, <2>5, <3>2 DEF Placed
  <2> QED
    BY <2>6, <2>7
<1>11. ExtentsCarried'
  <2> SUFFICES ASSUME NEW t \in table', Partial \subseteq Named(t.at), NEW x, Extent(t, x)
               PROVE  \E s \in table' : Reaches(s.at, x)
    BY <1>3 DEF ExtentsCarried
  <2>1. PICK s \in staged : Key(s.at) = Key(t.at)
    BY <1>3, <1>5, <1>6, <1>7
  <2>2. s.at \in Row /\ t.at \in Row
    BY <1>2, <1>4 DEF IInv, TypeOK
  <2>3. Partial \subseteq Named(s.at)
    <3>1. \A d \in Partial : s.at[d] = t.at[d]
      BY <2>1, <2>2, KeyOf
    <3> QED
      BY <2>2, <3>1, RowReaches DEF Dims
  <2>4. Extent(s, x) /\ BaseRows # {} /\ x \in Row /\ Key(x) = Key(t.at)
    BY <2>1 DEF Extent, Row
  <2>5. CASE \E r \in staged : Reaches(r.at, x)
    BY <1>3, <1>5, <2>5
  <2>6. CASE Others # {} /\ ~ \E r \in staged : Reaches(r.at, x)
    <3>1. PICK r \in Uncovered(Reaching(staged), staged) : Reaches(r.at, x)
      BY <1>1, <1>4, <2>3, <2>4, <2>6, CarriedWhole
    <3>2. r \in carried
      BY <3>1 DEF carried
    <3> QED
      BY <1>3, <1>5, <2>4, <2>6, <3>1, <3>2
  <2>7. CASE Others = {}
    <3>1. \A d \in Dims : x[d] = t.at[d]
      BY <2>2, <2>4, <2>7, KeyOf DEF Dims
    <3> QED
      BY <2>2, <3>1, RowReaches
  <2> QED
    BY <2>5, <2>6, <2>7
<1>12. OthersAsRead'
  BY <1>1, <1>3 DEF OthersAsRead
<1> QED
  BY <1>2, <1>9, <1>10, <1>11, <1>12 DEF WInv

LEMMA WholeInductive == Narrow /\ WInv /\ [Next]_vars => WInv'
<1> SUFFICES ASSUME Narrow, WInv, [Next]_vars PROVE WInv'
  OBVIOUS
<1>1. IInv' /\ OthersAsRead
  BY Inductive DEF WInv
<1>2. ASSUME NEW rows \in CallRows, SetRows(rows) PROVE WInv'
  BY <1>2, SetKeeps
<1>3. ASSUME UNCHANGED <<base, node, table, calls>>, OthersAsRead' PROVE WInv'
  <2>1. BaseRows' = BaseRows /\ BaseDepth' = BaseDepth /\ Asked' = Asked
    BY <1>3 DEF BaseRows, BaseDepth, Asked
  <2>2. AsksStaged'
    BY <1>3, <2>1 DEF WInv, AsksStaged, AskedIn, Staged
  <2>3. \A t : (AsAsked(t)' <=> AsAsked(t)) /\ (SpreadOut(t)' <=> SpreadOut(t)) /\ (Carried(t)' <=> Carried(t))
    BY <1>3, <2>1 DEF AsAsked, SpreadOut, Carried, AskedIn, Staged, Best
  <2>4. Origins' /\ CrossingsSpread'
    BY <1>3, <2>1, <2>3 DEF WInv, Origins, CrossingsSpread
  <2>5. ExtentsCarried'
    BY <1>3, <2>1 DEF WInv, ExtentsCarried, Extent
  <2> QED
    BY <1>1, <1>3, <2>2, <2>4, <2>5 DEF WInv
<1>4. ASSUME NEW rows \in CallRows, SetRefused(rows) PROVE WInv'
  BY <1>1, <1>3, <1>4 DEF SetRefused, OthersAsRead
<1>5. ASSUME NEW d \in Dims, NEW label \in Labels[d], AddLabel(d, label) \/ RemoveLabel(d, label)
      PROVE  WInv'
  <2>1. PICK labels : axis' = [axis EXCEPT ![d] = labels] /\ UNCHANGED <<base, node, table, made, calls>>
    BY <1>5, AxisEdits DEF WInv
  <2>2. d \notin Others
    BY <1>5, DimsAssumption DEF AddLabel, RemoveLabel, Narrow
  <2>3. \A e \in Others : axis'[e] = axis[e]
    BY <2>1, <2>2 DEF WInv, IInv, Dims
  <2> QED
    BY <1>1, <1>3, <2>1, <2>3 DEF OthersAsRead
<1>6. CASE Rollback
  <2>1. axis' = NoAxes /\ table' = {} /\ calls' = << >> /\ Len(calls') = 0
    BY <1>6 DEF Rollback
  <2>2. \A d \in Others : axis'[d] = NoFile
    BY <2>1 DEF NoAxes, Dims
  <2> QED
    BY <1>1, <2>1, <2>2
       DEF WInv, OthersAsRead, AsksStaged, Origins, CrossingsSpread, ExtentsCarried
<1>7. CASE UNCHANGED vars
  BY <1>1, <1>3, <1>7 DEF vars, OthersAsRead
<1> QED
  BY <1>2, <1>4, <1>5, <1>6, <1>7 DEF Next

LEMMA WholeInitially == Init => WInv
<1> SUFFICES ASSUME Init PROVE WInv
  OBVIOUS
<1>1. IInv /\ table = {} /\ Len(calls) = 0
  BY Initially DEF Init
<1>2. OthersAsRead
  BY DEF Init, OthersAsRead, NoAxes, Dims
<1> QED
  BY <1>1, <1>2 DEF WInv, AsksStaged, Origins, CrossingsSpread, ExtentsCarried

LEMMA WholeInvariant == ASSUME Narrow PROVE Spec => []WInv
<1>1. Init => WInv
  BY WholeInitially
<1>2. WInv /\ [Next]_vars => WInv'
  BY WholeInductive
<1> QED
  BY <1>1, <1>2, PTL DEF Spec

-----------------------------------------------------------------------------
(* What the record reads: the staged layer folded onto the base.           *)

LEMMA CollapsedRow ==
    ASSUME IInv, NEW t \in Collapsed
    PROVE  /\ t \in table /\ t.at \in StagedRows
           /\ t.at \in Row /\ t.row \in Row
           /\ \A d \in Named(t.at) : t.at[d] \in HeldNow(d)
           /\ \A d \in Named(t.at) : axis[d] # NoFile => t.at[d] \in axis[d]
<1>1. /\ t \in table /\ t.at \in StagedRows
      /\ \A d \in Named(t.at) : axis[d] # NoFile => t.at[d] \in axis[d]
  BY DEF Collapsed, StagedRows, Placed
<1>2. t.at \in Row /\ t.row \in Row /\ HeldAt(t.at)
  BY <1>1 DEF IInv, TypeOK
<1>3. \A d \in Named(t.at) : t.at[d] \in HeldNow(d)
  BY <1>1, <1>2, RowReaches, HeldTyped DEF HeldAt
<1> QED
  BY <1>1, <1>2, <1>3

LEMMA StagedRow ==
    ASSUME IInv, NEW w \in StagedRows
    PROVE  /\ w \in Row /\ \E t \in Collapsed : t.at = w
           /\ \A d \in Named(w) : w[d] \in HeldNow(d)
           /\ \A d \in Named(w) : axis[d] # NoFile => w[d] \in axis[d]
<1>1. PICK t \in Collapsed : t.at = w
  BY DEF StagedRows, Placed
<1> QED
  BY <1>1, CollapsedRow

\* A staged row reaching a coordinate is in the layer.
LEMMA CoordinateCollapsed ==
    ASSUME IInv, NEW c \in Coordinates, NEW t \in table, Reaches(t.at, c)
    PROVE  t \in Collapsed /\ t.at \in StagedRows
<1>1. \A d \in Dims : c[d] \in HeldNow(d)
  BY DEF Coordinates
<1>2. t.at \in Row
  BY DEF IInv, TypeOK
<1>3. \A d \in Named(t.at) : d \in Dims /\ t.at[d] = c[d]
  BY <1>2, RowReaches
<1>4. \A d \in Named(t.at) : axis[d] # NoFile => t.at[d] \in axis[d]
  BY <1>1, <1>3, HeldTyped
<1>5. t \in Collapsed
  BY <1>4 DEF Collapsed
<1> QED
  BY <1>5 DEF StagedRows, Placed

\* The base rows the staged layer leaves.
LeftOfBase(j) ==
    /\ j \in BaseRows
    /\ \A w \in StagedRows : ~ Reaches(Key(w), Key(j.at))
    /\ \A d \in Partial : j.at[d] \notin Removed(node.axes, axis)[d]

LEMMA KeptReads ==
    ASSUME IInv, Narrow
    PROVE  /\ \A j : j \in Resolved(KeptBelow, base.rows, node.dead) <=> LeftOfBase(j)
           /\ KeptBelow \subseteq node.map /\ KeptBelow \subseteq MapRows(1 .. BaseDepth)
<1> DEFINE own == Own(BaseDepth + 1, StagedRows)
<1>1. OfBase /\ StagedRows \in SUBSET Row
  BY StagedRow DEF IInv
<1>2. /\ Plain(node.map, base.rows) /\ node.map \subseteq MapRows(1 .. BaseDepth)
  BY <1>1, BasePlain
<1>3. \A m : m \in KeptBelow <=>
        /\ m \in node.map
        /\ \A d \in Partial : m.key[d] \notin Removed(node.axes, axis)[d]
        /\ \A o \in own : ~ Reaches(o.key, m.key)
  BY DEF KeptBelow, Kept
<1>4. \A k : (\A o \in own : ~ Reaches(o.key, k)) <=> (\A w \in StagedRows : ~ Reaches(Key(w), k))
  <2>1. \A o \in own : \E w \in StagedRows : o.key = Key(w)
    BY <1>1, OwnRow
  <2>2. \A w \in StagedRows : \E o \in own : o.key = Key(w)
    BY <1>1, OwnOf
  <2> HIDE DEF own
  <2> QED
    BY <2>1, <2>2
<1> HIDE DEF own
<1>5. KeptBelow \subseteq node.map /\ Plain(KeptBelow, base.rows)
  BY <1>2, <1>3 DEF Plain
<1>6. \A j : j \in Resolved(KeptBelow, base.rows, node.dead) <=>
        \E m \in KeptBelow : \E r \in base.rows[m.layer] :
          Key(r) = m.key /\ (\A d \in Others : r[d] \notin node.dead[d]) /\ j = Where(m.layer, r)
  BY <1>5, ResolvedPlain
<1>7. \A j : j \in BaseRows <=>
        \E m \in node.map : \E r \in base.rows[m.layer] :
          Key(r) = m.key /\ (\A d \in Others : r[d] \notin node.dead[d]) /\ j = Where(m.layer, r)
  BY <1>1, BaseRowPlain
<1>8. \A m, r : Where(m, r).at = r
  BY DEF Where
<1>9. \A m \in node.map : \A r : Key(r) = m.key =>
        (m \in KeptBelow <=> /\ \A w \in StagedRows : ~ Reaches(Key(w), Key(r))
                             /\ \A d \in Partial : r[d] \notin Removed(node.axes, axis)[d])
  <2> SUFFICES ASSUME NEW m \in node.map, NEW r, Key(r) = m.key
               PROVE  m \in KeptBelow <=> /\ \A w \in StagedRows : ~ Reaches(Key(w), Key(r))
                                          /\ \A d \in Partial : r[d] \notin Removed(node.axes, axis)[d]
    OBVIOUS
  <2>1. \A d \in Partial : m.key[d] = r[d]
    BY DEF Key
  <2> QED
    BY <1>3, <1>4, <2>1
<1>10. \A j : j \in Resolved(KeptBelow, base.rows, node.dead) <=> LeftOfBase(j)
  <2> SUFFICES ASSUME NEW j PROVE j \in Resolved(KeptBelow, base.rows, node.dead) <=> LeftOfBase(j)
    OBVIOUS
  <2>1. ASSUME j \in Resolved(KeptBelow, base.rows, node.dead) PROVE LeftOfBase(j)
    <3>1. PICK m \in KeptBelow : \E r \in base.rows[m.layer] :
            Key(r) = m.key /\ (\A d \in Others : r[d] \notin node.dead[d]) /\ j = Where(m.layer, r)
      BY <1>6, <2>1
    <3>2. PICK r \in base.rows[m.layer] :
            Key(r) = m.key /\ (\A d \in Others : r[d] \notin node.dead[d]) /\ j = Where(m.layer, r)
      BY <3>1
    <3>3. j \in BaseRows /\ j.at = r
      BY <1>5, <1>7, <1>8, <3>2
    <3> QED
      BY <1>5, <1>9, <3>2, <3>3 DEF LeftOfBase
  <2>2. ASSUME LeftOfBase(j) PROVE j \in Resolved(KeptBelow, base.rows, node.dead)
    <3>1. PICK m \in node.map : \E r \in base.rows[m.layer] :
            Key(r) = m.key /\ (\A d \in Others : r[d] \notin node.dead[d]) /\ j = Where(m.layer, r)
      BY <1>7, <2>2 DEF LeftOfBase
    <3>2. PICK r \in base.rows[m.layer] :
            Key(r) = m.key /\ (\A d \in Others : r[d] \notin node.dead[d]) /\ j = Where(m.layer, r)
      BY <3>1
    <3>3. j.at = r
      BY <1>8, <3>2
    <3>4. m \in KeptBelow
      BY <1>9, <2>2, <3>2, <3>3 DEF LeftOfBase
    <3> QED
      BY <1>6, <3>2, <3>4
  <2> QED
    BY <2>1, <2>2
<1> QED
  BY <1>2, <1>5, <1>10

LEMMA StagedReads ==
    ASSUME IInv, OthersAsRead, Narrow
    PROVE  \A j : j \in Resolved(StagedNode.map, Layers, StagedNode.dead) <=>
                    LeftOfBase(j) \/ \E w \in StagedRows : j = Where(BaseDepth + 1, w)
<1> DEFINE own == Own(BaseDepth + 1, Layers[BaseDepth + 1])
           removed == Removed(node.axes, axis)
<1>1. OfBase /\ StagedRows \in SUBSET Row /\ BaseDepth \in Nat /\ base.rows \in Seq(SUBSET Row)
  BY StagedRow, Lengths, BasesAssumption DEF IInv, OfBase
<1>2. Layers[BaseDepth + 1] = StagedRows /\ \A k \in 1 .. BaseDepth : Layers[k] = base.rows[k]
  BY <1>1 DEF Layers, BaseDepth
<1>3. /\ Plain(node.map, base.rows) /\ UniqueKeys(node.map) /\ node.map \in SUBSET MapRows(1 .. BaseDepth)
  BY <1>1, BasePlain
<1>4. \A m \in node.map : m.layer \in 1 .. BaseDepth
  BY <1>3 DEF MapRows
<1>5. Plain(node.map, Layers)
  BY <1>2, <1>3, <1>4 DEF Plain
<1>6. /\ FoldAttributes(node.map, own, removed) = Kept(node.map, own, removed) \cup own
      /\ Plain(Kept(node.map, own, removed) \cup own, Layers)
  <2> HIDE DEF removed, own
  <2>1. PICK n \in Nat : n = BaseDepth
    BY <1>1
  <2>2. PICK rows : rows = Layers
    OBVIOUS
  <2>3. rows[n + 1] \in SUBSET Row /\ own = Own(n + 1, rows[n + 1])
    BY <1>1, <1>2, <2>1, <2>2 DEF own
  <2>4. node.map \in SUBSET MapRows(1 .. n) /\ Plain(node.map, rows) /\ UniqueKeys(node.map)
    BY <1>3, <1>5, <2>1, <2>2
  <2> DEFINE o == Own(n + 1, rows[n + 1])
  <2>5. /\ FoldAttributes(node.map, o, removed) = Kept(node.map, o, removed) \cup o
        /\ Plain(Kept(node.map, o, removed) \cup o, rows)
        /\ UniqueKeys(Kept(node.map, o, removed) \cup o)
    BY <2>3, <2>4, PlainStep
  <2> QED
    BY <2>2, <2>3, <2>5
<1>7. KeptBelow = Kept(node.map, own, removed) /\ StagedNode.map = FoldAttributes(node.map, own, removed)
  BY <1>2 DEF KeptBelow, StagedNode, FoldOnto
<1> HIDE DEF own, removed
<1>8. StagedNode.map = KeptBelow \cup own /\ Plain(StagedNode.map, Layers)
  BY <1>6, <1>7
<1>9. \A d \in Others : StagedNode.dead[d] = node.dead[d]
  <2> SUFFICES ASSUME NEW d \in Others PROVE StagedNode.dead[d] = node.dead[d]
    OBVIOUS
  <2>1. d \in Dims /\ d \in Mortal /\ axis[d] = NoFile
    BY DimsAssumption DEF Mortal, Dims, OthersAsRead
  <2> QED
    BY <2>1 DEF StagedNode, FoldOnto, FoldDead
<1>10. \A w \in StagedRows : \A d \in Others : w[d] \notin node.dead[d]
  <2> SUFFICES ASSUME NEW w \in StagedRows, NEW d \in Others PROVE w[d] \notin node.dead[d]
    OBVIOUS
  <2>1. d \in Dims /\ axis[d] = NoFile
    BY DEF Dims, OthersAsRead
  <2>2. node.dead[d] \subseteq Labels[d] \ Held(node.axes, d)
    BY <1>1, <2>1, BaseFolded DEF OfBase, Folded
  <2>3. w[d] # Null => w[d] \in Held(node.axes, d)
    <3>1. w \in Row /\ \A e \in Named(w) : w[e] \in HeldNow(e)
      BY StagedRow
    <3> QED
      BY <2>1, <3>1, RowReaches, HeldTyped
  <2> QED
    BY <2>1, <2>2, <2>3, HeldTyped
<1>11. \A j : j \in Resolved(StagedNode.map, Layers, StagedNode.dead) <=>
         \E m \in StagedNode.map : \E r \in Layers[m.layer] :
           Key(r) = m.key /\ (\A d \in Others : r[d] \notin StagedNode.dead[d]) /\ j = Where(m.layer, r)
  BY <1>8, ResolvedPlain
<1>12. \A m \in own : m.layer = BaseDepth + 1
  <2>1. \A m \in own : m \in MapRows({BaseDepth + 1})
    BY <1>1, <1>2, OwnRow DEF own
  <2> QED
    BY <2>1 DEF MapRows
<1>13. \A w \in StagedRows : \E m \in own : m.key = Key(w)
  BY <1>1, <1>2, OwnOf DEF own
<1>14. Plain(KeptBelow, base.rows) /\ \A m \in KeptBelow : m \in node.map
  BY <1>3, KeptReads DEF Plain
<1>15. \A j : LeftOfBase(j) <=>
         \E m \in KeptBelow : \E r \in base.rows[m.layer] :
           Key(r) = m.key /\ (\A d \in Others : r[d] \notin node.dead[d]) /\ j = Where(m.layer, r)
  <2>1. \A j : j \in Resolved(KeptBelow, base.rows, node.dead) <=>
          \E m \in KeptBelow : \E r \in base.rows[m.layer] :
            Key(r) = m.key /\ (\A d \in Others : r[d] \notin node.dead[d]) /\ j = Where(m.layer, r)
    BY <1>14, ResolvedPlain
  <2> QED
    BY <2>1, KeptReads
<1>16. ASSUME NEW j, j \in Resolved(StagedNode.map, Layers, StagedNode.dead)
       PROVE  LeftOfBase(j) \/ \E w \in StagedRows : j = Where(BaseDepth + 1, w)
  <2>1. PICK m \in StagedNode.map : \E r \in Layers[m.layer] :
          Key(r) = m.key /\ (\A d \in Others : r[d] \notin StagedNode.dead[d]) /\ j = Where(m.layer, r)
    BY <1>11, <1>16
  <2>2. PICK r \in Layers[m.layer] :
          Key(r) = m.key /\ (\A d \in Others : r[d] \notin StagedNode.dead[d]) /\ j = Where(m.layer, r)
    BY <2>1
  <2>3. CASE m \in KeptBelow
    <3>1. Layers[m.layer] = base.rows[m.layer] /\ \A d \in Others : r[d] \notin node.dead[d]
      BY <1>2, <1>4, <1>9, <1>14, <2>2, <2>3
    <3> QED
      BY <1>15, <2>2, <2>3, <3>1
  <2>4. CASE m \in own
    BY <1>2, <1>12, <2>2, <2>4
  <2> QED
    BY <1>8, <2>3, <2>4
<1>17. ASSUME NEW j, LeftOfBase(j) PROVE j \in Resolved(StagedNode.map, Layers, StagedNode.dead)
  <2>1. PICK m \in KeptBelow : \E r \in base.rows[m.layer] :
          Key(r) = m.key /\ (\A d \in Others : r[d] \notin node.dead[d]) /\ j = Where(m.layer, r)
    BY <1>15, <1>17
  <2>2. m \in StagedNode.map /\ Layers[m.layer] = base.rows[m.layer]
    BY <1>2, <1>4, <1>8, <1>14
  <2> QED
    BY <1>9, <1>11, <2>1, <2>2
<1>18. ASSUME NEW w \in StagedRows
       PROVE  Where(BaseDepth + 1, w) \in Resolved(StagedNode.map, Layers, StagedNode.dead)
  <2>1. PICK m \in own : m.key = Key(w)
    BY <1>13
  <2>2. m \in StagedNode.map /\ m.layer = BaseDepth + 1 /\ w \in Layers[m.layer]
    BY <1>2, <1>8, <1>12
  <2>3. \A d \in Others : w[d] \notin StagedNode.dead[d]
    BY <1>9, <1>10
  <2> QED
    BY <1>11, <2>1, <2>2, <2>3
<1> QED
  BY <1>16, <1>17, <1>18

\* What is read at a coordinate where one staged row settles: the rows staged there.
LEMMA ReadStaged ==
    ASSUME IInv, OthersAsRead, Narrow, NEW c, NEW w \in StagedRows, Reaches(w, c),
           \A v \in StagedRows : Reaches(v, c) => Named(v) \subseteq Named(w),
           \A j : LeftOfBase(j) /\ Reaches(j.at, c) => Named(j.at) \subseteq Named(w)
    PROVE  Read(c) = {{<<t.source, t.row>> : t \in {s \in Collapsed : s.at = w}}}
<1> DEFINE all == Resolved(StagedNode.map, Layers, StagedNode.dead)
           f == Where(BaseDepth + 1, w)
<1>1. \A j : j \in all <=> LeftOfBase(j) \/ \E v \in StagedRows : j = Where(BaseDepth + 1, v)
  BY StagedReads
<1>2. \A n, v : Where(n, v).at = v /\ Where(n, v).layer = n /\ Where(n, v).row = v
  BY DEF Where
<1> HIDE DEF all
<1>3. f \in all /\ f.at = w /\ f.layer = BaseDepth + 1 /\ f.row = w
  BY <1>1, <1>2
<1> HIDE DEF f
<1>4. \A k \in all : Reaches(k.at, c) => Named(k.at) \subseteq Named(w)
  BY <1>1, <1>2
<1>5. f \in Settled(all, c)
  BY <1>3, <1>4 DEF Settled
<1>6. ASSUME NEW j \in Settled(all, c) PROVE j = f
  <2>1. j \in all /\ Reaches(j.at, c) /\ Named(w) \subseteq Named(j.at)
    BY <1>3, <1>6 DEF Settled
  <2>2. w \in Row
    BY StagedRow
  <2>3. CASE LeftOfBase(j)
    <3>1. j.at \in Row
      BY <2>3, BaseRow DEF LeftOfBase, IInv
    <3>2. w = j.at
      BY <1>4, <2>1, <2>2, <3>1, SameRow
    <3> QED
      BY <2>3, <3>2, ReachesSelf DEF LeftOfBase
  <2>4. ASSUME NEW v \in StagedRows, j = Where(BaseDepth + 1, v) PROVE j = f
    <3>1. v \in Row /\ j.at = v
      BY <1>2, <2>4, StagedRow
    <3>2. v = w
      BY <1>4, <2>1, <2>2, <3>1, SameRow
    <3> QED
      BY <2>4, <3>2 DEF f
  <2> QED
    BY <1>1, <2>1, <2>3, <2>4
<1>7. Settled(all, c) = {f}
  BY <1>5, <1>6
<1>8. Values(all, c) = {<<BaseDepth + 1, w>>}
  BY <1>3, <1>7 DEF Values
<1>9. ~ (BaseDepth + 1 <= BaseDepth)
  BY Lengths
<1> QED
  BY <1>8, <1>9 DEF Read, all

-----------------------------------------------------------------------------
(* The last row set at a coordinate is what is read there.                 *)

\* Of the rows asked for that reach a coordinate, one of the last call to reach it
\* names the most.
LEMMA LastRow ==
    ASSUME IInv, Ordered(Asked), NEW c, SetAt(c) # {}
    PROVE  \E k \in 1 .. Len(calls) : \E r :
             /\ AskedIn(k, r) /\ Reaches(r, c)
             /\ \A s \in Asked : Reaches(s, c) => Named(s) \subseteq Named(r)
             /\ LastSet(c) = {{<<BaseDepth + k, r>>}}
<1>1. Len(calls) \in Nat /\ \A k \in 1 .. Len(calls) : calls[k] \subseteq Row
  BY Lengths
<1>2. SetAt(c) \subseteq 1 .. Len(calls) /\ \A k : k \in SetAt(c) <=> k \in 1 .. Len(calls) /\ \E r \in calls[k] : Reaches(r, c)
  BY DEF SetAt
<1>3. PICK last \in SetAt(c) : \A j \in SetAt(c) : j <= last
  <2>1. SetAt(c) \in SUBSET Nat /\ \A j \in SetAt(c) : j <= Len(calls)
    BY <1>1, <1>2
  <2> QED
    BY <1>1, <2>1, Greatest
<1>4. last \in 1 .. Len(calls)
  BY <1>2
<1> DEFINE here == {r \in calls[last] : Reaches(r, c)}
<1>5. here # {} /\ here \subseteq Row
  BY <1>1, <1>2, <1>4
<1>6. ASSUME NEW r \in here PROVE AskedIn(last, r) /\ r \in Asked
  <2>1. ASSUME NEW j \in last + 1 .. Len(calls), NEW s \in calls[j], Reaches(s, r) PROVE FALSE
    <3>1. j \in 1 .. Len(calls) /\ ~ (j <= last)
      BY <1>1, <1>4
    <3>2. Reaches(s, c)
      BY <1>1, <1>5, <2>1, <3>1, ReachesOn
    <3> QED
      BY <1>2, <1>3, <2>1, <3>1, <3>2
  <2>2. AskedIn(last, r)
    BY <2>1 DEF AskedIn
  <2> QED
    BY <1>4, <2>2, AskedIs
<1>7. ASSUME NEW r \in here, NEW s \in Asked, Reaches(s, c)
      PROVE  \E q \in here : Named(r) \cup Named(s) \subseteq Named(q)
  <2>1. r \in Row /\ s \in Row /\ Reaches(r, c) /\ r \in Asked
    BY <1>5, <1>6, AskedIs
  <2>2. ASSUME NEW q \in Asked, Reaches(q, c), Named(r) \subseteq Named(q) PROVE q \in here
    <3>1. PICK k \in 1 .. Len(calls) : AskedIn(k, q)
      BY <2>2, AskedIs
    <3>2. q \in calls[k] /\ k \in SetAt(c)
      BY <1>2, <2>2, <3>1 DEF AskedIn
    <3>3. Reaches(r, q)
      BY <1>1, <2>1, <2>2, <3>1, <3>2, ReachesNested
    <3>4. ~ (k < last)
      BY <1>1, <1>4, <3>1, <3>3 DEF AskedIn
    <3>5. k = last
      BY <1>1, <1>3, <1>4, <3>2, <3>4
    <3> QED
      BY <2>2, <3>2, <3>5
  <2>3. CASE Named(s) \subseteq Named(r)
    BY <2>3
  <2>4. CASE Named(r) \subseteq Named(s)
    BY <1>7, <2>2, <2>4
  <2>5. CASE ~ Nested(r, s)
    <3>1. Meet(r, s)
      BY <1>7, <2>1, RowReaches DEF Meet
    <3>2. PICK q \in Asked : Named(q) = Named(r) \cup Named(s) /\ Reaches(q, Met(r, s))
      BY <2>1, <2>5, <3>1 DEF Ordered, Unsettled
    <3>3. Reaches(Met(r, s), c) /\ Met(r, s) \in Row
      BY <1>7, <2>1, <3>1, MetRow
    <3>4. Reaches(q, c)
      BY <3>2, <3>3, AskedIs, ReachesOn
    <3> QED
      BY <2>2, <3>2, <3>4
  <2> QED
    BY <2>3, <2>4, <2>5 DEF Nested
<1>8. PICK r \in here : \A q \in here : Cardinality(Named(q)) <= Cardinality(Named(r))
  <2> DEFINE S == {Cardinality(Named(q)) : q \in here}
  <2>1. \A q \in here : Cardinality(Named(q)) \in Nat /\ Cardinality(Named(q)) <= Cardinality(Dims)
    BY <1>5, NamedCount
  <2>2. S # {} /\ S \in SUBSET Nat /\ \A k \in S : k <= Cardinality(Dims)
    BY <1>5, <2>1
  <2>3. Cardinality(Dims) \in Nat
    BY <1>5, NamedCount
  <2>4. PICK m \in S : \A k \in S : k <= m
    <3> HIDE DEF S
    <3> QED
      BY <2>2, <2>3, Greatest
  <2> QED
    BY <2>4
<1>9. ASSUME NEW s \in Asked, Reaches(s, c) PROVE Named(s) \subseteq Named(r)
  <2>1. PICK q \in here : Named(r) \cup Named(s) \subseteq Named(q)
    BY <1>7, <1>9
  <2>2. IsFiniteSet(Named(q)) /\ Cardinality(Named(q)) \in Nat /\ Cardinality(Named(r)) \in Nat
    BY <1>5, NamedCount
  <2>3. Cardinality(Named(q)) <= Cardinality(Named(r)) /\ Named(r) \subseteq Named(q)
    BY <1>8, <2>1
  <2>4. Cardinality(Named(r)) <= Cardinality(Named(q)) /\ (Cardinality(Named(r)) = Cardinality(Named(q)) => Named(r) = Named(q))
    BY <2>2, <2>3, FS_Subset
  <2> QED
    BY <2>1, <2>2, <2>3, <2>4
<1>10. LastSet(c) = {{<<BaseDepth + last, r>>}}
  <2>1. (CHOOSE k \in SetAt(c) : \A j \in SetAt(c) : j <= k) = last
    <3>1. \A k \in SetAt(c) : k \in Nat
      BY <1>1, <1>2
    <3>2. \A k \in SetAt(c) : (\A j \in SetAt(c) : j <= k) => k = last
      BY <1>3, <3>1
    <3> QED
      BY <1>3, <3>2
  <2>2. LastSet(c) = {{<<BaseDepth + last, s>>} : s \in {x \in here : \A y \in here : Named(y) \subseteq Named(x)}}
    BY <2>1 DEF LastSet
  <2>3. {x \in here : \A y \in here : Named(y) \subseteq Named(x)} = {r}
    <3>1. \A y \in here : Named(y) \subseteq Named(r)
      BY <1>6, <1>9
    <3>2. ASSUME NEW x \in here, \A y \in here : Named(y) \subseteq Named(x) PROVE x = r
      <4>1. Named(x) = Named(r) /\ x \in Row /\ r \in Row
        BY <1>5, <3>1, <3>2
      <4> QED
        BY <4>1, SameRow
    <3> QED
      BY <3>1, <3>2
  <2> QED
    BY <2>2, <2>3
<1> QED
  BY <1>4, <1>6, <1>9, <1>10

\* A coordinate names every dim, with labels the base holds outside `partial`.
LEMMA CoordinateIs ==
    ASSUME IInv, NEW c \in Coordinates
    PROVE  /\ c \in Row /\ Named(c) = Dims /\ \A d \in Dims : c[d] \in HeldNow(d)
           /\ OthersAsRead => \A d \in Others : c[d] \in Held(node.axes, d)
<1>1. c \in [Dims -> AllLabels] /\ \A d \in Dims : c[d] \in HeldNow(d)
  BY DEF Coordinates
<1>2. c \in Row /\ \A d \in Dims : c[d] # Null
  BY <1>1, HeldTyped DEF Row
<1>3. Named(c) = Dims
  BY <1>2 DEF Named, Row
<1>4. ASSUME OthersAsRead, NEW d \in Others PROVE c[d] \in Held(node.axes, d)
  <2>1. d \in Dims /\ axis[d] = NoFile
    BY <1>4 DEF Dims, OthersAsRead
  <2> QED
    BY <1>1, <2>1, HeldTyped
<1> QED
  BY <1>1, <1>2, <1>3, <1>4

\* A row carried to a coordinate is at it.
LEMMA CarriedAt ==
    ASSUME IInv, OthersAsRead, NEW c \in Coordinates, NEW t, t.at \in Row, Carried(t), Reaches(t.at, c)
    PROVE  t.at = c
<1>1. c \in Row /\ \A d \in Others : c[d] \in Held(node.axes, d)
  BY CoordinateIs
<1>2. \A d \in Others : t.at[d] # Null
  BY <1>1 DEF Carried
<1>3. Dims \subseteq Named(t.at)
  BY <1>2, RowReaches DEF Carried, Dims
<1> QED
  BY <1>1, <1>3, WholeRow

\* What is staged at a coordinate some call reaches.
LEMMA StagedAt ==
    ASSUME WInv, Narrow, NEW c \in Coordinates, NEW k \in 1 .. Len(calls), NEW r, AskedIn(k, r), Reaches(r, c),
           \A s \in Asked : Reaches(s, c) => Named(s) \subseteq Named(r),
           NEW t \in Collapsed, Reaches(t.at, c)
    PROVE  \/ Named(t.at) \subseteq Named(r) /\ t.at = t.row /\ (t.at = r => t.source = BaseDepth + k)
           \/ t.at = c /\ t.at \notin Asked /\ t.row = r /\ t.source = BaseDepth + k
<1>1. IInv /\ OthersAsRead /\ Origins
  BY DEF WInv
<1>2. t \in table /\ t.at \in Row /\ t.row \in Row
  BY <1>1, CollapsedRow
<1>3. c \in Row /\ Named(c) = Dims
  BY <1>1, CoordinateIs
<1>4. r \in Asked /\ r \in Row
  BY <1>1, AskedIs
<1>5. CASE AsAsked(t)
  <2>1. PICK l \in 1 .. Len(calls) : AskedIn(l, t.row) /\ t = Staged(l, t.row)
    BY <1>5 DEF AsAsked
  <2>2. t.at = t.row /\ t.source = BaseDepth + l
    BY <2>1 DEF Staged
  <2>3. Named(t.at) \subseteq Named(r)
    BY <1>1, <2>1, <2>2, AskedIs
  <2>4. t.at = r => l = k
    BY <1>1, <2>1, <2>2, AskedOnce
  <2> QED
    BY <2>2, <2>3, <2>4
<1>6. CASE SpreadOut(t)
  <2>1. PICK l \in 1 .. Len(calls) :
          /\ AskedIn(l, t.row) /\ t.source = BaseDepth + l
          /\ Reaches(t.row, t.at)
          /\ Named(t.row) = Partial /\ Partial # {} /\ Others # {} /\ Named(t.at) = Dims
          /\ t.at \notin Asked
    BY <1>6 DEF SpreadOut
  <2>2. t.at = c /\ Reaches(t.row, c)
    BY <1>2, <1>3, <2>1, WholeRow
  <2>3. Partial \subseteq Named(r)
    BY <1>1, <2>1, <2>2, AskedIs
  <2>4. r # c
    BY <1>4, <2>1, <2>2
  <2>5. ~ (Dims \subseteq Named(r))
    BY <1>3, <1>4, <2>4, WholeRow
  <2>6. Named(r) \cap Others = {}
    BY <1>4, <2>3, <2>5, NarrowNames DEF Dims
  <2>7. Named(r) = Partial
    BY <1>4, <2>3, <2>6, RowReaches DEF Dims
  <2>8. t.row = r
    BY <1>2, <1>4, <2>1, <2>2, <2>7, SameRow
  <2>9. l = k
    BY <1>1, <2>1, <2>8, AskedOnce
  <2> QED
    BY <2>1, <2>2, <2>8, <2>9
<1>7. CASE Carried(t)
  BY <1>1, <1>2, <1>4, <1>7, CarriedAt DEF Carried
<1> QED
  BY <1>1, <1>2, <1>5, <1>6, <1>7 DEF Origins

\* A row asked for that a base row crosses at a coordinate is spread to it.
LEMMA CrossedAt ==
    ASSUME WInv, Narrow, NEW c \in Coordinates, NEW k \in 1 .. Len(calls), NEW r, AskedIn(k, r), Reaches(r, c),
           NEW j, LeftOfBase(j), Reaches(j.at, c), ~ (Named(j.at) \subseteq Named(r))
    PROVE  c \in StagedRows
<1>1. IInv /\ AsksStaged /\ CrossingsSpread
  BY DEF WInv
<1>2. r \in Row /\ c \in Row
  BY <1>1, AskedIs, CoordinateIs
<1>3. j \in BaseRows /\ j.at \in Row
  BY <1>1, BaseRow DEF LeftOfBase, IInv
<1> DEFINE t == Staged(k, r)
<1>4. t \in table /\ t.at = r
  BY <1>1 DEF AsksStaged, Staged
<1> HIDE DEF t
<1>5. r \in StagedRows
  BY <1>1, <1>4, CoordinateCollapsed
<1>6. PICK e \in Partial : r[e] # Null /\ j.at[e] # r[e]
  <2>1. ~ Reaches(Key(r), Key(j.at))
    BY <1>5 DEF LeftOfBase
  <2>2. \A d \in Partial : Key(j.at)[d] = j.at[d]
    BY <1>3, KeyOf
  <2>3. ~ \A d \in Partial : r[d] = Null \/ Key(j.at)[d] = r[d]
    BY <1>2, <2>1, KeyOf
  <2> QED
    BY <2>2, <2>3
<1>7. e \in Named(r) /\ e \notin Named(j.at)
  <2>1. e \in Dims
    BY DEF Dims
  <2> QED
    BY <1>2, <1>3, <1>6, <2>1, RowReaches
<1>8. PICK d \in Named(j.at) : d \notin Named(r)
  OBVIOUS
<1>9. d \in Others
  <2>1. d \in Dims
    BY <1>3, <1>8, RowReaches
  <2> QED
    BY <1>2, <1>7, <1>8, <2>1, NarrowNames DEF Dims
<1>10. Meet(r, j.at)
  BY <1>2, <1>3, RowReaches DEF Meet
<1>11. Crosses(t, j)
  BY <1>2, <1>3, <1>4, <1>7, <1>8, <1>9, <1>10, CrossedBy
<1>12. Met(r, j.at) \in Placed(table)
  BY <1>1, <1>3, <1>4, <1>11 DEF CrossingsSpread
<1>13. Met(r, j.at) \in Row /\ Named(Met(r, j.at)) = Dims
  BY <1>2, <1>3, <1>4, <1>11, CrossIs
<1>14. Reaches(Met(r, j.at), c)
  BY <1>2, <1>3, <1>10, MetRow
<1>15. Met(r, j.at) = c
  BY <1>2, <1>13, <1>14, WholeRow
<1>16. PICK s \in table : s.at = c
  BY <1>12, <1>15 DEF Placed
<1> QED
  BY <1>1, <1>16, CoordinateCollapsed, ReachesSelf

\* With one dim in `partial` and one outside it, a read returns what was last set,
\* over every base, whatever was carried and spread between the calls, and labels
\* removed and added again meanwhile.
THEOREM LastSetIsRead == ASSUME Narrow PROVE Spec => []LastSetWins
<1>1. ASSUME WInv, Ordered(Asked), NEW c \in Coordinates, SetAt(c) # {} PROVE Read(c) = LastSet(c)
  <2>1. IInv /\ OthersAsRead /\ AsksStaged
    BY <1>1 DEF WInv
  <2>2. c \in Row /\ Named(c) = Dims
    BY <2>1, CoordinateIs, <1>1
  <2>3. PICK k \in 1 .. Len(calls) : \E s :
          /\ AskedIn(k, s) /\ Reaches(s, c)
          /\ \A q \in Asked : Reaches(q, c) => Named(q) \subseteq Named(s)
          /\ LastSet(c) = {{<<BaseDepth + k, s>>}}
    BY <1>1, <2>1, LastRow
  <2>4. PICK r :
          /\ AskedIn(k, r) /\ Reaches(r, c)
          /\ \A q \in Asked : Reaches(q, c) => Named(q) \subseteq Named(r)
          /\ LastSet(c) = {{<<BaseDepth + k, r>>}}
    BY <2>3
  <2>5. r \in Asked /\ r \in Row
    BY <2>1, <2>4, AskedIs
  <2>6. \A t \in Collapsed : Reaches(t.at, c) =>
          \/ Named(t.at) \subseteq Named(r) /\ t.at = t.row /\ (t.at = r => t.source = BaseDepth + k)
          \/ t.at = c /\ t.at \notin Asked /\ t.row = r /\ t.source = BaseDepth + k
    BY <1>1, <2>4, StagedAt
  <2>7. \A j : LeftOfBase(j) /\ Reaches(j.at, c) /\ c \notin StagedRows => Named(j.at) \subseteq Named(r)
    BY <1>1, <2>4, CrossedAt
  <2>8. Staged(k, r) \in Collapsed /\ Staged(k, r).at = r /\ r \in StagedRows
    <3>1. Staged(k, r) \in table /\ Staged(k, r).at = r
      BY <2>1, <2>4 DEF AsksStaged, Staged
    <3>2. Staged(k, r) \in Collapsed /\ Staged(k, r).at \in StagedRows
      BY <1>1, <2>1, <2>4, <3>1, CoordinateCollapsed
    <3> QED
      BY <3>1, <3>2
  <2>9. CASE c \in StagedRows
    <3>1. \A v \in StagedRows : Named(v) \subseteq Named(c)
      BY <2>1, <2>2, StagedRow, RowReaches
    <3>2. \A j : LeftOfBase(j) => Named(j.at) \subseteq Named(c)
      BY <2>1, <2>2, BaseRow, RowReaches DEF LeftOfBase, IInv
    <3>3. Read(c) = {{<<t.source, t.row>> : t \in {s \in Collapsed : s.at = c}}}
      BY <2>1, <2>9, <3>1, <3>2, ReadStaged, ReachesSelf
    <3>4. ASSUME NEW t \in Collapsed, t.at = c PROVE t.source = BaseDepth + k /\ t.row = r
      <4>1. Reaches(t.at, c)
        BY <3>4, ReachesSelf
      <4>2. CASE Named(t.at) \subseteq Named(r) /\ t.at = t.row /\ (t.at = r => t.source = BaseDepth + k)
        <5>1. r = c
          BY <2>2, <2>4, <2>5, <3>4, <4>2, WholeRow
        <5> QED
          BY <3>4, <4>2, <5>1
      <4> QED
        BY <2>6, <4>1, <4>2
    <3>5. PICK t \in Collapsed : t.at = c
      BY <2>1, <2>9, StagedRow
    <3>6. {<<s.source, s.row>> : s \in {q \in Collapsed : q.at = c}} = {<<BaseDepth + k, r>>}
      BY <3>4, <3>5
    <3> QED
      BY <2>4, <3>3, <3>6
  <2>10. CASE c \notin StagedRows
    <3>1. ASSUME NEW t \in Collapsed, Reaches(t.at, c)
          PROVE  Named(t.at) \subseteq Named(r) /\ t.at = t.row /\ (t.at = r => t.source = BaseDepth + k)
      <4>1. t.at \in StagedRows
        BY <2>1, <3>1, CollapsedRow
      <4> QED
        BY <2>6, <2>10, <3>1, <4>1
    <3>2. ASSUME NEW v \in StagedRows, Reaches(v, c) PROVE Named(v) \subseteq Named(r)
      <4>1. PICK t \in Collapsed : t.at = v
        BY <2>1, StagedRow
      <4> QED
        BY <3>1, <3>2, <4>1
    <3>3. \A j : LeftOfBase(j) /\ Reaches(j.at, c) => Named(j.at) \subseteq Named(r)
      BY <2>7, <2>10
    <3>4. Read(c) = {{<<t.source, t.row>> : t \in {s \in Collapsed : s.at = r}}}
      BY <2>1, <2>4, <2>8, <3>2, <3>3, ReadStaged
    <3>5. \A t \in Collapsed : t.at = r => t.source = BaseDepth + k /\ t.row = r
      BY <2>4, <3>1
    <3>6. {<<s.source, s.row>> : s \in {q \in Collapsed : q.at = r}} = {<<BaseDepth + k, r>>}
      BY <2>8, <3>5
    <3> QED
      BY <2>4, <3>4, <3>6
  <2> QED
    BY <2>9, <2>10
<1>2. WInv => LastSetWins
  BY <1>1 DEF LastSetWins
<1> QED
  BY <1>2, WholeInvariant, PTL

-----------------------------------------------------------------------------
(* The staged layer is one the writer and the fold accept.                 *)

\* Two staged rows that are not nested were both asked for.
LEMMA StagedCross ==
    ASSUME WInv, Narrow, NEW a \in StagedRows, NEW b \in StagedRows, ~ Nested(a, b)
    PROVE  a \in Asked
<1>1. IInv /\ OthersAsRead /\ Origins
  BY DEF WInv
<1>2. a \in Row /\ b \in Row
  BY <1>1, StagedRow
<1>3. PICK t \in Collapsed : t.at = a
  BY <1>1, StagedRow
<1>4. t \in table
  BY <1>1, <1>3, CollapsedRow
<1>5. /\ \/ Named(a) = Partial /\ Named(b) = Others
         \/ Named(a) = Others /\ Named(b) = Partial
      /\ Partial # {} /\ Others # {}
  BY <1>2, NarrowCross
<1>6. ~ SpreadOut(t)
  BY <1>3, <1>5, DimsAssumption DEF SpreadOut, Dims
<1>7. ~ Carried(t)
  <2>1. CASE Named(a) = Others
    BY <1>3, <1>5, <2>1, DimsAssumption DEF Carried
  <2>2. CASE Named(a) = Partial /\ Named(b) = Others
    <3>1. PICK d \in Others : d \in Dims /\ d \in Named(b) /\ d \notin Named(a)
      BY <1>5, <2>2, DimsAssumption DEF Dims
    <3>2. b[d] \in HeldNow(d) /\ axis[d] = NoFile /\ a[d] = Null
      BY <1>1, <1>2, <3>1, StagedRow, RowReaches DEF OthersAsRead
    <3>3. Held(node.axes, d) # {}
      BY <1>1, <3>1, <3>2, HeldTyped
    <3> QED
      BY <1>3, <3>2, <3>3 DEF Carried
  <2> QED
    BY <1>5, <2>1, <2>2
<1>8. PICK k \in 1 .. Len(calls) : AskedIn(k, t.row) /\ t = Staged(k, t.row)
  BY <1>1, <1>4, <1>6, <1>7 DEF Origins, AsAsked
<1>9. t.at = t.row
  BY <1>8 DEF Staged
<1> QED
  BY <1>1, <1>3, <1>8, <1>9, AskedIs

\* Where the calls' own rows are ordered, so are the staged ones, whatever was
\* carried, spread and left by removals; and they name labels their axes hold.
THEOREM StagedOrdered == ASSUME Narrow PROVE Spec => []StagedLayersAccepted
<1>1. ASSUME WInv, Ordered(Asked), NEW a \in StagedRows, NEW b \in StagedRows, Unsettled(a, b, StagedRows)
      PROVE  FALSE
  <2>1. IInv /\ AsksStaged
    BY <1>1 DEF WInv
  <2>2. Meet(a, b) /\ ~ Nested(a, b) /\ ~ Nested(b, a)
    BY <1>1 DEF Unsettled, Nested
  <2>3. a \in Asked /\ b \in Asked
    BY <1>1, <2>2, StagedCross
  <2>4. PICK q \in Asked : Named(q) = Named(a) \cup Named(b) /\ Reaches(q, Met(a, b))
    BY <1>1, <2>2, <2>3 DEF Ordered, Unsettled
  <2>5. PICK k \in 1 .. Len(calls) : AskedIn(k, q)
    BY <2>1, AskedIs
  <2>6. Staged(k, q) \in table /\ Staged(k, q).at = q
    BY <2>1, <2>5 DEF AsksStaged, Staged
  <2>7. /\ a \in Row /\ b \in Row /\ q \in Row
        /\ \A d \in Named(a) : axis[d] # NoFile => a[d] \in axis[d]
        /\ \A d \in Named(b) : axis[d] # NoFile => b[d] \in axis[d]
    BY <1>1, <2>1, StagedRow, AskedIs
  <2>8. \A d \in Dims : Met(a, b)[d] = IF a[d] = Null THEN b[d] ELSE a[d]
    BY <2>7 DEF Met, Row
  <2>9. ASSUME NEW d \in Named(q), axis[d] # NoFile PROVE q[d] \in axis[d]
    <3>1. d \in Dims /\ q[d] # Null /\ q[d] = Met(a, b)[d]
      BY <2>4, <2>7, <2>9, RowReaches
    <3>2. CASE a[d] = Null
      <4>1. q[d] = b[d] /\ d \in Named(b)
        BY <2>7, <2>8, <3>1, <3>2, RowReaches
      <4> QED
        BY <2>7, <2>9, <4>1
    <3>3. CASE a[d] # Null
      <4>1. q[d] = a[d] /\ d \in Named(a)
        BY <2>7, <2>8, <3>1, <3>3, RowReaches
      <4> QED
        BY <2>7, <2>9, <4>1
    <3> QED
      BY <3>2, <3>3
  <2>10. Staged(k, q) \in Collapsed
    BY <2>6, <2>9 DEF Collapsed
  <2>11. q \in StagedRows
    BY <2>6, <2>10 DEF StagedRows, Placed
  <2> QED
    BY <1>1, <2>4, <2>11 DEF Unsettled
<1>2. WInv => (Ordered(Asked) => Ordered(StagedRows))
  BY <1>1 DEF Ordered
<1>3. IInv => AllHeld(StagedRows)
  BY StagedRow DEF AllHeld
<1>4. WInv => StagedLayersAccepted
  BY <1>2, <1>3 DEF WInv, StagedLayersAccepted
<1> QED
  BY <1>4, WholeInvariant, PTL

\* A staged row over a base row it does not take over, which names a label outside
\* `partial` where it names none: what the two meet at is staged.
LEMMA StagedMet ==
    ASSUME WInv, Narrow, NEW w \in StagedRows, NEW q \in BaseRows, Meet(w, q.at),
           ~ Reaches(Key(w), Key(q.at)), NEW d \in Others, d \in Named(q.at), d \notin Named(w)
    PROVE  /\ Met(w, q.at) \in StagedRows
           /\ Met(w, q.at) \in Row /\ Named(Met(w, q.at)) = Dims
           /\ Key(Met(w, q.at)) = Key(w)
<1>1. IInv /\ OthersAsRead /\ CrossingsSpread
  BY DEF WInv
<1>2. w \in Row /\ q.at \in Row
  BY <1>1, StagedRow, BaseRow DEF IInv
<1>3. PICK e \in Partial : w[e] # Null /\ q.at[e] # w[e]
  <2>1. \A i \in Partial : Key(q.at)[i] = q.at[i]
    BY <1>2, KeyOf
  <2>2. ~ \A i \in Partial : w[i] = Null \/ Key(q.at)[i] = w[i]
    BY <1>2, KeyOf
  <2> QED
    BY <2>1, <2>2
<1>4. e \in Dims /\ e \in Named(w)
  BY <1>2, <1>3, RowReaches DEF Dims
<1>5. e \notin Named(q.at)
  BY <1>3, <1>4 DEF Meet
<1>6. PICK t \in Collapsed : t.at = w
  BY <1>1, StagedRow
<1>7. t \in table /\ \A i \in Named(w) : axis[i] # NoFile => w[i] \in axis[i]
  BY <1>1, <1>6, CollapsedRow
<1>8. Crosses(t, q)
  BY <1>2, <1>4, <1>5, <1>6, CrossedBy
<1>9. /\ Met(w, q.at) \in Row /\ Named(Met(w, q.at)) = Dims /\ Named(w) = Partial
      /\ Reaches(w, Met(w, q.at))
  BY <1>2, <1>6, <1>8, CrossIs
<1>10. \A i \in Partial : Met(w, q.at)[i] = w[i] /\ i \in Named(w)
  BY <1>2, <1>9, RowReaches DEF Dims
<1>11. PICK s \in table : s.at = Met(w, q.at)
  BY <1>1, <1>6, <1>7, <1>8 DEF CrossingsSpread, Placed
<1>12. ASSUME NEW i \in Named(s.at), axis[i] # NoFile PROVE s.at[i] \in axis[i]
  <2>1. i \in Dims
    BY <1>9, <1>11
  <2>2. i \in Partial
    BY <1>1, <1>12, <2>1 DEF OthersAsRead, Dims
  <2> QED
    BY <1>7, <1>10, <1>11, <1>12, <2>2
<1>13. s \in Collapsed
  BY <1>12 DEF Collapsed
<1>14. Key(Met(w, q.at)) = Key(w)
  BY <1>10 DEF Key
<1> QED
  BY <1>9, <1>11, <1>13, <1>14 DEF StagedRows, Placed

\* The staged layer names every label that a base row it meets names outside
\* `partial`: what the fold is proved under holds of every staged layer.
THEOREM StagedFilled == ASSUME Narrow PROVE Spec => []StagedLayersFilled
<1>1. ASSUME WInv, NEW q \in Resolved(KeptBelow, base.rows, node.dead), NEW r \in StagedRows,
             Meet(q.at, r), (Named(q.at) \cap Others) \ Named(r) # {}
      PROVE  \E f \in StagedRows :
               Reaches(f, Met(r, q.at)) /\ Named(r) \cup (Named(q.at) \cap Others) \subseteq Named(f)
  <2>1. IInv
    BY <1>1 DEF WInv
  <2>2. q \in BaseRows /\ ~ Reaches(Key(r), Key(q.at))
    BY <2>1, KeptReads DEF LeftOfBase
  <2>3. PICK d \in Others : d \in Named(q.at) /\ d \notin Named(r)
    BY <1>1
  <2>4. Meet(r, q.at)
    BY <1>1 DEF Meet
  <2>5. Met(r, q.at) \in StagedRows /\ Named(Met(r, q.at)) = Dims
    BY <1>1, <2>2, <2>3, <2>4, StagedMet
  <2>6. Named(r) \subseteq Dims
    BY <2>1, StagedRow, RowReaches
  <2> QED
    BY <2>5, <2>6, ReachesSelf DEF Dims
<1>2. WInv => StagedLayersFilled
  BY <1>1 DEF StagedLayersFilled, FilledOver
<1> QED
  BY <1>2, WholeInvariant, PTL

-----------------------------------------------------------------------------
(* Bases of which no layer removes a label outside `partial`.              *)

\* Rows naming a removed label stay in the map (_living hides them from reads, not
\* from _refuse_unfilled); one added again would bring back what was not filled.
Lasting ==
    \A path \in Bases : \A k \in 1 .. Len(path.rows) : \A d \in Others :
        \/ path.files[k][d] = NoFile
        \/ Held(FoldPath([files |-> SubSeq(path.files, 1, k - 1), rows |-> SubSeq(path.rows, 1, k - 1)]).axes, d)
             \subseteq path.files[k][d]

\* A plain map owns a row; and of two it owns that cross, one where they meet.
Owns(map, rows, r) == \E m \in map : r \in rows[m.layer] /\ Key(r) = m.key

Settles(map, rows) ==
    \A a, b : Owns(map, rows, a) /\ Owns(map, rows, b) /\ Meet(a, b) /\ ~ Nested(a, b)
        => \E c : Owns(map, rows, c) /\ Named(c) = Named(a) \cup Named(b) /\ Reaches(c, Met(a, b))

LEMMA OwnsIs ==
    ASSUME NEW map, NEW rows, NEW dead, Plain(map, rows), \A d \in Others : dead[d] = {}
    PROVE  /\ \A j \in Resolved(map, rows, dead) : Owns(map, rows, j.at)
           /\ \A r : Owns(map, rows, r) => r \in Row /\ \E j \in Resolved(map, rows, dead) : j.at = r
<1>1. \A j : j \in Resolved(map, rows, dead) <=>
        \E m \in map : \E r \in rows[m.layer] :
          Key(r) = m.key /\ (\A d \in Others : r[d] \notin dead[d]) /\ j = Where(m.layer, r)
  BY ResolvedPlain
<1>2. \A n, r : Where(n, r).at = r
  BY DEF Where
<1>3. ASSUME NEW r, Owns(map, rows, r) PROVE r \in Row /\ \E j \in Resolved(map, rows, dead) : j.at = r
  <2>1. PICK m \in map : r \in rows[m.layer] /\ Key(r) = m.key
    BY <1>3 DEF Owns
  <2>2. r \in Row
    BY <2>1 DEF Plain
  <2>3. Where(m.layer, r) \in Resolved(map, rows, dead)
    BY <1>1, <2>1
  <2> QED
    BY <1>2, <2>2, <2>3
<1>4. \A j \in Resolved(map, rows, dead) : Owns(map, rows, j.at)
  BY <1>1, <1>2 DEF Owns
<1> QED
  BY <1>3, <1>4

\* A layer filled over what is kept crosses nothing of it.
LEMMA SettlesStep ==
    ASSUME Narrow, NEW n \in Nat, NEW rows, NEW map \in SUBSET MapRows(1 .. n), Plain(map, rows), UniqueKeys(map),
           NEW removed, NEW dead, \A d \in Others : dead[d] = {}, Settles(map, rows),
           rows[n + 1] \in SUBSET Row, Ordered(rows[n + 1]),
           NEW own, own = Own(n + 1, rows[n + 1]),
           NEW kept, kept = Kept(map, own, removed),
           FilledOver(Resolved(kept, rows, dead), rows[n + 1])
    PROVE  Settles(kept \cup own, rows)
<1>1. /\ kept \subseteq map
      /\ \A p \in kept : ~ \E o \in own : Reaches(o.key, p.key)
  BY DEF Kept
<1>2. \A o \in own : o.layer = n + 1
  <2>1. \A o \in own : o \in MapRows({n + 1})
    BY OwnRow
  <2> QED
    BY <2>1 DEF MapRows
<1>3. \A r \in rows[n + 1] : \E o \in own : o.key = Key(r)
  BY OwnOf
<1>4. Plain(kept, rows)
  BY <1>1 DEF Plain
<1>5. \A r : Owns(kept, rows, r) => r \in Row /\ \E j \in Resolved(kept, rows, dead) : j.at = r
  BY <1>4, OwnsIs
<1>6. \A r : Owns(kept \cup own, rows, r) <=> Owns(kept, rows, r) \/ r \in rows[n + 1]
  BY <1>2, <1>3 DEF Owns
<1>7. \A r : Owns(kept, rows, r) => Owns(map, rows, r) /\ \A s \in rows[n + 1] : ~ Reaches(Key(s), Key(r))
  BY <1>1, <1>3 DEF Owns
<1> DEFINE Third(a, b) == \E c : Owns(kept \cup own, rows, c) /\ Named(c) = Named(a) \cup Named(b) /\ Reaches(c, Met(a, b))
<1>8. ASSUME NEW a, NEW b, Owns(kept, rows, a), Owns(kept, rows, b), Meet(a, b), ~ Nested(a, b)
      PROVE  Third(a, b)
  <2>1. a \in Row /\ b \in Row /\ Owns(map, rows, a) /\ Owns(map, rows, b)
    BY <1>5, <1>7, <1>8
  <2>2. PICK c : Owns(map, rows, c) /\ Named(c) = Named(a) \cup Named(b) /\ Reaches(c, Met(a, b))
    BY <1>8, <2>1 DEF Settles
  <2>3. PICK m \in map : c \in rows[m.layer] /\ Key(c) = m.key
    BY <2>2 DEF Owns
  <2>4. c \in Row
    BY <2>3 DEF Plain
  <2>5. ASSUME NEW r, Owns(kept, rows, r), r \in Row, Named(r) = Partial, Reaches(r, Met(a, b))
        PROVE  Owns(kept, rows, c)
    <3>1. PICK p \in kept : Key(r) = p.key
      BY <2>5 DEF Owns
    <3>2. \A d \in Partial : c[d] = r[d]
      <4>1. Partial \subseteq Named(c)
        <5>1. Partial \subseteq Named(a) \cup Named(b)
          BY <1>8, <2>1, NarrowCross
        <5> QED
          BY <2>2, <5>1
      <4> QED
        BY <2>2, <2>4, <2>5, <4>1, RowReaches
    <3>3. Key(c) = Key(r)
      BY <3>2 DEF Key
    <3>4. m = p
      BY <1>1, <2>3, <3>1, <3>3 DEF UniqueKeys
    <3> QED
      BY <2>3, <3>4 DEF Owns
  <2>6. Reaches(a, Met(a, b)) /\ Reaches(b, Met(a, b))
    BY <1>8, <2>1, MetRow
  <2>7. Named(a) = Partial \/ Named(b) = Partial
    BY <1>8, <2>1, NarrowCross
  <2>8. Owns(kept, rows, c)
    BY <1>8, <2>1, <2>5, <2>6, <2>7
  <2> QED
    BY <1>6, <2>2, <2>8
<1>9. ASSUME NEW a \in rows[n + 1], NEW b \in rows[n + 1], Meet(a, b), ~ Nested(a, b)
      PROVE  Third(a, b)
  <2>1. PICK c \in rows[n + 1] : Named(c) = Named(a) \cup Named(b) /\ Reaches(c, Met(a, b))
    BY <1>9 DEF Ordered, Unsettled
  <2> QED
    BY <1>6, <2>1
<1>10. ASSUME NEW a, NEW b \in rows[n + 1], Owns(kept, rows, a), Meet(a, b), ~ Nested(a, b)
       PROVE  \E c : Owns(kept \cup own, rows, c) /\ Named(c) = Named(a) \cup Named(b) /\ Reaches(c, Met(b, a))
  <2>1. a \in Row /\ b \in Row /\ ~ Reaches(Key(b), Key(a))
    BY <1>5, <1>7, <1>10
  <2>2. /\ \/ Named(a) = Partial /\ Named(b) = Others
           \/ Named(a) = Others /\ Named(b) = Partial
        /\ Partial # {} /\ Others # {}
    BY <1>10, <2>1, NarrowCross
  <2>3. Named(b) = Partial /\ Named(a) = Others
    <3>1. \E d \in Partial : b[d] # Null
      BY <2>1, KeyOf
    <3>2. \E d \in Partial : d \in Named(b)
      BY <2>1, <3>1, RowReaches DEF Dims
    <3> QED
      BY <2>2, <3>2, DimsAssumption
  <2>4. PICK q \in Resolved(kept, rows, dead) : q.at = a
    BY <1>5, <1>10
  <2>5. (Named(q.at) \cap Others) \ Named(b) # {}
    BY <2>2, <2>3, <2>4, DimsAssumption
  <2>6. PICK f \in rows[n + 1] :
          Reaches(f, Met(b, q.at)) /\ Named(b) \cup (Named(q.at) \cap Others) \subseteq Named(f)
    BY <1>10, <2>4, <2>5 DEF FilledOver
  <2>7. Named(f) = Named(a) \cup Named(b)
    BY <2>3, <2>4, <2>6, RowReaches DEF Dims
  <2> QED
    BY <1>6, <2>4, <2>6, <2>7
<1>11. \A a \in Row, b \in Row : Meet(a, b) => Meet(b, a) /\ Met(b, a) = Met(a, b)
  BY DEF Meet, Met, Row, Named
<1>12. \A a, b : Nested(a, b) <=> Nested(b, a)
  BY DEF Nested
<1>13. ASSUME NEW a, NEW b, Owns(kept \cup own, rows, a), Owns(kept \cup own, rows, b), Meet(a, b), ~ Nested(a, b)
       PROVE  Third(a, b)
  <2>1. CASE Owns(kept, rows, a) /\ Owns(kept, rows, b)
    BY <1>8, <1>13, <2>1
  <2>2. CASE a \in rows[n + 1] /\ b \in rows[n + 1]
    BY <1>9, <1>13, <2>2
  <2>3. CASE Owns(kept, rows, a) /\ b \in rows[n + 1]
    <3>1. a \in Row /\ b \in Row
      BY <1>5, <2>3
    <3> QED
      BY <1>10, <1>11, <1>13, <2>3, <3>1
  <2>4. CASE a \in rows[n + 1] /\ Owns(kept, rows, b)
    <3>1. a \in Row /\ b \in Row
      BY <1>5, <2>4
    <3>2. Meet(b, a) /\ ~ Nested(b, a)
      BY <1>11, <1>12, <1>13, <3>1
    <3> QED
      BY <1>10, <1>11, <2>4, <3>1, <3>2
  <2> QED
    BY <1>6, <1>13, <2>1, <2>2, <2>3, <2>4
<1> QED
  BY <1>13 DEF Settles

LEMMA NodesSettle ==
    ASSUME Narrow, Lasting, NEW path \in Bases, NEW n \in Nat, Len(path.rows) = n, NEW h, Nodes(h, path, n)
    PROVE  \A k \in 0 .. n : (\A d \in Others : h[k].dead[d] = {}) /\ Settles(h[k].map, path.rows)
<1> DEFINE Good(k) == (\A d \in Others : h[k].dead[d] = {}) /\ Settles(h[k].map, path.rows)
           S == {k \in 0 .. n : ~ Good(k)}
<1>1. SUFFICES ASSUME S # {} PROVE FALSE
  OBVIOUS
<1>2. S \in SUBSET Nat
  OBVIOUS
<1>3. PICK m \in S : \A k \in S : m <= k
  <2> HIDE DEF S
  <2> QED
    BY <1>1, <1>2, Least
<1>4. Good(0)
  BY DEF Nodes, NoCache, NoneDead, Settles, Owns, Dims
<1>5. m # 0
  BY <1>3, <1>4
<1>6. PICK i \in Nat : i = m - 1 /\ i + 1 = m /\ i \in 0 .. n /\ i \notin S /\ m \in 1 .. n
  BY <1>3, <1>5
<1>7. Good(i)
  BY <1>6
<1>8. h[i].map \in SUBSET MapRows(1 .. i) /\ path.rows[i + 1] \in SUBSET Row
  BY <1>6, NodesFolded, LayerOfBase DEF Folded, Fits
<1> DEFINE own == Own(i + 1, path.rows[i + 1])
           removed == Removed(h[i].axes, path.files[i + 1])
           kept == Kept(h[i].map, own, removed)
<1>9. i + 1 \in 1 .. n /\ (i + 1) - 1 = i
  BY <1>6
<1>10. h[i + 1] = FoldOnto(h[i], i + 1, path.files[i + 1], path.rows[i + 1])
  BY <1>9 DEF Nodes
<1>11. Plain(h[i].map, path.rows) /\ UniqueKeys(h[i].map)
  BY <1>6, NodesPlain
<1>12. FoldAttributes(h[i].map, own, removed) = kept \cup own
  <2> HIDE DEF removed
  <2>1. /\ FoldAttributes(h[i].map, own, removed) = Kept(h[i].map, own, removed) \cup own
        /\ Plain(Kept(h[i].map, own, removed) \cup own, path.rows)
        /\ UniqueKeys(Kept(h[i].map, own, removed) \cup own)
    BY <1>8, <1>11, PlainStep
  <2> QED
    BY <2>1
<1>13. h[i + 1].map = kept \cup own
  BY <1>10, <1>12 DEF FoldOnto
<1>14. Ordered(path.rows[i + 1]) /\ FilledOver(Resolved(kept, path.rows, h[i].dead), path.rows[i + 1])
  <2>1. PICK k \in 1 .. n : k = i + 1 /\ k - 1 = i
    BY <1>9
  <2>2. /\ Ordered(path.rows[k])
        /\ FilledOver(Resolved(Kept(h[k - 1].map, Own(k, path.rows[k]), Removed(h[k - 1].axes, path.files[k])),
                               path.rows, h[k - 1].dead),
                      path.rows[k])
    BY LayerOfBase
  <2> QED
    BY <2>1, <2>2
<1>15. ASSUME NEW d \in Others PROVE h[i + 1].dead[d] = {}
  <2>1. h[i].dead[d] = {} /\ d \in Dims /\ d \in Mortal
    BY <1>7, DimsAssumption DEF Dims, Mortal
  <2>2. \/ path.files[i + 1][d] = NoFile
        \/ Held(h[i].axes, d) \subseteq path.files[i + 1][d]
    <3>1. FoldPath([files |-> SubSeq(path.files, 1, i), rows |-> SubSeq(path.rows, 1, i)]) = h[i]
      <4>1. PICK k \in 1 .. n : k = i + 1 /\ k - 1 = i
        BY <1>9
      <4>2. FoldPath([files |-> SubSeq(path.files, 1, k - 1), rows |-> SubSeq(path.rows, 1, k - 1)]) = h[k - 1]
        BY PrefixIs
      <4> QED
        BY <4>1, <4>2
    <3>2. \/ path.files[i + 1][d] = NoFile
          \/ Held(FoldPath([files |-> SubSeq(path.files, 1, (i + 1) - 1), rows |-> SubSeq(path.rows, 1, (i + 1) - 1)]).axes, d)
               \subseteq path.files[i + 1][d]
      BY <1>9 DEF Lasting
    <3> QED
      BY <1>9, <3>1, <3>2
  <2>3. h[i + 1].dead[d] = FoldDead(h[i].dead, h[i].axes, path.files[i + 1])[d]
    BY <1>10 DEF FoldOnto
  <2> QED
    BY <2>1, <2>2, <2>3 DEF FoldDead
<1>16. Settles(kept \cup own, path.rows)
  <2> HIDE DEF removed, kept
  <2>1. kept = Kept(h[i].map, own, removed)
    BY DEF kept
  <2> QED
    BY <1>7, <1>8, <1>11, <1>14, <2>1, SettlesStep
<1>17. Good(i + 1)
  BY <1>13, <1>15, <1>16
<1> QED
  BY <1>3, <1>6, <1>17

LEMMA BaseSettles ==
    ASSUME Narrow, Lasting, OfBase
    PROVE  /\ \A d \in Others : node.dead[d] = {}
           /\ \A i, j \in BaseRows : Meet(i.at, j.at) /\ ~ Nested(i.at, j.at) =>
                \E k \in BaseRows : Named(k.at) = Named(i.at) \cup Named(j.at) /\ Reaches(k.at, Met(i.at, j.at))
<1>1. PICK n \in Nat : Len(base.rows) = n
  BY BasesAssumption DEF OfBase
<1>2. PICK h : Nodes(h, base, n)
  BY NodesExist
<1>3. node = h[n] /\ n \in 0 .. n
  BY <1>1, <1>2, FoldPathIs DEF OfBase
<1>4. (\A d \in Others : h[n].dead[d] = {}) /\ Settles(h[n].map, base.rows)
  BY <1>1, <1>2, <1>3, NodesSettle DEF OfBase
<1>5. Plain(node.map, base.rows)
  BY BasePlain
<1>6. /\ \A j \in BaseRows : Owns(node.map, base.rows, j.at)
      /\ \A r : Owns(node.map, base.rows, r) => \E j \in BaseRows : j.at = r
  BY <1>3, <1>4, <1>5, OwnsIs DEF BaseRows
<1>7. ASSUME NEW i \in BaseRows, NEW j \in BaseRows, Meet(i.at, j.at), ~ Nested(i.at, j.at)
      PROVE  \E k \in BaseRows : Named(k.at) = Named(i.at) \cup Named(j.at) /\ Reaches(k.at, Met(i.at, j.at))
  <2>1. PICK c : Owns(node.map, base.rows, c) /\ Named(c) = Named(i.at) \cup Named(j.at) /\ Reaches(c, Met(i.at, j.at))
    BY <1>3, <1>4, <1>6, <1>7 DEF Settles
  <2> QED
    BY <1>6, <2>1
<1> QED
  BY <1>3, <1>4, <1>7

\* The fold accepts what is staged (_refuse_unfilled), over bases of which no layer
\* removes a label outside `partial`.
THEOREM StagedFolds == ASSUME Narrow, Lasting PROVE Spec => []StagedLayersFold
<1> DEFINE own == Own(BaseDepth + 1, StagedRows)
<1>1. ASSUME WInv, NEW p \in KeptBelow, NEW o \in own,
             ~ (Named(o.key) \subseteq Named(p.key)), NEW d \in Others, d \in p.varies, d \notin o.varies
      PROVE  FALSE
  <2>1. IInv /\ OfBase
    BY <1>1 DEF WInv, IInv
  <2>2. StagedRows \in SUBSET Row
    BY <2>1, StagedRow
  <2>3. PICK w \in StagedRows : o.key = Key(w)
    BY <1>1, <2>2, OwnRow
  <2>4. p \in node.map /\ p.key \in Keys /\ ~ Reaches(Key(w), p.key)
    <3>1. p \in node.map /\ \A i \in own : ~ Reaches(i.key, p.key)
      BY <1>1 DEF KeptBelow, Kept
    <3>2. node.map \subseteq MapRows(1 .. BaseDepth)
      BY <2>1, BasePlain
    <3> QED
      BY <1>1, <2>3, <3>1, <3>2 DEF MapRows
  <2>5. Named(p.key) = {}
    BY <1>1, <2>2, <2>3, <2>4, KeysNest, KeyOf
  <2>6. base.rows[p.layer] \in SUBSET Row /\ p \in Own(p.layer, base.rows[p.layer])
    BY <2>1, <2>4, BasePlain DEF Plain
  <2>7. PICK s \in base.rows[p.layer] : Key(s) = p.key /\ s[d] # Null
    <3>1. \A e : e \in p.varies <=> e \in Dims /\ \E r \in base.rows[p.layer] : Key(r) = p.key /\ r[e] # Null
      BY <2>6, OwnFlags
    <3> QED
      BY <1>1, <3>1
  <2>8. s \in Row /\ d \in Dims /\ d \in Named(s)
    BY <2>6, <2>7, RowReaches DEF Dims
  <2>9. PICK q \in BaseRows : q.at = s
    <3>1. Where(p.layer, s) \in BaseRows
      BY <2>1, <2>4, <2>7, BaseRowPlain, BaseSettles
    <3> QED
      BY <3>1 DEF Where
  <2>10. \A e : e \in o.varies <=> e \in Dims /\ \E r \in StagedRows : Key(r) = o.key /\ r[e] # Null
    BY <1>1, <2>2, OwnFlags
  <2>11. w \in Row /\ d \notin Named(w)
    BY <1>1, <2>2, <2>3, <2>8, <2>10, RowReaches
  <2>12. Named(w) \cap Named(s) = {}
    <3>1. ASSUME NEW e \in Named(w) \cap Named(s) PROVE FALSE
      <4>1. e \in Dims /\ s[e] # Null /\ w[e] # Null
        BY <2>8, <2>11, <3>1, RowReaches
      <4>2. e \notin Partial
        <5>1. \A i \in Partial : p.key[i] = s[i]
          BY <2>7, <2>8, KeyOf
        <5> QED
          BY <2>4, <2>5, <4>1, <5>1 DEF Named, Keys
      <4>3. e = d
        BY <4>1, <4>2 DEF Dims, Narrow
      <4> QED
        BY <2>11, <3>1, <4>3
    <3> QED
      BY <3>1
  <2>13. Meet(w, q.at)
    BY <2>9, <2>12 DEF Meet
  <2>14. /\ Met(w, q.at) \in StagedRows
         /\ Met(w, q.at) \in Row /\ Named(Met(w, q.at)) = Dims
         /\ Key(Met(w, q.at)) = Key(w)
    BY <1>1, <2>4, <2>7, <2>8, <2>9, <2>11, <2>13, StagedMet
  <2>15. Met(w, q.at)[d] # Null
    BY <2>8, <2>14, RowReaches
  <2> QED
    BY <1>1, <2>3, <2>8, <2>10, <2>14, <2>15
<1> HIDE DEF own
<1>2. WInv => StagedLayersFold
  <2> SUFFICES ASSUME WInv, NEW po \in Pairs(KeptBelow, own), NEW d \in (po[1].varies \ po[2].varies) \cap Others
               PROVE  FALSE
    BY DEF StagedLayersFold, Filled, own
  <2>1. po[1] \in KeptBelow /\ po[2] \in own /\ ~ (Named(po[2].key) \subseteq Named(po[1].key))
    BY DEF Pairs
  <2> QED
    BY <1>1, <2>1
<1> QED
  BY <1>2, WholeInvariant, PTL

-----------------------------------------------------------------------------
(* What no call reaches reads the base.                                    *)

\* A coordinate no staged row reaches, whose base rows are all left.
LEMMA ReadLeft ==
    ASSUME IInv, OthersAsRead, Narrow, NEW c,
           \A w \in StagedRows : ~ Reaches(w, c),
           \A j \in BaseRows : Reaches(j.at, c) => LeftOfBase(j)
    PROVE  ReadsBase(c)
<1> DEFINE all == Resolved(StagedNode.map, Layers, StagedNode.dead)
<1>1. \A j : j \in all <=> LeftOfBase(j) \/ \E v \in StagedRows : j = Where(BaseDepth + 1, v)
  BY StagedReads
<1>2. \A n, v : Where(n, v).at = v
  BY DEF Where
<1> HIDE DEF all
<1>3. \A j : j \in all /\ Reaches(j.at, c) <=> j \in BaseRows /\ Reaches(j.at, c)
  BY <1>1, <1>2 DEF LeftOfBase
<1>4. Settled(all, c) = Settled(BaseRows, c)
  BY <1>3 DEF Settled
<1>5. Values(all, c) = Values(BaseRows, c)
  BY <1>4 DEF Values
<1>6. \A j \in Settled(BaseRows, c) : j.layer <= BaseDepth
  <2>1. \A j \in BaseRows : j.layer \in 1 .. BaseDepth /\ BaseDepth \in Nat
    BY BaseRow DEF IInv
  <2> QED
    BY <2>1 DEF Settled
<1>7. \A v \in Values(BaseRows, c) : v[1] <= BaseDepth
  BY <1>6 DEF Values
<1>8. Read(c) = {IF v[1] <= BaseDepth THEN {v} ELSE {<<t.source, t.row>> : t \in {s \in Collapsed : s.at = v[2]}} :
                 v \in Values(BaseRows, c)}
  BY <1>5 DEF Read, all
<1> QED
  BY <1>7, <1>8 DEF ReadsBase

\* Over a base whose rows settle, the one naming the most at a coordinate is read.
LEMMA BestSettles ==
    ASSUME Narrow, Lasting, IInv, NEW c, NEW j, Best(j, c)
    PROVE  Settled(BaseRows, c) = {j}
<1>1. OfBase /\ j \in BaseRows /\ Reaches(j.at, c)
  BY DEF IInv, Best
<1>2. \A i \in BaseRows : i.at \in Row /\ IsFiniteSet(Named(i.at)) /\ Cardinality(Named(i.at)) \in Nat
  BY <1>1, BaseRow, NamedCount
<1>3. ASSUME NEW i \in BaseRows, Reaches(i.at, c) PROVE Named(i.at) \subseteq Named(j.at)
  <2>1. Meet(i.at, j.at) /\ Meet(j.at, i.at)
    BY <1>1, <1>2, <1>3, RowReaches DEF Meet
  <2>2. PICK k \in BaseRows : Named(i.at) \cup Named(j.at) \subseteq Named(k.at) /\ Reaches(k.at, c)
    <3>1. CASE Named(i.at) \subseteq Named(j.at)
      BY <1>1, <3>1
    <3>2. CASE Named(j.at) \subseteq Named(i.at)
      BY <1>3, <3>2
    <3>3. CASE ~ Nested(i.at, j.at)
      <4>1. PICK k \in BaseRows : Named(k.at) = Named(i.at) \cup Named(j.at) /\ Reaches(k.at, Met(i.at, j.at))
        BY <1>1, <2>1, <3>3, BaseSettles
      <4>2. Met(i.at, j.at) \in Row /\ Reaches(Met(i.at, j.at), c)
        BY <1>1, <1>2, <1>3, <2>1, MetRow
      <4>3. Reaches(k.at, c)
        BY <1>2, <4>1, <4>2, ReachesOn
      <4> QED
        BY <4>1, <4>3
    <3> QED
      BY <3>1, <3>2, <3>3 DEF Nested
  <2>3. Cardinality(Named(k.at)) <= Cardinality(Named(j.at))
    BY <2>2 DEF Best
  <2>4. Named(j.at) \subseteq Named(k.at) /\ IsFiniteSet(Named(k.at))
    BY <1>2, <2>2
  <2>5. Cardinality(Named(j.at)) <= Cardinality(Named(k.at)) /\ (Cardinality(Named(j.at)) = Cardinality(Named(k.at)) => Named(j.at) = Named(k.at))
    BY <2>4, FS_Subset
  <2>6. Cardinality(Named(k.at)) \in Nat /\ Cardinality(Named(j.at)) \in Nat
    BY <1>1, <1>2
  <2>7. Named(j.at) = Named(k.at)
    BY <2>3, <2>5, <2>6
  <2> QED
    BY <2>2, <2>7
<1>4. j \in Settled(BaseRows, c)
  BY <1>1, <1>3 DEF Settled
<1>5. ASSUME NEW i \in Settled(BaseRows, c) PROVE i = j
  <2>1. i \in BaseRows /\ Reaches(i.at, c) /\ Named(j.at) \subseteq Named(i.at)
    BY <1>1, <1>5 DEF Settled
  <2>2. i.at = j.at
    BY <1>1, <1>2, <1>3, <2>1, SameRow
  <2> QED
    BY <1>1, <2>1, <2>2, BaseRowPlain
<1> QED
  BY <1>4, <1>5

\* What no call reaches reads the base, beside coordinates of its own key that were
\* set, carried or spread, and after removals and additions; over bases of which no
\* layer removes a label outside `partial`.
THEOREM CarriedIsRead == ASSUME Narrow, Lasting PROVE Spec => []CarriedReadsBase
<1>1. ASSUME WInv, NEW c \in Coordinates, SetAt(c) = {}, ~ KeyBroadcast(c) PROVE ReadsBase(c)
  <2>1. IInv /\ OthersAsRead /\ Origins /\ ExtentsCarried
    BY <1>1 DEF WInv
  <2>2. /\ c \in Row /\ Named(c) = Dims /\ \A d \in Dims : c[d] \in HeldNow(d)
        /\ \A d \in Others : c[d] \in Held(node.axes, d)
    BY <1>1, <2>1, CoordinateIs
  <2>3. \A k \in 1 .. Len(calls) : \A r : AskedIn(k, r) => ~ Reaches(r, c)
    BY <1>1 DEF SetAt, AskedIn
  <2>4. ASSUME NEW t \in Collapsed, Reaches(t.at, c)
        PROVE  t.at = c /\ \E j : Best(j, c) /\ t.source = j.layer /\ t.row = j.row
    <3>1. t \in table /\ t.at \in Row /\ t.row \in Row
      BY <2>1, CollapsedRow
    <3>2. ~ AsAsked(t)
      <4>1. \A k : Staged(k, t.row).at = t.row
        BY DEF Staged
      <4> QED
        BY <2>3, <2>4, <4>1 DEF AsAsked
    <3>3. ~ SpreadOut(t)
      BY <2>3, <2>4, <3>1, ReachesOn DEF SpreadOut
    <3>4. Carried(t)
      BY <2>1, <3>1, <3>2, <3>3 DEF Origins
    <3>5. t.at = c
      BY <1>1, <2>1, <2>4, <3>1, <3>4, CarriedAt
    <3> QED
      BY <3>4, <3>5 DEF Carried
  <2>5. CASE c \in StagedRows
    <3>1. \A v \in StagedRows : Named(v) \subseteq Named(c)
      BY <2>1, <2>2, StagedRow, RowReaches
    <3>2. \A j : LeftOfBase(j) => Named(j.at) \subseteq Named(c)
      BY <2>1, <2>2, BaseRow, RowReaches DEF LeftOfBase, IInv
    <3>3. Read(c) = {{<<t.source, t.row>> : t \in {s \in Collapsed : s.at = c}}}
      BY <2>1, <2>5, <3>1, <3>2, ReadStaged, ReachesSelf
    <3>4. PICK t \in Collapsed : t.at = c
      BY <2>1, <2>5, StagedRow
    <3>5. PICK j : Best(j, c) /\ t.source = j.layer /\ t.row = j.row
      BY <2>4, <3>4, ReachesSelf
    <3>6. Settled(BaseRows, c) = {j}
      BY <2>1, <3>5, BestSettles
    <3>7. ASSUME NEW s \in Collapsed, s.at = c PROVE s.source = j.layer /\ s.row = j.row
      <4>1. PICK i : Best(i, c) /\ s.source = i.layer /\ s.row = i.row
        BY <2>4, <3>7, ReachesSelf
      <4>2. Settled(BaseRows, c) = {i}
        BY <2>1, <4>1, BestSettles
      <4>3. i = j
        BY <3>6, <4>2
      <4> QED
        BY <4>1, <4>3
    <3>8. {<<s.source, s.row>> : s \in {q \in Collapsed : q.at = c}} = {<<j.layer, j.row>>}
      BY <3>4, <3>5, <3>7
    <3>9. Values(BaseRows, c) = {<<j.layer, j.row>>}
      BY <3>6 DEF Values
    <3> QED
      BY <3>3, <3>8, <3>9 DEF ReadsBase
  <2>6. CASE c \notin StagedRows
    <3>1. ASSUME NEW w \in StagedRows, Reaches(w, c) PROVE FALSE
      <4>1. PICK t \in Collapsed : t.at = w
        BY <2>1, StagedRow
      <4> QED
        BY <2>4, <2>6, <3>1, <4>1
    <3>2. ASSUME NEW j \in BaseRows, Reaches(j.at, c), NEW w \in StagedRows, Reaches(Key(w), Key(j.at))
          PROVE  FALSE
      <4>1. j.at \in Row /\ w \in Row
        BY <2>1, StagedRow, BaseRow DEF IInv
      <4>2. PICK t \in Collapsed : t.at = w
        BY <2>1, StagedRow
      <4>3. t \in table
        BY <2>1, <4>2, CollapsedRow
      <4>4. \A d \in Partial : w[d] = Null \/ c[d] = w[d]
        <5>1. \A d \in Partial : w[d] = Null \/ j.at[d] = w[d]
          BY <3>2, <4>1, KeyOf
        <5>2. \A d \in Partial : j.at[d] = Null \/ c[d] = j.at[d]
          BY <3>2, <4>1, RowReaches DEF Dims
        <5> QED
          BY <5>1, <5>2
      <4>5. CASE Partial \subseteq Named(w)
        <5>1. \A d \in Partial : c[d] = w[d]
          BY <4>1, <4>4, <4>5, RowReaches
        <5>2. Key(c) = Key(w)
          BY <5>1 DEF Key
        <5>3. c \in [Dims -> AllLabels]
          BY DEF Coordinates
        <5>4. Extent(t, c)
          BY <2>2, <3>2, <4>2, <5>2, <5>3 DEF Extent
        <5>5. PICK s \in table : Reaches(s.at, c)
          BY <2>1, <4>2, <4>3, <4>5, <5>4 DEF ExtentsCarried
        <5>6. s.at \in StagedRows
          BY <2>1, <5>5, CoordinateCollapsed
        <5> QED
          BY <3>1, <5>5, <5>6
      <4>6. CASE ~ (Partial \subseteq Named(w))
        <5>1. ~ SpreadOut(t) /\ ~ Carried(t)
          BY <4>2, <4>6 DEF SpreadOut, Carried, Dims
        <5>2. PICK k \in 1 .. Len(calls) : AskedIn(k, t.row) /\ t = Staged(k, t.row)
          BY <2>1, <4>3, <5>1 DEF Origins, AsAsked
        <5>3. t.row = w /\ w \in calls[k]
          BY <4>2, <5>2 DEF Staged, AskedIn
        <5>4. Reaches(Key(w), c)
          BY <4>1, <4>4, KeyOf
        <5>5. Named(Key(w)) # Partial
          BY <4>1, <4>6, KeyOf
        <5> QED
          BY <1>1, <5>3, <5>4, <5>5 DEF KeyBroadcast
      <4> QED
        BY <4>5, <4>6
    <3>3. ASSUME NEW j \in BaseRows, Reaches(j.at, c), NEW d \in Partial PROVE j.at[d] \notin Removed(node.axes, axis)[d]
      <4>1. d \in Dims /\ (j.at[d] = Null \/ j.at[d] = c[d])
        BY <2>1, <3>3, BaseRow, RowReaches DEF Dims, IInv
      <4>2. Removed(node.axes, axis)[d] = IF axis[d] = NoFile THEN {} ELSE Held(node.axes, d) \ axis[d]
        BY <4>1 DEF Removed
      <4>3. c[d] \in HeldNow(d) /\ HeldNow(d) = IF axis[d] = NoFile THEN Held(node.axes, d) ELSE axis[d]
        BY <2>1, <2>2, <4>1, HeldTyped
      <4>4. Null \notin Held(node.axes, d)
        BY <2>1, <4>1, HeldTyped
      <4> QED
        BY <4>1, <4>2, <4>3, <4>4
    <3>4. \A j \in BaseRows : Reaches(j.at, c) => LeftOfBase(j)
      BY <3>2, <3>3 DEF LeftOfBase
    <3> QED
      BY <2>1, <3>1, <3>4, ReadLeft
  <2> QED
    BY <2>5, <2>6
<1>2. WInv => CarriedReadsBase
  BY <1>1 DEF CarriedReadsBase, Untouched
<1> QED
  BY <1>2, WholeInvariant, PTL
=============================================================================
