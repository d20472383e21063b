--------------------------- MODULE FoldTablesProofs -------------------------
(***************************************************************************)
(* What reads through shared tables and materialised caches see, for every *)
(* path, every sequence of wider `partial`s and any number of Revision     *)
(* objects: the fold of every layer.                                       *)
(***************************************************************************)
EXTENDS FoldTables, LeastNumbers, TLAPS

-----------------------------------------------------------------------------
(* The fold of a path.                                                     *)

LEMMA SchemasAre ==
    /\ Len(Partials) \in Nat /\ 1 \in Schemas
    /\ \A s \in Schemas : Partials[s] \subseteq AllDims
    /\ \A s, t \in Schemas : s <= t => Partials[s] \subseteq Partials[t]
<1>1. Len(Partials) \in Nat /\ Len(Partials) >= 1
  BY PartialsAssumption
<1>2. 1 \in Schemas
  BY <1>1 DEF Schemas
<1> QED
  BY <1>1, <1>2, PartialsAssumption DEF Schemas

\* A node of no layer.
LEMMA NoCacheIs ==
    ASSUME NEW p \in SUBSET AllDims
    PROVE  LET node == Under(p)!NoCache
           IN /\ node = [map |-> node.map, axes |-> node.axes, dead |-> node.dead]
              /\ node.axes = [d \in AllDims |-> NoFile]
              /\ node.dead = [d \in AllDims |-> {}]
  BY DEF Under!NoCache, Under!NoAxes, Under!NoneDead, Under!Dims

\* One layer more: the axes do not depend on `partial`, and the dead labels of
\* a dim only on whether `partial` names it.
LEMMA FoldOntoIs ==
    ASSUME NEW p \in SUBSET AllDims, NEW node, NEW k, NEW files, NEW rows
    PROVE  LET next == Under(p)!FoldOnto(node, k, files, rows)
           IN /\ next = [map |-> next.map, axes |-> next.axes, dead |-> next.dead]
              /\ next.axes = [d \in AllDims |-> IF files[d] = NoFile THEN node.axes[d] ELSE files[d]]
              /\ next.dead = [d \in AllDims |->
                   IF d \in p THEN {}
                   ELSE IF files[d] = NoFile THEN node.dead[d]
                   ELSE (node.dead[d] \cup (IF node.axes[d] = NoFile THEN {} ELSE node.axes[d])) \ files[d]]
<1>1. Under(p)!Dims = AllDims /\ Under(p)!Mortal = AllDims \ p
  BY DEF Under!Dims, Under!Mortal
<1>2. Under(p)!FoldAxes(node.axes, files) =
        [d \in AllDims |-> IF files[d] = NoFile THEN node.axes[d] ELSE files[d]]
  BY <1>1 DEF Under!FoldAxes
<1>3. Under(p)!FoldDead(node.dead, node.axes, files) = [d \in AllDims |->
                   IF d \in p THEN {}
                   ELSE IF files[d] = NoFile THEN node.dead[d]
                   ELSE (node.dead[d] \cup (IF node.axes[d] = NoFile THEN {} ELSE node.axes[d])) \ files[d]]
  BY <1>1 DEF Under!FoldDead, Under!Held
<1> QED
  BY <1>2, <1>3 DEF Under!FoldOnto

\* f is the fold of the first n layers of path q, under p.
IsFold(f, p, q, n) ==
    f = [k \in 0 .. n |-> IF k = 0 THEN Under(p)!NoCache
                          ELSE Under(p)!FoldOnto(f[k - 1], k, q.files[k], q.rows[k])]

\* A path's layers fold one after another, however many there are.
LEMMA FoldExists ==
    ASSUME NEW p, NEW q, NEW n \in Nat
    PROVE  \E f : IsFold(f, p, q, n)
<1> DEFINE S == {m \in Nat : ~ \E f : IsFold(f, p, q, m)}
<1>1. SUFFICES ASSUME S # {} PROVE FALSE
  OBVIOUS
<1>2. PICK m \in S : \A k \in S : m <= k
  <2>1. S \in SUBSET Nat
    OBVIOUS
  <2> HIDE DEF S
  <2> QED
    BY <1>1, <2>1, Least
<1>3. CASE m = 0
  <2>1. PICK f : f = [k \in 0 .. 0 |-> Under(p)!NoCache]
    OBVIOUS
  <2>2. IsFold(f, p, q, m)
    BY <1>3, <2>1 DEF IsFold
  <2> QED
    BY <2>2
<1>4. CASE m # 0
  <2>1. m - 1 \in Nat /\ m - 1 \notin S
    BY <1>2, <1>4
  <2>2. PICK f : IsFold(f, p, q, m - 1)
    BY <2>1
  <2>3. PICK g : g = [k \in 0 .. m |-> IF k = m THEN Under(p)!FoldOnto(f[m - 1], m, q.files[m], q.rows[m])
                                       ELSE f[k]]
    OBVIOUS
  <2>4. ASSUME NEW k \in 0 .. m
        PROVE  g[k] = IF k = 0 THEN Under(p)!NoCache
                      ELSE Under(p)!FoldOnto(g[k - 1], k, q.files[k], q.rows[k])
    <3>1. CASE k = m
      <4>1. k - 1 \in 0 .. m /\ k - 1 # m
        BY <1>4, <3>1
      <4> QED
        BY <1>4, <2>3, <3>1, <4>1
    <3>2. CASE k # m
      <4>1. k \in 0 .. m - 1 /\ (k # 0 => k - 1 \in 0 .. m /\ k - 1 # m)
        BY <3>2
      <4>2. f[k] = IF k = 0 THEN Under(p)!NoCache
                   ELSE Under(p)!FoldOnto(f[k - 1], k, q.files[k], q.rows[k])
        BY <2>2, <4>1 DEF IsFold
      <4> QED
        BY <2>3, <3>2, <4>1, <4>2
    <3> QED
      BY <3>1, <3>2
  <2>5. IsFold(g, p, q, m)
    BY <2>3, <2>4 DEF IsFold
  <2> QED
    BY <2>5
<1> QED
  BY <1>3, <1>4

LEMMA WholeIs ==
    ASSUME path \in Paths, NEW s \in Schemas
    PROVE  /\ Len(path.rows) \in Nat
           /\ Whole(0, s) = Under(Partials[s])!NoCache
           /\ \A k \in 1 .. Len(path.rows) :
                Whole(k, s) = Under(Partials[s])!FoldOnto(Whole(k - 1, s), k, path.files[k], path.rows[k])
<1>1. Len(path.rows) \in Nat
  BY PathsAssumption
<1>2. \E f : IsFold(f, Partials[s], path, Len(path.rows))
  BY <1>1, FoldExists
<1>3. WholeFolds[path][s] = CHOOSE f : IsFold(f, Partials[s], path, Len(path.rows))
  BY DEF WholeFolds, IsFold
<1>4. PICK f : f = WholeFolds[path][s] /\ IsFold(f, Partials[s], path, Len(path.rows))
  BY <1>2, <1>3
<1>5. \A k \in 0 .. Len(path.rows) :
        f[k] = IF k = 0 THEN Under(Partials[s])!NoCache
               ELSE Under(Partials[s])!FoldOnto(f[k - 1], k, path.files[k], path.rows[k])
  BY <1>4 DEF IsFold
<1>6. \A k : Whole(k, s) = f[k]
  BY <1>4 DEF Whole
<1>7. 0 \in 0 .. Len(path.rows) /\ \A k \in 1 .. Len(path.rows) : k \in 0 .. Len(path.rows) /\ k # 0
  BY <1>1
<1> QED
  BY <1>1, <1>5, <1>6, <1>7

\* A folded node has an axis or none for each dim, and dead labels of the dims
\* outside `partial` only.
LEMMA WholeShape ==
    ASSUME path \in Paths, NEW s \in Schemas, NEW n \in 0 .. Len(path.rows)
    PROVE  LET w == Whole(n, s)
           IN /\ w = [map |-> w.map, axes |-> w.axes, dead |-> w.dead]
              /\ w.axes = [d \in AllDims |-> w.axes[d]]
              /\ w.dead = [d \in AllDims |-> IF d \in Partials[s] THEN {} ELSE w.dead[d]]
<1>1. Partials[s] \in SUBSET AllDims
  BY SchemasAre
<1>2. CASE n = 0
  <2>1. Whole(n, s) = Under(Partials[s])!NoCache
    BY <1>2, WholeIs
  <2> QED
    BY <1>1, <2>1, NoCacheIs
<1>3. CASE n # 0
  <2>1. PICK p \in SUBSET AllDims : p = Partials[s]
    BY <1>1
  <2>2. Len(path.rows) \in Nat /\ n \in 1 .. Len(path.rows)
    BY <1>3, WholeIs
  <2>3. PICK node, files, rows : Whole(n, s) = Under(p)!FoldOnto(node, n, files, rows)
    BY <2>1, <2>2, WholeIs
  <2>4. PICK w : w = Whole(n, s)
    OBVIOUS
  <2>5. /\ w = [map |-> w.map, axes |-> w.axes, dead |-> w.dead]
        /\ w.axes = [d \in AllDims |-> IF files[d] = NoFile THEN node.axes[d] ELSE files[d]]
        /\ w.dead = [d \in AllDims |->
                   IF d \in p THEN {}
                   ELSE IF files[d] = NoFile THEN node.dead[d]
                   ELSE (node.dead[d] \cup (IF node.axes[d] = NoFile THEN {} ELSE node.axes[d])) \ files[d]]
    BY <2>3, <2>4, FoldOntoIs
  <2>6. w.axes = [d \in AllDims |-> w.axes[d]]
    BY <2>5
  <2>7. w.dead = [d \in AllDims |-> IF d \in Partials[s] THEN {} ELSE w.dead[d]]
    BY <2>1, <2>5
  <2> QED
    BY <2>4, <2>5, <2>6, <2>7
<1> QED
  BY <1>2, <1>3

\* Under any two schemas a node has the same axes, and the same dead labels of
\* the dims neither keys.
LEMMA AcrossSchemas ==
    ASSUME path \in Paths, NEW s \in Schemas, NEW t \in Schemas, NEW n \in 0 .. Len(path.rows)
    PROVE  /\ Whole(n, s).axes = Whole(n, t).axes
           /\ \A d \in AllDims \ (Partials[s] \cup Partials[t]) : Whole(n, s).dead[d] = Whole(n, t).dead[d]
<1> DEFINE Agree(k) ==
             /\ Whole(k, s).axes = Whole(k, t).axes
             /\ \A d \in AllDims \ (Partials[s] \cup Partials[t]) : Whole(k, s).dead[d] = Whole(k, t).dead[d]
           S == {k \in 0 .. Len(path.rows) : ~ Agree(k)}
<1>0. Len(path.rows) \in Nat /\ Partials[s] \in SUBSET AllDims /\ Partials[t] \in SUBSET AllDims
  BY WholeIs, SchemasAre
<1>1. SUFFICES ASSUME S # {} PROVE FALSE
  OBVIOUS
<1>2. PICK m \in S : \A k \in S : m <= k
  <2>1. S \in SUBSET Nat
    BY <1>0
  <2> HIDE DEF S
  <2> QED
    BY <1>1, <2>1, Least
<1>3. CASE m = 0
  <2>1. Whole(m, s) = Under(Partials[s])!NoCache /\ Whole(m, t) = Under(Partials[t])!NoCache
    BY <1>3, WholeIs
  <2>2. /\ Under(Partials[s])!NoCache.axes = [d \in AllDims |-> NoFile]
        /\ Under(Partials[t])!NoCache.axes = [d \in AllDims |-> NoFile]
        /\ Under(Partials[s])!NoCache.dead = [d \in AllDims |-> {}]
        /\ Under(Partials[t])!NoCache.dead = [d \in AllDims |-> {}]
    BY <1>0, NoCacheIs
  <2>3. Agree(m)
    BY <2>1, <2>2
  <2> QED
    BY <2>3
<1>4. CASE m # 0
  <2>1. m - 1 \in 0 .. Len(path.rows) /\ m - 1 \notin S /\ m \in 1 .. Len(path.rows)
    BY <1>0, <1>2, <1>4
  <2>2. Agree(m - 1)
    BY <2>1
  <2>3. PICK u, v, files, rows :
          /\ u = Whole(m - 1, s) /\ v = Whole(m - 1, t)
          /\ Whole(m, s) = Under(Partials[s])!FoldOnto(u, m, files, rows)
          /\ Whole(m, t) = Under(Partials[t])!FoldOnto(v, m, files, rows)
    BY <2>1, WholeIs
  <2>4. /\ Whole(m, s).axes = [d \in AllDims |-> IF files[d] = NoFile THEN u.axes[d] ELSE files[d]]
        /\ Whole(m, s).dead = [d \in AllDims |->
                   IF d \in Partials[s] THEN {}
                   ELSE IF files[d] = NoFile THEN u.dead[d]
                   ELSE (u.dead[d] \cup (IF u.axes[d] = NoFile THEN {} ELSE u.axes[d])) \ files[d]]
    BY <1>0, <2>3, FoldOntoIs
  <2>5. /\ Whole(m, t).axes = [d \in AllDims |-> IF files[d] = NoFile THEN v.axes[d] ELSE files[d]]
        /\ Whole(m, t).dead = [d \in AllDims |->
                   IF d \in Partials[t] THEN {}
                   ELSE IF files[d] = NoFile THEN v.dead[d]
                   ELSE (v.dead[d] \cup (IF v.axes[d] = NoFile THEN {} ELSE v.axes[d])) \ files[d]]
    BY <1>0, <2>3, FoldOntoIs
  <2>6. u.axes = v.axes /\ \A d \in AllDims \ (Partials[s] \cup Partials[t]) : u.dead[d] = v.dead[d]
    BY <2>2, <2>3
  <2>7. Whole(m, s).axes = Whole(m, t).axes
    <3>1. \A d \in AllDims : (IF files[d] = NoFile THEN u.axes[d] ELSE files[d])
                           = (IF files[d] = NoFile THEN v.axes[d] ELSE files[d])
      BY <2>6
    <3> QED
      BY <2>4, <2>5, <3>1
  <2>8. ASSUME NEW d \in AllDims \ (Partials[s] \cup Partials[t])
        PROVE  Whole(m, s).dead[d] = Whole(m, t).dead[d]
    <3>1. Whole(m, s).dead[d] = IF files[d] = NoFile THEN u.dead[d]
            ELSE (u.dead[d] \cup (IF u.axes[d] = NoFile THEN {} ELSE u.axes[d])) \ files[d]
      BY <2>4
    <3>2. Whole(m, t).dead[d] = IF files[d] = NoFile THEN v.dead[d]
            ELSE (v.dead[d] \cup (IF v.axes[d] = NoFile THEN {} ELSE v.axes[d])) \ files[d]
      BY <2>5
    <3>3. u.dead[d] = v.dead[d] /\ u.axes[d] = v.axes[d]
      BY <2>6
    <3> QED
      BY <3>1, <3>2, <3>3
  <2> QED
    BY <2>7, <2>8
<1> QED
  BY <1>3, <1>4

\* A node's axes are those of the first schema, and so are its dead labels of the
\* dims outside `partial`, however wide.
LEMMA AsFirst ==
    ASSUME path \in Paths, NEW s \in Schemas, NEW n \in 0 .. Len(path.rows)
    PROVE  /\ Whole(n, s).axes = Whole(n, 1).axes
           /\ \A d \in AllDims \ Partials[s] : Whole(n, s).dead[d] = Whole(n, 1).dead[d]
<1>1. 1 \in Schemas /\ Partials[1] \subseteq Partials[s]
  BY SchemasAre DEF Schemas
<1> QED
  BY <1>1, AcrossSchemas

\* Equal keys, equal folds.
LEMMA SameKey ==
    ASSUME NEW s \in Schemas, NEW t \in Schemas, Partials[s] = Partials[t], path \in Paths, NEW n
    PROVE  Whole(n, s) = Whole(n, t)
<1>1. \A u \in Schemas : WholeFolds[path][u] = CHOOSE f : IsFold(f, Partials[u], path, Len(path.rows))
  BY DEF WholeFolds, IsFold
<1> QED
  BY <1>1 DEF Whole

-----------------------------------------------------------------------------
(* A fold from a cache.                                                    *)

\* The cache of node n, if it stands under schema s, is the fold of its path.
CacheWhole(n, s) ==
    CachedUnder(n, s) =>
        /\ resolved[n].map = [key |-> Partials[s], rows |-> Whole(n, s).map]
        /\ resolved[n].axes = Whole(n, s).axes
        /\ \A d \in AllDims \ Partials[s] : resolved[n].dead[d] = Whole(n, s).dead[d]

\* A record's layers start where a cache stands for those above, or at the top.
Starts(first, n, s) == first = 1 \/ (first \in 1 .. n - 1 /\ CachedUnder(first, s))

\* Whatever caches there are by then, a fold over a record's layers is the fold
\* of the whole path.
LEMMA FoldIsWhole ==
    ASSUME path \in Paths, NEW s \in Schemas, NEW n \in Nodes, NEW first \in Nat,
           Starts(first, n, s), \A k \in Nodes : CacheWhole(k, s)
    PROVE  Folded(n, s, first) = Whole(n, s)
<1> DEFINE p == Partials[s]
           stops == {k \in first .. n - 1 : CachedUnder(k, s)}
<1>1. Len(path.rows) \in Nat /\ n \in Nat /\ n \in 1 .. Len(path.rows)
  BY WholeIs DEF Nodes
<1>2. PICK base : base = IF stops = {} THEN first - 1 ELSE CHOOSE k \in stops : \A j \in stops : j <= k
  OBVIOUS
<1>3. PICK seed : seed = IF stops = {} THEN Under(p)!NoCache
                ELSE [map |-> resolved[base].map.rows, axes |-> resolved[base].axes,
                      dead |-> [d \in AllDims |-> IF d \in p THEN {} ELSE resolved[base].dead[d]]]
  OBVIOUS
<1>4. base \in 0 .. n /\ seed = Whole(base, s)
  <2>1. CASE stops = {}
    <3>1. first = 1
      BY <1>1, <2>1 DEF Starts
    <3> QED
      BY <1>1, <1>2, <1>3, <2>1, <3>1, WholeIs
  <2>2. CASE stops # {}
    <3>1. stops \in SUBSET Nat /\ n - 1 \in Nat /\ \A k \in stops : k <= n - 1
      BY <1>1
    <3>2. \E k \in stops : \A j \in stops : j <= k
      <4> HIDE DEF stops
      <4> QED
        BY <2>2, <3>1, Greatest
    <3>3. base \in stops
      BY <1>2, <2>2, <3>2
    <3>4. base \in Nodes /\ CachedUnder(base, s) /\ base \in 0 .. Len(path.rows)
      BY <1>1, <3>3 DEF Nodes, Starts
    <3>5. CacheWhole(base, s)
      BY <3>4
    <3>6. /\ resolved[base].map.rows = Whole(base, s).map
          /\ resolved[base].axes = Whole(base, s).axes
          /\ \A d \in AllDims \ p : resolved[base].dead[d] = Whole(base, s).dead[d]
      BY <3>4, <3>5 DEF CacheWhole
    <3>7. [d \in AllDims |-> IF d \in p THEN {} ELSE resolved[base].dead[d]] = Whole(base, s).dead
      <4>1. PICK w : w = Whole(base, s)
        OBVIOUS
      <4>2. w.dead = [d \in AllDims |-> IF d \in p THEN {} ELSE w.dead[d]]
        BY <3>4, <4>1, WholeShape
      <4>3. \A d \in AllDims : (IF d \in p THEN {} ELSE resolved[base].dead[d]) = (IF d \in p THEN {} ELSE w.dead[d])
        BY <3>6, <4>1
      <4> QED
        BY <4>1, <4>2, <4>3
    <3>8. seed = [map |-> Whole(base, s).map, axes |-> Whole(base, s).axes, dead |-> Whole(base, s).dead]
      BY <1>3, <2>2, <3>6, <3>7
    <3>9. seed = Whole(base, s)
      BY <3>4, <3>8, WholeShape
    <3> QED
      BY <1>1, <3>3, <3>9
  <2> QED
    BY <2>1, <2>2
<1> DEFINE F(f) == f = [k \in base .. n |->
              IF k = base THEN seed
              ELSE Under(p)!FoldOnto(f[k - 1], k, path.files[k], path.rows[k])]
<1>5. Folded(n, s, first) = (CHOOSE f : F(f))[n]
  BY <1>2, <1>3 DEF Folded, FoldOf
<1>6. \A k \in base + 1 .. n :
        Whole(k, s) = Under(p)!FoldOnto(Whole(k - 1, s), k, path.files[k], path.rows[k])
  BY <1>1, <1>4, WholeIs
<1>7. \E f : F(f)
  <2>1. PICK g : g = [k \in base .. n |-> Whole(k, s)]
    OBVIOUS
  <2>2. \A k \in base .. n : k # base => k \in base + 1 .. n /\ k - 1 \in base .. n
    BY <1>1, <1>4
  <2>3. \A k \in base .. n : g[k] = IF k = base THEN seed
              ELSE Under(p)!FoldOnto(g[k - 1], k, path.files[k], path.rows[k])
    BY <1>4, <1>6, <2>1, <2>2
  <2>4. F(g)
    BY <2>1, <2>3
  <2> QED
    BY <2>4
<1>8. PICK f : Folded(n, s, first) = f[n] /\ F(f)
  <2> HIDE DEF F
  <2> QED
    BY <1>5, <1>7
<1>9. f[n] = Whole(n, s)
  <2> DEFINE S == {k \in base .. n : f[k] # Whole(k, s)}
  <2>1. \A k \in base .. n : f[k] = IF k = base THEN seed
              ELSE Under(p)!FoldOnto(f[k - 1], k, path.files[k], path.rows[k])
    BY <1>8
  <2>2. SUFFICES ASSUME S # {} PROVE FALSE
    BY <1>1, <1>4
  <2>3. PICK m \in S : \A k \in S : m <= k
    <3>1. S \in SUBSET Nat
      BY <1>1, <1>4
    <3> HIDE DEF S
    <3> QED
      BY <2>2, <3>1, Least
  <2>4. m # base
    BY <1>1, <1>4, <2>1
  <2>5. m - 1 \in base .. n /\ m - 1 \notin S /\ m \in base + 1 .. n /\ m \in base .. n
    BY <1>1, <1>4, <2>3, <2>4
  <2>6. f[m - 1] = Whole(m - 1, s) /\ f[m] # Whole(m, s)
    BY <2>3, <2>5
  <2>7. f[m] = Under(p)!FoldOnto(f[m - 1], m, path.files[m], path.rows[m])
    BY <2>1, <2>4, <2>5
  <2> QED
    BY <1>6, <2>5, <2>6, <2>7
<1> QED
  BY <1>8, <1>9

-----------------------------------------------------------------------------
(* Types.                                                                  *)

\* A Revision object: its node is one of the path's once it has a record.
RevTyped(v) ==
    /\ DOMAIN v = {"node", "record", "coords", "map", "made", "writes", "under", "folded"}
    /\ v.node \in 0 .. Len(path.rows)
    /\ v.under \in 1 .. manifest
    /\ v.record = NoRecord => v.writes = << >>
    /\ v.record # NoRecord =>
          /\ v.node \in Nodes
          /\ v.record.schema \in 1 .. manifest
          /\ v.record.first = 1 \/ v.record.first \in 1 .. v.node - 1

DiskTyped(disk) ==
    /\ DOMAIN disk = Nodes
    /\ \A n \in Nodes :
         /\ DOMAIN disk[n] = {"axes", "dead", "map"}
         /\ disk[n].map # NoTable => disk[n].map.key \in {Partials[s] : s \in 1 .. manifest}

Typed ==
    /\ path \in Paths /\ manifest \in Schemas
    /\ DOMAIN rev = Revisions /\ \A r \in Revisions : RevTyped(rev[r])
    /\ DiskTyped(resolved)

LEMMA TypedInitially == Init => Typed
<1> SUFFICES ASSUME Init PROVE Typed
  OBVIOUS
<1>1. path \in Paths /\ manifest = 1 /\ 1 \in Schemas /\ Len(path.rows) \in Nat
  BY SchemasAre, PathsAssumption DEF Init
<1>2. \A r \in Revisions : RevTyped(rev[r])
  BY <1>1 DEF Init, Fresh, RevTyped
<1>3. DiskTyped(resolved)
  BY DEF Init, DiskTyped, NoCacheYet
<1> QED
  BY <1>1, <1>2, <1>3 DEF Typed, Init

\* A step of one Revision object, and what it writes to disk.
LEMMA TypedStep ==
    ASSUME Typed, NEW r \in Revisions, UNCHANGED <<path, manifest>>,
           DOMAIN rev' = Revisions, \A q \in Revisions : q # r => rev'[q] = rev[q],
           RevTyped(rev'[r]), DiskTyped(resolved')
    PROVE  Typed'
<1>1. \A q \in Revisions : RevTyped(rev'[q])
  BY DEF Typed
<1>2. \A q \in Revisions : RevTyped(rev[q])'
  BY <1>1 DEF RevTyped, Nodes
<1>3. DiskTyped(resolved)'
  BY DEF DiskTyped, Nodes
<1> QED
  BY <1>2, <1>3 DEF Typed, Schemas

LEMMA TypedNext == Typed /\ [Next]_vars => Typed'
<1> SUFFICES ASSUME Typed, [Next]_vars PROVE Typed'
  OBVIOUS
<1>0. Len(path.rows) \in Nat /\ manifest \in Nat /\ 1 \in 1 .. manifest
  BY SchemasAre, WholeIs DEF Typed, Schemas
<1>1. ASSUME NEW r \in Revisions, NEW n \in Shallowest .. Len(path.rows), Hold(r, n) PROVE Typed'
  <2>1. n \in 0 .. Len(path.rows)
    BY <1>0, ShallowestAssumption
  <2>2. RevTyped(Fresh(n))
    BY <1>0, <2>1 DEF RevTyped, Fresh
  <2> QED
    BY <1>1, <2>2, TypedStep DEF Hold, Typed
<1>2. ASSUME NEW r \in Revisions, Build(r) PROVE Typed'
  <2>1. PICK n : n = rev[r].node /\ n \in Nodes /\ n \in Nat
    BY <1>0, <1>2 DEF Build, Typed, RevTyped, Nodes
  <2>2. FirstSource(n, manifest) = 1 \/ FirstSource(n, manifest) \in 1 .. n - 1
    <3> DEFINE stops == {k \in 1 .. n - 1 : CachedUnder(k, manifest)}
    <3>1. stops \in SUBSET Nat /\ n - 1 \in Nat /\ \A k \in stops : k <= n - 1
      BY <1>0, <2>1 DEF Nodes
    <3>2. stops # {} => \E k \in stops : \A j \in stops : j <= k
      <4> HIDE DEF stops
      <4> QED
        BY <3>1, Greatest
    <3> QED
      BY <3>2 DEF FirstSource
  <2>3. RevTyped(rev'[r])
    BY <1>2, <2>1, <2>2, <1>0 DEF Build, Typed, RevTyped
  <2> QED
    BY <1>2, <2>3, TypedStep DEF Build, Typed
<1>3. ASSUME NEW r \in Revisions,
             ReadCoords(r) \/ CreateCoords(r) \/ ReadMap(r) \/ CreateMap(r) \/ MaterialiseFails(r)
                 \/ Materialise(r)
      PROVE  Typed'
  <2>1. RevTyped(rev[r]) /\ UNCHANGED <<path, manifest, resolved>>
    BY <1>3 DEF Typed, ReadCoords, CreateCoords, ReadMap, CreateMap, MaterialiseFails, Materialise
  <2>2. ASSUME ReadCoords(r) PROVE RevTyped(rev'[r])
    BY <2>1, <2>2 DEF Typed, ReadCoords, RevTyped
  <2>3. ASSUME CreateCoords(r) PROVE RevTyped(rev'[r])
    BY <2>1, <2>3 DEF Typed, CreateCoords, RevTyped
  <2>4. ASSUME ReadMap(r) PROVE RevTyped(rev'[r])
    BY <2>1, <2>4 DEF Typed, ReadMap, RevTyped
  <2>5. ASSUME CreateMap(r) PROVE RevTyped(rev'[r])
    BY <2>1, <2>5 DEF Typed, CreateMap, RevTyped
  <2>6. ASSUME MaterialiseFails(r) PROVE RevTyped(rev'[r])
    BY <1>0, <2>1, <2>6 DEF Typed, MaterialiseFails, RevTyped
  <2>7. ASSUME Materialise(r) PROVE RevTyped(rev'[r])
    BY <1>0, <2>1, <2>7 DEF Typed, Materialise, Known, RevTyped
  <2>8. DOMAIN rev' = Revisions /\ \A q \in Revisions : q # r => rev'[q] = rev[q]
    BY <1>3 DEF Typed, ReadCoords, CreateCoords, ReadMap, CreateMap, MaterialiseFails, Materialise
  <2> QED
    BY <1>3, <2>1, <2>2, <2>3, <2>4, <2>5, <2>6, <2>7, <2>8, TypedStep DEF Typed
<1>4. ASSUME NEW r \in Revisions, WriteAxes(r) \/ WriteDead(r) \/ WriteMap(r) PROVE Typed'
  <2>1. /\ RevTyped(rev[r]) /\ DiskTyped(resolved) /\ rev[r].writes # << >>
        /\ rev[r].node \in Nodes
        /\ UNCHANGED <<path, manifest, tables>>
    BY <1>4 DEF Typed, WriteAxes, WriteDead, WriteMap, Writing, RevTyped
  <2>2. ASSUME WriteAxes(r) PROVE RevTyped(rev'[r]) /\ DiskTyped(resolved')
    BY <2>1, <2>2 DEF Typed, WriteAxes, Written, RevTyped, DiskTyped
  <2>3. ASSUME WriteDead(r) PROVE RevTyped(rev'[r]) /\ DiskTyped(resolved')
    BY <2>1, <2>3 DEF Typed, WriteDead, Written, RevTyped, DiskTyped
  <2>4. ASSUME WriteMap(r) PROVE RevTyped(rev'[r]) /\ DiskTyped(resolved')
    <3>1. RevTyped(Fresh(rev[r].node))
      BY <1>0, <2>1 DEF RevTyped, Fresh
    <3>2. RevTyped(rev'[r])
      BY <2>1, <2>4, <3>1 DEF Typed, WriteMap, Written, RevTyped
    <3>3. DiskTyped(resolved')
      BY <2>1, <2>4 DEF WriteMap, RevTyped, DiskTyped
    <3> QED
      BY <3>2, <3>3
  <2>5. DOMAIN rev' = Revisions /\ \A q \in Revisions : q # r => rev'[q] = rev[q]
    BY <1>4 DEF Typed, WriteAxes, WriteDead, WriteMap, Written
  <2> QED
    BY <1>4, <2>1, <2>2, <2>3, <2>4, <2>5, TypedStep
<1>5. ASSUME Crash PROVE Typed'
  <2>1. RevTyped(Fresh(0))
    BY <1>0 DEF RevTyped, Fresh
  <2> QED
    BY <1>5, <2>1 DEF Crash, Typed, RevTyped, DiskTyped, Nodes, Schemas
<1>6. ASSUME Widen PROVE Typed'
  <2>1. /\ manifest' = manifest + 1 /\ manifest' \in Schemas
        /\ \A k \in 1 .. manifest : k \in 1 .. manifest'
        /\ UNCHANGED <<path, resolved, rev>>
    BY <1>0, <1>6, SchemasAre DEF Widen, Schemas
  <2> QED
    BY <2>1 DEF Typed, RevTyped, DiskTyped, Nodes, Schemas
<1>7. CASE UNCHANGED vars
  BY <1>7 DEF vars, Typed, RevTyped, DiskTyped, Nodes, Schemas
<1> QED
  BY <1>1, <1>2, <1>3, <1>4, <1>5, <1>6, <1>7 DEF Next

\* Whoever reads, materialises, dies or widens `partial`: a record's schema is
\* one the manifest has had, its layers start above its node, and a cache's map
\* is keyed by a `partial` there has been.
THEOREM RecordsTypeCorrect == Spec => []TypeOK
<1>1. Typed => TypeOK
  BY DEF Typed, TypeOK, RevTyped, DiskTyped
<1> QED
  BY <1>1, TypedInitially, TypedNext, PTL DEF Spec

-----------------------------------------------------------------------------
(* The fold of every layer, where no record that rests on a cache outlives *)
(* its schema.                                                             *)

\* The axes, and the dead labels of the dims outside the `partial` of schema s.
CoordsOf(c, n, s) ==
    /\ c.axes = Whole(n, 1).axes
    /\ \A d \in AllDims \ Partials[s] : c.dead[d] = Whole(n, 1).dead[d]

AxesOnDisk(n) == resolved[n].axes = Whole(n, 1).axes
DeadOnDisk(n) == \A d \in AllDims \ Partials[manifest] : resolved[n].dead[d] = Whole(n, 1).dead[d]

\* What a Revision has read, or made to share, is the fold of every layer; one
\* that materialises has on disk what it has written.
RevWhole(v) ==
    /\ v.record = NoRecord => v.coords = NoTable /\ v.map = NoTable /\ v.made = NoTable
    /\ v.record # NoRecord =>
         /\ Starts(v.record.first, v.node, manifest)
         /\ v.record.first = 1 \/ v.record.schema = manifest
    /\ v.coords # NoTable => CoordsOf(v.coords, v.node, manifest)
    /\ v.map # NoTable => v.map = Whole(v.node, v.record.schema).map
    /\ v.made # NoTable /\ v.coords = NoTable => CoordsOf(v.made, v.node, manifest)
    /\ v.made # NoTable /\ v.coords # NoTable => v.made = Whole(v.node, v.record.schema).map
    /\ v.writes \in {<< >>, <<"axes", "dead", "map">>, <<"dead", "map">>, <<"map">>}
    /\ v.writes # << >> => v.under = manifest
    /\ v.writes = <<"dead", "map">> => AxesOnDisk(v.node) /\ v.folded = Whole(v.node, manifest).dead
    /\ v.writes = <<"map">> => AxesOnDisk(v.node) /\ DeadOnDisk(v.node)

\* What a materialise that failed left there is part of the fold too, and a
\* cache is whole for whoever reads it under its own key.
DiskWhole(n) ==
    /\ \A s \in 1 .. manifest : CacheWhole(n, s)
    /\ DOMAIN resolved[n].dead = AllDims
    /\ resolved[n].axes = [d \in AllDims |-> resolved[n].axes[d]]
    /\ \A d \in AllDims : resolved[n].axes[d] \in {NoFile, Whole(n, 1).axes[d]}
    /\ \A d \in AllDims \ Partials[1] : resolved[n].dead[d] \in {{}, Whole(n, 1).dead[d]}

\* A shared table of coords serves every schema so far with what it has outside
\* the widest `partial`, one of a map its own key's.
TablesWhole ==
    \A n \in Nodes :
        /\ CoordsName(n) \in DOMAIN tables => CoordsOf(tables[CoordsName(n)], n, manifest)
        /\ \A s \in Schemas : MapName(n, s) \in DOMAIN tables => tables[MapName(n, s)] = Whole(n, s).map

WholeInv ==
    /\ Typed
    /\ \A r \in Revisions : RevWhole(rev[r])
    /\ \A n \in Nodes : DiskWhole(n)
    /\ TablesWhole

LEMMA WholeInitially == Init => WholeInv
<1> SUFFICES ASSUME Init PROVE WholeInv
  OBVIOUS
<1>1. Typed
  BY TypedInitially
<1>2. \A r \in Revisions : RevWhole(rev[r])
  BY DEF Init, Fresh, RevWhole
<1>3. \A n \in Nodes : DiskWhole(n)
  BY DEF Init, NoCacheYet, DiskWhole, CacheWhole, CachedUnder
<1>4. TablesWhole
  BY DEF Init, TablesWhole
<1> QED
  BY <1>1, <1>2, <1>3, <1>4 DEF WholeInv

\* What the manifest has declared so far.
LEMMA SoFar ==
    ASSUME WholeInv
    PROVE  /\ path \in Paths /\ Len(path.rows) \in Nat /\ manifest \in Schemas /\ manifest \in Nat
           /\ 1 \in 1 .. manifest /\ manifest \in 1 .. manifest
           /\ \A s \in 1 .. manifest :
                /\ s \in Schemas
                /\ Partials[1] \subseteq Partials[s] /\ Partials[s] \subseteq Partials[manifest]
           /\ \A n \in Nodes : n \in Nat /\ n \in 0 .. Len(path.rows)
<1>1. path \in Paths /\ manifest \in Schemas /\ 1 \in Schemas /\ Len(Partials) \in Nat
  BY SchemasAre DEF WholeInv, Typed
<1>2. Len(path.rows) \in Nat
  BY <1>1, WholeIs
<1>3. \A s \in 1 .. manifest : s \in Schemas /\ 1 <= s /\ s <= manifest
  BY <1>1 DEF Schemas
<1> QED
  BY <1>1, <1>2, <1>3, SchemasAre DEF Schemas, Nodes

\* A Revision that has a record.
LEMMA RecordIs ==
    ASSUME WholeInv, NEW r \in Revisions, rev[r].record # NoRecord
    PROVE  /\ rev[r].node \in Nodes
           /\ rev[r].record.schema \in 1 .. manifest /\ rev[r].record.schema \in Schemas
           /\ rev[r].record.first \in Nat
           /\ Starts(rev[r].record.first, rev[r].node, manifest)
           /\ Starts(rev[r].record.first, rev[r].node, rev[r].record.schema)
<1>1. RevTyped(rev[r]) /\ RevWhole(rev[r])
  BY DEF WholeInv, Typed
<1>2. /\ rev[r].node \in Nodes /\ rev[r].record.schema \in 1 .. manifest
      /\ Starts(rev[r].record.first, rev[r].node, manifest)
      /\ rev[r].record.first = 1 \/ rev[r].record.schema = manifest
  BY <1>1 DEF RevTyped, RevWhole
<1> QED
  BY <1>2, SoFar DEF Starts

\* Whatever a Revision folds to read is the fold of its path under its own
\* record's schema, and what it folds to write the fold under the manifest's.
LEMMA FoldsWhole ==
    ASSUME WholeInv, NEW r \in Revisions, rev[r].record # NoRecord
    PROVE  /\ FoldNow(r) = Whole(rev[r].node, rev[r].record.schema)
           /\ rev[r].writes # << >> => FoldToWrite(r) = Whole(rev[r].node, manifest)
<1>1. \A s \in 1 .. manifest, k \in Nodes : CacheWhole(k, s)
  BY DEF WholeInv, DiskWhole
<1>2. Folded(rev[r].node, rev[r].record.schema, rev[r].record.first)
        = Whole(rev[r].node, rev[r].record.schema)
  <2>1. PICK s : s = rev[r].record.schema /\ s \in Schemas /\ \A k \in Nodes : CacheWhole(k, s)
    BY <1>1, RecordIs
  <2> QED
    BY <2>1, SoFar, RecordIs, FoldIsWhole
<1>3. Folded(rev[r].node, manifest, rev[r].record.first) = Whole(rev[r].node, manifest)
  <2>1. PICK s : s = manifest /\ s \in Schemas /\ \A k \in Nodes : CacheWhole(k, s)
    BY <1>1, SoFar
  <2> QED
    BY <2>1, SoFar, RecordIs, FoldIsWhole
<1>4. rev[r].writes # << >> => rev[r].under = manifest
  BY DEF WholeInv, RevWhole
<1> QED
  BY <1>2, <1>3, <1>4 DEF FoldNow, FoldToWrite

\* Axes and dead labels folded under a schema there has been answer for every
\* dim outside the manifest's `partial`.
LEMMA FoldedCoords ==
    ASSUME WholeInv, NEW s \in 1 .. manifest, NEW n \in Nodes, NEW c,
           c.axes = Whole(n, s).axes, c.dead = Whole(n, s).dead
    PROVE  CoordsOf(c, n, manifest)
<1>1. /\ path \in Paths /\ s \in Schemas /\ n \in 0 .. Len(path.rows)
      /\ Partials[s] \subseteq Partials[manifest]
  BY SoFar
<1> QED
  BY <1>1, AsFirst DEF CoordsOf

\* What is on disk for a read stays there.
Stays ==
    \A n \in Nodes :
        /\ CachedUnder(n, manifest) => CachedUnder(n, manifest)'
        /\ AxesOnDisk(n) => AxesOnDisk(n)'
        /\ DeadOnDisk(n) => DeadOnDisk(n)'

LEMMA OthersWhole ==
    ASSUME WholeInv, UNCHANGED <<path, manifest>>, Stays,
           NEW q \in Revisions, rev'[q] = rev[q]
    PROVE  RevWhole(rev[q])'
<1>1. RevWhole(rev[q]) /\ RevTyped(rev[q])
  BY DEF WholeInv, Typed
<1>2. rev[q].writes # << >> => rev[q].node \in Nodes
  BY <1>1 DEF RevTyped
<1>3. rev[q].record # NoRecord => Starts(rev[q].record.first, rev[q].node, manifest)'
  <2>1. CASE rev[q].record # NoRecord /\ rev[q].record.first # 1
    <3>1. rev[q].record.first \in Nodes /\ Starts(rev[q].record.first, rev[q].node, manifest)
      BY <1>1, <2>1, WholeIs DEF RevWhole, RevTyped, Nodes, WholeInv, Typed
    <3> QED
      BY <3>1 DEF Stays, Starts
  <2>2. CASE rev[q].record.first = 1
    BY <2>2 DEF Starts
  <2> QED
    BY <2>1, <2>2
<1>4. PICK n : n = rev[q].node
  OBVIOUS
<1>6. /\ rev[q].writes = <<"dead", "map">> => AxesOnDisk(n)'
      /\ rev[q].writes = <<"map">> => AxesOnDisk(n)' /\ DeadOnDisk(n)'
  <2>1. <<"dead", "map">> # << >> /\ <<"map">> # << >>
    OBVIOUS
  <2>2. rev[q].writes = <<"dead", "map">> \/ rev[q].writes = <<"map">> => n \in Nodes
    BY <1>2, <1>4, <2>1
  <2>3. /\ rev[q].writes = <<"dead", "map">> => AxesOnDisk(n)
        /\ rev[q].writes = <<"map">> => AxesOnDisk(n) /\ DeadOnDisk(n)
    BY <1>1, <1>4 DEF RevWhole
  <2> QED
    BY <2>2, <2>3 DEF Stays
<1>5. PICK v : v = rev[q] /\ v = rev'[q]
  OBVIOUS
<1>7. /\ v.record # NoRecord => v.record.first = 1 \/ v.record.schema = manifest'
      /\ v.coords # NoTable => CoordsOf(v.coords, v.node, manifest)'
      /\ v.map # NoTable => v.map = Whole(v.node, v.record.schema)'.map
      /\ v.made # NoTable /\ v.coords = NoTable => CoordsOf(v.made, v.node, manifest)'
      /\ v.made # NoTable /\ v.coords # NoTable => v.made = Whole(v.node, v.record.schema)'.map
      /\ v.writes # << >> => v.under = manifest'
      /\ v.writes = <<"dead", "map">> => v.folded = Whole(v.node, manifest)'.dead
  BY <1>1, <1>5 DEF RevWhole, CoordsOf, Whole
<1>8. /\ v.record = NoRecord => v.coords = NoTable /\ v.map = NoTable /\ v.made = NoTable
      /\ v.writes \in {<< >>, <<"axes", "dead", "map">>, <<"dead", "map">>, <<"map">>}
  BY <1>1, <1>5 DEF RevWhole
<1>9. /\ v.record # NoRecord => Starts(v.record.first, v.node, manifest)'
      /\ v.writes = <<"dead", "map">> => AxesOnDisk(v.node)'
      /\ v.writes = <<"map">> => AxesOnDisk(v.node)' /\ DeadOnDisk(v.node)'
  BY <1>3, <1>4, <1>5, <1>6
<1> QED
  BY <1>5, <1>7, <1>8, <1>9 DEF RevWhole, CoordsOf, Whole, Starts, CachedUnder, AxesOnDisk, DeadOnDisk

LEMMA WholeStep ==
    ASSUME WholeInv, Typed', UNCHANGED <<path, manifest>>, Stays,
           NEW r \in Revisions, \A q \in Revisions : q # r => rev'[q] = rev[q],
           RevWhole(rev[r])', (\A n \in Nodes : DiskWhole(n))', TablesWhole'
    PROVE  WholeInv'
<1>1. \A q \in Revisions : RevWhole(rev[q])'
  BY OthersWhole
<1> QED
  BY <1>1 DEF WholeInv

LEMMA SameDisk ==
    ASSUME WholeInv, UNCHANGED <<path, manifest, resolved>>
    PROVE  Stays /\ (\A n \in Nodes : DiskWhole(n))'
<1>1. Stays
  BY DEF Stays, CachedUnder, AxesOnDisk, DeadOnDisk, Whole
<1>2. \A n \in Nodes : DiskWhole(n)
  BY DEF WholeInv
<1>3. \A n \in Nodes : DiskWhole(n)'
  <2> TAKE n \in Nodes
  <2>1. DiskWhole(n)
    BY <1>2
  <2>2. \A s \in 1 .. manifest : CacheWhole(n, s)'
    <3> TAKE s \in 1 .. manifest
    <3>1. CacheWhole(n, s)
      BY <2>1 DEF DiskWhole
    <3> QED
      BY <3>1 DEF CacheWhole, CachedUnder, Whole
  <2>3. /\ DOMAIN resolved'[n].dead = AllDims
        /\ resolved'[n].axes = [d \in AllDims |-> resolved'[n].axes[d]]
        /\ \A d \in AllDims : resolved'[n].axes[d] \in {NoFile, Whole(n, 1)'.axes[d]}
        /\ \A d \in AllDims \ Partials[1] : resolved'[n].dead[d] \in {{}, Whole(n, 1)'.dead[d]}
    BY <2>1 DEF DiskWhole, Whole
  <2> QED
    BY <2>2, <2>3 DEF DiskWhole
<1>4. Nodes' = Nodes
  BY DEF Nodes
<1> QED
  BY <1>1, <1>3, <1>4

LEMMA SameTables ==
    ASSUME WholeInv, UNCHANGED <<path, manifest, tables>>
    PROVE  TablesWhole'
<1>1. TablesWhole
  BY DEF WholeInv
<1> QED
  BY <1>1 DEF TablesWhole, CoordsOf, CoordsName, MapName, Whole, Nodes

LEMMA HoldBuildWhole ==
    ASSUME WholeInv, Typed', NEW r \in Revisions,
           (\E n \in Shallowest .. Len(path.rows) : Hold(r, n)) \/ Build(r)
    PROVE  WholeInv'
<1>1. UNCHANGED <<path, manifest, resolved, tables>> /\ \A q \in Revisions : q # r => rev'[q] = rev[q]
  BY DEF Hold, Build, WholeInv, Typed
<1>2. RevWhole(rev[r]) /\ RevTyped(rev[r]) /\ DOMAIN rev = Revisions
  BY DEF WholeInv, Typed
<1>3. ASSUME NEW n, Hold(r, n) PROVE RevWhole(rev[r])'
  <2>1. rev'[r] = Fresh(n)
    BY <1>2, <1>3 DEF Hold
  <2> QED
    BY <2>1 DEF RevWhole, Fresh
<1>4. ASSUME Build(r) PROVE RevWhole(rev[r])'
  <2>1. PICK n : n = rev[r].node /\ n \in Nodes /\ n \in Nat
    BY <1>2, <1>4, WholeIs DEF Build, RevTyped, Nodes, WholeInv, Typed
  <2>2. Starts(FirstSource(n, manifest), n, manifest)
    <3> DEFINE stops == {k \in 1 .. n - 1 : CachedUnder(k, manifest)}
    <3>1. stops \in SUBSET Nat /\ n - 1 \in Nat /\ \A k \in stops : k <= n - 1
      BY <2>1, WholeIs DEF Nodes, WholeInv, Typed
    <3>2. stops # {} => \E k \in stops : \A j \in stops : j <= k
      <4> HIDE DEF stops
      <4> QED
        BY <3>1, Greatest
    <3> QED
      BY <3>2 DEF FirstSource, Starts
  <2>3. /\ rev'[r].record = [schema |-> manifest, first |-> FirstSource(n, manifest)]
        /\ \A f \in DOMAIN rev[r] : f # "record" => rev'[r][f] = rev[r][f]
    BY <1>2, <1>4, <2>1 DEF Build
  <2>4. /\ rev[r].coords = NoTable /\ rev[r].map = NoTable /\ rev[r].made = NoTable
        /\ rev[r].writes = << >>
    BY <1>2, <1>4 DEF Build, RevWhole, RevTyped
  <2>5. /\ rev'[r].coords = NoTable /\ rev'[r].map = NoTable /\ rev'[r].made = NoTable
        /\ rev'[r].writes = << >> /\ rev'[r].node = n
    BY <1>2, <2>1, <2>3, <2>4 DEF RevTyped
  <2>6. Starts(rev[r].record.first, rev[r].node, manifest)' /\ rev'[r].record.schema = manifest'
    BY <1>1, <2>2, <2>3, <2>5 DEF Starts, CachedUnder
  <2> QED
    BY <1>1, <2>5, <2>6 DEF RevWhole
<1> QED
  BY <1>1, <1>3, <1>4, SameDisk, SameTables, WholeStep

\* A read of a record sets what it has read to what the fold of its path gives.
LEMMA ReadWhole ==
    ASSUME WholeInv, UNCHANGED <<path, manifest, resolved>>, NEW r \in Revisions, NEW n, NEW w,
           n = rev[r].node, w = Whole(n, rev[r].record.schema),
           rev[r].record # NoRecord,
           rev'[r].record = rev[r].record, rev'[r].node = n, rev'[r].writes = << >>,
           rev'[r].coords # NoTable => CoordsOf(rev'[r].coords, n, manifest),
           rev'[r].map # NoTable => rev'[r].map = w.map,
           rev'[r].made # NoTable /\ rev'[r].coords = NoTable => CoordsOf(rev'[r].made, n, manifest),
           rev'[r].made # NoTable /\ rev'[r].coords # NoTable => rev'[r].made = w.map
    PROVE  RevWhole(rev[r])'
<1>1. /\ Starts(rev[r].record.first, n, manifest)
      /\ rev[r].record.first = 1 \/ rev[r].record.schema = manifest
  BY DEF WholeInv, RevWhole
<1>2. PICK v : v = rev'[r]
  OBVIOUS
<1>3. /\ v.record # NoRecord /\ Starts(v.record.first, v.node, manifest)'
      /\ v.record.first = 1 \/ v.record.schema = manifest'
      /\ v.writes = << >> /\ v.writes # <<"dead", "map">> /\ v.writes # <<"map">>
  <2>1. <<"dead", "map">> # << >> /\ <<"map">> # << >>
    OBVIOUS
  <2>2. v.record # NoRecord /\ v.record = rev[r].record /\ v.node = n /\ v.writes = << >>
    BY <1>2
  <2>3. v.record.first = 1 \/ v.record.schema = manifest'
    BY <1>1, <2>2
  <2>4. Starts(v.record.first, v.node, manifest)'
    BY <1>1, <2>2 DEF Starts, CachedUnder
  <2> QED
    BY <2>1, <2>2, <2>3, <2>4
<1>4. /\ v.coords # NoTable => CoordsOf(v.coords, v.node, manifest)'
      /\ v.map # NoTable => v.map = Whole(v.node, v.record.schema)'.map
      /\ v.made # NoTable /\ v.coords = NoTable => CoordsOf(v.made, v.node, manifest)'
      /\ v.made # NoTable /\ v.coords # NoTable => v.made = Whole(v.node, v.record.schema)'.map
  BY <1>2 DEF CoordsOf, Whole
<1> QED
  BY <1>2, <1>3, <1>4 DEF RevWhole, CoordsOf, Starts, CachedUnder, Whole

LEMMA ReadsStayWhole ==
    ASSUME WholeInv, Typed', NEW r \in Revisions, ReadCoords(r) \/ ReadMap(r)
    PROVE  WholeInv'
<1>1. UNCHANGED <<path, manifest, resolved, tables>> /\ \A q \in Revisions : q # r => rev'[q] = rev[q]
  BY DEF ReadCoords, ReadMap, WholeInv, Typed
<1>2. /\ RevWhole(rev[r]) /\ RevTyped(rev[r]) /\ DOMAIN rev = Revisions /\ TablesWhole
      /\ rev[r].record # NoRecord /\ rev[r].writes = << >>
  BY DEF WholeInv, Typed, ReadCoords, ReadMap, Known
<1>3. PICK n, s : n = rev[r].node /\ s = rev[r].record.schema
  OBVIOUS
<1>4. PICK w : w = Whole(n, s)
  OBVIOUS
<1>5. n \in Nodes /\ FoldNow(r) = w /\ s \in Schemas /\ s \in 1 .. manifest
  BY <1>2, <1>3, <1>4, FoldsWhole, RecordIs
<1>6. ASSUME ReadCoords(r) PROVE RevWhole(rev[r])'
  <2>1. \/ /\ CoordsName(n) \in DOMAIN tables
           /\ rev'[r] = [rev[r] EXCEPT !.coords = tables[CoordsName(n)]]
        \/ rev'[r] = [rev[r] EXCEPT !.made = [axes |-> w.axes, dead |-> w.dead]]
    BY <1>2, <1>3, <1>5, <1>6 DEF ReadCoords
  <2>2. CoordsName(n) \in DOMAIN tables => CoordsOf(tables[CoordsName(n)], n, manifest)
    BY <1>2, <1>5 DEF TablesWhole
  <2>3. CoordsOf([axes |-> w.axes, dead |-> w.dead], n, manifest)
    BY <1>4, <1>5, FoldedCoords
  <2>4. PICK c : /\ CoordsOf(c, n, manifest)
                 /\ \/ rev'[r] = [rev[r] EXCEPT !.coords = c]
                    \/ rev'[r] = [rev[r] EXCEPT !.made = c]
    BY <2>1, <2>2, <2>3
  <2>5. rev[r].coords = NoTable /\ rev[r].made = NoTable
    BY <1>6 DEF ReadCoords
  <2>6. /\ rev'[r].record = rev[r].record /\ rev'[r].node = n /\ rev'[r].writes = << >>
        /\ rev'[r].map = rev[r].map
        /\ \/ rev'[r].coords = c /\ rev'[r].made = NoTable
           \/ rev'[r].coords = NoTable /\ rev'[r].made = c
    BY <1>2, <1>3, <1>5, <2>4, <2>5 DEF RevTyped
  <2>7. rev[r].map # NoTable => rev[r].map = w.map
    BY <1>2, <1>3, <1>4 DEF RevWhole
  <2> QED
    BY <1>1, <1>2, <1>3, <1>4, <2>4, <2>6, <2>7, ReadWhole
<1>7. ASSUME ReadMap(r) PROVE RevWhole(rev[r])'
  <2>1. \/ /\ CachedUnder(n, s)
           /\ rev'[r] = [rev[r] EXCEPT !.map = resolved[n].map.rows]
        \/ /\ MapName(n, s) \in DOMAIN tables
           /\ rev'[r] = [rev[r] EXCEPT !.map = tables[MapName(n, s)]]
        \/ rev'[r] = [rev[r] EXCEPT !.made = w.map]
    BY <1>2, <1>3, <1>5, <1>7 DEF ReadMap
  <2>2. MapName(n, s) \in DOMAIN tables => tables[MapName(n, s)] = w.map
    BY <1>2, <1>4, <1>5 DEF TablesWhole
  <2>3. CachedUnder(n, s) => resolved[n].map.rows = w.map
    <3>1. CacheWhole(n, s)
      BY <1>5 DEF WholeInv, DiskWhole
    <3> QED
      BY <1>4, <3>1 DEF CacheWhole
  <2>4. rev'[r] = [rev[r] EXCEPT !.map = w.map] \/ rev'[r] = [rev[r] EXCEPT !.made = w.map]
    BY <2>1, <2>2, <2>3
  <2>5. rev[r].coords # NoTable /\ rev[r].made = NoTable
    BY <1>7 DEF ReadMap
  <2>6. /\ rev'[r].record = rev[r].record /\ rev'[r].node = n /\ rev'[r].writes = << >>
        /\ rev'[r].coords = rev[r].coords
        /\ rev'[r].map = w.map \/ rev'[r].map = rev[r].map
        /\ rev'[r].made = w.map \/ rev'[r].made = NoTable
    BY <1>2, <1>3, <1>5, <2>4, <2>5 DEF RevTyped
  <2>7. /\ rev[r].map # NoTable => rev[r].map = w.map
        /\ CoordsOf(rev[r].coords, n, manifest)
    BY <1>2, <1>3, <1>4, <2>5 DEF RevWhole
  <2> QED
    BY <1>1, <1>2, <1>3, <1>4, <2>5, <2>6, <2>7, ReadWhole
<1> QED
  BY <1>1, <1>6, <1>7, SameDisk, SameTables, WholeStep

\* Whether it made the table or met another's, the one shared is the fold.
LEMMA SharedWhole ==
    ASSUME WholeInv, NEW n \in Nodes, NEW u \in Schemas, NEW name, NEW made,
           \/ name = CoordsName(n) /\ CoordsOf(made, n, manifest)
           \/ name = MapName(n, u) /\ made = Whole(n, u).map
    PROVE  /\ name = CoordsName(n) => CoordsOf(SharedTable(name, made), n, manifest)
           /\ name = MapName(n, u) => SharedTable(name, made) = Whole(n, u).map
           /\ UNCHANGED <<path, manifest>> /\ Share(name, made) => TablesWhole'
<1>1. TablesWhole /\ manifest \in Schemas /\ path \in Paths
  BY DEF WholeInv, Typed
<1>2. \A k, j, s : CoordsName(k) # MapName(j, s)
  BY DEF CoordsName, MapName
<1>3. \A k, j : CoordsName(k) = CoordsName(j) => k = j
  BY DEF CoordsName
<1>4. \A k, j, s, t : MapName(k, s) = MapName(j, t) => k = j /\ Partials[s] = Partials[t]
  BY DEF MapName
<1>5. name = CoordsName(n) => CoordsOf(SharedTable(name, made), n, manifest)
  BY <1>1, <1>2 DEF TablesWhole, SharedTable
<1>6. name = MapName(n, u) => SharedTable(name, made) = Whole(n, u).map
  BY <1>1, <1>2 DEF TablesWhole, SharedTable
<1>7. ASSUME UNCHANGED <<path, manifest>>, Share(name, made) PROVE TablesWhole'
  <2>1. PICK t : /\ t = tables' /\ DOMAIN t = DOMAIN tables \cup {name}
                 /\ t[name] = SharedTable(name, made)
                 /\ \A x \in DOMAIN tables : x # name => t[x] = tables[x]
    BY <1>7 DEF Share
  <2>2. ASSUME NEW k \in Nodes, CoordsName(k) \in DOMAIN t
        PROVE  CoordsOf(t[CoordsName(k)], k, manifest)
    <3>1. CASE CoordsName(k) = name
      BY <1>2, <1>3, <1>5, <2>1, <3>1
    <3>2. CASE CoordsName(k) # name
      BY <1>1, <2>1, <2>2, <3>2 DEF TablesWhole
    <3> QED
      BY <3>1, <3>2
  <2>3. ASSUME NEW k \in Nodes, NEW s \in Schemas, MapName(k, s) \in DOMAIN t
        PROVE  t[MapName(k, s)] = Whole(k, s).map
    <3>1. CASE MapName(k, s) = name
      <4>1. name = MapName(n, u) /\ k = n /\ Partials[s] = Partials[u]
        BY <1>2, <1>4, <3>1
      <4>2. Whole(k, s) = Whole(n, u)
        BY <1>1, <4>1, SameKey
      <4> QED
        BY <1>6, <2>1, <3>1, <4>1, <4>2
    <3>2. CASE MapName(k, s) # name
      BY <1>1, <2>1, <2>3, <3>2 DEF TablesWhole
    <3> QED
      BY <3>1, <3>2
  <2>4. \A k \in Nodes :
          /\ CoordsName(k) \in DOMAIN t => CoordsOf(t[CoordsName(k)], k, manifest)
          /\ \A s \in Schemas : MapName(k, s) \in DOMAIN t => t[MapName(k, s)] = Whole(k, s).map
    BY <2>2, <2>3
  <2> QED
    BY <1>7, <2>1, <2>4 DEF TablesWhole, CoordsOf, Whole, Nodes, CoordsName, MapName
<1> QED
  BY <1>5, <1>6, <1>7

LEMMA SharesStayWhole ==
    ASSUME WholeInv, Typed', NEW r \in Revisions, CreateCoords(r) \/ CreateMap(r)
    PROVE  WholeInv'
<1>1. UNCHANGED <<path, manifest, resolved>> /\ \A q \in Revisions : q # r => rev'[q] = rev[q]
  BY DEF CreateCoords, CreateMap, WholeInv, Typed
<1>2. /\ RevWhole(rev[r]) /\ RevTyped(rev[r]) /\ DOMAIN rev = Revisions
      /\ rev[r].record # NoRecord /\ rev[r].writes = << >>
  BY DEF WholeInv, Typed, CreateCoords, CreateMap, Known
<1>3. PICK n, s : n = rev[r].node /\ s = rev[r].record.schema
  OBVIOUS
<1>4. PICK w : w = Whole(n, s)
  OBVIOUS
<1>5. n \in Nodes /\ s \in Schemas
  BY <1>2, <1>3, RecordIs
<1>6. ASSUME CreateCoords(r) PROVE RevWhole(rev[r])' /\ TablesWhole'
  <2>1. rev[r].coords = NoTable /\ CoordsOf(rev[r].made, n, manifest)
    BY <1>2, <1>3, <1>6 DEF CreateCoords, RevWhole
  <2>2. PICK c : c = SharedTable(CoordsName(n), rev[r].made)
    OBVIOUS
  <2>3. CoordsOf(c, n, manifest) /\ TablesWhole'
    BY <1>1, <1>3, <1>5, <1>6, <2>1, <2>2, SharedWhole DEF CreateCoords
  <2>4. tables'[CoordsName(n)] = c
    BY <1>3, <1>6, <2>2 DEF CreateCoords, Share
  <2>5. /\ rev'[r].record = rev[r].record /\ rev'[r].node = n /\ rev'[r].writes = << >>
        /\ rev'[r].coords = c /\ rev'[r].made = NoTable /\ rev'[r].map = rev[r].map
    BY <1>2, <1>3, <1>6, <2>4 DEF CreateCoords, RevTyped
  <2>6. rev[r].map # NoTable => rev[r].map = w.map
    BY <1>2, <1>3, <1>4 DEF RevWhole
  <2> QED
    BY <1>1, <1>2, <1>3, <1>4, <2>3, <2>5, <2>6, ReadWhole
<1>7. ASSUME CreateMap(r) PROVE RevWhole(rev[r])' /\ TablesWhole'
  <2>1. /\ rev[r].coords # NoTable /\ CoordsOf(rev[r].coords, n, manifest)
        /\ rev[r].made = w.map
    BY <1>2, <1>3, <1>4, <1>7 DEF CreateMap, RevWhole
  <2>2. PICK m : m = SharedTable(MapName(n, s), rev[r].made)
    OBVIOUS
  <2>3. m = w.map /\ TablesWhole'
    BY <1>1, <1>3, <1>4, <1>5, <1>7, <2>1, <2>2, SharedWhole DEF CreateMap
  <2>4. tables'[MapName(n, s)] = m
    BY <1>3, <1>7, <2>2 DEF CreateMap, Share
  <2>5. /\ rev'[r].record = rev[r].record /\ rev'[r].node = n /\ rev'[r].writes = << >>
        /\ rev'[r].coords = rev[r].coords /\ rev'[r].made = NoTable /\ rev'[r].map = w.map
    BY <1>2, <1>3, <1>7, <2>3, <2>4 DEF CreateMap, RevTyped
  <2> QED
    BY <1>1, <1>2, <1>3, <1>4, <2>1, <2>3, <2>5, ReadWhole
<1> QED
  BY <1>1, <1>6, <1>7, SameDisk, WholeStep

LEMMA MaterialiseStaysWhole ==
    ASSUME WholeInv, Typed', NEW r \in Revisions, Materialise(r) \/ MaterialiseFails(r)
    PROVE  WholeInv'
<1>1. UNCHANGED <<path, manifest, resolved, tables>> /\ \A q \in Revisions : q # r => rev'[q] = rev[q]
  BY DEF Materialise, MaterialiseFails, WholeInv, Typed
<1>2. RevWhole(rev[r]) /\ RevTyped(rev[r]) /\ DOMAIN rev = Revisions
  BY DEF WholeInv, Typed
<1>3. PICK n, s : n = rev[r].node /\ s = rev[r].record.schema
  OBVIOUS
<1>4. PICK w : w = Whole(n, s)
  OBVIOUS
<1>5. /\ rev[r].record # NoRecord
      /\ Starts(rev[r].record.first, n, manifest)
      /\ rev[r].record.first = 1 \/ rev[r].record.schema = manifest
      /\ rev[r].coords # NoTable => CoordsOf(rev[r].coords, n, manifest)
      /\ rev[r].map # NoTable => rev[r].map = w.map
      /\ rev[r].made # NoTable /\ rev[r].coords = NoTable => CoordsOf(rev[r].made, n, manifest)
      /\ rev[r].made # NoTable /\ rev[r].coords # NoTable => rev[r].made = w.map
  BY <1>2, <1>3, <1>4 DEF Materialise, MaterialiseFails, Known, RevTyped, RevWhole
<1>6. ASSUME Materialise(r) PROVE RevWhole(rev[r])'
  <2>1. PICK v : v = rev'[r]
    OBVIOUS
  <2>2. /\ v.record = rev[r].record /\ v.node = n /\ v.under = manifest
        /\ v.writes = <<"axes", "dead", "map">>
        /\ v.coords = NoTable /\ v.map = NoTable /\ v.made = NoTable
    BY <1>2, <1>3, <1>6, <2>1 DEF Materialise, WriteOrder, RevTyped
  <2>3. <<"axes", "dead", "map">> # <<"dead", "map">> /\ <<"axes", "dead", "map">> # <<"map">>
    OBVIOUS
  <2>4. /\ v.record.first = 1 \/ v.record.schema = manifest'
        /\ Starts(v.record.first, v.node, manifest)'
    BY <1>1, <1>5, <2>2 DEF Starts, CachedUnder
  <2>5. v.record # NoRecord /\ v.under = manifest'
    BY <1>1, <1>5, <2>2
  <2> QED
    BY <2>1, <2>2, <2>3, <2>4, <2>5 DEF RevWhole, Starts, CachedUnder
<1>7. ASSUME MaterialiseFails(r) PROVE RevWhole(rev[r])'
  <2>1. /\ rev'[r].record = rev[r].record /\ rev'[r].node = n /\ rev'[r].writes = << >>
        /\ rev'[r].coords = rev[r].coords /\ rev'[r].map = rev[r].map /\ rev'[r].made = rev[r].made
    BY <1>2, <1>3, <1>7 DEF MaterialiseFails, RevTyped
  <2> QED
    BY <1>1, <1>3, <1>4, <1>5, <2>1, ReadWhole
<1> QED
  BY <1>1, <1>6, <1>7, SameDisk, SameTables, WholeStep

\* A file a materialise writes is the fold's, and the map's comes when the others
\* are there.
LEMMA DiskStep ==
    ASSUME WholeInv, UNCHANGED <<path, manifest>>, NEW n \in Nodes,
           \A k \in Nodes : k # n => resolved'[k] = resolved[k],
           resolved'[n].axes = Whole(n, 1).axes \/ resolved'[n].axes = resolved[n].axes,
           DOMAIN resolved'[n].dead = AllDims,
           \A d \in AllDims :
               \/ d \notin Partials[manifest] /\ resolved'[n].dead[d] = Whole(n, 1).dead[d]
               \/ resolved'[n].dead[d] = resolved[n].dead[d],
           \/ resolved'[n].map = resolved[n].map
           \/ /\ resolved'[n].map = [key |-> Partials[manifest], rows |-> Whole(n, manifest).map]
              /\ resolved'[n].axes = Whole(n, 1).axes
              /\ \A d \in AllDims \ Partials[manifest] : resolved'[n].dead[d] = Whole(n, 1).dead[d]
    PROVE  Stays /\ (\A k \in Nodes : DiskWhole(k))'
<1>0. PICK w, e : w = Whole(n, 1) /\ e = resolved'[n]
  OBVIOUS
<1>1. /\ path \in Paths /\ manifest \in Schemas /\ \A k \in Nodes : DiskWhole(k)
      /\ n \in 0 .. Len(path.rows) /\ 1 \in Schemas
      /\ \A s \in 1 .. manifest : s \in Schemas /\ Partials[1] \subseteq Partials[s]
      /\ Partials[1] \subseteq Partials[manifest] /\ manifest \in 1 .. manifest
  BY SoFar, SchemasAre DEF WholeInv
<1>2. w.axes = [d \in AllDims |-> w.axes[d]]
  <2>1. PICK s : s = 1 /\ s \in Schemas
    BY <1>1
  <2>2. Whole(n, s).axes = [d \in AllDims |-> Whole(n, s).axes[d]]
    BY <1>1, <2>1, WholeShape
  <2> QED
    BY <1>0, <2>1, <2>2
<1>3. ASSUME NEW s \in 1 .. manifest
      PROVE  /\ Whole(n, s).axes = w.axes
             /\ \A d \in AllDims \ Partials[s] : Whole(n, s).dead[d] = w.dead[d]
  BY <1>0, <1>1, AsFirst
<1>4. ASSUME NEW s \in 1 .. manifest, e.map # NoTable, e.map.key = Partials[s]
      PROVE  /\ e.map = [key |-> Partials[s], rows |-> Whole(n, s).map]
             /\ e.axes = w.axes
             /\ \A d \in AllDims \ Partials[s] : e.dead[d] = w.dead[d]
  <2>1. CASE e.map = resolved[n].map
    <3>1. CachedUnder(n, s) /\ CacheWhole(n, s)
      BY <1>1, <1>4, <2>1 DEF CachedUnder, DiskWhole
    <3>2. /\ resolved[n].map = [key |-> Partials[s], rows |-> Whole(n, s).map]
          /\ resolved[n].axes = w.axes
          /\ \A d \in AllDims \ Partials[s] : resolved[n].dead[d] = w.dead[d]
      BY <1>3, <3>1 DEF CacheWhole
    <3>3. \A d \in AllDims : e.dead[d] = w.dead[d] \/ e.dead[d] = resolved[n].dead[d]
      BY <1>0
    <3>4. e.axes = w.axes \/ e.axes = resolved[n].axes
      BY <1>0
    <3> QED
      BY <2>1, <3>2, <3>3, <3>4
  <2>2. CASE /\ e.map = [key |-> Partials[manifest], rows |-> Whole(n, manifest).map]
             /\ e.axes = w.axes
             /\ \A d \in AllDims \ Partials[manifest] : e.dead[d] = w.dead[d]
    <3>1. Partials[s] = Partials[manifest]
      BY <1>4, <2>2
    <3>2. Whole(n, s) = Whole(n, manifest)
      BY <1>1, <3>1, SameKey
    <3> QED
      BY <2>2, <3>1, <3>2
  <2> QED
    BY <1>0, <2>1, <2>2
<1>5. ASSUME NEW k \in Nodes, k # n
      PROVE  /\ CachedUnder(k, manifest) => CachedUnder(k, manifest)'
             /\ AxesOnDisk(k) => AxesOnDisk(k)'
             /\ DeadOnDisk(k) => DeadOnDisk(k)'
             /\ DiskWhole(k)'
  <2>1. DiskWhole(k) /\ resolved'[k] = resolved[k]
    BY <1>1, <1>5
  <2>2. \A s : CachedUnder(k, s)' <=> CachedUnder(k, s)
    BY <2>1 DEF CachedUnder
  <2>3. \A s : Whole(k, s)' = Whole(k, s)
    BY DEF Whole
  <2>4. \A s : CacheWhole(k, s) => CacheWhole(k, s)'
    BY <2>1, <2>2, <2>3 DEF CacheWhole
  <2>5. DiskWhole(k)'
    BY <2>1, <2>3, <2>4 DEF DiskWhole
  <2> QED
    BY <2>1, <2>2, <2>3, <2>5 DEF AxesOnDisk, DeadOnDisk
<1>6. /\ CachedUnder(n, manifest) => CachedUnder(n, manifest)'
      /\ AxesOnDisk(n) => AxesOnDisk(n)'
      /\ DeadOnDisk(n) => DeadOnDisk(n)'
  <2>1. CachedUnder(n, manifest) => e.map # NoTable /\ e.map.key = Partials[manifest]
    <3>1. CASE e.map = resolved[n].map
      BY <3>1 DEF CachedUnder
    <3>2. CASE e.map = [key |-> Partials[manifest], rows |-> Whole(n, manifest).map]
      <4>1. SUFFICES ASSUME CachedUnder(n, manifest) PROVE e.map # NoTable
        BY <3>2
      <4>2. CacheWhole(n, manifest)
        BY <1>1 DEF DiskWhole
      <4>3. resolved[n].map = e.map /\ resolved[n].map # NoTable
        BY <3>2, <4>1, <4>2 DEF CacheWhole, CachedUnder
      <4> QED
        BY <4>3
    <3> QED
      BY <1>0, <3>1, <3>2
  <2>2. CachedUnder(n, manifest) => CachedUnder(n, manifest)'
    BY <1>0, <2>1 DEF CachedUnder
  <2> QED
    BY <1>0, <2>2 DEF AxesOnDisk, DeadOnDisk, Whole
<1>7. DiskWhole(n)'
  <2>1. DiskWhole(n)
    BY <1>1
  <2>2. /\ DOMAIN e.dead = AllDims
        /\ e.axes = [d \in AllDims |-> e.axes[d]]
        /\ \A d \in AllDims : e.axes[d] \in {NoFile, w.axes[d]}
    BY <1>0, <1>2, <2>1 DEF DiskWhole
  <2>3. \A d \in AllDims \ Partials[1] : e.dead[d] \in {{}, w.dead[d]}
    BY <1>0, <2>1 DEF DiskWhole
  <2>4. ASSUME NEW s \in 1 .. manifest PROVE CacheWhole(n, s)'
    <3>1. /\ CachedUnder(n, s)' <=> e.map # NoTable /\ e.map.key = Partials[s]
          /\ path' = path /\ manifest' = manifest
      BY <1>0 DEF CachedUnder
    <3>2. Whole(n, s)' = Whole(n, s)
      BY <3>1 DEF Whole
    <3>3. e.map # NoTable /\ e.map.key = Partials[s] =>
            /\ e.map = [key |-> Partials[s], rows |-> Whole(n, s).map]
            /\ e.axes = Whole(n, s).axes
            /\ \A d \in AllDims \ Partials[s] : e.dead[d] = Whole(n, s).dead[d]
      BY <1>3, <1>4
    <3> QED
      BY <1>0, <3>1, <3>2, <3>3 DEF CacheWhole
  <2> QED
    BY <1>0, <2>2, <2>3, <2>4 DEF DiskWhole, Whole
<1>8. \A k \in Nodes : DiskWhole(k)'
  BY <1>5, <1>7
<1> QED
  BY <1>5, <1>6, <1>8 DEF Stays, Nodes

LEMMA WritesStayWhole ==
    ASSUME WholeInv, Typed', NEW r \in Revisions, WriteAxes(r) \/ WriteDead(r) \/ WriteMap(r)
    PROVE  WholeInv'
<1>1. UNCHANGED <<path, manifest, tables>> /\ \A q \in Revisions : q # r => rev'[q] = rev[q]
  BY DEF WriteAxes, WriteDead, WriteMap, Written, WholeInv, Typed
<1>2. RevWhole(rev[r]) /\ RevTyped(rev[r]) /\ DOMAIN rev = Revisions /\ DiskTyped(resolved)
  BY DEF WholeInv, Typed
<1>3. PICK n, own : n = rev[r].node /\ own = Whole(n, rev[r].record.schema)
  OBVIOUS
<1>4. PICK w, one : w = Whole(n, manifest) /\ one = Whole(n, 1)
  OBVIOUS
<1>5. rev[r].writes # << >> /\ rev[r].record # NoRecord
  BY <1>2 DEF WriteAxes, WriteDead, WriteMap, Writing, RevTyped
<1>6. /\ n \in Nodes /\ FoldToWrite(r) = w /\ rev[r].under = manifest
      /\ Starts(rev[r].record.first, n, manifest)
      /\ rev[r].record.first = 1 \/ rev[r].record.schema = manifest
      /\ rev[r].coords # NoTable => CoordsOf(rev[r].coords, n, manifest)
      /\ rev[r].map # NoTable => rev[r].map = own.map
      /\ rev[r].made # NoTable /\ rev[r].coords = NoTable => CoordsOf(rev[r].made, n, manifest)
      /\ rev[r].made # NoTable /\ rev[r].coords # NoTable => rev[r].made = own.map
  BY <1>2, <1>3, <1>4, <1>5, FoldsWhole, RecordIs DEF RevWhole
<1>7. DiskWhole(n) /\ DOMAIN resolved[n] = {"axes", "dead", "map"} /\ DOMAIN resolved = Nodes
  BY <1>2, <1>6 DEF WholeInv, DiskTyped
\* What is folded to be written, against what every schema has.
<1>8. /\ w.axes = one.axes /\ w.axes = [d \in AllDims |-> w.axes[d]]
      /\ \A d \in AllDims \ Partials[manifest] : w.dead[d] = one.dead[d]
      /\ \A d \in AllDims : d \in Partials[manifest] => w.dead[d] = {}
      /\ \A d \in AllDims : d \notin Partials[manifest] => d \notin Partials[1]
  <2>1. PICK s : /\ s = manifest /\ s \in Schemas /\ path \in Paths /\ n \in 0 .. Len(path.rows)
                 /\ Partials[1] \subseteq Partials[s]
    BY <1>6, SoFar
  <2>2. /\ w.axes = [d \in AllDims |-> w.axes[d]]
        /\ w.dead = [d \in AllDims |-> IF d \in Partials[s] THEN {} ELSE w.dead[d]]
    BY <1>4, <2>1, WholeShape
  <2>3. w.axes = one.axes /\ \A d \in AllDims \ Partials[s] : w.dead[d] = one.dead[d]
    BY <1>4, <2>1, AsFirst
  <2> QED
    BY <2>1, <2>2, <2>3
\* What a write leaves of the Revision, but for its own writes.
<1>9. ASSUME Stays, NEW v, v = rev'[r],
             v.record = rev[r].record, v.node = n, v.under = rev[r].under,
             v.coords = rev[r].coords, v.map = rev[r].map, v.made = rev[r].made,
             \/ v.writes = <<"dead", "map">> /\ AxesOnDisk(n)' /\ v.folded = w.dead
             \/ v.writes = <<"map">> /\ AxesOnDisk(n)' /\ DeadOnDisk(n)'
      PROVE  RevWhole(rev[r])'
  <2>1. <<"dead", "map">> # <<"map">> /\ <<"map">> # << >> /\ <<"dead", "map">> # << >>
    OBVIOUS
  <2>2. /\ v.coords # NoTable => CoordsOf(v.coords, v.node, manifest)'
        /\ v.map # NoTable => v.map = Whole(v.node, v.record.schema)'.map
        /\ v.made # NoTable /\ v.coords = NoTable => CoordsOf(v.made, v.node, manifest)'
        /\ v.made # NoTable /\ v.coords # NoTable => v.made = Whole(v.node, v.record.schema)'.map
    BY <1>1, <1>3, <1>6, <1>9 DEF CoordsOf, Whole
  <2>3. Starts(v.record.first, v.node, manifest)'
    <3>1. CASE v.record.first = 1
      BY <3>1 DEF Starts
    <3>2. CASE v.record.first # 1
      <4>1. PICK first : first = rev[r].record.first
        OBVIOUS
      <4>2. first \in Nodes /\ first \in 1 .. n - 1 /\ CachedUnder(first, manifest)
        <5>1. n \in Nat /\ n \in 1 .. Len(path.rows) /\ Len(path.rows) \in Nat
          BY <1>6, SoFar DEF Nodes
        <5>2. first \in 1 .. n - 1 /\ CachedUnder(first, manifest)
          BY <1>6, <1>9, <3>2, <4>1 DEF Starts
        <5> QED
          BY <5>1, <5>2 DEF Nodes
      <4>3. CachedUnder(first, manifest)'
        BY <1>9, <4>2 DEF Stays
      <4> QED
        BY <1>9, <4>1, <4>2, <4>3 DEF Starts
    <3> QED
      BY <3>1, <3>2
  <2>4. /\ v.record # NoRecord /\ v.under = manifest'
        /\ v.record.first = 1 \/ v.record.schema = manifest'
    BY <1>1, <1>5, <1>6, <1>9
  <2>5. v.writes = <<"dead", "map">> => AxesOnDisk(v.node)' /\ v.folded = Whole(v.node, manifest)'.dead
    BY <1>1, <1>4, <1>9, <2>1 DEF Whole
  <2>6. v.writes = <<"map">> => AxesOnDisk(v.node)' /\ DeadOnDisk(v.node)'
    BY <1>9, <2>1
  <2> QED
    BY <1>9, <2>1, <2>2, <2>3, <2>4, <2>5, <2>6
    DEF RevWhole, CoordsOf, Starts, CachedUnder, Whole, AxesOnDisk, DeadOnDisk
<1>10. \A k \in Nodes : k # n => resolved'[k] = resolved[k]
  BY <1>3, <1>7 DEF WriteAxes, WriteDead, WriteMap
<1>11. PICK e : e = resolved'[n]
  OBVIOUS
<1>12. ASSUME WriteAxes(r) PROVE WholeInv'
  <2>1. rev[r].writes = <<"axes", "dead", "map">>
    BY <1>2, <1>12 DEF WriteAxes, Writing, RevWhole
  <2>2. e = [resolved[n] EXCEPT !.axes =
               [d \in AllDims |-> IF w.axes[d] = NoFile THEN resolved[n].axes[d] ELSE w.axes[d]]]
    BY <1>3, <1>6, <1>7, <1>11, <1>12 DEF WriteAxes
  <2>3. e.axes = w.axes /\ e.dead = resolved[n].dead /\ e.map = resolved[n].map
    <3>1. \A d \in AllDims :
            (IF w.axes[d] = NoFile THEN resolved[n].axes[d] ELSE w.axes[d]) = w.axes[d]
      BY <1>4, <1>7, <1>8 DEF DiskWhole
    <3>2. [d \in AllDims |-> IF w.axes[d] = NoFile THEN resolved[n].axes[d] ELSE w.axes[d]] = w.axes
      BY <1>8, <3>1
    <3> QED
      BY <1>7, <2>2, <3>2
  <2>4. Stays /\ (\A k \in Nodes : DiskWhole(k))'
    <3>1. DOMAIN e.dead = AllDims
      BY <1>7, <2>3 DEF DiskWhole
    <3>2. \A d \in AllDims : e.dead[d] = resolved[n].dead[d]
      BY <2>3
    <3> QED
      BY <1>1, <1>4, <1>6, <1>8, <1>10, <1>11, <2>3, <3>1, <3>2, DiskStep
  <2>5. AxesOnDisk(n)'
    BY <1>1, <1>4, <1>8, <1>11, <2>3 DEF AxesOnDisk, Whole
  <2>6. PICK v : v = rev'[r]
    OBVIOUS
  <2>7. /\ v.record = rev[r].record /\ v.node = n /\ v.under = rev[r].under
        /\ v.coords = rev[r].coords /\ v.map = rev[r].map /\ v.made = rev[r].made
        /\ v.writes = <<"dead", "map">> /\ v.folded = w.dead
    <3>1. Tail(<<"axes", "dead", "map">>) = <<"dead", "map">>
      OBVIOUS
    <3>2. v = [[rev[r] EXCEPT !.writes = <<"dead", "map">>] EXCEPT !.folded = w.dead]
      BY <1>2, <1>3, <1>6, <1>12, <2>1, <2>6, <3>1 DEF WriteAxes, Written
    <3> QED
      BY <1>2, <1>3, <3>2 DEF RevTyped
  <2>8. RevWhole(rev[r])'
    BY <1>9, <2>4, <2>5, <2>6, <2>7
  <2> QED
    BY <1>1, <2>4, <2>8, SameTables, WholeStep
<1>13. ASSUME WriteDead(r) PROVE WholeInv'
  <2>1. rev[r].writes = <<"dead", "map">> /\ AxesOnDisk(n) /\ rev[r].folded = w.dead
    BY <1>2, <1>3, <1>4, <1>13 DEF WriteDead, Writing, RevWhole
  <2>2. e = [resolved[n] EXCEPT !.dead =
               [d \in AllDims |-> IF w.dead[d] = {} THEN resolved[n].dead[d] ELSE w.dead[d]]]
    BY <1>3, <1>6, <1>7, <1>11, <1>13, <2>1 DEF WriteDead
  <2>3. e.axes = resolved[n].axes /\ e.map = resolved[n].map /\ DOMAIN e.dead = AllDims
    BY <1>7, <2>2
  <2>4. \A d \in AllDims : IF d \in Partials[manifest] THEN e.dead[d] = resolved[n].dead[d]
                           ELSE e.dead[d] = one.dead[d]
    <3> SUFFICES ASSUME NEW d \in AllDims
                 PROVE  IF d \in Partials[manifest] THEN e.dead[d] = resolved[n].dead[d]
                        ELSE e.dead[d] = one.dead[d]
      OBVIOUS
    <3>1. e.dead[d] = IF w.dead[d] = {} THEN resolved[n].dead[d] ELSE w.dead[d]
      BY <1>7, <2>2
    <3>2. d \notin Partials[manifest] => resolved[n].dead[d] \in {{}, one.dead[d]}
      BY <1>4, <1>7, <1>8 DEF DiskWhole
    <3> QED
      BY <1>8, <3>1, <3>2
  <2>5. Stays /\ (\A k \in Nodes : DiskWhole(k))'
    <3>1. \A d \in AllDims :
            \/ d \notin Partials[manifest] /\ resolved'[n].dead[d] = Whole(n, 1).dead[d]
            \/ resolved'[n].dead[d] = resolved[n].dead[d]
      BY <1>4, <1>11, <2>4
    <3>2. /\ resolved'[n].axes = resolved[n].axes /\ resolved'[n].map = resolved[n].map
          /\ DOMAIN resolved'[n].dead = AllDims
      BY <1>11, <2>3
    <3> QED
      BY <1>1, <1>6, <1>10, <3>1, <3>2, DiskStep
  <2>6. AxesOnDisk(n)' /\ DeadOnDisk(n)'
    BY <1>1, <1>4, <1>6, <1>11, <2>1, <2>4, <2>5 DEF Stays, DeadOnDisk, Whole
  <2>7. PICK v : v = rev'[r]
    OBVIOUS
  <2>8. /\ v.record = rev[r].record /\ v.node = n /\ v.under = rev[r].under
        /\ v.coords = rev[r].coords /\ v.map = rev[r].map /\ v.made = rev[r].made
        /\ v.writes = <<"map">>
    <3>1. Tail(<<"dead", "map">>) = <<"map">>
      OBVIOUS
    <3>2. v = [rev[r] EXCEPT !.writes = <<"map">>]
      BY <1>2, <1>13, <2>1, <2>7, <3>1 DEF WriteDead, Written
    <3> QED
      BY <1>2, <1>3, <3>2 DEF RevTyped
  <2>9. RevWhole(rev[r])'
    BY <1>9, <2>5, <2>6, <2>7, <2>8
  <2> QED
    BY <1>1, <2>5, <2>9, SameTables, WholeStep
<1>14. ASSUME WriteMap(r) PROVE WholeInv'
  <2>1. rev[r].writes = <<"map">> /\ AxesOnDisk(n) /\ DeadOnDisk(n)
    BY <1>2, <1>3, <1>14 DEF WriteMap, Writing, RevWhole
  <2>2. e = [resolved[n] EXCEPT !.map = [key |-> Partials[manifest], rows |-> w.map]]
    BY <1>3, <1>6, <1>7, <1>11, <1>14 DEF WriteMap
  <2>3. /\ e.map = [key |-> Partials[manifest], rows |-> w.map]
        /\ e.axes = one.axes /\ DOMAIN e.dead = AllDims /\ e.dead = resolved[n].dead
        /\ \A d \in AllDims \ Partials[manifest] : e.dead[d] = one.dead[d]
    BY <1>4, <1>7, <2>1, <2>2 DEF AxesOnDisk, DeadOnDisk, DiskWhole
  <2>4. Stays /\ (\A k \in Nodes : DiskWhole(k))'
    BY <1>1, <1>4, <1>6, <1>10, <1>11, <2>3, DiskStep
  <2>5. rev'[r] = Fresh(n)
    BY <1>2, <1>3, <1>14, <2>1 DEF WriteMap
  <2>6. RevWhole(rev[r])'
    BY <2>5 DEF RevWhole, Fresh
  <2> QED
    BY <1>1, <2>4, <2>6, SameTables, WholeStep
<1> QED
  BY <1>12, <1>13, <1>14

\* Wider by one step, `partial` keys no cache there was, unless it is as it was;
\* a shared table of coords has the dead labels of fewer dims to answer for; and
\* a record held meanwhile reads every layer, under the schema it read.
LEMMA WidensWhole ==
    ASSUME WholeInv, Typed', Widen, ~ WidensFreely
    PROVE  WholeInv'
<1>1. /\ manifest' = manifest + 1 /\ UNCHANGED <<path, resolved, tables, rev>>
      /\ \A r \in Revisions : Settled(rev[r])
      /\ path \in Paths /\ manifest \in Schemas /\ manifest' \in Schemas /\ manifest \in Nat
      /\ Len(path.rows) \in Nat
  BY WholeIs, SchemasAre DEF Widen, WholeInv, Typed, Schemas
<1>2. PICK m, t : m = manifest /\ t = manifest'
  OBVIOUS
<1>3. /\ m \in Schemas /\ t \in Schemas /\ Partials[m] \subseteq Partials[t] /\ Partials[t] \subseteq AllDims
      /\ \A s \in 1 .. m : s \in Schemas /\ Partials[s] \subseteq Partials[m]
      /\ \A s \in 1 .. t : s \in 1 .. m \/ s = t
  BY <1>1, <1>2, SchemasAre DEF Schemas
<1>4. \A c, n : CoordsOf(c, n, m) => CoordsOf(c, n, t)
  BY <1>3 DEF CoordsOf
<1>5. \A r \in Revisions : RevWhole(rev[r])'
  <2> SUFFICES ASSUME NEW r \in Revisions PROVE RevWhole(rev[r])'
    OBVIOUS
  <2>1. PICK v : v = rev[r] /\ v = rev'[r]
    BY <1>1
  <2>2. /\ RevWhole(v) /\ v.writes = << >>
        /\ v.record # NoRecord => v.record.first = 1
    BY <1>1, <2>1 DEF WholeInv, Typed, RevTyped, Settled
  <2>3. << >> # <<"dead", "map">> /\ << >> # <<"map">>
    OBVIOUS
  <2>4. /\ v.record = NoRecord => v.coords = NoTable /\ v.map = NoTable /\ v.made = NoTable
        /\ v.coords # NoTable => CoordsOf(v.coords, v.node, t)
        /\ v.map # NoTable => v.map = Whole(v.node, v.record.schema).map
        /\ v.made # NoTable /\ v.coords = NoTable => CoordsOf(v.made, v.node, t)
        /\ v.made # NoTable /\ v.coords # NoTable => v.made = Whole(v.node, v.record.schema).map
    BY <1>2, <1>4, <2>2 DEF RevWhole
  <2> QED
    BY <1>1, <1>2, <2>1, <2>2, <2>3, <2>4 DEF RevWhole, CoordsOf, Whole, Starts
<1>6. ASSUME NEW n \in Nodes PROVE DiskWhole(n)'
  <2>1. DiskWhole(n) /\ (resolved[n].map # NoTable => \E s \in 1 .. m : resolved[n].map.key = Partials[s])
    BY <1>2 DEF WholeInv, Typed, DiskTyped
  <2>2. CacheWhole(n, t)
    <3>1. SUFFICES ASSUME CachedUnder(n, t) PROVE CacheWhole(n, t)
      BY DEF CacheWhole
    <3>2. PICK s \in 1 .. m : Partials[t] = Partials[s] /\ CachedUnder(n, s)
      BY <2>1, <3>1 DEF CachedUnder
    <3>3. Whole(n, t) = Whole(n, s)
      BY <1>1, <1>3, <3>2, SameKey
    <3>4. CacheWhole(n, s)
      BY <1>2, <2>1 DEF DiskWhole
    <3> QED
      BY <3>2, <3>3, <3>4 DEF CacheWhole
  <2>3. \A s \in 1 .. t : CacheWhole(n, s)
    BY <1>2, <1>3, <2>1, <2>2 DEF DiskWhole
  <2> QED
    BY <1>1, <1>2, <2>1, <2>3 DEF DiskWhole, CacheWhole, CachedUnder, Whole
<1>7. TablesWhole'
  <2>1. TablesWhole
    BY DEF WholeInv
  <2>2. ASSUME NEW n \in Nodes, CoordsName(n) \in DOMAIN tables
        PROVE  CoordsOf(tables[CoordsName(n)], n, t)
    BY <1>2, <1>4, <2>1, <2>2 DEF TablesWhole
  <2> QED
    BY <1>1, <1>2, <2>1, <2>2 DEF TablesWhole, CoordsOf, Whole, Nodes, CoordsName, MapName
<1>8. (\A n \in Nodes : DiskWhole(n))'
  BY <1>1, <1>6 DEF Nodes
<1> QED
  BY <1>5, <1>7, <1>8 DEF WholeInv

LEMMA WholeNext ==
    ASSUME ~ WidensFreely
    PROVE  WholeInv /\ [Next]_vars => WholeInv'
<1> SUFFICES ASSUME WholeInv, [Next]_vars PROVE WholeInv'
  OBVIOUS
<1>1. Typed'
  BY TypedNext DEF WholeInv
<1>2. ASSUME Crash PROVE WholeInv'
  <2>1. UNCHANGED <<path, manifest, resolved>> /\ tables' = << >>
    BY <1>2 DEF Crash
  <2>2. \A r \in Revisions : rev'[r] = Fresh(0)
    BY <1>2 DEF Crash
  <2>3. ASSUME NEW r \in Revisions PROVE RevWhole(rev[r])'
    <3>1. rev'[r] = Fresh(0)
      BY <2>2
    <3> QED
      BY <3>1 DEF RevWhole, Fresh
  <2>4. TablesWhole'
    BY <2>1 DEF TablesWhole
  <2> QED
    BY <1>1, <2>1, <2>3, <2>4, SameDisk DEF WholeInv
<1>3. ASSUME UNCHANGED vars PROVE WholeInv'
  <2>1. UNCHANGED <<path, manifest, resolved, tables, rev>>
    BY <1>3 DEF vars
  <2>2. \A r \in Revisions : RevWhole(rev[r])'
    BY <2>1, SameDisk, OthersWhole
  <2> QED
    BY <1>1, <2>1, <2>2, SameDisk, SameTables DEF WholeInv
<1> QED
  BY <1>1, <1>2, <1>3, HoldBuildWhole, ReadsStayWhole, SharesStayWhole, MaterialiseStaysWhole,
     WritesStayWhole, WidensWhole DEF Next

LEMMA AlwaysWhole ==
    ASSUME ~ WidensFreely
    PROVE  Spec => []WholeInv
<1>1. WholeInv /\ [Next]_vars => WholeInv'
  BY WholeNext
<1> QED
  BY <1>1, WholeInitially, PTL DEF Spec

\* Where `partial` is not widened while a record truncated at a cache is held, nor
\* while one is being written, a Revision that has read its coords and its owner
\* map has read the fold of every layer under its own record's schema, dead labels
\* of the dims outside the manifest's `partial` included, whichever Revision
\* objects made the tables and caches it found and under whichever schema,
\* whatever was materialised part-way, and however often the process died
\* (_frozen_table, _frozen_coords, materialise).
THEOREM ReadsAreWhole ==
    ASSUME ~ WidensFreely
    PROVE  Spec => []ReadsWhole
<1>1. ASSUME WholeInv PROVE ReadsWhole
  <2> SUFFICES ASSUME NEW r \in Revisions, rev[r].coords # NoTable, rev[r].map # NoTable,
                      NEW w, w = Whole(rev[r].node, rev[r].record.schema)
               PROVE  /\ rev[r].coords.axes = w.axes
                      /\ Mortal(rev[r].coords.dead, Partials[manifest]) = Mortal(w.dead, Partials[manifest])
                      /\ rev[r].map = w.map
    BY DEF ReadsWhole
  <2>1. RevWhole(rev[r]) /\ rev[r].record # NoRecord
    BY <1>1 DEF WholeInv, RevWhole
  <2>2. CoordsOf(rev[r].coords, rev[r].node, manifest) /\ rev[r].map = w.map
    BY <2>1 DEF RevWhole
  <2>3. /\ w.axes = Whole(rev[r].node, 1).axes
        /\ \A d \in AllDims \ Partials[manifest] : w.dead[d] = Whole(rev[r].node, 1).dead[d]
    <3>1. PICK n, s : n = rev[r].node /\ s = rev[r].record.schema
      OBVIOUS
    <3>2. /\ path \in Paths /\ s \in Schemas /\ n \in 0 .. Len(path.rows)
          /\ Partials[s] \subseteq Partials[manifest]
      BY <1>1, <2>1, <3>1, SoFar, RecordIs
    <3> QED
      BY <3>1, <3>2, AsFirst
  <2> QED
    BY <2>2, <2>3 DEF CoordsOf, Mortal
<1>2. Spec => []WholeInv
  BY AlwaysWhole
<1> QED
  BY <1>1, <1>2, PTL

\* Under the same condition, a cache the manifest's `partial` keys holds what
\* the fold of every layer gives, of axes and dead labels too: whatever writes
\* of one node interleave or stop part-way (materialise).
THEOREM CachesAreWhole ==
    ASSUME ~ WidensFreely
    PROVE  Spec => []CachesWhole
<1>1. ASSUME WholeInv PROVE CachesWhole
  <2> SUFFICES ASSUME NEW n \in Nodes, CachedUnder(n, manifest)
               PROVE  /\ resolved[n].axes = Whole(n, manifest).axes
                      /\ Mortal(resolved[n].dead, Partials[manifest])
                           = Mortal(Whole(n, manifest).dead, Partials[manifest])
                      /\ resolved[n].map.rows = Whole(n, manifest).map
    BY DEF CachesWhole
  <2>1. CacheWhole(n, manifest)
    BY <1>1, SoFar DEF WholeInv, DiskWhole
  <2>2. /\ resolved[n].axes = Whole(n, manifest).axes
        /\ resolved[n].map = [key |-> Partials[manifest], rows |-> Whole(n, manifest).map]
        /\ \A d \in AllDims \ Partials[manifest] : resolved[n].dead[d] = Whole(n, manifest).dead[d]
    BY <2>1 DEF CacheWhole
  <2> QED
    BY <2>2 DEF Mortal
<1>2. Spec => []WholeInv
  BY AlwaysWhole
<1> QED
  BY <1>1, <1>2, PTL
=============================================================================
