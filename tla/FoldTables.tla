----------------------------- MODULE FoldTables -----------------------------
(***************************************************************************)
(* Reading the nodes of one path while their folds are kept in two places: *)
(* shared tables of the workspace's database and materialised caches on    *)
(* disk.  A Revision object keeps the record it first builds, with the     *)
(* schema and the truncated list of layers it read then, while others read *)
(* the same nodes, materialise them, widen `partial` or die.               *)
(*                                                                         *)
(* A node's number is its depth.  What a fold computes is NodeFold's, under*)
(* the `partial` of whoever folds.  A path's layers never change.          *)
(***************************************************************************)
EXTENDS Naturals, Sequences, FiniteSets

CONSTANTS AllDims,     \* the dims of the attribute
          Partials,    \* the values of `partial` one after another, each wider
          Null,
          NoFile,
          Paths,       \* the paths to read: axis files and rows per layer
          Revisions,   \* the Revision objects, each one thread's
          Shallowest,  \* the depth of the shallowest node a Revision is of
          NoRecord,    \* a Revision holds no record
          NoTable,     \* no table, no map, nothing folded yet
          WidensFreely \* whether `partial` is widened whatever records are held

Under(partial) ==
    INSTANCE NodeFold WITH Partial <- partial, Others <- AllDims \ partial

VARIABLES path,        \* the layers' axis files and rows
          manifest,    \* which of Partials the schema declares
          resolved,    \* per node its cache on disk: axes, dead labels, map
          tables,      \* the shared tables, by name
          rev          \* per Revision object its node, its record, and its call

vars == <<path, manifest, resolved, tables, rev>>

Nodes == 1 .. Len(path.rows)
Schemas == 1 .. Len(Partials)
NoCacheYet == [axes |-> [d \in AllDims |-> NoFile], dead |-> [d \in AllDims |-> {}], map |-> NoTable]

\* A Revision as it comes from the store: of no node yet where node is 0.
Fresh(n) ==
    [node |-> n, record |-> NoRecord, coords |-> NoTable, map |-> NoTable, made |-> NoTable,
     writes |-> << >>, under |-> 1, folded |-> NoTable]

-----------------------------------------------------------------------------
\* read_owner_map: a map keyed otherwise than the schema keys one is no cache.
CachedUnder(n, s) == resolved[n].map # NoTable /\ resolved[n].map.key = Partials[s]

\* Mutant: the node's own cache stands for its layer.
FirstSourceOwn(n, s) ==
    LET stops == {k \in 1 .. n : CachedUnder(k, s)}
    IN IF stops = {} THEN 1 ELSE CHOOSE k \in stops : \A j \in stops : j <= k

\* sources_to_read: the layers from the deepest materialised proper ancestor on.
FirstSource(n, s) ==
    LET stops == {k \in 1 .. n - 1 : CachedUnder(k, s)}
    IN IF stops = {} THEN 1 ELSE CHOOSE k \in stops : \A j \in stops : j <= k

\* _base_and_above and the fold over it: of the layers from `first` on, the
\* deepest materialised one above the node is where the fold starts, if any is.
FoldOf(n, s, first, p, files, rows) ==
    LET stops == {k \in first .. n - 1 : CachedUnder(k, s)}
        base == IF stops = {} THEN first - 1 ELSE CHOOSE k \in stops : \A j \in stops : j <= k
        seed == IF stops = {} THEN Under(p)!NoCache
                ELSE [map |-> resolved[base].map.rows, axes |-> resolved[base].axes,
                      dead |-> [d \in AllDims |-> IF d \in p THEN {} ELSE resolved[base].dead[d]]]
        fold[k \in base .. n] ==
            IF k = base THEN seed ELSE Under(p)!FoldOnto(fold[k - 1], k, files[k], rows[k])
    IN fold[n]

Folded(n, s, first) == FoldOf(n, s, first, Partials[s], path.files, path.rows)

\* The nodes of each path, folded from every layer under each schema.
WholeFolds ==
    [q \in Paths |-> [s \in Schemas |->
        LET fold[k \in 0 .. Len(q.rows)] ==
                IF k = 0 THEN Under(Partials[s])!NoCache
                ELSE Under(Partials[s])!FoldOnto(fold[k - 1], k, q.files[k], q.rows[k])
        IN fold]]

Whole(n, s) == WholeFolds[path][s][n]

\* No layer of a path is refused, whichever `partial` it is folded under.
Foldable(q) ==
    \A s \in Schemas, k \in 1 .. Len(q.rows) :
        LET p == Partials[s]
            below == WholeFolds[q][s][k - 1]
            own == Under(p)!Own(k, q.rows[k])
        IN Under(p)!Filled(Under(p)!Kept(below.map, own, Under(p)!Removed(below.axes, q.files[k])), own)

ASSUME PathsAssumption ==
    \A q \in Paths : Len(q.rows) \in Nat /\ Len(q.files) = Len(q.rows) /\ Foldable(q)
ASSUME PartialsAssumption ==
    /\ Partials \in Seq(SUBSET AllDims) /\ Partials # << >>
    /\ \A s, t \in Schemas : s <= t => Partials[s] \subseteq Partials[t]
ASSUME ShallowestAssumption == Shallowest \in Nat \ {0}

Init ==
    /\ path \in Paths
    /\ manifest = 1
    /\ resolved = [n \in Nodes |-> NoCacheYet]
    /\ tables = << >>
    /\ rev = [r \in Revisions |-> Fresh(0)]

-----------------------------------------------------------------------------
\* Store.revision: another Revision object, the last one let go.
Hold(r, n) ==
    /\ rev[r].writes = << >>
    /\ rev' = [rev EXCEPT ![r] = Fresh(n)]
    /\ UNCHANGED <<path, manifest, resolved, tables>>

\* Revision.record, the first time: the schema, and the layers to read under it.
Build(r) ==
    LET n == rev[r].node
    IN /\ n # 0 /\ rev[r].record = NoRecord
       /\ rev' = [rev EXCEPT ![r].record = [schema |-> manifest, first |-> FirstSource(n, manifest)]]
       /\ UNCHANGED <<path, manifest, resolved, tables>>

CoordsName(n) == <<"coords", n>>

\* Mutant: one map table per node.
MapNamePerNode(n, s) == <<"owner_map", n>>

\* _table_name: the key is in the name of a map's table, not in a coord's.
MapName(n, s) == <<"owner_map", n, Partials[s]>>

Known(r) == rev[r].record # NoRecord /\ rev[r].writes = << >>
FoldNow(r) == Folded(rev[r].node, rev[r].record.schema, rev[r].record.first)

\* _frozen_coords: the shared table, or a fold of one's own to make it of.
ReadCoords(r) ==
    LET name == CoordsName(rev[r].node)
    IN /\ Known(r) /\ rev[r].coords = NoTable /\ rev[r].made = NoTable
       /\ rev' = IF name \in DOMAIN tables
                 THEN [rev EXCEPT ![r].coords = tables[name]]
                 ELSE [rev EXCEPT ![r].made = [axes |-> FoldNow(r).axes, dead |-> FoldNow(r).dead]]
       /\ UNCHANGED <<path, manifest, resolved, tables>>

\* _shared: the table another cursor made meanwhile, else one's own.
SharedTable(name, made) == IF name \in DOMAIN tables THEN tables[name] ELSE made

Share(name, made) ==
    tables' = [x \in DOMAIN tables \cup {name} |-> IF x = name THEN SharedTable(name, made) ELSE tables[x]]

\* _shared, of the coords: create, or meet the winner's table.
CreateCoords(r) ==
    LET name == CoordsName(rev[r].node)
    IN /\ Known(r) /\ rev[r].coords = NoTable /\ rev[r].made # NoTable
       /\ Share(name, rev[r].made)
       /\ rev' = [rev EXCEPT ![r].coords = tables'[name], ![r].made = NoTable]
       /\ UNCHANGED <<path, manifest, resolved>>

\* _frozen_table: the node's own map on disk, the shared table, or a fold.
ReadMap(r) ==
    LET n == rev[r].node
        s == rev[r].record.schema
    IN /\ Known(r) /\ rev[r].coords # NoTable /\ rev[r].made = NoTable
       /\ rev' = IF CachedUnder(n, s) THEN [rev EXCEPT ![r].map = resolved[n].map.rows]
                 ELSE IF MapName(n, s) \in DOMAIN tables
                 THEN [rev EXCEPT ![r].map = tables[MapName(n, s)]]
                 ELSE [rev EXCEPT ![r].made = FoldNow(r).map]
       /\ UNCHANGED <<path, manifest, resolved, tables>>

\* _shared, of the map.
CreateMap(r) ==
    LET name == MapName(rev[r].node, rev[r].record.schema)
    IN /\ Known(r) /\ rev[r].coords # NoTable /\ rev[r].made # NoTable
       /\ Share(name, rev[r].made)
       /\ rev' = [rev EXCEPT ![r].map = tables'[name], ![r].made = NoTable]
       /\ UNCHANGED <<path, manifest, resolved>>

-----------------------------------------------------------------------------
\* Mutant: the map goes first.
MapFirst == <<"map", "axes", "dead">>

\* materialise: the map, which marks the cache as there, goes last.
WriteOrder == <<"axes", "dead", "map">>

\* Revision.materialise: the record's layers, under the schema as it is now.  What
\* has been read is let go.
Materialise(r) ==
    /\ Known(r)
    /\ rev' = [rev EXCEPT ![r].writes = WriteOrder, ![r].under = manifest,
                         ![r].coords = NoTable, ![r].map = NoTable, ![r].made = NoTable]
    /\ UNCHANGED <<path, manifest, resolved, tables>>

Writing(r, kind) == rev[r].writes # << >> /\ Head(rev[r].writes) = kind
FoldToWrite(r) == Folded(rev[r].node, rev[r].under, rev[r].record.first)
Written(r) == [rev EXCEPT ![r].writes = Tail(@)]

\* _materialise_dims: the axes there are, and what is folded with them.
WriteAxes(r) ==
    LET n == rev[r].node
        fold == FoldToWrite(r)
    IN /\ Writing(r, "axes")
       /\ resolved' = [resolved EXCEPT ![n].axes =
                         [d \in AllDims |-> IF fold.axes[d] = NoFile THEN @[d] ELSE fold.axes[d]]]
       /\ rev' = [Written(r) EXCEPT ![r].folded = fold.dead]
       /\ UNCHANGED <<path, manifest, tables>>

\* _to_parquet_unless_empty: no file for a dim without dead labels.
WriteDead(r) ==
    /\ Writing(r, "dead")
    /\ resolved' = [resolved EXCEPT ![rev[r].node].dead =
                      [d \in AllDims |-> IF rev[r].folded[d] = {} THEN @[d] ELSE rev[r].folded[d]]]
    /\ rev' = Written(r)
    /\ UNCHANGED <<path, manifest, tables>>

\* owner_map.parquet, folded from what is on disk by then; written, the Revision
\* lets its record go.
WriteMap(r) ==
    LET n == rev[r].node
    IN /\ Writing(r, "map")
       /\ resolved' = [resolved EXCEPT ![n].map =
                         [key |-> Partials[rev[r].under], rows |-> FoldToWrite(r).map]]
       /\ rev' = IF Tail(rev[r].writes) = << >> THEN [rev EXCEPT ![r] = Fresh(n)] ELSE Written(r)
       /\ UNCHANGED <<path, manifest, tables>>

\* materialise fails part-way; the record stays.
MaterialiseFails(r) ==
    /\ rev[r].writes # << >>
    /\ rev' = [rev EXCEPT ![r].writes = << >>, ![r].under = 1, ![r].folded = NoTable]
    /\ UNCHANGED <<path, manifest, resolved, tables>>

\* The process dies, and its database and records with it.
Crash ==
    /\ tables' = << >>
    /\ rev' = [r \in Revisions |-> Fresh(0)]
    /\ UNCHANGED <<path, manifest, resolved>>

\* What a Revision holds rests on no cache's key: its layers are all of its path,
\* and it is not writing a cache.
Settled(v) == v.record # NoRecord => v.record.first = 1 /\ v.writes = << >>

\* A child's write widens the schema's `partial` (reconcile_schema), whatever
\* records are held, or while none depends on what a cache is keyed by.
Widen ==
    /\ manifest < Len(Partials)
    /\ WidensFreely \/ \A r \in Revisions : Settled(rev[r])
    /\ manifest' = manifest + 1
    /\ UNCHANGED <<path, resolved, tables, rev>>

Next ==
    \/ \E r \in Revisions :
         \/ \E n \in Shallowest .. Len(path.rows) : Hold(r, n)
         \/ Build(r)
         \/ ReadCoords(r)
         \/ CreateCoords(r)
         \/ ReadMap(r)
         \/ CreateMap(r)
         \/ Materialise(r)
         \/ WriteAxes(r)
         \/ WriteDead(r)
         \/ WriteMap(r)
         \/ MaterialiseFails(r)
    \/ Crash
    \/ Widen

Spec == Init /\ [][Next]_vars

-----------------------------------------------------------------------------
\* Every record reads from a layer at or above its node's parent on, so a node's
\* own cache never stands for its layer; a schema it read is one the manifest
\* has had; a cache's map is keyed by some `partial`.
TypeOK ==
    /\ path \in Paths /\ manifest \in Schemas
    /\ \A r \in Revisions :
         /\ rev[r].node \in 0 .. Len(path.rows)
         /\ rev[r].record # NoRecord =>
              /\ rev[r].record.schema \in 1 .. manifest
              /\ rev[r].record.first = 1 \/ rev[r].record.first \in 1 .. rev[r].node - 1
    /\ \A n \in Nodes : resolved[n].map # NoTable => resolved[n].map.key \in {Partials[s] : s \in 1 .. manifest}

\* Whatever a fold says of the labels a map keyed by p does not prune.
Mortal(dead, p) == [d \in AllDims \ p |-> dead[d]]

\* A Revision that has read its axes, dead labels and owner map has read the
\* fold of every layer of its path, under the schema of its own record, whoever
\* made the shared tables or the caches it read them from, at whatever moment
\* and under whichever schema.  Of the dead labels it speaks for the dims outside
\* the `partial` of the manifest: a coords table made under a wider `partial`
\* than a record's lacks those between (ReadsOwnSchema).
ReadsWhole ==
    \A r \in Revisions :
        rev[r].coords # NoTable /\ rev[r].map # NoTable =>
            LET whole == Whole(rev[r].node, rev[r].record.schema)
                p == Partials[manifest]
            IN /\ rev[r].coords.axes = whole.axes
               /\ Mortal(rev[r].coords.dead, p) = Mortal(whole.dead, p)
               /\ rev[r].map = whole.map

\* concurrency.md: a fold "made before a dim joined or left `partial` is folded
\* again".  The dead labels a Revision reads are those of every dim outside the
\* `partial` of its own record's schema.
ReadsOwnSchema ==
    \A r \in Revisions :
        rev[r].coords # NoTable =>
            LET p == Partials[rev[r].record.schema]
            IN Mortal(rev[r].coords.dead, p) = Mortal(Whole(rev[r].node, rev[r].record.schema).dead, p)

\* materialise "changes no answer": a node whose map is keyed as the manifest
\* keys one has, beside it, the axes, the dead labels and the map that folding
\* every layer of its path would give.
CachesWhole ==
    \A n \in Nodes :
        CachedUnder(n, manifest) =>
            LET p == Partials[manifest]
                whole == Whole(n, manifest)
            IN /\ resolved[n].axes = whole.axes
               /\ Mortal(resolved[n].dead, p) = Mortal(whole.dead, p)
               /\ resolved[n].map.rows = whole.map
=============================================================================
