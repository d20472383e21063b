# A TLA+ model of datarecord

datarecord keeps the data of energy models as *records*: labelled axes and long
relations of values, written as layers in a tree of revisions and folded on
read. This directory models the parts of it that are hard to test: the writers
racing on one store, the cache of the revision tree, the fold that turns a path
of layers into one record, the tables and files that fold is kept in, and the
edits staged on top of it. TLC checks the models on small instances and
TLAPS proves the main results for every instance.

Paths below are relative to `src/datarecord/`.

## Inventory

| Part | State | Operations | Interacts with |
|---|---|---|---|
| Manifest (`store/manifest.py`) | `manifest.json` and its version | `read_schema`, `reconcile_schema` | files, every writer of the store |
| Files (`store/files.py`) | a directory or a bucket | `read_text`, conditional `write_text`, `list`, `exists` | the operating system, S3 |
| Store and revisions (`store/store.py`) | revision files, layer directories, the workspace's `revisions` table, a cursor per thread | `root`, `child`, `revision`, `revisions`, `ancestry`, `layer`, `materialise` | manifest, writer, fold |
| Standalone records (`store/store.py`, `store/write.py`) | one directory with a manifest | `Workspace.write`, `Workspace.at` | writer |
| Layer writer (`store/write.py`) | a staging directory | `write_layer` and its checks | coords (final axes), files |
| Node caches (`store/cache.py`) | `resolved/<id>/`: axes, dead labels, owner map | `materialise`, `sources_to_read` | fold |
| Fold (`resolve/owner_map.py`, `coords.py`, `fold.py`, `sources.py`) | owner map, axes, dead labels; shared tables per revision | `fold_attributes`, `resolve_coords`, `Fold.read` | every read |
| Record (`resolve/record.py`) | lazy relations over one fold | `dims`, `attributes`, `properties`, `flags` | fold, settle |
| Settling (`settle.py`) | none | `settle` | record |
| WorkingRecord (`mutable.py`) | staging tables over a base record | `set`, `add`, `remove`, `rollback`, `edits` | fold (as a last layer), writer |
| Schema (`schema/`) | none: immutable declarations | validation, `compatible_with`, `partial_dims` | everything |
| DuckDB helpers (`duck.py`), protocols (`protocols.py`) | none | expressions, interfaces | everything |
| Tools (`tools/`) | none | conversion from and to a PyPSA network | record |

What is hard about them:

- **concurrency**: writers in several threads and processes share a manifest
  with no lock but a conditional write; threads share one database, each
  through its own cursor;
- **failure**: a process may die between layer, manifest and revision file; S3
  may lose an answer, answer 409, or show a manifest it will not let one read
  as missing;
- **ordering**: a revision is found through its file, so the file must come
  last; rows of an ancestry become visible one at a time;
- **long sequences of legal calls**: layers override each other's rows by
  broadcast and by label, remove labels and add them again, above or below a
  materialised node, and every one of those paths must read the same.

What makes each part correct:

- manifest: no accepted schema is lost, no refusal is due to a race, and the
  protocol looks like an atomic replacement by a compatible schema;
- store: what has a revision file is readable for ever, and appears at once;
- revision cache: it may be incomplete but is never wrong, a call leaves out
  nothing that it could read, and what is left out is told by the call that did;
- fold: the deepest layer that says anything about a coordinate decides it,
  removed labels stay removed, and caches change nothing;
- WorkingRecord: what is staged reads as the layer it will become, and the
  layer it becomes is one the fold accepts; no label, tuple or property on an
  axis is left referring to a label removed from another;
- shared tables and node caches: whoever made them, at whatever moment, what is
  read through them is the fold of the whole path under the reader's schema. (The
  code does not keep all of this where `partial` is widened while a record is held,
  see Disagreements.)

## Modules

| Module | Models | State and actions against the code |
|---|---|---|
| `SchemaCompat` | the part of a schema that `compatible_with` compares | operators only |
| `SchemaRegistry` | abstract: one schema, replaced only by a compatible one | `Declare` |
| `Manifest` | `reconcile_schema` over `LocalFiles` and `RemoteFiles` | `manifest` is the file; `pc`, `want`, `found`, `attempt` are a call's locals; `Read`, `Write`, `Lose`, `Conflict` (409), `LostAnswer`, `Crash` |
| `RecordStore` | abstract: a schema that widens and a tree that grows, each in one step | `Widen`, `Publish` |
| `StorePublish` | `Store._write` around `Manifest` (`M == INSTANCE Manifest`, shared variables) | `layer`, `revfile` are the store; `Start`, `LayerFile`, `LayerDone`, `Reconcile`, `Create`, with a failure or `Crash` at each |
| `RevisionCache` | the `revisions` table, `_cache`, `revision`, `revisions`, `_create`, `ancestry` | `file` and `rows` are files and table; `next_id`, `read`, `seen` are a call's locals; one action per file read (also one that S3 answers 403), insert, commit; `Raises` and `Crash` anywhere; `known`, `denied`, `gaps` are history |
| `OwnerMap` | one attribute's rows: `_own`, `fold_attributes`, `_overlaps`, `_refuse_unfilled`, `_relation`, `_most_specific`, `_living`, `settle`, `Fold.flags` | operators only; a row is a function from dims to a label or `Null` |
| `NodeFold` | a node as a fold leaves it (map, axes, dead labels) and the step that folds one layer onto it | operators only, used by the three below |
| `LayerFold` | a path of layers and the fold of its deepest node | `Layer` (a layer written and folded), `LayerRefused`, `Materialise` |
| `FoldTables` | `Revision.record` and `Revision.materialise` through the shared tables and the files of a node cache, under a schema that widens | `manifest` (how wide), `resolved` (the cache files of each node), `tables` (the database's), `rev` (each Revision object: its record, what it has read, what it has yet to write); `Hold`, `Build`, `ReadCoords`/`CreateCoords`, `ReadMap`/`CreateMap`, `Materialise` then `WriteAxes`, `WriteDead`, `WriteMap`, `MaterialiseFails`, `Crash`, `Widen` |
| `WorkingRecord` | `set` of an attribute over a base, with what `_complete_owned_whole` carries and `_spread` writes, `add`, `remove`, `rollback`, and the staged layer as the fold sees it | `table` has the rows of the attribute's staging table and `made` says whether there is one, `axis` the staged axes, `base` and `node` the base's path and fold; `calls` and `edits` are history |
| `EditedAxes` | abstract: axes edited in place, no reference dangling | `Edit`: `Put` (an `add`, a `set`), `Drop` (a `remove` with its tuples), back to `Start` (a `rollback`), on functions from label to value |
| `StagedAxes` | the staging tables of axes: `add` of labels and of tuples, `remove` with the tuples that go with a label, property edits, `rollback`, and the writer's checks of what results | `staged` holds the tables there are, of rows with a position; `added` is history |
| `ManifestProofs`, `StorePublishProofs`, `RevisionCacheProofs`, `LayerFoldProofs`, `FoldTablesProofs`, `StagedAxesProofs`, `WorkingRecordProofs` | the theorems about the module each is named for | |
| `LeastNumbers` | two lemmas the proofs share | |
| `MC...` | values of the constants | |

How they compose: `StorePublish` instantiates `Manifest`, and its `LayerDone`
stands for a layer the writer accepts. `LayerFold`, `WorkingRecord` and
`FoldTables` fold by the same step, `NodeFold!FoldOnto`; `FoldTables` instantiates
it once per value of `partial`, since two readers may fold one node under two
schemas. What `LayerFold` assumes of staged layers (`FillsEvery`) is a property
`WorkingRecord` is checked for (`StagedLayersFilled`).

Abstractions that matter:

- a schema's type is a model value standing for every field the comparison
  looks at; a manifest's version is its content, which is what the hash or the
  ETag tells apart;
- a revision file is its parent; a layer in `StorePublish` is none, part or
  whole, since only its presence matters there;
- a value is not modelled: the row and the layer or the call it comes from
  identify it. Attributes never meet in the fold, so there is one, over every dim;
  in the fold an axis is a set, and `StagedAxes` has its order. An attribute over
  a multi-dim, `one_of` dims and breakpoints are left out;
- in `FoldTables` all axes are written in one step, as are all dead labels, and
  a node's list of coordinates and its tables are one table; relations over cache
  files are read when the map is written, which is when DuckDB scans them;
- a call of `add` or `set` gives each label once. (`_insert` deletes by key and
  then inserts all it is given, so a label given twice leaves two rows, which the
  writer refuses later, see `HeldOnce`.)

## Runs

| Run | Bounds | What it shows |
|---|---|---|
| `manifest` | 2 writers, 7 schemas, 2 attempts, S3, one writer that may be refused the read | no widening lost, refusals final, implements `SchemaRegistry`, every call ends |
| `publish` | 2 writers, 3 revisions, S3 | published revisions are whole and readable; implements `RecordStore` |
| `cache` | 2 threads, one of which lists, 3 revisions, 2 of whose files S3 may at any read refuse, another process, raises and crashes | the table is never stale; what a lookup misses or a listing leaves out was not there or could not be read; a quiet table holds the ancestors of what it holds, but for gaps that name their cause; every call ends |
| `cache_ancestry` | 2 threads that look up and create, 2 revisions, every file readable | **violation**: a returned revision with a truncated ancestry |
| `fold` | 3 layers, 2 partial dims | the deepest layer's most specific row wins; removed labels stay removed; flags tell what rows use, and no more |
| `fold_whole` | 3 staged layers, 1 partial dim and 1 outside, up to 2 caches | the same, and caches change nothing; flags miss no dim |
| `edits` | bases of 1 or 2 layers, 2 sets, 1 add or remove | the last set wins, what is not set reads the base, and the staged layer is one the writer and the fold accept |
| `edits_spread` | bases of 1 layer with a row, 2 partial dims and 1 outside of one label each, 2 sets | **violation**: a default set first hides the exception set after it |
| `axes` | 2 dims, 1 multi-dim, 2 bases, 4 edits | no reference dangles, labels keep their places, the writer accepts the axes, implements `EditedAxes` |
| `tables` | 3 layers, 3 dims of which one is never in `partial`, 2 Revision objects of the two deeper nodes, `partial` widened once, also under records held that read every layer | axes and map of every read are the fold of the whole path under the reader's schema, its dead labels are for dims outside the manifest's `partial`, and every cache is whole under its key |
| `tables_reads` | the same | **violation**: under a held record, the dead labels of a dim that joined `partial` are missing |
| `tables_materialised` | the same, widened at any time | **violation**: a cache without the rows of the layers above it |

The bounds are the smallest at which the interesting cases occur. Two writers
and two attempts give a lost race, a retry and an exhausted call; the code's ten
attempts add only more of the same, and the proofs hold for any number. Three
revisions give a walk longer than one file and a sibling; ids are numbered in the
order they are published, and the second is under the first (`InOrder`). Two
unreadable files (`Unreadable`) give a walk denied at its first file and at a later
one, and a listing without a child or its parent; one thread that lists (`Listers`)
meets one that walks, creates and adds. Two labels per dim give a removal that leaves something; three
layers give a parent, a layer that covers, crosses or removes, and one that
restores. The rows of `MCLayerFold` name only one label of each partial dim,
besides `Null`: the second label is where a broadcast still shows. `MaxRows`
bounds the rows of one layer, `MaxDepth` the path, `MaxCaches` the materialised
nodes. Two sets give one that covers, splits or repeats what the first carried,
and one removal between them is what a staged row can be hidden by. Four edits of
axes give a label added, referred to, removed again and put back. In `tables` the
path has a label of the later partial dim removed and added again, so a map or
dead labels folded under the wrong key, or from too few layers, differ; one
Revision of each of two nodes, or two of one, is what a shared table needs; the dim
that is never in `partial` gives dead labels that must not be read back.

`CHECK_DEADLOCK FALSE` appears where the system may really stop: every writer has
nothing left to declare, the path has its full depth, the bounded edits are made.
In `cache` somebody can always call again, so deadlock is checked.

`fold_whole` assumes that writers fill what they read (`FillsEvery`) and that
labels outside `partial` are not added again (`Readds` FALSE), and `fold` has no
dim outside `partial`; both say so in their cfg. `edits` has bases without dead
labels. `tables` assumes that `partial` is widened only while the records that
start at a cache, and the materialises under way, are done with (`WidensFreely`
FALSE, `Settled`); records that read every layer are held across a widening. The
code waits for none of this; `tables_materialised` has `WidensFreely` TRUE and shows
what it costs. Even so `ReadsWhole` does not speak of the dead labels of a dim that
joined `partial` under a held record; `tables_reads` shows that they go wrong.

## Disagreements met

Four violations are runs; `PROJECT.json` quotes the lines.

- *Ancestry* (`cache_ancestry`, `store/store.py:439`). A walk adds its rows child
  first, one transaction each. (Listings add rows in no order; the run has none.)
- *Spread defaults* (`edits_spread`, `mutable.py:2179`). `_spread` writes a staged row
  along the labels that the base rows crossing it name, and skips only coordinates
  staged already, not those a more specific staged row reaches.
  `docs/design/use/editing.md:103` says that a default set first keeps the exceptions
  set after it; where the base has a row naming another partial dim, it does not.
- *Shared coordinates* (`tables_reads`, `resolve/owner_map.py:732`). The owner map's
  table is named by the node and `partial`, the coordinates' by the node alone. A
  record held since before a dim joined `partial` reads coordinates another reader
  folded under the wider one, without the dead labels of that dim, and no longer
  drops the rows of its removed labels.
- *Materialising with a stale record* (`tables_materialised`).
  `Revision.materialise` passes the sources of the record it holds, truncated under
  the schema it was built with, and folds them under the schema as it is now.

Others were met while modelling. Where a passing run has one, its properties are
stated to hold beside it; the rest show when a model is run with other bounds, and
the passing runs exclude them by the constants named.

- *Lookups* (`store/store.py:440`). `Store.revision` tests twice whether the row is held,
  before its walk (428) and at its first turn (432). A row another thread adds in
  between leaves `read` empty, and `read[0]` raises IndexError for a revision that
  is there. `WalkEnds` in `cache`, where the call ends in `"failed"`; asked again it
  is found (`FoundIsHeld`).
- *Refused reads* (`store/store.py:433`, `store/store.py:468`). `RemoteFiles.read_text`
  answers None for a file that is there and that S3 answers 403 for. A lookup then
  raises KeyError for a published revision, which its docstring keeps for one the
  store has not, and `revisions` leaves the revision out, its children in. `cache`
  has both: `NoFalseMiss`, `ListingComplete` and `QuietTableClosed` say that nothing
  else is missed, not that nothing is.
- *Gaps* (`store/store.py:437`, `store/store.py:459`). A call that raises or dies between
  two rows leaves the child's row without its parent's, and so does a listing that
  scanned the directory while others wrote; the row is held, so no later lookup walks
  on from it, and on a database file it stays so until a listing, or a lookup of the
  parent itself, fills it. `gaps` in `cache` records them.
- *Widening under a held record* (`store/store.py:622`, `store/cache.py:115`). Besides the
  two runs: where the map of the ancestor a record starts at is written again under
  the wider key, the record finds no seed under its own and folds the layers above
  it alone; a fresh record reads the cache that a stale materialise wrote. `tables` with
  `WidensFreely` TRUE violates `ReadsWhole` and `CachesWhole` too.
- *An undeclared `partial`* (`schema/schema.py:1144`). `compatible_with` compares
  `partial` only where both schemas declare it, so a schema that leaves it out is
  accepted and replaces the declared one; `docs/design/model/schema.md:133` calls
  removing from `partial` incompatible. `Manifest` has this behaviour:
  `RefusalIsFinal` and `ReconciledStillRead` are stated to hold beside it.
- *Crossing overlap rows* (`resolve/owner_map.py:218`). `docs/design/layers/resolution.md:88`
  says that overlap rows settle what crosses and the broadcast rule gives every
  answer. With four dims in `partial` it may not. A layer writes a row naming `e`
  and `f`, the next one naming `g` and `h`, so it owns their overlap. The third
  writes a row naming `e` and `g`, which covers that overlap, so the fold drops it,
  and crosses each of the two, so it adds two overlaps, `e f g` and `e g h`. These
  cross, no row names all four, and a read of that coordinate raises. With three
  dims it cannot happen, and no read is ever wrong (see Proofs). `LayerFold` with
  four dims in `Partial`; `fold` has two. Layers not written by a `WorkingRecord`
  may do the same with two dims in `partial` and one outside, even filled: a row
  naming `e` and `u`, one naming `f` and `u`, then one naming `e`, `f` and another
  label of `u`, which covers the overlap of the two and joins them nowhere. A
  `WorkingRecord` carries the overlap's rows along (`_complete_owned_whole`).
- *Unfilled crossings* (`resolve/owner_map.py:389`). `_refuse_unfilled` compares
  flags, not labels, so a layer not written by a `WorkingRecord`, filled at one
  label and not another, is accepted; `docs/design/layers/resolution.md:146` says
  the fold refuses it. `LayerFold` with `FillsEvery` FALSE.
- *Revived crossings* (`mutable.py:1404`). Staging spreads over the base's living
  rows; a label of a dim outside `partial` removed there and added again later
  brings back rows that cross what was staged, against `resolution.md:234`.
  `LayerFold` with `Readds` TRUE.
- *Lost values* (`mutable.py:1399`). `_complete_owned_whole` carries nothing for a key
  that leaves a partial dim NULL, as its docstring says (1357), but such a row still
  takes over every key it reaches: the base's values along the dims outside
  `partial` are gone there, though no call named them, which
  `docs/design/use/editing.md:297` rules out ("A label no edit mentioned keeps its
  rows in the parent"). `CarriedReadsBase` without `KeyBroadcast`.
- *Spread twice* (`mutable.py:2184`). With two dims outside `partial`, `_most_named`
  ranks what is spread by the dims in `partial` only. A base row naming both, then a
  set of `e` and one of `e` and the first of them, and both sets are spread to one
  coordinate, where neither row is the more specific. `WorkingRecord` with two dims in
  `Others`.
- *Carried beside a default* (`mutable.py:1398`). Over a base without an axis of a
  partial dim, values are carried for keys that leave it NULL; a later set naming a
  label of it crosses the carried rows, and the read raises, though the sets' own
  rows are ordered. `WorkingRecord` with such
  a base.
- *Refused layers* (`resolve/owner_map.py:369`). The owner map keeps the rows of
  dead labels outside `partial`, so the fold may refuse a staged layer for a
  crossing no living row makes, against `resolution.md:136`. `LayerRefused` in
  `fold_whole`.
- *A label added after a set* (`mutable.py:1343`). What a set carries along a dim
  outside `partial` is along the labels held then; a label added to it later in the
  same record no longer reads the base's broadcast at that key. `edits` therefore
  edits labels of the partial dim only (`EditedDims`).
- *Flags under dead labels* (`resolve/fold.py:154`). An attribute whose rows name
  only dead labels outside `partial` still has flags, and the dim is in `varies`;
  `docs/design/use/reading.md:100` says only attributes with rows are present.
  `FlagsTellNoMore` is therefore checked where every dim is in `partial`.

## Fairness

`Manifest!FairSpec` and `RevisionCache!FairSpec` assume weak fairness of the steps
inside a call: its thread is scheduled and the store or the database answers. No
fairness is assumed of callers, of other processes, or of crashes. The retry of a
conflicting insert needs no more: the other cursor's commit is a step of a call
too. `reconcile_schema` ends because its attempts are counted, whoever wins. The
other modules state no liveness: an edit is one call, and a read or a materialise
waits for nobody.

## Proofs

`ManifestProofs` (for all writers, schemas and attempts):

- `TypeCorrect`, by `TypeInv`, which adds that a call about to read has an attempt
  left;
- `NoWideningLost` and `RefusalsStand`, by an invariant over the *history* `held`:
  every schema the manifest ever held is still read by it, as is what a writer
  found and is about to write over. `ReconciledStillRead` alone is not inductive,
  since it says nothing of a writer between its check and its write. The argument
  is that reading under is transitive over accepted replacements;
- `CompareAndSwapImplementsRegistry`: each step is a `Declare` or a stutter. The
  condition of the write makes the check hold of the manifest it replaces.

`StorePublishProofs` (for all writers, ids and schemas):

- `PublishTypeCorrect`, `PublishedIsReadable` and `WideningFollowsALayer`, by
  `SInv`. Nothing about the manifest is proved twice: a step of `Store._write` is a
  step of `Manifest` or leaves its variables alone (`ManifestSteps`), so the
  invariant of `ManifestProofs` is kept. To it `SInv` adds what a call knows
  between its steps (`CallsKnow`: its parent is published, and once it declares its
  schema its layer is whole) and that a published revision's schema is in the
  manifest's history (`FilesLast`), which the manifest still reads;
- `WriteImplementsRecordStore`: `Create` maps to `Publish`, a step of the manifest to
  a `Widen` or a stutter (`StepRegisters` of `ManifestProofs`), and the rest to
  stutters.

`LayerFoldProofs` (for all dims, labels, rows, axes and depths):

- `TypeCorrect`;
- `OnlyLiveLabelsRead`, by `IInv`: every key of the map names labels on the axes,
  and every label a row names outside `partial` is on the axis or dead. The
  property itself says nothing of rows that are hidden now and might be read later,
  which is what the second part adds. The key of an overlap row takes its labels
  from a row of each layer, so it is live where they are.

- `CachesAreTransparent`, by the existence of the sequence of nodes that folding one
  layer after another gives (`CInv`): the last of them is the node read, and every
  cache is the one at its depth. A fold from the deepest cache then runs through
  the same nodes. That a fold *is* such a sequence is an induction over the path,
  made of least counterexamples (`LeastNumbers`).

On top of it, about what is read:

- `FlagsComplete`, by `FInv`, which adds two facts to `IInv`. A map row's flags are
  those of the rows written with its key *as written* (`AsWritten`), which an
  overlap row's key extends. And every label a key names is told by a row that
  varies over its dim and whose key it extends (`NamesTold`): an overlap row names
  labels its own flags do not tell, and it is the parent row that tells of them.
  The step is `TellerKept`: whatever layer removes or covers the parent row removes
  or covers the overlap row too, so the one never outlives the other.
- `ReadsAreNeverWrong`, by `DInv`. `Answer` speaks of the layers, `ReadAt` of the owner
  map; `DInv` connects them. A key of the map counts at its layer, by what the layers
  say (`Counting`); a row that counts is in the map under its own key (`Owning`); no
  key lies wholly under a deeper one (`NoneCovered`). So where the broadcast rule
  finds one row that names all that the others name, a deeper row could only be one
  that covers it, and there is none. `Refined` is the same within a layer.
- `DeepestWinsUncrossed`: what is left of `DeepestWins` is that a read finds a row
  wherever one counts, `NoneCross`. It fails with four dims in `partial` (above).
- `DeepestWinsOfThree` (assuming every dim in `partial`, at most three): the rows
  reaching a coordinate are *closed*, any two joined there by a third that names
  exactly what they name, so one names all. A layer keeps this: the combinatorics
  of what it covers, crosses and adds is `ClosedSets`, and it uses four dims to
  break, `FourAreMany`.
- `DeepestWinsFilled` (assuming one dim in `partial` at most, any number outside it,
  every layer filled, no label outside `partial` added again; `fold_whole` is an
  instance): keys are then nested, so no overlap row is ever made (`Plain`), and
  what can cross are rows along the dims outside. Of rows reaching a coordinate along
  living labels, any two are united by a third that names what either names
  (`RowsClosed`): within a layer the writer sees to it (`Ordered`), across layers the
  filling does (`FilledUnites`), and the layer's covering keeps or drops all three.
- `FlagsExact` (assuming every dim in `partial`): at every key of the map and at the
  key behind it some row is read. Without the assumption it is false (Flags under
  dead labels, above).

`RevisionCacheProofs` (for all threads, revisions and trees):

- `TableTypeCorrect`, `TableIsReal`, `TableHoldsWhatIsFound`, `TableListsAll` and
  `NoFileMissed`, by `IInv`, which says what a call knows between its steps: a walk has
  read the unbroken way up from its goal to the next revision (`Walks`); a listing
  has met only what is held (`Lists`); what a call still has to add is all that its
  answer lacks, but for what it was denied (`Adds`). That no file is read twice needs
  that the files are a tree, which a rank from revisions to numbers says (`Tree`).
  `CallKept` is what makes threads independent: a call's facts survive whatever
  others publish and add. Reads may be refused, and listings be of a changing
  directory, at every step;
- `NothingMissedLocally`: where no file is unreadable, which is every `LocalFiles`,
  a listing leaves nothing out and no KeyError is raised for a published revision;
- `QuietTableIsClosed`, for every listing, raise and crash, by `CInv`: a held row lacks
  its parent only while some call is adding that parent's row, or where the parent is
  a gap.

`FoldTablesProofs` (for all paths, `Revision` objects and sequences of `partial`s):

- `RecordsTypeCorrect`, by `Typed`;
- `ReadsAreWhole` and `CachesAreWhole`, assuming `partial` is widened only beside
  records that read every layer and are not being written (`WidensFreely` FALSE), by
  `WholeInv`: whatever a `Revision` has read or made to share is part of the fold of
  *every* layer under its own schema, which may be older than the manifest's, and what
  it has yet to write part of that under the key it is written for (`RevWhole`); every
  map on disk is whole under its key, and the axes and dead labels an unfinished
  materialise left are part of a whole fold too (`DiskWhole`); a shared table of
  coordinates, which does not say under which `partial` it was folded, serves every
  schema so far, since the axes do not depend on `partial` and the dead labels only
  by which dims have any (`AcrossSchemas`, `AsFirst`). `FoldIsWhole` is the induction:
  from a whole cache, the layers above it give the whole fold. The hypothesis is
  needed: without it both properties fail (Widening under a held record).

`StagedAxesProofs` (for all dims, tuples, bases and calls):

- `AxesTypeCorrect`, `AxesPlacesKept`, `StagedAxesAreAccepted` and `ReferencesAreHeld`,
  by `IInv`. `Placing`: a label of the base stands at its base's position, staged or
  not, and every other after all of the base, in the order added, so no two share a
  position and the base's order is never disturbed. `Referring`: no row, staged or
  only in the base, refers to a label that is not held; this is what the checks of
  `remove` buy, and it is stronger than what the writer asks, which looks at the
  labels this record removed;
- `StagingImplementsEdits`: an `add` and a `set` map to `Put`, a `remove` to `Drop`, a
  `rollback` to `Start`, each of them on what a read shows (`Shown`).

`WorkingRecordProofs` (for all bases, calls and orders of edits):

- `EditsTypeCorrect` and `StagedRowsHeld`, by `IInv`, for any dims: the node is the
  fold of a base, and a staged row names labels the base holds wherever its axis is
  not staged (`HeldAt`). Where the axis is staged, `_collapsed_attribute` drops what
  it lacks;
- the rest assumes `Narrow`: one dim in `partial` and one outside it at most, labels
  added and removed of the first only, whose axis every base has. Each part of it
  keeps out a disagreement met above (Spread defaults, Spread twice, A label added
  after a set, Carried beside a default): the code does not give `LastSetWins` without
  it. `edits` is an instance. They need more than they say, `WInv`:
  every staged row is a call's own, spread from one, or carried from the base
  (`Origins`), with what that makes it: a spread row names every dim and lies under
  its call's row; a carried one has the value of the most named base row reaching
  it, and no call reaches it. What no later call covers is staged (`AsksStaged`), no
  staged row is left to be spread (`CrossingsSpread`), and whatever the base reads
  at a key the layer takes over is reached by a staged row (`ExtentsCarried`);
- `LastSetIsRead`: under `Narrow` keys are nested, so a fold makes no overlap row and
  each of its rows is a layer's own (`Plain`). Of the calls' rows reaching a coordinate
  that was set, all that are left are named by one, of the last call (`LastRow`); what
  is staged there beside them is spread from that one (`StagedAt`), and no row left
  of the base names more;
- `StagedOrdered`: two staged rows that are not nested were both asked for
  (`StagedCross`), since a spread row names every dim and a carried one every dim
  outside `partial` that has labels. Calls' rows are ordered by hypothesis, and the
  row joining two of them is staged and kept where they are;
- `StagedFilled`, by `CrossingsSpread`. It is the assumption under which
  `DeepestWinsFilled` proves the fold's reads, so the two compose;
- `StagedFolds` and `CarriedIsRead` assume `Lasting` as well: no layer of the base
  removes a label outside `partial`. Rows of removed labels stay in the map, where
  `_refuse_unfilled` meets them and reads do not (Refused layers, above). Then the rows
  of a base that reach a coordinate are ordered (`BaseSettles`, an induction over its
  path), so the most named of them, which is carried, is the one the base reads.

They rest on the constants' assumptions, which each passing run evaluates, and on
the hypotheses named above, and on nothing else.

Only model-checked: liveness, which the prover cannot state. Every safety property and
refinement that a run checks is proved, some under the hypotheses named above, of
which the runs are instances. With several dims in `partial` and others outside,
neither `DeepestWins` nor the theorems under `Narrow` are proved, and no passing run has
them; `ReadsAreNeverWrong`, `DeepestWinsUncrossed`, `OnlyLiveLabelsRead`, `FlagsComplete` and
`StagedRowsHeld` hold there. The inductive invariants were checked on the runs'
instances before they were proved.

## Plan

1. Done: `Manifest`, `StorePublish`, `RevisionCache`, `OwnerMap`, `LayerFold`,
   `FoldTables`, `WorkingRecord`, `StagedAxes`, flags.
2. Proofs next: `WorkingRecord` with several dims in `partial` and none outside, where
   nothing is carried or spread; with several of both, once `_spread` keeps exceptions.
3. Models next: attributes over a multi-dim in `OwnerMap` (the tuples a removed
   label takes along are in `StagedAxes` already), and breakpoints as part of a
   row's place.

## Not modelled

- Standalone records (`Workspace.write`, `Workspace.at`): one directory, and one
  writer by `docs/design/storage/concurrency.md:95-97`, so nothing interleaves. A
  process killed inside `write_layer` leaves `<uri>.staging` there.
- The tools (`tools/`): a conversion, table by table, of names, units and shapes;
  it keeps no state and its order of calls is fixed. They are a quarter of the
  lines.
- `duck.py`, `dtypes.py`, `specs.py`, `categories.py` and `protocols.py`: pure
  functions of their arguments or declarations; tests reach them. Name rules,
  categories, defaults and column types in `schema.py` are of that kind too.
- Values, units, defaults, labels' types and row order are data the properties do
  not tell apart.
