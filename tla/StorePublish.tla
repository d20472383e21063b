---------------------------- MODULE StorePublish ----------------------------
(***************************************************************************)
(* Store._write: a revision is written as its layer, then the manifest,    *)
(* then its file, and exists only by its file.                             *)
(*                                                                         *)
(* Writers interleave between and inside the three steps, any of which may *)
(* raise, and may die at each.  The middle step is Manifest, whose         *)
(* variables this module shares.                                           *)
(*                                                                         *)
(*   - An id is a fresh uuid4: no two calls draw the same one.             *)
(*   - A local layer is staged and renamed, so it is there whole or not at *)
(*     all; on S3 its files appear one by one and stay if the write stops. *)
(*   - What a layer's frames are validated against is left out: a frame    *)
(*     may be refused at any time.                                         *)
(***************************************************************************)
EXTENDS SchemaCompat, Naturals

CONSTANTS Writers, Schemas, Readers, Attempts, Remote, Absent,
          Ids,       \* the ids uuid4 may draw
          Root,      \* a parent of None
          NoFile     \* no revision file, and no id

ASSUME IdsAssumption == Root \notin Ids /\ NoFile \notin Ids \cup {Root}
\* What Manifest asks of the constants it shares.
ASSUME ManifestAssumption ==
    /\ Readers \subseteq Writers
    /\ Attempts \in Nat \ {0}
    /\ Remote \in BOOLEAN
    /\ ~ Remote => Readers = Writers
    /\ Absent \notin Schemas
    /\ \A s \in Schemas : Valid(s)

VARIABLES manifest, pc, want, found, attempt, held,     \* Manifest's
          layer,     \* how much of each layer directory a reader would meet
          under,     \* the schema each id's layer is written under
          revfile,   \* the parent in each id's revision file
          doing,     \* the step of _write each writer is in
          mine,      \* the id each writer drew
          over       \* and the parent it writes it under

M == INSTANCE Manifest

mvars == <<manifest, pc, want, found, attempt, held>>
own == <<doing, mine, over>>
vars == <<mvars, layer, under, revfile, own>>

Published == {id \in Ids : revfile[id] # NoFile}

TypeOK ==
    /\ M!TypeOK
    /\ layer \in [Ids -> {"none", "part", "whole"}]
    /\ under \in [Ids -> Schemas \cup {Absent}]
    /\ revfile \in [Ids -> Ids \cup {Root, NoFile}]
    /\ doing \in [Writers -> {"idle", "layer", "manifest"}]
    /\ mine \in [Writers -> Ids \cup {NoFile}]
    /\ over \in [Writers -> Ids \cup {Root, NoFile}]

Init ==
    /\ M!Init
    /\ layer = [id \in Ids |-> "none"]
    /\ under = [id \in Ids |-> Absent]
    /\ revfile = [id \in Ids |-> NoFile]
    /\ doing = [w \in Writers |-> "idle"]
    /\ mine = [w \in Writers |-> NoFile]
    /\ over = [w \in Writers |-> NoFile]

-----------------------------------------------------------------------------
\* root() or child(): a fresh id, under no parent or under a revision that
\* could be looked up, which one with a file is.
Start(w, id, parent, s) ==
    /\ doing[w] = "idle"
    /\ under[id] = Absent
    /\ parent \in Published \cup {Root}
    /\ doing' = [doing EXCEPT ![w] = "layer"]
    /\ mine' = [mine EXCEPT ![w] = id]
    /\ over' = [over EXCEPT ![w] = parent]
    /\ under' = [under EXCEPT ![id] = s]
    /\ UNCHANGED <<mvars, layer, revfile>>

\* The call of _write is over, by its return, a raise or its process's death.
Leave(w) ==
    /\ doing' = [doing EXCEPT ![w] = "idle"]
    /\ mine' = [mine EXCEPT ![w] = NoFile]
    /\ over' = [over EXCEPT ![w] = NoFile]

\* On S3 a file of the layer is in place as soon as it is written.
LayerFile(w) ==
    /\ Remote
    /\ doing[w] = "layer"
    /\ layer[mine[w]] = "none"
    /\ layer' = [layer EXCEPT ![mine[w]] = "part"]
    /\ UNCHANGED <<mvars, under, revfile, own>>

\* A frame fails validation, or a file cannot be written.
LayerRefused(w) ==
    /\ doing[w] = "layer"
    /\ Leave(w)
    /\ UNCHANGED <<mvars, layer, under, revfile>>

\* Mutant: the schema is declared while files of the layer are still to come.
LayerDoneLazily(w) ==
    /\ doing[w] = "layer"
    /\ M!Begin(w, under[mine[w]])
    /\ doing' = [doing EXCEPT ![w] = "manifest"]
    /\ UNCHANGED <<layer, under, revfile, mine, over>>

\* The staging directory is renamed, or the last file is in place: write_layer
\* returns, and reconcile_schema is called.
LayerDone(w) ==
    /\ doing[w] = "layer"
    /\ layer' = [layer EXCEPT ![mine[w]] = "whole"]
    /\ M!Begin(w, under[mine[w]])
    /\ doing' = [doing EXCEPT ![w] = "manifest"]
    /\ UNCHANGED <<under, revfile, mine, over>>

\* The steps of reconcile_schema.
Reconcile(w) ==
    /\ doing[w] = "manifest"
    /\ M!Progress(w)
    /\ UNCHANGED <<layer, under, revfile, own>>

\* reconcile_schema raises: the schema is incompatible, or every attempt lost.
ManifestRefused(w) ==
    /\ doing[w] = "manifest"
    /\ pc[w] \in {"refused", "exhausted"}
    /\ Leave(w)
    /\ UNCHANGED <<mvars, layer, under, revfile>>

\* Mutant: the revision file is written before the manifest is reconciled.
ReconciledEarly(w) == doing[w] = "manifest"

\* reconcile_schema has returned, so the revision file may be written.
Reconciled(w) == doing[w] = "manifest" /\ pc[w] = "returned"

\* _create: the revision file, create-only.  On S3 its answer may be lost and
\* the client's own retry refused (412): _write then raises over a revision
\* that is there, which is the same step seen from the store.
Create(w) ==
    /\ Reconciled(w)
    /\ revfile[mine[w]] = NoFile
    /\ revfile' = [revfile EXCEPT ![mine[w]] = over[w]]
    /\ Leave(w)
    /\ UNCHANGED <<mvars, layer, under>>

\* The process dies, or the write of the revision file fails.
Crash(w) ==
    /\ doing[w] # "idle"
    /\ IF pc[w] \in M!Running THEN M!Crash(w) ELSE UNCHANGED mvars
    /\ Leave(w)
    /\ UNCHANGED <<layer, under, revfile>>

Next ==
    \E w \in Writers :
        \/ \E id \in Ids, parent \in Ids \cup {Root}, s \in Schemas : Start(w, id, parent, s)
        \/ LayerFile(w)
        \/ LayerRefused(w)
        \/ LayerDone(w)
        \/ Reconcile(w)
        \/ ManifestRefused(w)
        \/ Create(w)
        \/ Crash(w)

Spec == Init /\ [][Next]_vars

-----------------------------------------------------------------------------
\* Whoever reaches a revision through its file can read it: the revisions under
\* it are there, its layer is whole, and the manifest declares its rows.
PublishedReadable ==
    \A id \in Published :
        /\ revfile[id] \in Published \cup {Root}
        /\ layer[id] = "whole"
        /\ manifest # Absent /\ RowsRead(manifest, under[id])

\* The manifest is widened only for a layer that exists: a write that fails
\* before its layer is whole leaves the manifest as it was.
WidenedForALayer ==
    \A s \in held : \E id \in Ids : layer[id] = "whole" /\ under[id] = s

Tree == [id \in Published |-> [parent |-> revfile[id], schema |-> under[id]]]

Promise == INSTANCE RecordStore WITH schema <- manifest, tree <- Tree

\* The three steps of _write implement a store whose revisions appear in one.
ImplementsRecordStore == Promise!StoreSpec
=============================================================================
