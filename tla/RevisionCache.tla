---------------------------- MODULE RevisionCache ---------------------------
(***************************************************************************)
(* The `revisions` table of one workspace: the cache of a store's revision *)
(* files that Store.revision, revisions and _create fill and that          *)
(* ancestry() queries.                                                     *)
(*                                                                         *)
(* The threads of the process share the table, each through its own        *)
(* cursor, and every INSERT is a transaction of its own.  Other processes  *)
(* publish revisions meanwhile.                                            *)
(*                                                                         *)
(*   - A revision's file and its row are modelled by its parent.           *)
(*   - The `_held` test of the walk and the read of the file that follows  *)
(*     are one step: the file, once there, does not change.                *)
(*   - read_text answers None where there is no file, and on S3 where it   *)
(*     may not be read (403): the second is a choice at every read of an   *)
(*     Unreadable file.  Any other error of a read, a listing or an insert *)
(*     ends its call (Raises).                                             *)
(***************************************************************************)
EXTENDS Naturals, Sequences, FiniteSets

CONSTANTS Threads,       \* the threads of the process
          Ids,           \* the ids of revisions
          Root,          \* a parent of None
          Missing,       \* no file, or no row
          Parents,       \* per id, the parents it may be published under
          Unreadable,    \* the files whose reads S3 may at times answer 403
          Listers        \* the threads that call revisions()

ASSUME IdsAssumption == Root \notin Ids /\ Missing \notin Ids \cup {Root}
ASSUME ParentsAssumption == Parents \in [Ids -> SUBSET (Ids \cup {Root})]
ASSUME UnreadableAssumption == Unreadable \subseteq Ids
ASSUME ListersAssumption == Listers \subseteq Threads

VARIABLES file,       \* the revision files of the location
          rows,       \* the `revisions` table
          at,         \* where each thread is, or how its last call ended
          goal,       \* the revision its call is about; Missing in revisions()
          next_id,    \* the walk's next revision
          read,       \* the rows it has read and not yet added
          seen,       \* what revisions() found held
          known,      \* what its call is about and was there when it began (history)
          denied,     \* the files its call was answered None for, though there (history)
          gaps        \* what listings, raises and crashes left out, not added since (history)

vars == <<file, rows, at, goal, next_id, read, seen, known, denied, gaps>>

Published == {id \in Ids : file[id] # Missing}
Held == {id \in Ids : rows[id] # Missing}
Row(id) == <<id, file[id]>>
Ended == {"idle", "found", "missing", "failed", "listed"}
Adding == {"insert", "commit"}

TypeOK ==
    /\ file \in [Ids -> Ids \cup {Root, Missing}]
    /\ rows \in [Ids -> Ids \cup {Root, Missing}]
    /\ at \in [Threads -> Ended \cup Adding \cup {"walk", "list"}]
    /\ goal \in [Threads -> Ids \cup {Missing}]
    /\ next_id \in [Threads -> Ids \cup {Root, Missing}]
    /\ read \in [Threads -> Seq(Ids \X (Ids \cup {Root}))]
    /\ \A t \in Threads :
         /\ \A i, j \in DOMAIN read[t] : read[t][i][1] = read[t][j][1] => i = j
         /\ at[t] \in Adding => read[t] # << >>
    /\ seen \in [Threads -> SUBSET Ids]
    /\ known \in [Threads -> SUBSET Ids]
    /\ denied \in [Threads -> SUBSET Unreadable]
    /\ gaps \subseteq Ids

Init ==
    /\ file = [id \in Ids |-> Missing]
    /\ rows = [id \in Ids |-> Missing]
    /\ at = [t \in Threads |-> "idle"]
    /\ goal = [t \in Threads |-> Missing]
    /\ next_id = [t \in Threads |-> Missing]
    /\ read = [t \in Threads |-> << >>]
    /\ seen = [t \in Threads |-> {}]
    /\ known = [t \in Threads |-> {}]
    /\ denied = [t \in Threads |-> {}]
    /\ gaps = {}

-----------------------------------------------------------------------------
\* revision(id), which unpickling a Revision calls too, begins: a held row is
\* the answer, and a miss starts the walk.
Lookup(t, id) ==
    /\ at[t] \in Ended
    /\ goal' = [goal EXCEPT ![t] = id]
    /\ at' = [at EXCEPT ![t] = IF id \in Held THEN "found" ELSE "walk"]
    /\ next_id' = [next_id EXCEPT ![t] = IF id \in Held THEN Missing ELSE id]
    /\ known' = [known EXCEPT ![t] = IF id \in Held THEN {} ELSE {id} \cap Published]
    /\ denied' = [denied EXCEPT ![t] = {}]
    /\ UNCHANGED <<file, rows, read, seen, gaps>>

\* The walk meets neither the root's parent nor a held row.
Walking(t) == at[t] = "walk" /\ next_id[t] \notin Held \cup {Root}

\* Mutant: the walk ends with the revision asked for.
WalkOne(t) ==
    /\ Walking(t)
    /\ next_id[t] \in Published
    /\ read' = [read EXCEPT ![t] = <<Row(next_id[t])>>]
    /\ next_id' = [next_id EXCEPT ![t] = Root]
    /\ UNCHANGED <<file, rows, at, goal, seen, known, denied, gaps>>

\* One turn of the walk: the next revision's file is read.
Walk(t) ==
    /\ Walking(t)
    /\ next_id[t] \in Published
    /\ read' = [read EXCEPT ![t] = Append(@, Row(next_id[t]))]
    /\ next_id' = [next_id EXCEPT ![t] = file[next_id[t]]]
    /\ UNCHANGED <<file, rows, at, goal, seen, known, denied, gaps>>

\* Mutant: a missing file is waited for.
MissAgain(t) ==
    /\ Walking(t)
    /\ next_id[t] \notin Published
    /\ UNCHANGED vars

\* A file is not there, or there and not to be read: KeyError.
Miss(t) ==
    /\ Walking(t)
    /\ next_id[t] \notin Published \ Unreadable
    /\ denied' = [denied EXCEPT ![t] = {next_id[t]} \cap Published]
    /\ at' = [at EXCEPT ![t] = "missing"]
    /\ next_id' = [next_id EXCEPT ![t] = Missing]
    /\ read' = [read EXCEPT ![t] = << >>]
    /\ UNCHANGED <<file, rows, goal, seen, known, gaps>>

\* Mutant: the rows are added whether or not the walk read any.
WalkEndsBlind(t) ==
    /\ at[t] = "walk"
    /\ next_id[t] \in Held \cup {Root}
    /\ at' = [at EXCEPT ![t] = "insert"]
    /\ next_id' = [next_id EXCEPT ![t] = Missing]
    /\ UNCHANGED <<file, rows, goal, read, seen, known, denied, gaps>>

\* The walk is over.  Where it read nothing, because another thread added the
\* very row since this one missed it, read[0] raises IndexError.
WalkEnds(t) ==
    /\ at[t] = "walk"
    /\ next_id[t] \in Held \cup {Root}
    /\ at' = [at EXCEPT ![t] = IF read[t] = << >> THEN "failed" ELSE "insert"]
    /\ next_id' = [next_id EXCEPT ![t] = Missing]
    /\ UNCHANGED <<file, rows, goal, read, seen, known, denied, gaps>>

-----------------------------------------------------------------------------
\* revisions() begins: what is held is read first.
List(t) ==
    /\ at[t] \in Ended
    /\ at' = [at EXCEPT ![t] = "list"]
    /\ goal' = [goal EXCEPT ![t] = Missing]
    /\ seen' = [seen EXCEPT ![t] = Held]
    /\ known' = [known EXCEPT ![t] = Published]
    /\ denied' = [denied EXCEPT ![t] = {}]
    /\ UNCHANGED <<file, rows, next_id, read, gaps>>

\* What Files.list may answer: what was there when it was called, and some of
\* what was added while the directory was scanned or the next page asked for.
Listings(t) == {S \in SUBSET Published : known[t] \subseteq S}

\* The parents that a call which reads `got` leaves out.
ParentsLeft(got) == {file[id] : id \in got} \ (Held \cup got \cup {Root})

\* The listed files that were not held are read, in any order; those whose read
\* answers None are left out.
Listed(t) ==
    /\ at[t] = "list"
    /\ \E listed \in Listings(t) : \E got \in SUBSET (listed \ seen[t]) :
         /\ (listed \ seen[t]) \ got \subseteq Unreadable
         /\ at' = [at EXCEPT ![t] = IF got = {} THEN "listed" ELSE "insert"]
         /\ \E order \in {o \in [1 .. Cardinality(got) -> got] : \A id \in got : \E i \in DOMAIN o : o[i] = id} :
              read' = [read EXCEPT ![t] = [i \in DOMAIN order |-> Row(order[i])]]
         /\ denied' = [denied EXCEPT ![t] = (listed \ seen[t]) \ got]
         /\ gaps' = gaps \cup ParentsLeft(got)
    /\ seen' = [seen EXCEPT ![t] = {}]
    /\ UNCHANGED <<file, rows, goal, next_id, known>>

-----------------------------------------------------------------------------
\* A new id is a uuid4, drawn by the call that publishes it: there is no such
\* file, and nobody asked for it.
Fresh(id) == id \notin Published /\ \A t \in Threads : goal[t] # id

\* Mutant: the row is added before the file is written.
CreateRowFirst(t, id, parent) ==
    /\ at[t] \in Ended
    /\ id \notin Published
    /\ parent \in Held \cup {Root}
    /\ IF id \in Held
       THEN rows[id] = parent /\ file' = [file EXCEPT ![id] = parent] /\ UNCHANGED rows
       ELSE rows' = [rows EXCEPT ![id] = parent] /\ UNCHANGED file
    /\ UNCHANGED <<at, goal, next_id, read, seen, known, denied, gaps>>

\* _create, for a child of a revision this process holds: the file, then the row.
Create(t, id, parent) ==
    /\ at[t] \in Ended
    /\ Fresh(id)
    /\ parent \in Held \cup {Root}
    /\ file' = [file EXCEPT ![id] = parent]
    /\ at' = [at EXCEPT ![t] = "insert"]
    /\ goal' = [goal EXCEPT ![t] = id]
    /\ read' = [read EXCEPT ![t] = << <<id, parent>> >>]
    /\ UNCHANGED <<rows, next_id, seen, known, denied, gaps>>

\* Another process publishes a revision.
Elsewhere(id, parent) ==
    /\ Fresh(id)
    /\ parent \in Published \cup {Root}
    /\ file' = [file EXCEPT ![id] = parent]
    /\ UNCHANGED <<rows, at, goal, next_id, read, seen, known, denied, gaps>>

-----------------------------------------------------------------------------
\* The row _cache is adding.
RowId(t) == Head(read[t])[1]

\* On to the next row, or the call returns.
Added(t) ==
    /\ read' = [read EXCEPT ![t] = Tail(@)]
    /\ at' = [at EXCEPT ![t] =
                IF Len(read[t]) > 1 THEN "insert"
                ELSE IF goal[t] = Missing THEN "listed" ELSE "found"]

\* INSERT OR IGNORE finds the row there.
Ignored(t) ==
    /\ at[t] = "insert"
    /\ RowId(t) \in Held
    /\ Added(t)
    /\ UNCHANGED <<file, rows, goal, next_id, seen, known, denied, gaps>>

\* The row is inserted, and visible to other cursors once committed.
Insert(t) ==
    /\ at[t] = "insert"
    /\ RowId(t) \notin Held
    /\ at' = [at EXCEPT ![t] = "commit"]
    /\ UNCHANGED <<file, rows, goal, next_id, read, seen, known, denied, gaps>>

\* Mutant: the loser of a conflict takes the row to be there.
ConflictIsDone(t) ==
    /\ at[t] = "insert"
    /\ RowId(t) \notin Held
    /\ \E u \in Threads \ {t} : at[u] = "commit" /\ RowId(u) = RowId(t)
    /\ Added(t)
    /\ UNCHANGED <<file, rows, goal, next_id, seen, known, denied, gaps>>

\* Another cursor has inserted the row and not committed it: a conflict, after
\* which the insert is tried again.
Conflict(t) ==
    /\ at[t] = "insert"
    /\ RowId(t) \notin Held
    /\ \E u \in Threads \ {t} : at[u] = "commit" /\ RowId(u) = RowId(t)
    /\ UNCHANGED vars

\* The transaction ends: with the row, or with a duplicate key where another
\* cursor committed it first.
Commit(t) ==
    /\ at[t] = "commit"
    /\ rows' = IF RowId(t) \in Held THEN rows
               ELSE [rows EXCEPT ![RowId(t)] = Head(read[t])[2]]
    /\ Added(t)
    /\ gaps' = gaps \ {RowId(t)}
    /\ UNCHANGED <<file, goal, next_id, seen, known, denied>>

\* What a call has read and not added.
Unadded(t) == {read[t][i][1] : i \in DOMAIN read[t]} \ Held

\* A read, the listing or an insert raises, an insert also by a
\* TransactionException that is neither a duplicate key nor a conflict.  What
\* the call added stays.
Raises(t) ==
    /\ at[t] \notin Ended
    /\ at' = [at EXCEPT ![t] = "idle"]
    /\ goal' = [goal EXCEPT ![t] = Missing]
    /\ next_id' = [next_id EXCEPT ![t] = Missing]
    /\ read' = [read EXCEPT ![t] = << >>]
    /\ seen' = [seen EXCEPT ![t] = {}]
    /\ known' = [known EXCEPT ![t] = {}]
    /\ denied' = [denied EXCEPT ![t] = {}]
    /\ gaps' = gaps \cup Unadded(t)
    /\ UNCHANGED <<file, rows>>

\* The process dies, and starts again on its database, a file or in memory.
Crash ==
    /\ \E t \in Threads : at[t] \notin Ended
    /\ \/ UNCHANGED rows /\ gaps' = gaps \cup UNION {Unadded(t) : t \in Threads}
       \/ rows' = [id \in Ids |-> Missing] /\ gaps' = {}
    /\ at' = [t \in Threads |-> "idle"]
    /\ goal' = [t \in Threads |-> Missing]
    /\ next_id' = [t \in Threads |-> Missing]
    /\ read' = [t \in Threads |-> << >>]
    /\ seen' = [t \in Threads |-> {}]
    /\ known' = [t \in Threads |-> {}]
    /\ denied' = [t \in Threads |-> {}]
    /\ UNCHANGED file

Progress(t) ==
    \/ Walk(t)
    \/ Miss(t)
    \/ WalkEnds(t)
    \/ Listed(t)
    \/ Ignored(t)
    \/ Insert(t)
    \/ Conflict(t)
    \/ Commit(t)

Next ==
    \/ \E t \in Threads :
         \/ \E id \in Ids : Lookup(t, id)
         \/ t \in Listers /\ List(t)
         \/ Raises(t)
         \/ \E id \in Ids : \E parent \in Parents[id] : Create(t, id, parent)
         \/ Progress(t)
    \/ \E id \in Ids : \E parent \in Parents[id] : Elsewhere(id, parent)
    \/ Crash

Spec == Init /\ [][Next]_vars

\* A thread inside a call is scheduled, and files and database answer.  Nobody
\* has to call.
FairSpec == Spec /\ \A t \in Threads : WF_vars(Progress(t))

-----------------------------------------------------------------------------
\* The ids _ANCESTRY joins, from `id` up, in a table of parents.
Ancestry(parents, id) ==
    LET known_ids == {i \in Ids : parents[i] # Missing}
        up[n \in 0 .. Cardinality(Ids)] ==
          IF n = 0 THEN {id} \cap known_ids
          ELSE up[n - 1] \cup ({parents[i] : i \in up[n - 1]} \cap known_ids)
    IN up[Cardinality(Ids)]

\* The table can be incomplete but never stale: a row is what the file says,
\* across crashes, racing inserts and whoever wrote the file.
RowsAreReal == \A id \in Held : rows[id] = file[id]

\* A call returns a revision only once its row is visible to every cursor: the
\* loser of a conflict waited for the winner.  A lookup that ends in read[0]'s
\* IndexError lost to another thread, whose row is there: asked again, the
\* revision is found.
FoundIsHeld == \A t \in Threads : at[t] \in {"found", "failed"} => goal[t] \in Held

\* revisions() leaves nothing out that was published when it was called, except
\* files that S3 would not let it read: what others publish and add meanwhile
\* costs it no revision.
ListingComplete == \A t \in Threads : at[t] = "listed" => known[t] \subseteq Held \cup denied[t]

\* KeyError is raised for a revision that was there when it was asked for only
\* where S3 would not let its file or an ancestor's be read: the walk up, which
\* reads many files while others are written, never runs into one not there.
NoFalseMiss == \A t \in Threads : at[t] = "missing" => known[t] = {} \/ denied[t] # {}

\* Whenever no thread is adding rows, the table holds the way up from what it
\* holds, but for what was read and not added by a call that raised or died,
\* and the parents a listing did not list or was not let read.  Lookups, creates,
\* races and listings that saw whole trees leave no gap.
QuietTableClosed ==
    (\A t \in Threads : at[t] \notin Adding)
        => \A id \in Held : rows[id] \in Held \cup {Root} \cup gaps

\* Every call ends, those whose inserts conflict too.
Terminates == \A t \in Threads : at[t] \notin Ended ~> at[t] \in Ended

\* ancestry(): "The whole path".  A revision a call returned has, in the table,
\* the ancestors its files give it.
AncestryWhole ==
    \A t \in Threads :
        at[t] = "found" => Ancestry(rows, goal[t]) = Ancestry(file, goal[t])
=============================================================================
