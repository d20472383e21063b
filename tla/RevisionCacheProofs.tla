------------------------ MODULE RevisionCacheProofs -------------------------
(***************************************************************************)
(* What the `revisions` table guarantees for every number of threads and   *)
(* revisions, every tree other processes publish, and every order of their *)
(* steps.                                                                  *)
(***************************************************************************)
EXTENDS RevisionCache, FiniteSetTheorems, SequenceTheorems, TLAPS

Pairs == Ids \X (Ids \cup {Root})
Entries(t) == {read[t][i][1] : i \in DOMAIN read[t]}

-----------------------------------------------------------------------------
(* The inductive invariant.                                                *)

\* The variables' types, without what calls read.
Types ==
    /\ file \in [Ids -> Ids \cup {Root, Missing}]
    /\ rows \in [Ids -> Ids \cup {Root, Missing}]
    /\ at \in [Threads -> Ended \cup Adding \cup {"walk", "list"}]
    /\ goal \in [Threads -> Ids \cup {Missing}]
    /\ next_id \in [Threads -> Ids \cup {Root, Missing}]
    /\ read \in [Threads -> Seq(Pairs)]
    /\ seen \in [Threads -> SUBSET Ids]
    /\ known \in [Threads -> SUBSET Ids]
    /\ denied \in [Threads -> SUBSET Unreadable]
    /\ gaps \subseteq Ids

\* The files are a tree, by a rank that falls from a revision to its parent,
\* and a row is what its file says.
Tree(rank) ==
    /\ IsFiniteSet(Published)
    /\ \A id \in Published : file[id] \in Published \cup {Root}
    /\ \A id \in Published : file[id] # Root => rank[file[id]] < rank[id]
    /\ \A id \in Held : id \in Published /\ rows[id] = file[id]

\* What a call has read and not added: each file once.
Reads(t) ==
    /\ \A i \in DOMAIN read[t] : read[t][i][1] \in Published /\ read[t][i] = Row(read[t][i][1])
    /\ \A i, j \in DOMAIN read[t] : read[t][i][1] = read[t][j][1] => i = j

\* A walk has read the way up from its goal to the next revision, which is there
\* unless it is the goal and was not there when asked for.
Walks(t, rank) ==
    at[t] = "walk" =>
        /\ goal[t] \in Ids
        /\ next_id[t] # Missing
        /\ known[t] # {} \/ read[t] # << >> => next_id[t] \in Published \cup {Root}
        /\ read[t] = << >> => next_id[t] = goal[t]
        /\ read[t] # << >> =>
             /\ read[t][1][1] = goal[t]
             /\ read[t][Len(read[t])][2] = next_id[t]
             /\ \A i \in 1 .. Len(read[t]) - 1 : read[t][i][2] = read[t][i + 1][1]
        /\ next_id[t] # Root => \A i \in DOMAIN read[t] : rank[next_id[t]] < rank[read[t][i][1]]

Lists(t) ==
    at[t] = "list" =>
        /\ read[t] = << >>
        /\ goal[t] = Missing
        /\ seen[t] \subseteq Held
        /\ known[t] \subseteq Published

\* What a call has yet to add is all that its answer still lacks.
Adds(t) ==
    at[t] \in Adding =>
        /\ read[t] # << >>
        /\ goal[t] = Missing => known[t] \subseteq Held \cup Entries(t) \cup denied[t]
        /\ goal[t] # Missing => goal[t] \in Held \cup Entries(t)

Ends(t) ==
    at[t] \in Ended =>
        /\ read[t] = << >>
        /\ at[t] \in {"found", "failed"} => goal[t] \in Held
        /\ at[t] = "missing" => known[t] = {} \/ denied[t] # {}
        /\ at[t] = "listed" => known[t] \subseteq Held \cup denied[t]

Call(t, rank) == Reads(t) /\ Walks(t, rank) /\ Lists(t) /\ Adds(t) /\ Ends(t)

Ranked(rank) == Tree(rank) /\ \A t \in Threads : Call(t, rank)

IInv == Types /\ \E rank \in [Ids -> Nat] : Ranked(rank)

-----------------------------------------------------------------------------
(* A call is not disturbed by what others publish and add.                 *)

Local(t) == <<at[t], goal[t], next_id[t], read[t], seen[t], known[t], denied[t]>>

LEMMA CallKept ==
    ASSUME Types, NEW t \in Threads, NEW rank, NEW next, Call(t, rank), UNCHANGED Local(t),
           Held \subseteq Held', Published \subseteq Published',
           \A id \in Published : file'[id] = file[id] /\ next[id] = rank[id]
    PROVE  Call(t, next)'
<1>1. read[t] \in Seq(Pairs) /\ DOMAIN read[t] = 1 .. Len(read[t])
  BY DEF Types
<1>2. Reads(t)'
  BY DEF Call, Reads, Row, Local
<1>3. ASSUME at[t] = "walk" PROVE Walks(t, next)'
  <2>1. Reads(t) /\ Walks(t, rank) /\ UNCHANGED Local(t)
    BY DEF Call
  <2>2. ASSUME next_id[t] # Root, NEW i \in DOMAIN read[t]
        PROVE  next[next_id[t]] < next[read[t][i][1]]
    <3>1. read[t][i][1] \in Published /\ read[t] # << >>
      BY <1>1, <2>1, <2>2 DEF Reads
    <3>2. next_id[t] \in Published
      BY <1>3, <2>1, <2>2, <3>1 DEF Walks
    <3> QED
      BY <1>3, <2>1, <2>2, <3>1, <3>2 DEF Walks
  <2> QED
    BY <1>3, <2>1, <2>2 DEF Walks, Local
<1>4. Lists(t)' /\ Adds(t)' /\ Ends(t)'
  BY DEF Call, Lists, Adds, Ends, Entries, Local
<1> QED
  BY <1>2, <1>3, <1>4 DEF Call, Walks, Local

\* So a step of one call that publishes nothing needs a look at that call only.
LEMMA OneCall ==
    ASSUME Types, NEW t \in Threads, NEW rank, Ranked(rank), UNCHANGED file,
           Held \subseteq Held', \A id \in Held' : id \in Published /\ rows'[id] = file[id],
           \A u \in Threads \ {t} : UNCHANGED Local(u),
           Call(t, rank)'
    PROVE  Ranked(rank)'
<1>1. Published' = Published
  BY DEF Published
<1>2. Tree(rank)'
  BY <1>1 DEF Ranked, Tree
<1>3. \A u \in Threads \ {t} : Call(u, rank)'
  BY <1>1, CallKept DEF Ranked
<1> QED
  BY <1>2, <1>3 DEF Ranked

LEMMA LookupStep ==
    ASSUME Types, NEW rank, Ranked(rank), NEW t \in Threads, NEW id \in Ids, Lookup(t, id)
    PROVE  Types' /\ Ranked(rank)'
<1>1. Types'
  BY DEF Lookup, Types, Ended, Adding
<1>2. UNCHANGED <<file, rows, read, seen>> /\ Held' = Held /\ Published' = Published
  BY DEF Lookup, Held, Published
<1>3. read[t] = << >> /\ Reads(t)
  BY DEF Lookup, Ranked, Call, Ends
<1>4. goal'[t] = id /\ IF id \in Held
                       THEN at'[t] = "found"
                       ELSE at'[t] = "walk" /\ next_id'[t] = id /\ known'[t] = {id} \cap Published
  BY DEF Lookup, Types
<1>5. Call(t, rank)'
  <2>1. Reads(t)'
    BY <1>2, <1>3 DEF Reads, Row
  <2>2. Lists(t)' /\ Adds(t)' /\ Ends(t)'
    BY <1>2, <1>3, <1>4 DEF Lists, Adds, Ends, Ended, Adding
  <2>3. Walks(t, rank)'
    BY <1>2, <1>3, <1>4, IdsAssumption DEF Walks, Published
  <2> QED
    BY <2>1, <2>2, <2>3 DEF Call
<1>6. \A u \in Threads \ {t} : UNCHANGED Local(u)
  BY DEF Lookup, Local, Types
<1> QED
  BY <1>1, <1>2, <1>5, <1>6, OneCall DEF Ranked, Tree

LEMMA WalkStep ==
    ASSUME Types, NEW rank \in [Ids -> Nat], Ranked(rank), NEW t \in Threads, Walk(t)
    PROVE  Types' /\ Ranked(rank)'
<1>0. PICK id \in Ids, n \in Nat : id = next_id[t] /\ n = Len(read[t])
  BY DEF Walk, Published, Types
<1>1. id \in Published /\ file[id] \in Ids \cup {Root}
  BY <1>0 DEF Walk, Published, Ranked, Tree
<1>2. read[t] \in Seq(Pairs) /\ Row(id) \in Pairs /\ DOMAIN read[t] = 1 .. n
  BY <1>0, <1>1 DEF Types, Row, Pairs
<1>3. /\ read'[t] = Append(read[t], Row(id)) /\ read'[t] \in Seq(Pairs)
      /\ next_id'[t] = file[id]
      /\ UNCHANGED <<file, rows, at, goal, seen, known>>
  BY <1>0, <1>2 DEF Walk, Types
<1>4. Types'
  BY <1>1, <1>2, <1>3 DEF Walk, Types
<1>5. Held' = Held /\ Published' = Published
  BY <1>3 DEF Held, Published
<1>6. /\ Len(read'[t]) = n + 1 /\ DOMAIN read'[t] = 1 .. n + 1 /\ read'[t] # << >>
      /\ \A i \in 1 .. n : read'[t][i] = read[t][i]
      /\ read'[t][n + 1] = Row(id)
  BY <1>0, <1>2, <1>3
<1>7. at[t] = "walk" /\ Reads(t) /\ Walks(t, rank)
  BY DEF Walk, Walking, Ranked, Call
<1>8. \A i \in 1 .. n : rank[id] < rank[read[t][i][1]] /\ read[t][i][1] \in Published
  BY <1>0, <1>1, <1>2, <1>7, IdsAssumption DEF Reads, Walks
<1>9. Reads(t)'
  <2>1. \A i \in 1 .. n : read[t][i][1] # id
    BY <1>1, <1>8
  <2>2. Row(id)[1] = id /\ Row(id)' = Row(id)
    BY <1>3 DEF Row
  <2>3. ASSUME NEW i \in 1 .. n + 1
        PROVE  read'[t][i][1] \in Published /\ read'[t][i] = Row(read'[t][i][1])
    <3>1. CASE i = n + 1
      BY <1>1, <1>6, <2>2, <3>1
    <3>2. CASE i \in 1 .. n
      BY <1>2, <1>6, <1>7, <3>2 DEF Reads
    <3> QED
      BY <3>1, <3>2
  <2>4. ASSUME NEW i \in 1 .. n + 1, NEW j \in 1 .. n + 1, read'[t][i][1] = read'[t][j][1]
        PROVE  i = j
    <3>1. i \in 1 .. n /\ j \in 1 .. n => i = j
      BY <1>2, <1>6, <1>7, <2>4 DEF Reads
    <3>2. i = n + 1 /\ j \in 1 .. n => FALSE
      BY <1>6, <2>1, <2>2, <2>4
    <3>3. j = n + 1 /\ i \in 1 .. n => FALSE
      BY <1>6, <2>1, <2>2, <2>4
    <3> QED
      BY <3>1, <3>2, <3>3
  <2> QED
    BY <1>3, <1>5, <1>6, <2>3, <2>4 DEF Reads, Row
<1>10. Walks(t, rank)'
  <2>1. next_id'[t] \in Published \cup {Root} /\ next_id'[t] # Missing
    BY <1>1, <1>3, IdsAssumption DEF Ranked, Tree
  <2>2. read'[t][1][1] = goal[t]
    <3>1. CASE n = 0
      BY <1>0, <1>2, <1>6, <1>7, <3>1 DEF Walks, Row
    <3>2. CASE n # 0
      BY <1>0, <1>2, <1>6, <1>7, <3>2 DEF Walks
    <3> QED
      BY <3>1, <3>2
  <2>3. read'[t][n + 1][2] = next_id'[t]
    BY <1>3, <1>6 DEF Row
  <2>4. ASSUME NEW i \in 1 .. n PROVE read'[t][i][2] = read'[t][i + 1][1]
    <3>1. read[t] # << >>
      BY <1>2
    <3>2. CASE i = n
      BY <1>0, <1>2, <1>6, <1>7, <3>1, <3>2 DEF Walks, Row
    <3>3. CASE i # n
      <4>1. i \in 1 .. n - 1 /\ i + 1 \in 1 .. n
        BY <3>3
      <4>2. read[t][i][2] = read[t][i + 1][1]
        BY <1>0, <1>7, <3>1, <4>1 DEF Walks
      <4> QED
        BY <1>6, <4>1, <4>2
    <3> QED
      BY <3>2, <3>3
  <2>5. ASSUME next_id'[t] # Root, NEW i \in 1 .. n + 1
        PROVE  rank[next_id'[t]] < rank[read'[t][i][1]]
    <3>1. rank[file[id]] < rank[id] /\ rank[file[id]] \in Nat /\ rank[id] \in Nat
      BY <1>1, <1>3, <2>5 DEF Ranked, Tree
    <3>2. CASE i = n + 1
      BY <1>3, <1>6, <3>1, <3>2 DEF Row
    <3>3. CASE i \in 1 .. n
      <4>1. read'[t][i][1] \in Ids /\ rank[id] < rank[read'[t][i][1]]
        BY <1>6, <1>8, <3>3 DEF Published
      <4>2. rank[read'[t][i][1]] \in Nat
        BY <4>1
      <4>3. next_id'[t] = file[id]
        BY <1>3
      <4>4. \A x, y, z \in Nat : x < y /\ y < z => x < z
        OBVIOUS
      <4> QED
        BY <3>1, <4>1, <4>2, <4>3, <4>4
    <3> QED
      BY <1>2, <3>2, <3>3
  <2>6. \A i \in 1 .. Len(read'[t]) - 1 : read'[t][i][2] = read'[t][i + 1][1]
    BY <1>6, <2>4
  <2>7. goal'[t] \in Ids
    BY <1>3, <1>7 DEF Walks
  <2> QED
    BY <1>3, <1>5, <1>6, <2>1, <2>2, <2>3, <2>5, <2>6, <2>7 DEF Walks
<1>11. Call(t, rank)'
  BY <1>3, <1>7, <1>9, <1>10 DEF Call, Lists, Adds, Ends, Ended, Adding
<1>12. \A u \in Threads \ {t} : UNCHANGED Local(u)
  BY DEF Walk, Local, Types
<1> QED
  BY <1>3, <1>4, <1>5, <1>11, <1>12, OneCall DEF Ranked, Tree

LEMMA MissStep ==
    ASSUME Types, NEW rank, Ranked(rank), NEW t \in Threads, Miss(t)
    PROVE  Types' /\ Ranked(rank)'
<1>1. Types'
  <2>1. << >> \in Seq(Pairs) /\ {next_id[t]} \cap Published \subseteq Unreadable
    BY DEF Miss
  <2> QED
    BY <2>1 DEF Miss, Types, Ended
<1>2. UNCHANGED <<file, rows, goal, seen, known>> /\ Held' = Held /\ Published' = Published
  BY DEF Miss, Held, Published
<1>3. /\ at[t] = "walk" /\ at'[t] = "missing" /\ read'[t] = << >>
      /\ denied'[t] = {next_id[t]} \cap Published
  BY DEF Miss, Walking, Types
<1>4. known[t] = {} \/ denied'[t] # {}
  BY <1>3 DEF Miss, Walking, Ranked, Call, Walks
<1>5. Call(t, rank)'
  BY <1>2, <1>3, <1>4 DEF Call, Reads, Walks, Lists, Adds, Ends, Ended, Adding
<1>6. \A u \in Threads \ {t} : UNCHANGED Local(u)
  BY DEF Miss, Local, Types
<1> QED
  BY <1>1, <1>2, <1>5, <1>6, OneCall DEF Ranked, Tree

LEMMA WalkEndsStep ==
    ASSUME Types, NEW rank, Ranked(rank), NEW t \in Threads, WalkEnds(t)
    PROVE  Types' /\ Ranked(rank)'
<1>1. Types'
  BY DEF WalkEnds, Types, Ended, Adding
<1>2. UNCHANGED <<file, rows, goal, read, seen, known>> /\ Held' = Held /\ Published' = Published
  BY DEF WalkEnds, Held, Published
<1>3. at[t] = "walk" /\ at'[t] = IF read[t] = << >> THEN "failed" ELSE "insert"
  BY DEF WalkEnds, Types
<1>4. Reads(t) /\ Walks(t, rank) /\ goal[t] \in Ids
  BY <1>3 DEF Ranked, Call, Walks
<1>5. read[t] # << >> => goal[t] \in Entries(t)
  <2>1. read[t] # << >> => 1 \in DOMAIN read[t]
    BY DEF Types
  <2> QED
    BY <1>3, <1>4, <2>1 DEF Walks, Entries
<1>6. Call(t, rank)'
  <2>1. Reads(t)'
    BY <1>2, <1>4 DEF Reads, Row
  <2>2. Adds(t)'
    BY <1>2, <1>3, <1>4, <1>5, IdsAssumption DEF Adds, Adding, Entries
  <2>3. read[t] = << >> => goal[t] \in Held
    BY <1>3, <1>4, IdsAssumption DEF Walks, WalkEnds
  <2>4. Ends(t)'
    BY <1>2, <1>3, <2>3 DEF Ends, Ended
  <2> QED
    BY <1>2, <1>3, <2>1, <2>2, <2>4 DEF Call, Walks, Lists
<1>7. \A u \in Threads \ {t} : UNCHANGED Local(u)
  BY DEF WalkEnds, Local, Types
<1> QED
  BY <1>1, <1>2, <1>6, <1>7, OneCall DEF Ranked, Tree

LEMMA ListStep ==
    ASSUME Types, NEW rank, Ranked(rank), NEW t \in Threads, List(t)
    PROVE  Types' /\ Ranked(rank)'
<1>1. Types'
  BY DEF List, Types, Held, Published
<1>2. UNCHANGED <<file, rows, read>> /\ Held' = Held /\ Published' = Published
  BY DEF List, Held, Published
<1>3. read[t] = << >> /\ Reads(t)
  BY DEF List, Ranked, Call, Ends
<1>4. at'[t] = "list" /\ goal'[t] = Missing /\ seen'[t] = Held /\ known'[t] = Published
  BY DEF List, Types
<1>5. Call(t, rank)'
  BY <1>2, <1>3, <1>4 DEF Call, Reads, Row, Walks, Lists, Adds, Ends, Ended, Adding
<1>6. \A u \in Threads \ {t} : UNCHANGED Local(u)
  BY DEF List, Local, Types
<1> QED
  BY <1>1, <1>2, <1>5, <1>6, OneCall DEF Ranked, Tree

\* A listing reads the files `got`, in this order.
Reading(t, got, n, order) ==
    /\ got \in SUBSET Published /\ n \in Nat /\ order \in Seq(Published)
    /\ n = Len(order)
    /\ known[t] \subseteq Held \cup got \cup denied'[t]
    /\ denied' \in [Threads -> SUBSET Unreadable]
    /\ gaps' = gaps \cup ParentsLeft(got)
    /\ at' = [at EXCEPT ![t] = IF n = 0 THEN "listed" ELSE "insert"]
    /\ read' = [read EXCEPT ![t] = [i \in 1 .. n |-> Row(order[i])]]
    /\ got = {order[i] : i \in 1 .. n}
    /\ \A i, j \in 1 .. n : order[i] = order[j] => i = j

\* What a listing reads: of the files listed and not held each once, but for
\* those it is denied.
LEMMA ListedReads ==
    ASSUME Types, NEW rank, Ranked(rank), NEW t \in Threads, Listed(t)
    PROVE  \E got, n, order : Reading(t, got, n, order)
<1>1. PICK listed \in Listings(t) : \E got \in SUBSET (listed \ seen[t]) :
          /\ (listed \ seen[t]) \ got \subseteq Unreadable
          /\ at' = [at EXCEPT ![t] = IF got = {} THEN "listed" ELSE "insert"]
          /\ \E order \in {o \in [1 .. Cardinality(got) -> got] : \A id \in got : \E i \in DOMAIN o : o[i] = id} :
               read' = [read EXCEPT ![t] = [i \in DOMAIN order |-> Row(order[i])]]
          /\ denied' = [denied EXCEPT ![t] = (listed \ seen[t]) \ got]
          /\ gaps' = gaps \cup ParentsLeft(got)
  BY DEF Listed
<1>2. PICK got \in SUBSET (listed \ seen[t]) :
          /\ (listed \ seen[t]) \ got \subseteq Unreadable
          /\ at' = [at EXCEPT ![t] = IF got = {} THEN "listed" ELSE "insert"]
          /\ \E order \in {o \in [1 .. Cardinality(got) -> got] : \A id \in got : \E i \in DOMAIN o : o[i] = id} :
               read' = [read EXCEPT ![t] = [i \in DOMAIN order |-> Row(order[i])]]
          /\ denied' = [denied EXCEPT ![t] = (listed \ seen[t]) \ got]
          /\ gaps' = gaps \cup ParentsLeft(got)
  BY <1>1
<1>3. PICK n : n = Cardinality(got)
  OBVIOUS
<1>4. PICK order \in [1 .. n -> got] :
          /\ \A id \in got : \E i \in 1 .. n : order[i] = id
          /\ read' = [read EXCEPT ![t] = [i \in 1 .. n |-> Row(order[i])]]
  <2>1. PICK o \in [1 .. n -> got] :
            /\ \A id \in got : \E i \in DOMAIN o : o[i] = id
            /\ read' = [read EXCEPT ![t] = [i \in DOMAIN o |-> Row(o[i])]]
    BY <1>2, <1>3
  <2>2. DOMAIN o = 1 .. n
    OBVIOUS
  <2> QED
    BY <2>1, <2>2
<1>5. /\ at[t] = "list" /\ seen[t] \subseteq Held /\ known[t] \subseteq listed
      /\ listed \subseteq Published /\ got \subseteq Published
  BY DEF Listed, Listings, Ranked, Call, Lists
<1>6. IsFiniteSet(got) /\ n \in Nat
  BY <1>3, <1>5, FS_Subset, FS_CardinalityType DEF Ranked, Tree
<1>7. \A i, j \in 1 .. n : order[i] = order[j] => i = j
  <2>0. n \in Nat
    BY <1>6
  <2>1. IsFiniteSet(1 .. n) /\ Cardinality(1 .. n) = n
    BY <2>0, FS_Interval
  <2>2. order \in Surjection(1 .. n, got)
    BY <1>4 DEF Surjection
  <2>3. order \in Injection(1 .. n, got)
    BY <1>3, <1>6, <2>1, <2>2, FS_SurjSameCardinalityImpliesInj
  <2> QED
    BY <2>3 DEF Injection, IsInjective
<1>8. n = 0 <=> got = {}
  BY <1>3, <1>6, FS_EmptySet
<1>9. known[t] \subseteq Held \cup got \cup denied'[t] /\ denied' \in [Threads -> SUBSET Unreadable]
  BY <1>2, <1>5 DEF Types
<1>10. got = {order[i] : i \in 1 .. n}
  BY <1>4
<1>11. order \in Seq(Published) /\ n = Len(order)
  BY <1>5, <1>6
<1>12. at' = [at EXCEPT ![t] = IF n = 0 THEN "listed" ELSE "insert"]
  BY <1>2, <1>8
<1>13. Reading(t, got, n, order)
  BY <1>2, <1>4, <1>5, <1>6, <1>7, <1>9, <1>10, <1>11, <1>12 DEF Reading
<1> QED
  BY <1>13

LEMMA ListedStep ==
    ASSUME Types, NEW rank, Ranked(rank), NEW t \in Threads, Listed(t)
    PROVE  Types' /\ Ranked(rank)'
<1>1. UNCHANGED <<file, rows, goal, next_id, known>> /\ Held' = Held /\ Published' = Published
  BY DEF Listed, Held, Published
<1>2. at[t] = "list" /\ goal[t] = Missing
  BY DEF Listed, Ranked, Call, Lists
<1>0. PICK got, n, order : Reading(t, got, n, order)
  BY ListedReads
<1>3. /\ got \in SUBSET Published /\ n \in Nat /\ order \in Seq(Published)
      /\ n = Len(order)
      /\ known[t] \subseteq Held \cup got \cup denied'[t]
      /\ denied' \in [Threads -> SUBSET Unreadable]
      /\ gaps' = gaps \cup ParentsLeft(got)
      /\ at' = [at EXCEPT ![t] = IF n = 0 THEN "listed" ELSE "insert"]
      /\ read' = [read EXCEPT ![t] = [i \in 1 .. n |-> Row(order[i])]]
      /\ got = {order[i] : i \in 1 .. n}
      /\ \A i, j \in 1 .. n : order[i] = order[j] => i = j
  BY <1>0 DEF Reading
<1>4. \A i \in 1 .. n : order[i] \in Published /\ Row(order[i]) \in Pairs
  <2>1. \A i \in 1 .. n : order[i] \in Published
    BY <1>3
  <2> QED
    BY <2>1 DEF Row, Pairs, Ranked, Tree, Published
<1>5. /\ read'[t] = [i \in 1 .. n |-> Row(order[i])] /\ read'[t] \in Seq(Pairs)
      /\ DOMAIN read'[t] = 1 .. n
      /\ at'[t] = IF n = 0 THEN "listed" ELSE "insert"
  BY <1>3, <1>4 DEF Types
<1>6. gaps' \subseteq Ids
  BY <1>3 DEF Types, ParentsLeft, Ranked, Tree, Published
<1>7. Types'
  BY <1>1, <1>3, <1>5, <1>6 DEF Listed, Types, Ended, Adding
<1>8. Entries(t)' = got
  <2>1. \A i \in 1 .. n : read'[t][i][1] = order[i]
    BY <1>5 DEF Row
  <2>2. Entries(t)' = {read'[t][i][1] : i \in 1 .. n}
    BY <1>5 DEF Entries
  <2> QED
    BY <1>3, <2>1, <2>2
<1>9. n = 0 <=> read'[t] = << >>
  BY <1>3, <1>5
<1>10. n = 0 => got = {}
  BY <1>3
<1>11. Call(t, rank)'
  <2>1. \A i \in 1 .. n : read'[t][i] = Row(order[i]) /\ read'[t][i][1] = order[i]
    BY <1>5 DEF Row
  <2>2. Reads(t)'
    <3>1. \A i \in 1 .. n : read'[t][i] = Row(read'[t][i][1]) /\ read'[t][i][1] \in Published
      BY <1>4, <2>1
    <3>2. \A i, j \in 1 .. n : read'[t][i][1] = read'[t][j][1] => i = j
      BY <1>3, <2>1
    <3> QED
      BY <1>1, <1>5, <3>1, <3>2 DEF Reads, Row
  <2>3. CASE n = 0
    BY <1>1, <1>2, <1>3, <1>5, <1>9, <1>10, <2>2, <2>3 DEF Call, Walks, Lists, Adds, Ends, Ended, Adding
  <2>4. CASE n # 0
    BY <1>1, <1>2, <1>3, <1>5, <1>8, <1>9, <2>2, <2>4 DEF Call, Walks, Lists, Adds, Ends, Ended, Adding
  <2> QED
    BY <2>3, <2>4
<1>12. \A u \in Threads \ {t} : UNCHANGED Local(u)
  BY DEF Listed, Local, Types
<1> QED
  BY <1>1, <1>7, <1>11, <1>12, OneCall DEF Ranked, Tree

-----------------------------------------------------------------------------
(* A revision published is a new leaf.                                     *)

LEMMA Leaf ==
    ASSUME Types, NEW rank \in [Ids -> Nat], Tree(rank), UNCHANGED rows,
           NEW id \in Ids \ Published, NEW parent \in Published \cup {Root},
           file' = [file EXCEPT ![id] = parent]
    PROVE  /\ Published' = Published \cup {id} /\ Held' = Held
           /\ file' \in [Ids -> Ids \cup {Root, Missing}]
           /\ \E next \in [Ids -> Nat] :
                /\ Tree(next)'
                /\ \A i \in Published : file'[i] = file[i] /\ next[i] = rank[i]
<1>1. parent \in Ids \cup {Root} /\ parent # Missing /\ id # parent
  BY IdsAssumption DEF Published
<1>2. /\ file' \in [Ids -> Ids \cup {Root, Missing}] /\ file'[id] = parent
      /\ \A i \in Ids \ {id} : file'[i] = file[i]
  BY <1>1 DEF Types
<1>3. Published' = Published \cup {id}
  BY <1>1, <1>2 DEF Published
<1>4. Held' = Held
  BY DEF Held
<1>5. PICK r \in Nat : parent # Root => r = rank[parent] + 1
  <2>1. parent # Root => rank[parent] + 1 \in Nat
    BY <1>1
  <2> QED
    BY <2>1
<1>6. PICK next : next = [rank EXCEPT ![id] = r]
  OBVIOUS
<1>7. next \in [Ids -> Nat] /\ next[id] = r /\ \A i \in Ids \ {id} : next[i] = rank[i]
  BY <1>6
<1>8. \A i \in Published : i # id /\ i \in Ids
  BY DEF Published
<1>9. Tree(next)'
  <2>1. IsFiniteSet(Published')
    BY <1>3, FS_AddElement DEF Tree
  <2>2. ASSUME NEW i \in Published' PROVE file'[i] \in Published' \cup {Root}
    BY <1>2, <1>3, <1>8 DEF Tree
  <2>3. ASSUME NEW i \in Published', file'[i] # Root PROVE next[file'[i]] < next[i]
    <3>1. CASE i = id
      <4>1. file'[i] = parent /\ parent \in Published /\ rank[parent] \in Nat
        BY <1>1, <1>2, <2>3, <3>1
      <4>2. next[parent] = rank[parent] /\ next[i] = rank[parent] + 1
        BY <1>5, <1>7, <1>8, <2>3, <3>1, <4>1
      <4> QED
        BY <4>1, <4>2
    <3>2. CASE i # id
      <4>1. i \in Published /\ file'[i] = file[i] /\ file[i] \in Published
        BY <1>2, <1>3, <1>8, <2>3, <3>2 DEF Tree
      <4>2. rank[file[i]] < rank[i]
        BY <2>3, <4>1 DEF Tree
      <4> QED
        BY <1>7, <1>8, <4>1, <4>2
    <3> QED
      BY <3>1, <3>2
  <2>4. \A i \in Held' : i \in Published' /\ rows'[i] = file'[i]
    BY <1>2, <1>3, <1>4, <1>8 DEF Tree
  <2> QED
    BY <2>1, <2>2, <2>3, <2>4 DEF Tree
<1> QED
  BY <1>2, <1>3, <1>4, <1>7, <1>8, <1>9

LEMMA ElsewhereStep ==
    ASSUME Types, NEW rank \in [Ids -> Nat], Ranked(rank),
           NEW id \in Ids, NEW parent \in Parents[id], Elsewhere(id, parent)
    PROVE  Types' /\ \E next \in [Ids -> Nat] : Ranked(next)'
<1>1. PICK next \in [Ids -> Nat] :
          /\ Tree(next)'
          /\ \A i \in Published : file'[i] = file[i] /\ next[i] = rank[i]
  BY Leaf DEF Elsewhere, Fresh, Ranked
<1>2. /\ Published' = Published \cup {id} /\ Held' = Held
      /\ file' \in [Ids -> Ids \cup {Root, Missing}]
  BY Leaf DEF Elsewhere, Fresh, Ranked
<1>3. Types'
  BY <1>2 DEF Elsewhere, Types
<1>4. \A u \in Threads : UNCHANGED Local(u)
  BY DEF Elsewhere, Local
<1>5. \A u \in Threads : Call(u, next)'
  BY <1>1, <1>2, <1>4, CallKept DEF Ranked
<1> QED
  BY <1>1, <1>3, <1>5 DEF Ranked

LEMMA CreateStep ==
    ASSUME Types, NEW rank \in [Ids -> Nat], Ranked(rank), NEW t \in Threads,
           NEW id \in Ids, NEW parent \in Parents[id], Create(t, id, parent)
    PROVE  Types' /\ \E next \in [Ids -> Nat] : Ranked(next)'
<1>0. parent \in Published \cup {Root} /\ id \notin Published
  BY DEF Create, Fresh, Ranked, Tree
<1>1. PICK next \in [Ids -> Nat] :
          /\ Tree(next)'
          /\ \A i \in Published : file'[i] = file[i] /\ next[i] = rank[i]
  BY <1>0, Leaf DEF Create, Ranked
<1>2. /\ Published' = Published \cup {id} /\ Held' = Held
      /\ file' \in [Ids -> Ids \cup {Root, Missing}]
  BY <1>0, Leaf DEF Create, Ranked
<1>3. <<id, parent>> \in Pairs /\ << <<id, parent>> >> \in Seq(Pairs)
  BY <1>0 DEF Pairs, Published
<1>4. Types'
  BY <1>2, <1>3 DEF Create, Types, Adding
<1>5. /\ at'[t] = "insert" /\ goal'[t] = id /\ read'[t] = << <<id, parent>> >>
      /\ file'[id] = parent
  BY DEF Create, Types
<1>6. DOMAIN read'[t] = {1} /\ read'[t][1] = <<id, parent>> /\ read'[t] # << >>
  BY <1>5
<1>7. Call(t, next)'
  <2>1. Reads(t)'
    BY <1>2, <1>5, <1>6 DEF Reads, Row
  <2>2. id \in Entries(t)'
    BY <1>6 DEF Entries
  <2> QED
    BY <1>5, <1>6, <2>1, <2>2, IdsAssumption DEF Call, Walks, Lists, Adds, Ends, Ended, Adding
<1>8. \A u \in Threads \ {t} : UNCHANGED Local(u)
  BY DEF Create, Local, Types
<1>9. \A u \in Threads \ {t} : Call(u, next)'
  BY <1>1, <1>2, <1>8, CallKept DEF Ranked
<1> QED
  BY <1>1, <1>4, <1>7, <1>9 DEF Ranked

-----------------------------------------------------------------------------
(* A row is added.                                                         *)

\* What a call still reads once its first row is held.
LEMMA AddedCall ==
    ASSUME Types, NEW rank, Ranked(rank), NEW t \in Threads, at[t] \in Adding, Added(t),
           UNCHANGED <<file, goal, next_id, seen, known, denied>>,
           Held \subseteq Held', RowId(t) \in Held'
    PROVE  /\ read' \in [Threads -> Seq(Pairs)]
           /\ at' \in [Threads -> Ended \cup Adding \cup {"walk", "list"}]
           /\ Call(t, rank)'
           /\ \A u \in Threads \ {t} : UNCHANGED Local(u)
<1>1. PICK q, n : q = read[t] /\ n = Len(q)
  OBVIOUS
<1>2. q \in Seq(Pairs) /\ q # << >> /\ n \in Nat /\ n > 0 /\ DOMAIN q = 1 .. n
  BY <1>1 DEF Types, Ranked, Call, Adds
<1>3. /\ Tail(q) \in Seq(Pairs) /\ Len(Tail(q)) = n - 1 /\ DOMAIN Tail(q) = 1 .. n - 1
      /\ \A i \in 1 .. n - 1 : i + 1 \in 1 .. n /\ Tail(q)[i] = q[i + 1]
  BY <1>1, <1>2
<1>4. /\ read'[t] = Tail(q)
      /\ at'[t] = IF n > 1 THEN "insert" ELSE IF goal[t] = Missing THEN "listed" ELSE "found"
  BY <1>1 DEF Added, Types
<1>5. read' \in [Threads -> Seq(Pairs)]
  BY <1>1, <1>3 DEF Added, Types
<1>6. at' \in [Threads -> Ended \cup Adding \cup {"walk", "list"}]
  BY DEF Added, Types, Ended, Adding
<1>7. Reads(t) /\ Adds(t) /\ Published' = Published
  BY DEF Ranked, Call, Published
<1>8. Reads(t)'
  <2>1. ASSUME NEW i \in 1 .. n - 1
        PROVE  Tail(q)[i][1] \in Published /\ Tail(q)[i] = Row(Tail(q)[i][1])
    BY <1>1, <1>2, <1>3, <1>7, <2>1 DEF Reads
  <2>2. ASSUME NEW i \in 1 .. n - 1, NEW j \in 1 .. n - 1, Tail(q)[i][1] = Tail(q)[j][1]
        PROVE  i = j
    <3>1. i + 1 \in DOMAIN read[t] /\ j + 1 \in DOMAIN read[t]
      BY <1>1, <1>2, <1>3
    <3>2. read[t][i + 1][1] = read[t][j + 1][1]
      BY <1>1, <1>3, <2>2
    <3>3. i + 1 = j + 1
      BY <1>7, <3>1, <3>2 DEF Reads
    <3> QED
      BY <3>3
  <2> QED
    BY <1>3, <1>4, <1>7, <2>1, <2>2 DEF Reads, Row
<1>9. Entries(t) \subseteq Held' \cup Entries(t)'
  <2>1. ASSUME NEW i \in 1 .. n PROVE q[i][1] \in Held' \cup Entries(t)'
    <3>1. CASE i = 1
      BY <1>1, <1>2, <3>1 DEF RowId
    <3>2. CASE i # 1
      <4>1. i - 1 \in 1 .. n - 1 /\ (i - 1) + 1 = i
        BY <1>2, <3>2
      <4>2. i - 1 \in DOMAIN read'[t] /\ read'[t][i - 1] = q[i]
        BY <1>3, <1>4, <4>1
      <4> QED
        BY <4>2 DEF Entries
    <3> QED
      BY <3>1, <3>2
  <2> QED
    BY <1>1, <1>2, <2>1 DEF Entries
<1>10. n = 1 => read'[t] = << >> /\ Entries(t)' = {}
  BY <1>3, <1>4 DEF Entries
<1>11. n > 1 => read'[t] # << >>
  <2>1. n > 1 => 1 \in DOMAIN Tail(q)
    BY <1>2, <1>3
  <2>2. DOMAIN << >> = {}
    OBVIOUS
  <2> QED
    BY <1>4, <2>1, <2>2
<1>12. /\ goal[t] = Missing => known[t] \subseteq Held' \cup Entries(t)' \cup denied[t]
       /\ goal[t] # Missing => goal[t] \in Held' \cup Entries(t)'
  BY <1>7, <1>9 DEF Adds
<1>13. n > 1 \/ n = 1
  BY <1>2
<1>14. Call(t, rank)'
  <2>1. CASE n > 1
    BY <1>4, <1>8, <1>11, <1>12, <2>1 DEF Call, Walks, Lists, Adds, Ends, Ended, Adding
  <2>2. CASE n = 1
    BY <1>4, <1>8, <1>10, <1>12, <2>2 DEF Call, Walks, Lists, Adds, Ends, Ended, Adding
  <2> QED
    BY <1>13, <2>1, <2>2
<1>15. \A u \in Threads \ {t} : UNCHANGED Local(u)
  BY DEF Added, Local, Types
<1> QED
  BY <1>5, <1>6, <1>14, <1>15

LEMMA IgnoredStep ==
    ASSUME Types, NEW rank, Ranked(rank), NEW t \in Threads, Ignored(t)
    PROVE  Types' /\ Ranked(rank)'
<1>1. UNCHANGED <<file, rows, goal, next_id, seen, known, denied, gaps>> /\ Held' = Held
  BY DEF Ignored, Held
<1>2. at[t] \in Adding /\ Added(t) /\ RowId(t) \in Held'
  BY <1>1 DEF Ignored, Adding
<1>3. /\ read' \in [Threads -> Seq(Pairs)]
      /\ at' \in [Threads -> Ended \cup Adding \cup {"walk", "list"}]
      /\ Call(t, rank)'
      /\ \A u \in Threads \ {t} : UNCHANGED Local(u)
  BY <1>1, <1>2, AddedCall
<1>4. Types'
  BY <1>1, <1>3 DEF Types
<1> QED
  BY <1>1, <1>3, <1>4, OneCall DEF Ranked, Tree

LEMMA CommitStep ==
    ASSUME Types, NEW rank, Ranked(rank), NEW t \in Threads, Commit(t)
    PROVE  Types' /\ Ranked(rank)'
<1>1. PICK id, parent : id = RowId(t) /\ parent = Head(read[t])[2]
  OBVIOUS
<1>2. at[t] \in Adding /\ Added(t) /\ UNCHANGED <<file, goal, next_id, seen, known, denied>>
  BY DEF Commit, Adding
<1>3. id \in Published /\ parent = file[id] /\ parent \in Ids \cup {Root} /\ parent # Missing
  <2>1. read[t] \in Seq(Pairs) /\ read[t] # << >> /\ Reads(t)
    BY <1>2 DEF Types, Ranked, Call, Adds
  <2>2. 1 \in DOMAIN read[t] /\ Head(read[t]) = read[t][1]
    BY <2>1
  <2>3. id \in Published /\ <<id, parent>> = Row(id)
    BY <1>1, <2>1, <2>2 DEF Reads, RowId, Row
  <2> QED
    BY <2>3, IdsAssumption DEF Row, Published, Ranked, Tree
<1>4. rows' = IF id \in Held THEN rows ELSE [rows EXCEPT ![id] = parent]
  BY <1>1 DEF Commit
<1>5. /\ rows' \in [Ids -> Ids \cup {Root, Missing}]
      /\ Held' = Held \cup {id}
      /\ \A i \in Held' : i \in Published /\ rows'[i] = file[i]
  <2>1. CASE id \in Held
    BY <1>3, <1>4, <2>1 DEF Held, Types, Ranked, Tree
  <2>2. CASE id \notin Held
    <3>1. id \in Ids /\ rows' = [rows EXCEPT ![id] = parent]
      BY <1>3, <1>4, <2>2 DEF Published
    <3>2. /\ rows' \in [Ids -> Ids \cup {Root, Missing}] /\ rows'[id] = parent
          /\ \A i \in Ids \ {id} : rows'[i] = rows[i]
      BY <1>3, <3>1 DEF Types
    <3>3. Held' = Held \cup {id}
      BY <1>3, <3>1, <3>2 DEF Held
    <3> QED
      BY <1>3, <3>2, <3>3 DEF Held, Ranked, Tree
  <2> QED
    BY <2>1, <2>2
<1>6. /\ read' \in [Threads -> Seq(Pairs)]
      /\ at' \in [Threads -> Ended \cup Adding \cup {"walk", "list"}]
      /\ Call(t, rank)'
      /\ \A u \in Threads \ {t} : UNCHANGED Local(u)
  BY <1>1, <1>2, <1>5, AddedCall
<1>7. Types'
  <2>1. gaps' \subseteq Ids
    BY DEF Commit, Types
  <2> QED
    BY <1>2, <1>5, <1>6, <2>1 DEF Types
<1> QED
  BY <1>2, <1>5, <1>6, <1>7, OneCall

LEMMA InsertStep ==
    ASSUME Types, NEW rank, Ranked(rank), NEW t \in Threads, Insert(t)
    PROVE  Types' /\ Ranked(rank)'
<1>1. Types'
  BY DEF Insert, Types, Adding
<1>2. /\ UNCHANGED <<file, rows, goal, next_id, read, seen, known, denied>>
      /\ Held' = Held /\ Published' = Published
      /\ at[t] = "insert" /\ at'[t] = "commit"
  BY DEF Insert, Types, Held, Published
<1>3. Call(t, rank)'
  BY <1>2 DEF Ranked, Call, Reads, Row, Walks, Lists, Adds, Ends, Ended, Adding, Entries
<1>4. \A u \in Threads \ {t} : UNCHANGED Local(u)
  BY DEF Insert, Local, Types
<1> QED
  BY <1>1, <1>2, <1>3, <1>4, OneCall DEF Ranked, Tree

LEMMA UnaddedIds ==
    ASSUME Types, NEW t \in Threads
    PROVE  Unadded(t) \subseteq Ids
<1>1. read[t] \in Seq(Pairs)
  BY DEF Types
<1>2. \A i \in DOMAIN read[t] : read[t][i][1] \in Ids
  BY <1>1 DEF Pairs
<1> QED
  BY <1>2 DEF Unadded

LEMMA RaisesStep ==
    ASSUME Types, NEW rank, Ranked(rank), NEW t \in Threads, Raises(t)
    PROVE  Types' /\ Ranked(rank)'
<1>1. Types'
  <2>1. << >> \in Seq(Pairs)
    OBVIOUS
  <2>2. gaps' \subseteq Ids
    BY UnaddedIds DEF Raises, Types
  <2> QED
    BY <2>1, <2>2 DEF Raises, Types, Ended
<1>2. UNCHANGED <<file, rows>> /\ Held' = Held
  BY DEF Raises, Held
<1>3. at'[t] = "idle" /\ read'[t] = << >>
  BY DEF Raises, Types
<1>4. Call(t, rank)'
  BY <1>3 DEF Call, Reads, Walks, Lists, Adds, Ends, Ended, Adding
<1>5. \A u \in Threads \ {t} : UNCHANGED Local(u)
  BY DEF Raises, Local, Types
<1> QED
  BY <1>1, <1>2, <1>4, <1>5, OneCall DEF Ranked, Tree

\* After a crash every thread is idle, and what is left of the table is real.
LEMMA CrashStep ==
    ASSUME Types, NEW rank, Ranked(rank), Crash
    PROVE  Types' /\ Ranked(rank)'
<1>1. Types'
  <2>1. << >> \in Seq(Pairs)
    OBVIOUS
  <2>2. gaps' \subseteq Ids /\ rows' \in [Ids -> Ids \cup {Root, Missing}]
    BY UnaddedIds DEF Crash, Types
  <2> QED
    BY <2>1, <2>2 DEF Crash, Types, Ended
<1>2. file' = file /\ Published' = Published
  BY DEF Crash, Published
<1>3. \A i \in Held' : i \in Held /\ rows'[i] = rows[i]
  BY DEF Crash, Held
<1>4. Tree(rank)'
  BY <1>2, <1>3 DEF Ranked, Tree
<1>5. ASSUME NEW t \in Threads PROVE Call(t, rank)'
  <2>1. at'[t] = "idle" /\ read'[t] = << >>
    BY DEF Crash
  <2> QED
    BY <2>1 DEF Call, Reads, Walks, Lists, Adds, Ends, Ended, Adding
<1> QED
  BY <1>1, <1>4, <1>5 DEF Ranked

-----------------------------------------------------------------------------
LEMMA Initially == Init => IInv
<1> SUFFICES ASSUME Init PROVE IInv
  OBVIOUS
<1>1. Types
  <2>1. << >> \in Seq(Pairs)
    OBVIOUS
  <2> QED
    BY <2>1 DEF Init, Types, Ended
<1>2. Published = {} /\ Held = {}
  BY DEF Init, Published, Held
<1>3. PICK rank \in [Ids -> Nat] : rank = [id \in Ids |-> 0]
  OBVIOUS
<1>4. Tree(rank)
  BY <1>2, FS_EmptySet DEF Tree
<1>5. \A t \in Threads : Call(t, rank)
  BY DEF Init, Call, Reads, Walks, Lists, Adds, Ends, Ended, Adding
<1> QED
  BY <1>1, <1>4, <1>5 DEF IInv, Ranked

LEMMA Inductive == IInv /\ [Next]_vars => IInv'
<1> SUFFICES ASSUME IInv, [Next]_vars PROVE IInv'
  OBVIOUS
<1>1. PICK rank \in [Ids -> Nat] : Ranked(rank)
  BY DEF IInv
<1>2. Types
  BY DEF IInv
<1>3. ASSUME NEW t \in Threads, NEW id \in Ids, Lookup(t, id) PROVE IInv'
  BY <1>1, <1>2, <1>3, LookupStep DEF IInv
<1>4. ASSUME NEW t \in Threads, List(t) PROVE IInv'
  BY <1>1, <1>2, <1>4, ListStep DEF IInv
<1>5. ASSUME NEW t \in Threads, NEW id \in Ids, NEW parent \in Parents[id], Create(t, id, parent)
      PROVE  IInv'
  BY <1>1, <1>2, <1>5, CreateStep DEF IInv
<1>6. ASSUME NEW t \in Threads, Walk(t) PROVE IInv'
  BY <1>1, <1>2, <1>6, WalkStep DEF IInv
<1>7. ASSUME NEW t \in Threads, Miss(t) PROVE IInv'
  BY <1>1, <1>2, <1>7, MissStep DEF IInv
<1>8. ASSUME NEW t \in Threads, WalkEnds(t) PROVE IInv'
  BY <1>1, <1>2, <1>8, WalkEndsStep DEF IInv
<1>9. ASSUME NEW t \in Threads, Listed(t) PROVE IInv'
  BY <1>1, <1>2, <1>9, ListedStep DEF IInv
<1>10. ASSUME NEW t \in Threads, Ignored(t) PROVE IInv'
  BY <1>1, <1>2, <1>10, IgnoredStep DEF IInv
<1>11. ASSUME NEW t \in Threads, Insert(t) PROVE IInv'
  BY <1>1, <1>2, <1>11, InsertStep DEF IInv
<1>12. ASSUME NEW t \in Threads, Commit(t) PROVE IInv'
  BY <1>1, <1>2, <1>12, CommitStep DEF IInv
<1>13. ASSUME NEW id \in Ids, NEW parent \in Parents[id], Elsewhere(id, parent) PROVE IInv'
  BY <1>1, <1>2, <1>13, ElsewhereStep DEF IInv
<1>14. ASSUME Crash PROVE IInv'
  BY <1>1, <1>2, <1>14, CrashStep DEF IInv
<1>15. ASSUME UNCHANGED vars PROVE IInv'
  <2>1. Types'
    BY <1>2, <1>15 DEF Types, vars
  <2>2. Held' = Held /\ Published' = Published
    BY <1>15 DEF vars, Held, Published
  <2>3. Tree(rank)'
    BY <1>1, <1>15, <2>2 DEF Ranked, Tree, vars
  <2>4. \A t \in Threads : Call(t, rank)'
    BY <1>1, <1>2, <1>15, <2>2, CallKept DEF Ranked, Local, vars
  <2> QED
    BY <1>1, <2>1, <2>3, <2>4 DEF IInv, Ranked
<1>16. ASSUME NEW t \in Threads, Conflict(t) PROVE IInv'
  BY <1>15, <1>16 DEF Conflict
<1>17. ASSUME NEW t \in Threads, Raises(t) PROVE IInv'
  BY <1>1, <1>2, <1>17, RaisesStep DEF IInv
<1> QED
  BY <1>3, <1>4, <1>5, <1>6, <1>7, <1>8, <1>9, <1>10, <1>11, <1>12, <1>13, <1>14, <1>15, <1>16, <1>17
  DEF Next, Progress

LEMMA Invariant == Spec => []IInv
<1>1. Init => IInv
  BY Initially
<1>2. IInv /\ [Next]_vars => IInv'
  BY Inductive
<1> QED
  BY <1>1, <1>2, PTL DEF Spec

-----------------------------------------------------------------------------
(* What the runs check, for every instance.                                *)

\* The variables have their types, no call reads a file twice, and what is
\* adding rows has a row to add.
THEOREM TableTypeCorrect == Spec => []TypeOK
<1>1. IInv => TypeOK
  BY DEF IInv, Types, TypeOK, Pairs, Ranked, Call, Reads, Adds
<1> QED
  BY <1>1, Invariant, PTL

\* A row is what its file says, across crashes, racing inserts and revisions
\* that other processes publish (_cache, INSERT OR IGNORE).
THEOREM TableIsReal == Spec => []RowsAreReal
<1>1. IInv => RowsAreReal
  BY DEF IInv, RowsAreReal, Ranked, Tree
<1> QED
  BY <1>1, Invariant, PTL

\* A revision a call returns is in the table, for every cursor: its own commit
\* or the one it lost to came first.  So is one whose lookup lost in read[0].
THEOREM TableHoldsWhatIsFound == Spec => []FoundIsHeld
<1>1. IInv => FoundIsHeld
  BY DEF IInv, FoundIsHeld, Ended, Ranked, Call, Ends
<1> QED
  BY <1>1, Invariant, PTL

\* When revisions() returns, all that was published when it was called is in
\* the table, but for the files whose read was denied: whatever Files.list saw
\* of what came later, and whoever added rows meanwhile.
THEOREM TableListsAll == Spec => []ListingComplete
<1>1. IInv => ListingComplete
  BY DEF IInv, ListingComplete, Ended, Ranked, Call, Ends
<1> QED
  BY <1>1, Invariant, PTL

\* revision() raises KeyError for a revision published when it was asked for
\* only where a read of its file, or of an ancestor's, was denied.
THEOREM NoFileMissed == Spec => []NoFalseMiss
<1>1. IInv => NoFalseMiss
  BY DEF IInv, NoFalseMiss, Ended, Ranked, Call, Ends
<1> QED
  BY <1>1, Invariant, PTL

\* On LocalFiles, where a file that is there is read, neither exception is left:
\* no KeyError for a published revision, and no listing without one.
THEOREM NothingMissedLocally ==
    ASSUME Unreadable = {}
    PROVE  Spec => []\A t \in Threads :
             /\ at[t] = "missing" => known[t] = {}
             /\ at[t] = "listed" => known[t] \subseteq Held
<1>1. IInv => \A t \in Threads :
                /\ at[t] = "missing" => known[t] = {}
                /\ at[t] = "listed" => known[t] \subseteq Held
  <2>1. IInv => \A t \in Threads : denied[t] = {}
    BY DEF IInv, Types
  <2> QED
    BY <2>1 DEF IInv, Ended, Ranked, Call, Ends
<1> QED
  BY <1>1, Invariant, PTL

-----------------------------------------------------------------------------
(* A quiet table is closed, but for the gaps that listings, raises and     *)
(* crashes left.                                                           *)

\* The parents a call's rows need are held, among the rows it adds, or gaps.
Covers(t) ==
    at[t] \in Adding =>
        \A i \in DOMAIN read[t] : read[t][i][2] \in Held \cup {Root} \cup gaps \cup Entries(t)

\* A held row lacks its parent only while some call is adding it.
Awaited(id) == \E t \in Threads : at[t] \in Adding /\ rows[id] \in Entries(t)

CInv ==
    /\ \A t \in Threads : Covers(t)
    /\ \A id \in Held : rows[id] \in Held \cup {Root} \cup gaps \/ Awaited(id)

\* A step by which t adds nothing, others are as they were, and t does not stop
\* adding.
LEMMA QuietCall ==
    ASSUME CInv, NEW t \in Threads, UNCHANGED rows, gaps \subseteq gaps',
           \A u \in Threads \ {t} : UNCHANGED Local(u),
           Covers(t)', at[t] \in Adding => at'[t] \in Adding /\ Entries(t)' = Entries(t)
    PROVE  CInv'
<1>1. Held' = Held
  BY DEF Held
<1>2. \A u \in Threads \ {t} : Covers(u)' /\ Entries(u)' = Entries(u) /\ at'[u] = at[u]
  BY <1>1 DEF CInv, Covers, Entries, Local
<1>3. \A id \in Held : Awaited(id) => Awaited(id)'
  BY <1>2 DEF Awaited
<1> QED
  BY <1>1, <1>2, <1>3 DEF CInv

\* The row of t is held now, so what waited for it does no longer.
LEMMA AddedCovers ==
    ASSUME IInv, CInv, NEW t \in Threads, at[t] \in Adding, Added(t),
           UNCHANGED <<file, goal, next_id, seen, known, denied>>,
           Held' = Held \cup {RowId(t)}, gaps \ {RowId(t)} \subseteq gaps',
           \A id \in Held : rows'[id] = rows[id],
           RowId(t) \in Held \/ rows'[RowId(t)] = Head(read[t])[2]
    PROVE  CInv'
<1>1. PICK q, n : q = read[t] /\ n = Len(q)
  OBVIOUS
<1>2. /\ q \in Seq(Pairs) /\ q # << >> /\ n \in Nat /\ n > 0 /\ DOMAIN q = 1 .. n
      /\ Head(q) = q[1]
  BY <1>1 DEF IInv, Types, Ranked, Call, Adds
<1>3. /\ Tail(q) \in Seq(Pairs) /\ DOMAIN Tail(q) = 1 .. n - 1
      /\ \A i \in 1 .. n - 1 : i + 1 \in 1 .. n /\ Tail(q)[i] = q[i + 1]
  BY <1>1, <1>2
<1>4. read'[t] = Tail(q) /\ (n > 1 => at'[t] \in Adding)
  BY <1>1 DEF Added, IInv, Types, Adding
<1>5. Entries(t) \subseteq {RowId(t)} \cup Entries(t)'
  <2>1. ASSUME NEW i \in 1 .. n PROVE q[i][1] \in {RowId(t)} \cup Entries(t)'
    <3>1. CASE i = 1
      BY <1>1, <1>2, <3>1 DEF RowId
    <3>2. CASE i # 1
      <4>1. i - 1 \in 1 .. n - 1 /\ (i - 1) + 1 = i
        BY <1>2, <3>2
      <4>2. i - 1 \in DOMAIN read'[t] /\ read'[t][i - 1] = q[i]
        BY <1>3, <1>4, <4>1
      <4> QED
        BY <4>2 DEF Entries
    <3> QED
      BY <3>1, <3>2
  <2> QED
    BY <1>1, <1>2, <2>1 DEF Entries
<1>6. Entries(t)' # {} => at'[t] \in Adding
  <2>1. Entries(t)' # {} => n > 1
    BY <1>2, <1>3, <1>4 DEF Entries
  <2> QED
    BY <1>4, <2>1
<1>7. \A u \in Threads \ {t} : at'[u] = at[u] /\ read'[u] = read[u]
  BY DEF Added, IInv, Types
<1>8. Covers(t)'
  <2>1. \A i \in 1 .. n : q[i][2] \in Held \cup {Root} \cup gaps \cup Entries(t)
    BY <1>1, <1>2 DEF CInv, Covers
  <2>2. ASSUME NEW i \in 1 .. n - 1
        PROVE  Tail(q)[i][2] \in Held' \cup {Root} \cup gaps' \cup Entries(t)'
    BY <1>3, <1>5, <2>1, <2>2
  <2> QED
    BY <1>3, <1>4, <2>2 DEF Covers
<1>9. \A u \in Threads \ {t} : Covers(u)'
  BY <1>7 DEF CInv, Covers, Entries
<1>10. ASSUME NEW id \in Held' PROVE rows'[id] \in Held' \cup {Root} \cup gaps' \/ Awaited(id)'
  <2>1. \A x : x \in Entries(t) => x \in Held' \/ (at'[t] \in Adding /\ x \in Entries(t)')
    BY <1>5, <1>6
  <2>2. CASE id \in Held
    <3>1. ASSUME NEW u \in Threads, at[u] \in Adding, rows[id] \in Entries(u)
          PROVE  rows'[id] \in Held' \/ Awaited(id)'
      <4>1. CASE u = t
        BY <2>1, <2>2, <3>1, <4>1 DEF Awaited
      <4>2. CASE u # t
        BY <1>7, <2>2, <3>1, <4>2 DEF Awaited, Entries
      <4> QED
        BY <4>1, <4>2
    <3> QED
      BY <2>2, <3>1 DEF CInv, Awaited
  <2>3. CASE id \notin Held
    <3>1. id = RowId(t) /\ rows'[id] = q[1][2]
      BY <1>1, <1>2, <1>10, <2>3
    <3>2. q[1][2] \in Held \cup {Root} \cup gaps \cup Entries(t)
      BY <1>1, <1>2 DEF CInv, Covers
    <3> QED
      BY <2>1, <3>1, <3>2 DEF Awaited
  <2> QED
    BY <2>2, <2>3
<1> QED
  BY <1>8, <1>9, <1>10 DEF CInv

LEMMA Closing ==
    ASSUME IInv, CInv, [Next]_vars
    PROVE  CInv'
<1>0. Types /\ \A t \in Threads : at[t] \in Ended => at[t] \notin Adding /\ at[t] # "walk"
  BY DEF IInv, Ended, Adding
<1>1. ASSUME NEW t \in Threads, NEW id \in Ids, Lookup(t, id) PROVE CInv'
  <2>1. at'[t] \notin Adding /\ at[t] \notin Adding
    BY <1>0, <1>1 DEF Lookup, Types, Adding
  <2>2. \A u \in Threads \ {t} : UNCHANGED Local(u)
    BY <1>0, <1>1 DEF Lookup, Local, Types
  <2> QED
    BY <1>1, <2>1, <2>2, QuietCall DEF Covers, Lookup
<1>2. ASSUME NEW t \in Threads, List(t) PROVE CInv'
  <2>1. at'[t] \notin Adding /\ at[t] \notin Adding
    BY <1>0, <1>2 DEF List, Types, Adding
  <2>2. \A u \in Threads \ {t} : UNCHANGED Local(u)
    BY <1>0, <1>2 DEF List, Local, Types
  <2> QED
    BY <1>2, <2>1, <2>2, QuietCall DEF Covers, List
<1>3. ASSUME NEW t \in Threads, NEW id \in Ids, NEW parent \in Parents[id], Create(t, id, parent)
      PROVE  CInv'
  <2>1. /\ at[t] \notin Adding /\ rows' = rows /\ Held' = Held /\ gaps' = gaps
        /\ read'[t] = << <<id, parent>> >> /\ parent \in Held \cup {Root}
    BY <1>0, <1>3 DEF Create, Types, Held
  <2>2. DOMAIN read'[t] = {1} /\ read'[t][1] = <<id, parent>>
    BY <2>1
  <2>3. Covers(t)'
    BY <2>1, <2>2 DEF Covers
  <2>4. \A u \in Threads \ {t} : UNCHANGED Local(u)
    BY <1>0, <1>3 DEF Create, Local, Types
  <2> QED
    BY <2>1, <2>3, <2>4, QuietCall
<1>4. ASSUME NEW t \in Threads, Walk(t) PROVE CInv'
  <2>1. at[t] \notin Adding /\ at'[t] \notin Adding
    BY <1>0, <1>4 DEF Walk, Walking, Types, Adding
  <2>2. \A u \in Threads \ {t} : UNCHANGED Local(u)
    BY <1>0, <1>4 DEF Walk, Local, Types
  <2> QED
    BY <1>4, <2>1, <2>2, QuietCall DEF Covers, Walk
<1>5. ASSUME NEW t \in Threads, Miss(t) PROVE CInv'
  <2>1. at[t] \notin Adding /\ at'[t] \notin Adding
    BY <1>0, <1>5 DEF Miss, Walking, Types, Adding
  <2>2. \A u \in Threads \ {t} : UNCHANGED Local(u)
    BY <1>0, <1>5 DEF Miss, Local, Types
  <2> QED
    BY <1>5, <2>1, <2>2, QuietCall DEF Covers, Miss
<1>6. ASSUME NEW t \in Threads, WalkEnds(t) PROVE CInv'
  <2>1. /\ at[t] = "walk" /\ at[t] \notin Adding /\ UNCHANGED <<read, rows, gaps>>
        /\ Held' = Held /\ next_id[t] \in Held \cup {Root}
    BY <1>0, <1>6 DEF WalkEnds, Adding, Held
  <2>2. PICK n \in Nat : n = Len(read[t]) /\ DOMAIN read[t] = 1 .. n
    BY <1>0 DEF Types
  <2>3. PICK rank \in [Ids -> Nat] : Walks(t, rank)
    BY DEF IInv, Ranked, Call
  <2>4. read[t] # << >> =>
          /\ read[t][n][2] = next_id[t]
          /\ \A i \in 1 .. n - 1 : read[t][i][2] = read[t][i + 1][1]
    BY <2>1, <2>2, <2>3 DEF Walks
  <2>5. ASSUME NEW i \in 1 .. n PROVE read[t][i][2] \in Held \cup {Root} \cup gaps \cup Entries(t)
    <3>1. read[t] # << >>
      BY <2>2
    <3>2. CASE i = n
      BY <2>1, <2>4, <3>1, <3>2
    <3>3. CASE i # n
      <4>1. i \in 1 .. n - 1 /\ i + 1 \in 1 .. n
        BY <2>2, <3>3
      <4> QED
        BY <2>2, <2>4, <3>1, <4>1 DEF Entries
    <3> QED
      BY <3>2, <3>3
  <2>6. Covers(t)'
    BY <2>1, <2>2, <2>5 DEF Covers, Entries
  <2>7. \A u \in Threads \ {t} : UNCHANGED Local(u)
    BY <1>0, <1>6 DEF WalkEnds, Local, Types
  <2> QED
    BY <2>1, <2>6, <2>7, QuietCall
<1>7. ASSUME NEW t \in Threads, Listed(t) PROVE CInv'
  <2>1. PICK rank \in [Ids -> Nat] : Ranked(rank)
    BY DEF IInv
  <2>2. at[t] = "list" /\ at[t] \notin Adding /\ rows' = rows /\ Held' = Held
    BY <1>0, <1>7 DEF Listed, Adding, Held
  <2>a. PICK got, n, order : Reading(t, got, n, order)
    BY <1>0, <1>7, <2>1, ListedReads
  <2>3. /\ n \in Nat /\ gaps' = gaps \cup ParentsLeft(got)
        /\ read' = [read EXCEPT ![t] = [i \in 1 .. n |-> Row(order[i])]]
        /\ got = {order[i] : i \in 1 .. n}
    BY <2>a DEF Reading
  <2>4. read'[t] = [i \in 1 .. n |-> Row(order[i])]
    BY <1>0, <2>3 DEF Types
  <2>5. /\ DOMAIN read'[t] = 1 .. n
        /\ \A i \in 1 .. n : read'[t][i][1] = order[i] /\ read'[t][i][2] = file[order[i]]
    BY <2>4 DEF Row
  <2>6. Entries(t)' = got
    <3>1. Entries(t)' = {read'[t][i][1] : i \in 1 .. n}
      BY <2>5 DEF Entries
    <3>2. \A i \in 1 .. n : read'[t][i][1] = order[i]
      BY <2>5
    <3>3. got = {order[i] : i \in 1 .. n}
      BY <2>3
    <3> QED
      BY <3>1, <3>2, <3>3
  <2>7. \A id \in got : file[id] \in Held \cup got \cup {Root} \cup gaps'
    BY <2>3 DEF ParentsLeft
  <2>8. Covers(t)'
    <3>1. \A i \in DOMAIN read'[t] : order[i] \in got
      BY <2>3, <2>5
    <3>2. \A i \in DOMAIN read'[t] : read'[t][i][2] \in Held \cup {Root} \cup gaps' \cup got
      BY <2>5, <2>7, <3>1
    <3> QED
      BY <2>2, <2>6, <3>2 DEF Covers
  <2>9. \A u \in Threads \ {t} : UNCHANGED Local(u)
    BY <1>0, <1>7 DEF Listed, Local, Types
  <2> QED
    BY <2>2, <2>3, <2>8, <2>9, QuietCall
<1>8. ASSUME NEW t \in Threads, Ignored(t) PROVE CInv'
  <2>1. at[t] \in Adding /\ Added(t) /\ UNCHANGED <<file, rows, goal, next_id, seen, known, denied, gaps>>
    BY <1>8 DEF Ignored, Adding
  <2>2. RowId(t) \in Held /\ Held' = Held
    BY <1>8 DEF Ignored, Held
  <2> QED
    BY <2>1, <2>2, AddedCovers
<1>9. ASSUME NEW t \in Threads, Insert(t) PROVE CInv'
  <2>1. at'[t] \in Adding /\ at[t] \in Adding
    BY <1>0, <1>9 DEF Insert, Types, Adding
  <2>2. Held' = Held /\ Entries(t)' = Entries(t) /\ gaps' = gaps
    BY <1>9 DEF Insert, Held, Entries
  <2>3. Covers(t)'
    BY <1>9, <2>1, <2>2 DEF CInv, Covers, Insert
  <2>4. \A u \in Threads \ {t} : UNCHANGED Local(u)
    BY <1>0, <1>9 DEF Insert, Local, Types
  <2> QED
    BY <1>9, <2>1, <2>2, <2>3, <2>4, QuietCall DEF Insert
<1>10. ASSUME NEW t \in Threads, Commit(t) PROVE CInv'
  <2>1. at[t] \in Adding /\ Added(t) /\ UNCHANGED <<file, goal, next_id, seen, known, denied>>
    BY <1>10 DEF Commit, Adding
  <2>2. PICK rank \in [Ids -> Nat] : Ranked(rank)
    BY DEF IInv
  <2>3. PICK id, parent : id = RowId(t) /\ parent = Head(read[t])[2]
    OBVIOUS
  <2>4. id \in Ids /\ parent # Missing
    <3>1. read[t] \in Seq(Pairs) /\ read[t] # << >>
      BY <1>0, <2>1, <2>2 DEF Types, Ranked, Call, Adds
    <3>2. Head(read[t]) \in Pairs
      BY <3>1
    <3> QED
      BY <2>3, <3>2, IdsAssumption DEF Pairs, RowId
  <2>5. rows' = IF id \in Held THEN rows ELSE [rows EXCEPT ![id] = parent]
    BY <1>10, <2>3 DEF Commit
  <2>6. /\ Held' = Held \cup {id}
        /\ \A i \in Held : rows'[i] = rows[i]
        /\ id \in Held \/ rows'[id] = parent
    <3>1. CASE id \in Held
      BY <2>5, <3>1 DEF Held
    <3>2. CASE id \notin Held
      <4>1. rows'[id] = parent /\ \A i \in Ids \ {id} : rows'[i] = rows[i]
        BY <1>0, <2>4, <2>5, <3>2 DEF Types
      <4> QED
        BY <2>4, <3>2, <4>1 DEF Held
    <3> QED
      BY <3>1, <3>2
  <2>7. gaps' = gaps \ {id}
    BY <1>10, <2>3 DEF Commit
  <2> QED
    BY <2>1, <2>3, <2>6, <2>7, AddedCovers
<1>11. ASSUME NEW id \in Ids, NEW parent \in Parents[id], Elsewhere(id, parent) PROVE CInv'
  <2>1. UNCHANGED <<rows, at, read, gaps>> /\ Held' = Held
    BY <1>11 DEF Elsewhere, Held
  <2> QED
    BY <2>1 DEF CInv, Covers, Awaited, Entries
<1>12. ASSUME Crash PROVE CInv'
  <2>1. \A t \in Threads : at'[t] \notin Adding
    BY <1>12 DEF Crash, Adding
  <2>2. CASE rows' = [id \in Ids |-> Missing]
    <3>1. Held' = {}
      BY <2>2 DEF Held
    <3> QED
      BY <2>1, <3>1 DEF CInv, Covers
  <2>3. CASE UNCHANGED rows /\ gaps' = gaps \cup UNION {Unadded(t) : t \in Threads}
    <3>1. Held' = Held
      BY <2>3 DEF Held
    <3>2. \A t \in Threads : Entries(t) \subseteq Held \cup gaps'
      BY <2>3 DEF Entries, Unadded
    <3> QED
      BY <2>1, <2>3, <3>1, <3>2 DEF CInv, Covers, Awaited
  <2> QED
    BY <1>12, <2>2, <2>3 DEF Crash
<1>13. ASSUME UNCHANGED vars PROVE CInv'
  <2>1. UNCHANGED <<rows, at, read, gaps>> /\ Held' = Held
    BY <1>13 DEF vars, Held
  <2> QED
    BY <2>1 DEF CInv, Covers, Awaited, Entries
<1>14. ASSUME NEW t \in Threads, Conflict(t) PROVE CInv'
  BY <1>13, <1>14 DEF Conflict
<1>15. ASSUME NEW t \in Threads, Raises(t) PROVE CInv'
  <2>1. /\ Held' = Held /\ rows' = rows /\ at'[t] \notin Adding
        /\ gaps' = gaps \cup Unadded(t)
    BY <1>0, <1>15 DEF Raises, Held, Types, Adding
  <2>2. Entries(t) \subseteq Held \cup gaps'
    BY <2>1 DEF Entries, Unadded
  <2>3. \A u \in Threads \ {t} : at'[u] = at[u] /\ read'[u] = read[u]
    BY <1>0, <1>15 DEF Raises, Types
  <2>4. \A u \in Threads : Covers(u)'
    BY <2>1, <2>3 DEF CInv, Covers, Entries
  <2>5. ASSUME NEW id \in Held PROVE rows[id] \in Held \cup {Root} \cup gaps' \/ Awaited(id)'
    <3>1. CASE rows[id] \in Held \cup {Root} \cup gaps
      BY <2>1, <3>1
    <3>2. ASSUME NEW u \in Threads, at[u] \in Adding, rows[id] \in Entries(u)
          PROVE  rows[id] \in Held \cup gaps' \/ Awaited(id)'
      <4>1. CASE u = t
        BY <2>2, <3>2, <4>1
      <4>2. CASE u # t
        BY <2>1, <2>3, <3>2, <4>2 DEF Awaited, Entries
      <4> QED
        BY <4>1, <4>2
    <3> QED
      BY <3>1, <3>2 DEF CInv, Awaited
  <2> QED
    BY <2>1, <2>4, <2>5 DEF CInv
<1> QED
  BY <1>1, <1>2, <1>3, <1>4, <1>5, <1>6, <1>7, <1>8, <1>9, <1>10, <1>11, <1>12, <1>13, <1>14, <1>15
  DEF Next, Progress

\* Whenever no thread is adding rows, what the table holds leads up to the root
\* or to what a listing, a raise or a crash left out: lookups, creates and races
\* between them add, with a row, all of the way up it lacks.
THEOREM QuietTableIsClosed == Spec => []QuietTableClosed
<1>1. Init => CInv
  BY DEF Init, CInv, Covers, Held, Adding
<1>2. IInv /\ CInv /\ [Next]_vars => CInv'
  BY Closing
<1>3. CInv => QuietTableClosed
  BY DEF CInv, QuietTableClosed, Awaited
<1> QED
  BY <1>1, <1>2, <1>3, Invariant, PTL DEF Spec
=============================================================================
