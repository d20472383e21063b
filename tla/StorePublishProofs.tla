------------------------- MODULE StorePublishProofs -------------------------
(***************************************************************************)
(* What StorePublish guarantees for every set of writers, ids and schemas. *)
(*                                                                         *)
(* Nothing of the manifest is proved again: every step of _write is a step *)
(* of Manifest or leaves its variables alone, so the invariant of          *)
(* ManifestProofs holds here too (P is that module under these variables). *)
(***************************************************************************)
EXTENDS StorePublish, TLAPS

P == INSTANCE ManifestProofs

\* Which id a call writes, and what is there of its layer when it declares
\* the schema.
CallsKnow ==
    \A w \in Writers :
        /\ doing[w] # "idle" => /\ mine[w] \in Ids
                                /\ over[w] \in Published \cup {Root}
                                /\ under[mine[w]] \in Schemas
        /\ doing[w] = "manifest" => /\ layer[mine[w]] = "whole"
                                    /\ want[w] = under[mine[w]]

\* A file is there only over a whole layer whose schema the manifest has held.
FilesLast ==
    \A id \in Published :
        /\ revfile[id] \in Published \cup {Root}
        /\ layer[id] = "whole"
        /\ under[id] \in held

SInv == P!Inv /\ TypeOK /\ CallsKnow /\ FilesLast /\ WidenedForALayer

-----------------------------------------------------------------------------
(* The manifest's part.                                                    *)

LEMMA SameManifest ==
    /\ M!Init <=> P!Init
    /\ M!TypeOK <=> P!TypeOK
    /\ \A s, existing : M!Verdict(s, existing) = P!Verdict(s, existing)
  BY DEF M!Init, P!Init, M!TypeOK, P!TypeOK, M!Running, P!Running, M!Ended, P!Ended,
         M!Verdict, P!Verdict, M!Declares, P!Declares, M!CompatibleWith,
         P!CompatibleWith, M!DimensionsKept, P!DimensionsKept, M!AttributesKept,
         P!AttributesKept, M!PropertiesKept, P!PropertiesKept, M!PartialAccepted,
         P!PartialAccepted

LEMMA ManifestSteps ==
    ASSUME NEW w \in Writers
    PROVE  /\ \A s \in Schemas : M!Begin(w, s) => P!Next
           /\ M!Progress(w) => P!Next
           /\ M!Crash(w) => P!Next
<1>1. \A s \in Schemas : M!Begin(w, s) => P!Begin(w, s)
  BY DEF M!Begin, P!Begin, M!Running, P!Running
<1>2. M!Crash(w) => P!Crash(w)
  BY DEF M!Crash, P!Crash, M!Running, P!Running, M!End, P!End
<1>3. M!Read(w) => P!Read(w)
  BY SameManifest DEF M!Read, P!Read, M!Answers, P!Answers
<1>4. M!Write(w) => P!Write(w)
  BY DEF M!Write, P!Write, M!Holds, P!Holds, M!Put, P!Put, M!End, P!End
<1>5. M!Retry(w) => P!Retry(w)
  BY DEF M!Retry, P!Retry, M!End, P!End
<1>6. M!Lose(w) => P!Lose(w)
  BY <1>5 DEF M!Lose, P!Lose, M!Holds, P!Holds
<1>7. M!Conflict(w) => P!Conflict(w)
  BY <1>5 DEF M!Conflict, P!Conflict
<1>8. M!LostAnswer(w) => P!LostAnswer(w)
  BY <1>5 DEF M!LostAnswer, P!LostAnswer, M!Holds, P!Holds, M!Put, P!Put
<1> QED
  BY <1>1, <1>2, <1>3, <1>4, <1>6, <1>7, <1>8 DEF M!Progress, P!Next

LEMMA ManifestInvKept == P!Inv /\ [P!Next]_mvars => P!Inv'
  BY P!InvInductive, ManifestAssumption DEF mvars, P!vars, P!Valid, Valid

LEMMA ManifestInvInit == M!Init => P!Inv
  BY P!InitInv, SameManifest, ManifestAssumption DEF P!Valid, Valid

\* What reconcile_schema does to the variables the invariant speaks of.
LEMMA ProgressEffect ==
    ASSUME NEW w \in Writers, M!Progress(w)
    PROVE  want' = want /\ (held' = held \/ held' = held \cup {want[w]})
  BY DEF M!Progress, M!Read, M!Write, M!Lose, M!Conflict, M!LostAnswer, M!Put

-----------------------------------------------------------------------------
(* The invariant.                                                          *)

LEMMA PublishInit == Init => SInv
<1> SUFFICES ASSUME Init PROVE SInv
  OBVIOUS
<1>1. P!Inv
  BY ManifestInvInit DEF Init
<1>2. M!TypeOK
  BY <1>1, SameManifest DEF P!Inv, P!TypeInv
<1> QED
  BY <1>1, <1>2 DEF Init, M!Init, SInv, TypeOK, CallsKnow, FilesLast, WidenedForALayer, Published

LEMMA PublishInductive == SInv /\ [Next]_vars => SInv'
<1> SUFFICES ASSUME SInv, [Next]_vars PROVE SInv'
  OBVIOUS
<1>0. /\ P!Inv /\ TypeOK /\ CallsKnow /\ FilesLast /\ WidenedForALayer
      /\ held \subseteq Schemas /\ Absent \notin Schemas
  BY ManifestAssumption DEF SInv, TypeOK, M!TypeOK
\* The manifest's step first: it gives P!Inv and the types of its variables.
<1>a. ASSUME P!Next \/ UNCHANGED mvars PROVE P!Inv' /\ M!TypeOK'
  <2>1. P!Inv'
    BY <1>0, <1>a, ManifestInvKept
  <2>2. P!TypeOK' <=> M!TypeOK'
    BY SameManifest, PTL
  <2> QED
    BY <2>1, <2>2 DEF P!Inv, P!TypeInv
<1>1. CASE UNCHANGED vars
  <2>1. P!Inv' /\ M!TypeOK'
    BY <1>1, <1>a DEF vars
  <2> QED
    BY <1>0, <1>1, <2>1
    DEF vars, mvars, own, SInv, TypeOK, CallsKnow, FilesLast, WidenedForALayer, Published
<1>2. ASSUME NEW w \in Writers, NEW id \in Ids, NEW parent \in Ids \cup {Root},
             NEW s \in Schemas, Start(w, id, parent, s)
      PROVE  SInv'
  <2>1. P!Inv' /\ M!TypeOK'
    BY <1>2, <1>a DEF Start
  <2>2. TypeOK'
    BY <1>0, <1>2, <2>1 DEF Start, TypeOK, mvars
  <2>3. Published' = Published /\ id \notin Published
    BY <1>0, <1>2 DEF Start, Published, FilesLast
  <2>4. CallsKnow'
    BY <1>0, <1>2, <2>3 DEF Start, CallsKnow, TypeOK, mvars
  <2>5. FilesLast'
    BY <1>0, <1>2, <2>3 DEF Start, FilesLast, TypeOK, mvars, Published
  <2>6. WidenedForALayer'
    BY <1>0, <1>2 DEF Start, WidenedForALayer, TypeOK, mvars
  <2> QED
    BY <2>1, <2>2, <2>4, <2>5, <2>6 DEF SInv
<1>3. ASSUME NEW w \in Writers, LayerFile(w) PROVE SInv'
  <2>1. P!Inv' /\ M!TypeOK'
    BY <1>3, <1>a DEF LayerFile
  <2>2. mine[w] \in Ids
    BY <1>0, <1>3 DEF LayerFile, CallsKnow
  <2>3. TypeOK'
    BY <1>0, <1>3, <2>1 DEF LayerFile, TypeOK, mvars, own
  <2>4. CallsKnow'
    BY <1>0, <1>3, <2>2 DEF LayerFile, CallsKnow, TypeOK, mvars, own, Published
  <2>5. FilesLast' /\ WidenedForALayer'
    BY <1>0, <1>3, <2>2
    DEF LayerFile, FilesLast, WidenedForALayer, TypeOK, mvars, own, Published
  <2> QED
    BY <2>1, <2>3, <2>4, <2>5 DEF SInv
<1>4. ASSUME NEW w \in Writers, LayerDone(w) PROVE SInv'
  <2>1. mine[w] \in Ids /\ under[mine[w]] \in Schemas
    BY <1>0, <1>4 DEF LayerDone, CallsKnow
  <2>2. P!Inv' /\ M!TypeOK'
    BY <1>4, <2>1, <1>a, ManifestSteps DEF LayerDone
  <2>3. TypeOK'
    BY <1>0, <1>4, <2>2 DEF LayerDone, TypeOK
  <2>4. CallsKnow'
    BY <1>0, <1>4, <2>1 DEF LayerDone, M!Begin, CallsKnow, TypeOK, M!TypeOK, Published
  <2>5. FilesLast' /\ WidenedForALayer'
    BY <1>0, <1>4, <2>1
    DEF LayerDone, M!Begin, FilesLast, WidenedForALayer, TypeOK, Published
  <2> QED
    BY <2>2, <2>3, <2>4, <2>5 DEF SInv
<1>5. ASSUME NEW w \in Writers, Reconcile(w) PROVE SInv'
  <2>1. P!Inv' /\ M!TypeOK'
    BY <1>5, <1>a, ManifestSteps DEF Reconcile
  <2>2. want' = want /\ (held' = held \/ held' = held \cup {want[w]})
    BY <1>5, ProgressEffect DEF Reconcile
  <2>3. layer[mine[w]] = "whole" /\ want[w] = under[mine[w]] /\ mine[w] \in Ids
    BY <1>0, <1>5 DEF Reconcile, CallsKnow
  <2>4. TypeOK' /\ CallsKnow'
    BY <1>0, <1>5, <2>1, <2>2 DEF Reconcile, TypeOK, CallsKnow, own, Published
  <2>5. FilesLast' /\ WidenedForALayer'
    BY <1>0, <1>5, <2>2, <2>3
    DEF Reconcile, FilesLast, WidenedForALayer, own, Published
  <2> QED
    BY <2>1, <2>4, <2>5 DEF SInv
<1>6. ASSUME NEW w \in Writers, Create(w) PROVE SInv'
  <2>1. P!Inv' /\ M!TypeOK'
    BY <1>6, <1>a DEF Create
  <2>2. /\ mine[w] \in Ids /\ over[w] \in Published \cup {Root}
        /\ layer[mine[w]] = "whole" /\ want[w] = under[mine[w]]
    BY <1>0, <1>6 DEF Create, Reconciled, CallsKnow
  <2>3. want[w] \in held
    BY <1>0, <1>6 DEF Create, Reconciled, P!Inv, P!WritersKnow
  <2>4. TypeOK'
    BY <1>0, <1>6, <2>1, <2>2 DEF Create, Leave, TypeOK, mvars, Published
  <2>5. Published' = Published \cup {mine[w]}
    BY <1>0, <1>6, <2>2, IdsAssumption DEF Create, TypeOK, Published
  <2>6. CallsKnow'
    BY <1>0, <1>6, <2>5 DEF Create, Leave, CallsKnow, TypeOK, mvars
  <2>7. FilesLast'
    BY <1>0, <1>6, <2>2, <2>3, <2>5 DEF Create, FilesLast, TypeOK, mvars, Published
  <2>8. WidenedForALayer'
    BY <1>0, <1>6 DEF Create, WidenedForALayer, mvars
  <2> QED
    BY <2>1, <2>4, <2>6, <2>7, <2>8 DEF SInv
\* A call that ends without a file leaves the tree as it was.
<1>7. ASSUME NEW w \in Writers, LayerRefused(w) \/ ManifestRefused(w) \/ Crash(w)
      PROVE  SInv'
  <2>1. Leave(w) /\ UNCHANGED <<layer, under, revfile, want, held>>
    BY <1>7 DEF LayerRefused, ManifestRefused, Crash, M!Crash, M!End, mvars
  <2>2. P!Inv' /\ M!TypeOK'
    BY <1>7, <1>a, ManifestSteps DEF LayerRefused, ManifestRefused, Crash
  <2>3. TypeOK' /\ CallsKnow'
    BY <1>0, <2>1, <2>2 DEF Leave, TypeOK, CallsKnow, Published
  <2>4. FilesLast' /\ WidenedForALayer'
    BY <1>0, <2>1 DEF FilesLast, WidenedForALayer, Published
  <2> QED
    BY <2>2, <2>3, <2>4 DEF SInv
<1> QED
  BY <1>1, <1>2, <1>3, <1>4, <1>5, <1>6, <1>7 DEF Next

LEMMA AlwaysSInv == Spec => []SInv
  BY PublishInit, PublishInductive, PTL DEF Spec

-----------------------------------------------------------------------------
\* Types, for any number of writers, ids and attempts.
THEOREM PublishTypeCorrect == Spec => []TypeOK
  BY AlwaysSInv, PTL DEF SInv

\* A revision file is over revisions that are there, a whole layer and a
\* manifest that reads it, wherever writers stop, lose or are overtaken.
THEOREM PublishedIsReadable == Spec => []PublishedReadable
<1>1. SInv => PublishedReadable
  BY DEF SInv, FilesLast, P!Inv, P!HeldStillRead, PublishedReadable, RowsRead, P!RowsRead,
         DimensionsKept, AttributesKept, PropertiesKept, P!DimensionsKept,
         P!AttributesKept, P!PropertiesKept
<1> QED
  BY <1>1, AlwaysSInv, PTL

\* The manifest never declares what no layer was written under.
THEOREM WideningFollowsALayer == Spec => []WidenedForALayer
  BY AlwaysSInv, PTL DEF SInv

-----------------------------------------------------------------------------
(* The store appears to publish a revision in one step.                    *)

\* A step of the manifest alone is a widening of the store's schema.
LEMMA StepWidens ==
    ASSUME P!Inv, P!Next \/ UNCHANGED mvars, UNCHANGED Tree
    PROVE  [Promise!StoreNext]_<<manifest, Tree>>
<1>1. [P!Registry!Next]_manifest
  BY P!StepRegisters, ManifestAssumption DEF mvars, P!vars, P!Valid, Valid
<1>2. P!Registry!Next => \E s \in Schemas : Promise!Declare(s)
  BY DEF P!Registry!Next, P!Registry!Declare, P!Registry!Declares, P!Registry!CompatibleWith,
         P!Registry!DimensionsKept, P!Registry!AttributesKept, P!Registry!PropertiesKept,
         P!Registry!PartialAccepted, Promise!Declare, Promise!Declares,
         Promise!CompatibleWith, Promise!DimensionsKept, Promise!AttributesKept,
         Promise!PropertiesKept, Promise!PartialAccepted
<1> QED
  BY <1>1, <1>2 DEF Promise!StoreNext, Promise!Widen

LEMMA StepPublishes ==
    ASSUME SInv, SInv', NEW w \in Writers, Create(w)
    PROVE  Promise!Publish(mine[w], over[w], under[mine[w]])
<1> DEFINE id == mine[w]
<1>0. TypeOK /\ CallsKnow /\ FilesLast'
  BY DEF SInv
<1>1. /\ id \in Ids /\ id \notin Published /\ over[w] \in Published \cup {Root}
      /\ revfile' = [revfile EXCEPT ![id] = over[w]] /\ UNCHANGED <<under, manifest, held>>
  BY <1>0 DEF Create, Reconciled, CallsKnow, Published, mvars
<1>2. Published' = Published \cup {id}
  BY <1>0, <1>1, IdsAssumption DEF TypeOK, Published
<1>3. Published' \subseteq Ids /\ \A i \in Published' : revfile'[i] =
          IF i = id THEN over[w] ELSE revfile[i]
  BY <1>0, <1>1 DEF TypeOK, Published
<1>4. Tree' = [i \in DOMAIN Tree \cup {id} |->
                 IF i = id THEN [parent |-> over[w], schema |-> under[id]] ELSE Tree[i]]
  BY <1>1, <1>2, <1>3 DEF Tree
<1>5. manifest # Absent /\ RowsRead(manifest, under[id])
  BY <1>1, <1>2 DEF SInv, FilesLast, P!Inv, P!HeldStillRead, RowsRead, P!RowsRead,
     DimensionsKept, AttributesKept, PropertiesKept, P!DimensionsKept,
     P!AttributesKept, P!PropertiesKept
<1> QED
  BY <1>1, <1>4, <1>5
  DEF Promise!Publish, Promise!RowsRead, Promise!DimensionsKept, Promise!AttributesKept,
      Promise!PropertiesKept, RowsRead, DimensionsKept, AttributesKept, PropertiesKept, Tree

\* The three steps of _write, with writers between and inside them, implement a
\* store in which a revision appears whole, under a schema that only widens.
THEOREM WriteImplementsRecordStore == Spec => ImplementsRecordStore
<1>1. Init => Promise!StoreInit
  <2>1. Init => Published = {}
    BY DEF Init, Published
  <2>2. Init => Tree = << >>
    BY <2>1 DEF Tree
  <2> QED
    BY <2>2 DEF Init, M!Init, Promise!StoreInit, Promise!Init
<1>2. SInv /\ SInv' /\ [Next]_vars => [Promise!StoreNext]_<<manifest, Tree>>
  <2> SUFFICES ASSUME SInv, SInv', [Next]_vars
               PROVE  [Promise!StoreNext]_<<manifest, Tree>>
    OBVIOUS
  <2>0. P!Inv /\ TypeOK /\ CallsKnow /\ FilesLast /\ Absent \notin Schemas /\ held \subseteq Schemas
    BY ManifestAssumption DEF SInv, TypeOK, M!TypeOK
  <2>1. CASE UNCHANGED vars
    BY <2>1 DEF vars, mvars, Tree, Published
  <2>2. ASSUME NEW w \in Writers, NEW id \in Ids, NEW parent \in Ids \cup {Root},
               NEW s \in Schemas, Start(w, id, parent, s)
        PROVE  UNCHANGED <<manifest, Tree>>
    <3>1. id \notin Published /\ Published' = Published
      BY <2>0, <2>2 DEF Start, FilesLast, Published
    <3>2. \A i \in Published : under'[i] = under[i] /\ revfile'[i] = revfile[i]
      BY <2>0, <2>2, <3>1 DEF Start, TypeOK, Published
    <3> QED
      BY <2>2, <3>1, <3>2 DEF Start, Tree, mvars
  <2>3. ASSUME NEW w \in Writers, LayerFile(w) \/ LayerRefused(w) \/ ManifestRefused(w)
        PROVE  UNCHANGED <<manifest, Tree>>
    BY <2>3 DEF LayerFile, LayerRefused, ManifestRefused, mvars, Tree, Published
  <2>4. ASSUME NEW w \in Writers, LayerDone(w) \/ Reconcile(w) \/ Crash(w)
        PROVE  [Promise!StoreNext]_<<manifest, Tree>>
    <3>1. UNCHANGED Tree
      BY <2>4 DEF LayerDone, Reconcile, Crash, Tree, Published
    <3>2. P!Next \/ UNCHANGED mvars
      BY <2>0, <2>4, ManifestSteps DEF LayerDone, Reconcile, Crash, CallsKnow
    <3> QED
      BY <2>0, <3>1, <3>2, StepWidens
  <2>5. ASSUME NEW w \in Writers, Create(w) PROVE Promise!StoreNext
    <3>1. mine[w] \in Ids /\ over[w] \in Ids \cup {Root} /\ under[mine[w]] \in Schemas
      BY <2>0, <2>5 DEF Create, Reconciled, CallsKnow, Published
    <3> QED
      BY <2>5, <3>1, StepPublishes DEF Promise!StoreNext
  <2> QED
    BY <2>1, <2>2, <2>3, <2>4, <2>5 DEF Next
<1> QED
  BY <1>1, <1>2, AlwaysSInv, PTL DEF Spec, ImplementsRecordStore, Promise!StoreSpec
=============================================================================
