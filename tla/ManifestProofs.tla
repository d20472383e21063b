--------------------------- MODULE ManifestProofs ---------------------------
(***************************************************************************)
(* What Manifest guarantees for every set of writers and schemas and every *)
(* number of attempts.                                                     *)
(***************************************************************************)
EXTENDS Manifest, TLAPS

-----------------------------------------------------------------------------
(* Type correctness.                                                       *)

\* A call declares a schema; one that is not running has used no attempt, and
\* one about to read has an attempt left.
CallsInBounds ==
    \A w \in Writers :
        /\ pc[w] # "idle" => want[w] \in Schemas
        /\ pc[w] \notin Running => attempt[w] = 0
        /\ pc[w] = "read" => attempt[w] < Attempts

TypeInv == TypeOK /\ CallsInBounds

LEMMA VerdictType ==
    ASSUME NEW s, NEW existing
    PROVE  Verdict(s, existing) \in {"write"} \cup Ended
  BY DEF Verdict, Ended

LEMMA AnswersType ==
    ASSUME TypeOK, NEW w \in Writers
    PROVE  Answers(w) \subseteq Schemas \cup {Absent}
  BY DEF Answers, TypeOK

\* Retry leaves the call at the read with an attempt left, or over.
LEMMA RetryType ==
    ASSUME TypeInv, NEW w \in Writers, pc[w] = "write", Retry(w), UNCHANGED want
    PROVE  /\ pc' \in [Writers -> {"idle"} \cup Running \cup Ended]
           /\ found' \in [Writers -> Schemas \cup {Absent}]
           /\ attempt' \in [Writers -> 0 .. Attempts]
           /\ CallsInBounds'
  BY AttemptsAssumption
  DEF TypeInv, TypeOK, CallsInBounds, Retry, End, Running, Ended

LEMMA TypeInductive == TypeInv /\ [Next]_vars => TypeInv'
<1> SUFFICES ASSUME TypeInv, [Next]_vars PROVE TypeInv'
  OBVIOUS
<1>1. CASE UNCHANGED vars
  BY <1>1 DEF vars, TypeInv, TypeOK, CallsInBounds
<1>2. ASSUME NEW w \in Writers, NEW s \in Schemas, Begin(w, s) PROVE TypeInv'
  BY <1>2, AttemptsAssumption DEF Begin, TypeInv, TypeOK, CallsInBounds, Running, Ended
<1>3. ASSUME NEW w \in Writers, Read(w) PROVE TypeInv'
  <2>1. PICK answer \in Answers(w) :
            LET next == Verdict(want[w], answer) IN
            /\ pc' = [pc EXCEPT ![w] = next]
            /\ found' = [found EXCEPT ![w] = IF next = "write" THEN answer ELSE Absent]
            /\ attempt' = [attempt EXCEPT ![w] = IF next = "write" THEN @ + 1 ELSE 0]
    BY <1>3 DEF Read
  <2>2. Verdict(want[w], answer) \in {"write"} \cup Ended
    BY VerdictType
  <2>3. answer \in Schemas \cup {Absent}
    BY AnswersType DEF TypeInv
  <2>4. pc[w] = "read" /\ attempt[w] < Attempts /\ UNCHANGED <<manifest, want, held>>
    BY <1>3 DEF Read, TypeInv, CallsInBounds
  <2>5. TypeOK'
    BY <2>1, <2>2, <2>3, <2>4, AttemptsAssumption DEF TypeInv, TypeOK, Running
  <2>6. CallsInBounds'
    BY <2>1, <2>2, <2>4, AttemptsAssumption
    DEF TypeInv, TypeOK, CallsInBounds, Running, Ended
  <2> QED
    BY <2>5, <2>6 DEF TypeInv
<1>4. ASSUME NEW w \in Writers, Write(w) PROVE TypeInv'
  BY <1>4, AttemptsAssumption
  DEF Write, Put, End, TypeInv, TypeOK, CallsInBounds, Running, Ended
<1>5. ASSUME NEW w \in Writers, Lose(w) \/ Conflict(w) PROVE TypeInv'
  BY <1>5, RetryType DEF Lose, Conflict, TypeInv, TypeOK
<1>6. ASSUME NEW w \in Writers, LostAnswer(w) PROVE TypeInv'
  BY <1>6, RetryType DEF LostAnswer, Put, TypeInv, TypeOK, CallsInBounds
<1>7. ASSUME NEW w \in Writers, Crash(w) PROVE TypeInv'
  BY <1>7, AttemptsAssumption
  DEF Crash, End, TypeInv, TypeOK, CallsInBounds, Running
<1> QED
  BY <1>1, <1>2, <1>3, <1>4, <1>5, <1>6, <1>7 DEF Next

\* The variables of the compare-and-swap keep their types, and no writer uses
\* more than Attempts attempts.
THEOREM TypeCorrect == Spec => []TypeOK
<1>1. Init => TypeInv
  BY AttemptsAssumption DEF Init, TypeInv, TypeOK, CallsInBounds, Running
<1>2. TypeInv => TypeOK
  BY DEF TypeInv
<1> QED
  BY <1>1, <1>2, TypeInductive, PTL DEF Spec

-----------------------------------------------------------------------------
(* A wider schema keeps what the schemas before it declared.               *)

LEMMA RowsReadReflexive ==
    ASSUME NEW s
    PROVE  RowsRead(s, s)
  BY DEF RowsRead, DimensionsKept, AttributesKept, PropertiesKept

LEMMA RowsReadTransitive ==
    ASSUME NEW now, NEW mid, NEW was, RowsRead(now, mid), RowsRead(mid, was)
    PROVE  RowsRead(now, was)
<1>1. DimensionsKept(now, was)
  BY DEF RowsRead, DimensionsKept
<1>2. AttributesKept(now, was)
  BY DEF RowsRead, AttributesKept
<1>3. PropertiesKept(now, was)
  BY DEF RowsRead, PropertiesKept
<1> QED
  BY <1>1, <1>2, <1>3 DEF RowsRead

\* Anything reads under any schema if it was written under one that declares
\* nothing.
LEMMA NothingToRead ==
    ASSUME NEW now, NEW was \in Schemas, ~ Declares(was)
    PROVE  RowsRead(now, was)
  BY SchemasAssumption
  DEF Valid, Declares, RowsRead, DimensionsKept, AttributesKept, PropertiesKept

\* A schema that declares nothing extends only one that declares nothing.
LEMMA NothingExtendsNothing ==
    ASSUME NEW now, NEW was, ~ Declares(now), RowsRead(now, was)
    PROVE  ~ Declares(was)
  BY DEF Declares, RowsRead, DimensionsKept, AttributesKept

LEMMA CompatibleReads ==
    ASSUME NEW now, NEW was
    PROVE  CompatibleWith(now, was) <=> RowsRead(now, was) /\ PartialAccepted(now, was)
  BY DEF CompatibleWith, RowsRead

-----------------------------------------------------------------------------
(* The history of the manifest, and what writers know of it.               *)

\* The manifest is the last of the schemas held, and reads the rows of all.
HeldStillRead ==
    /\ manifest = Absent <=> held = {}
    /\ manifest # Absent => manifest \in held
    /\ \A s \in held :
         /\ RowsRead(manifest, s)
         /\ PartialDeclared => s.partial \subseteq manifest.partial

\* A writer about to write passed the check against what it read; one that
\* returned has its schema among those held; one that was refused disagrees
\* with a schema the manifest has held.
WritersKnow ==
    \A w \in Writers :
        /\ pc[w] = "write" => Verdict(want[w], found[w]) = "write"
        /\ pc[w] = "returned" => want[w] \in held
        /\ pc[w] = "refused" => \E s \in held : ~ CompatibleWith(want[w], s)

Inv == TypeInv /\ HeldStillRead /\ WritersKnow

\* What Put does to the history when the condition holds: the check that was
\* made on what was read holds of what is replaced.
LEMMA PutKeepsHistory ==
    ASSUME Inv, NEW w \in Writers, pc[w] = "write", Holds(w), Put(w)
    PROVE  HeldStillRead'
<1> DEFINE s == want[w]
<1>1. s \in Schemas /\ s # Absent
  BY AbsentAssumption DEF Inv, TypeInv, CallsInBounds
<1>2. manifest' = s /\ held' = held \cup {s} /\ held \subseteq Schemas
  BY DEF Put, Inv, TypeInv, TypeOK
<1>3. \/ manifest = Absent
      \/ ~ Declares(manifest)
      \/ CompatibleWith(s, manifest)
  BY DEF Holds, Inv, WritersKnow, Verdict
<1>4. ASSUME NEW r \in held PROVE RowsRead(s, r)
  <2>1. manifest # Absent /\ manifest \in held /\ RowsRead(manifest, r)
    BY <1>4 DEF Inv, HeldStillRead
  <2>2. CASE ~ Declares(manifest)
    BY <1>2, <1>4, <2>1, <2>2, NothingExtendsNothing, NothingToRead
  <2>3. CASE CompatibleWith(s, manifest)
    BY <2>1, <2>3, CompatibleReads, RowsReadTransitive
  <2> QED
    BY <1>3, <2>1, <2>2, <2>3
<1>5. ASSUME NEW r \in held, PartialDeclared' PROVE r.partial \subseteq s.partial
  <2>1. manifest # Absent /\ manifest \in held /\ RowsRead(manifest, r)
    BY <1>5 DEF Inv, HeldStillRead
  <2>2. PartialDeclared /\ s.partial # Undeclared
    BY <1>2, <1>5 DEF PartialDeclared
  <2>3. r.partial # Undeclared /\ manifest.partial # Undeclared
    BY <1>5, <2>1, <2>2 DEF PartialDeclared
  <2>4. CASE ~ Declares(manifest)
    <3>1. ~ Declares(r) /\ r \in Schemas
      BY <1>2, <1>5, <2>1, <2>4, NothingExtendsNothing
    <3> QED
      BY <2>3, <3>1, SchemasAssumption DEF Valid, Declares
  <2>5. CASE CompatibleWith(s, manifest)
    <3>1. manifest.partial \subseteq s.partial
      BY <2>2, <2>3, <2>5 DEF CompatibleWith, PartialAccepted
    <3>2. r.partial \subseteq manifest.partial
      BY <1>5, <2>2 DEF Inv, HeldStillRead
    <3> QED
      BY <3>1, <3>2
  <2> QED
    BY <1>3, <2>1, <2>4, <2>5
<1> QED
  BY <1>1, <1>2, <1>4, <1>5, RowsReadReflexive DEF HeldStillRead

LEMMA InvInductive == Inv /\ [Next]_vars => Inv'
<1> SUFFICES ASSUME Inv, [Next]_vars PROVE Inv'
  OBVIOUS
<1>0. TypeInv'
  BY TypeInductive DEF Inv
<1>a. TypeInv /\ HeldStillRead /\ WritersKnow
  BY DEF Inv
\* A step that leaves the manifest alone leaves its history alone.
<1>b. ASSUME UNCHANGED <<manifest, held>> PROVE HeldStillRead'
  BY <1>a, <1>b DEF HeldStillRead, PartialDeclared
<1>1. CASE UNCHANGED vars
  BY <1>0, <1>1, <1>a, <1>b DEF vars, Inv, WritersKnow
<1>2. ASSUME NEW w \in Writers, NEW s \in Schemas, Begin(w, s) PROVE Inv'
  <2>1. WritersKnow'
    BY <1>2, <1>a DEF Begin, TypeInv, TypeOK, WritersKnow
  <2> QED
    BY <1>0, <1>2, <1>b, <2>1 DEF Begin, Inv
<1>3. ASSUME NEW w \in Writers, Read(w) PROVE Inv'
  <2>1. PICK answer \in Answers(w) :
            LET next == Verdict(want[w], answer) IN
            /\ pc' = [pc EXCEPT ![w] = next]
            /\ found' = [found EXCEPT ![w] = IF next = "write" THEN answer ELSE Absent]
            /\ attempt' = [attempt EXCEPT ![w] = IF next = "write" THEN @ + 1 ELSE 0]
    BY <1>3 DEF Read
  <2>2. UNCHANGED <<manifest, want, held>>
    BY <1>3 DEF Read
  <2>3. answer # Absent => answer \in held
    BY <1>a DEF Answers, HeldStillRead
  <2>4. /\ Verdict(want[w], answer) = "returned" => want[w] = answer /\ answer # Absent
        /\ Verdict(want[w], answer) = "refused" => /\ ~ CompatibleWith(want[w], answer)
                                                   /\ answer # Absent
    BY DEF Verdict
  <2>5. WritersKnow'
    BY <1>a, <2>1, <2>2, <2>3, <2>4 DEF TypeInv, TypeOK, WritersKnow
  <2> QED
    BY <1>0, <1>b, <2>2, <2>5 DEF Inv
<1>4. ASSUME NEW w \in Writers, Write(w) PROVE Inv'
  <2>1. WritersKnow'
    BY <1>4, <1>a DEF Write, Put, End, TypeInv, TypeOK, WritersKnow
  <2> QED
    BY <1>0, <1>4, <2>1, PutKeepsHistory DEF Write, Inv
<1>5. ASSUME NEW w \in Writers, Lose(w) \/ Conflict(w) PROVE Inv'
  <2>1. Retry(w) /\ UNCHANGED <<manifest, want, held>>
    BY <1>5 DEF Lose, Conflict
  <2>2. WritersKnow'
    BY <1>a, <2>1 DEF Retry, End, TypeInv, TypeOK, WritersKnow
  <2> QED
    BY <1>0, <1>b, <2>1, <2>2 DEF Inv
<1>6. ASSUME NEW w \in Writers, LostAnswer(w) PROVE Inv'
  <2>1. WritersKnow'
    BY <1>6, <1>a DEF LostAnswer, Put, Retry, End, TypeInv, TypeOK, WritersKnow
  <2> QED
    BY <1>0, <1>6, <2>1, PutKeepsHistory DEF LostAnswer, Inv
<1>7. ASSUME NEW w \in Writers, Crash(w) PROVE Inv'
  <2>1. WritersKnow'
    BY <1>7, <1>a DEF Crash, End, TypeInv, TypeOK, WritersKnow
  <2> QED
    BY <1>0, <1>7, <1>b, <2>1 DEF Crash, Inv
<1> QED
  BY <1>1, <1>2, <1>3, <1>4, <1>5, <1>6, <1>7 DEF Next

LEMMA InitInv == Init => Inv
  BY AttemptsAssumption, AbsentAssumption
  DEF Init, Inv, TypeInv, TypeOK, CallsInBounds, Running, Ended,
      HeldStillRead, WritersKnow

LEMMA AlwaysInv == Spec => []Inv
  BY InitInv, InvInductive, PTL DEF Spec

\* No widening is lost, for any number of writers: every schema that
\* reconcile_schema accepted is still read by the manifest, with its partial
\* dims while every schema declares `partial`.
THEOREM NoWideningLost == Spec => []ReconciledStillRead
<1>1. Inv => ReconciledStillRead
  BY DEF Inv, HeldStillRead, WritersKnow, ReconciledStillRead, Returned
<1> QED
  BY <1>1, AlwaysInv, PTL

\* A refusal stands: no later manifest would have accepted the schema.
THEOREM RefusalsStand == Spec => []RefusalIsFinal
<1>1. Inv => RefusalIsFinal
  <2> SUFFICES ASSUME Inv, PartialDeclared,
                      NEW w \in Writers, pc[w] = "refused",
                      CompatibleWith(want[w], manifest)
               PROVE  FALSE
    BY DEF RefusalIsFinal
  <2>1. PICK s \in held : ~ CompatibleWith(want[w], s)
    BY DEF Inv, WritersKnow
  <2>2. manifest \in held /\ RowsRead(manifest, s) /\ s.partial \subseteq manifest.partial
    BY <2>1 DEF Inv, HeldStillRead
  <2>3. RowsRead(want[w], s)
    BY <2>2, CompatibleReads, RowsReadTransitive
  <2>4. PartialAccepted(want[w], s)
    BY <2>2 DEF CompatibleWith, PartialAccepted, PartialDeclared
  <2> QED
    BY <2>1, <2>3, <2>4, CompatibleReads
<1> QED
  BY <1>1, AlwaysInv, PTL

\* The check made before the conditional write holds of the manifest it replaces.
LEMMA StepRegisters == Inv /\ [Next]_vars => [Registry!Next]_manifest
<1> SUFFICES ASSUME Inv, [Next]_vars, manifest' # manifest PROVE Registry!Next
  OBVIOUS
<1>1. PICK w \in Writers : pc[w] = "write" /\ Holds(w) /\ Put(w)
  BY DEF Next, vars, Begin, Read, Write, Lose, Conflict, LostAnswer, Crash
<1>2. want[w] \in Schemas /\ manifest' = want[w]
  BY <1>1 DEF Put, Inv, TypeInv, CallsInBounds
<1>3. (manifest # Absent /\ Declares(manifest)) =>
          want[w] = manifest \/ CompatibleWith(want[w], manifest)
  BY <1>1 DEF Holds, Inv, WritersKnow, Verdict
<1>4. (manifest # Absent /\ Declares(manifest)) => CompatibleWith(want[w], manifest)
  BY <1>1, <1>2, <1>3 DEF Put
<1> QED
  BY <1>2, <1>4
  DEF Registry!Next, Registry!Declare, Registry!Declares, Registry!CompatibleWith,
      Registry!DimensionsKept, Registry!AttributesKept, Registry!PropertiesKept,
      Registry!PartialAccepted, Declares, CompatibleWith,
      DimensionsKept, AttributesKept, PropertiesKept, PartialAccepted

\* Every step of the compare-and-swap is a step of the atomic registry or
\* leaves the manifest alone.
THEOREM CompareAndSwapImplementsRegistry == Spec => ImplementsRegistry
<1>1. Init => Registry!Init
  BY DEF Init, Registry!Init
<1> QED
  BY <1>1, StepRegisters, AlwaysInv, PTL DEF Spec, ImplementsRegistry, Registry!Spec
=============================================================================
