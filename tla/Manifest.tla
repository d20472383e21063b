------------------------------ MODULE Manifest ------------------------------
(***************************************************************************)
(* reconcile_schema: the compare-and-swap on a store's manifest.json.      *)
(*                                                                         *)
(* Each writer reads the manifest with its version, checks its own schema  *)
(* against what it read, and writes its schema, whole, on the condition    *)
(* that the manifest is still at that version.  A writer that lost reads   *)
(* again, at most Attempts times in all.                                   *)
(*                                                                         *)
(*   - A version is a hash of the content (LocalFiles) or the object's     *)
(*     ETag (RemoteFiles), so it is modelled as the content itself: a      *)
(*     manifest that returns to an earlier content has its old version.    *)
(*   - The conditional write is one step here: LocalFiles takes it under   *)
(*     a lock or through link(2), S3 on the server.                        *)
(*   - Reading and checking are one step, since the check looks only at    *)
(*     what was read.                                                      *)
(***************************************************************************)
EXTENDS SchemaCompat, Naturals

CONSTANTS Writers,     \* threads and processes that write layers
          Schemas,     \* the schemas they may write
          Readers,     \* the writers who can always read the manifest
          Attempts,    \* _ATTEMPTS
          Remote,      \* whether the store is an S3 location
          Absent       \* no manifest, and the condition `Absent()`

ASSUME ReadersAssumption == Readers \subseteq Writers
ASSUME AttemptsAssumption == Attempts \in Nat \ {0}
ASSUME RemoteAssumption == Remote \in BOOLEAN
ASSUME SchemasAssumption == \A s \in Schemas : Valid(s)
ASSUME AbsentAssumption == Absent \notin Schemas
\* Only S3 answers an unreadable manifest as a missing one.
ASSUME LocalAssumption == ~ Remote => Readers = Writers

VARIABLES manifest,    \* the stored manifest
          pc,          \* where each writer is in reconcile_schema
          want,        \* the schema each writer declares
          found,       \* what its last read returned, also as its version
          attempt,     \* how many writes it has tried or is about to
          held         \* every schema the manifest has held (history)

vars == <<manifest, pc, want, found, attempt, held>>

Running == {"read", "write"}
Ended == {"returned", "refused", "exhausted"}

TypeOK ==
    /\ manifest \in Schemas \cup {Absent}
    /\ pc \in [Writers -> {"idle"} \cup Running \cup Ended]
    /\ want \in [Writers -> Schemas \cup {Absent}]
    /\ found \in [Writers -> Schemas \cup {Absent}]
    /\ attempt \in [Writers -> 0 .. Attempts]
    /\ held \subseteq Schemas

Init ==
    /\ manifest = Absent
    /\ pc = [w \in Writers |-> "idle"]
    /\ want = [w \in Writers |-> Absent]
    /\ found = [w \in Writers |-> Absent]
    /\ attempt = [w \in Writers |-> 0]
    /\ held = {}

-----------------------------------------------------------------------------
\* A writer calls reconcile_schema; it may have called it before.
Begin(w, s) ==
    /\ pc[w] \notin Running
    /\ pc' = [pc EXCEPT ![w] = "read"]
    /\ want' = [want EXCEPT ![w] = s]
    /\ UNCHANGED <<manifest, found, attempt, held>>

\* What files.read_text may return: a 403 reads as a missing key, and who may
\* read can change between two reads.
Answers(w) == {manifest} \cup IF w \in Readers THEN {} ELSE {Absent}

\* Mutant: the comparison the wrong way round.
VerdictBackwards(s, existing) ==
    IF existing = Absent \/ ~ Declares(existing) THEN "write"
    ELSE IF s = existing THEN "returned"
    ELSE IF CompatibleWith(existing, s) THEN "write"
    ELSE "refused"

\* What the check makes of a schema and the manifest that was read.
Verdict(s, existing) ==
    IF existing = Absent \/ ~ Declares(existing) THEN "write"
    ELSE IF s = existing THEN "returned"
    ELSE IF CompatibleWith(s, existing) THEN "write"
    ELSE "refused"

\* The head of the loop: read, and decide.
Read(w) ==
    /\ pc[w] = "read"
    /\ \E answer \in Answers(w) :
         LET next == Verdict(want[w], answer) IN
         /\ pc' = [pc EXCEPT ![w] = next]
         /\ found' = [found EXCEPT ![w] = IF next = "write" THEN answer ELSE Absent]
         /\ attempt' = [attempt EXCEPT ![w] = IF next = "write" THEN @ + 1 ELSE 0]
    /\ UNCHANGED <<manifest, want, held>>

\* Mutant: a write with no condition.
HoldsAnyway(w) == pc[w] = "write"

\* files.write_text would be let through: the manifest is as it was read.
Holds(w) == manifest = found[w]

Put(w) ==
    /\ manifest' = want[w]
    /\ held' = held \cup {want[w]}

\* The call is over: its locals are gone.
End(w, outcome) ==
    /\ pc' = [pc EXCEPT ![w] = outcome]
    /\ found' = [found EXCEPT ![w] = Absent]
    /\ attempt' = [attempt EXCEPT ![w] = 0]

\* The conditional write succeeds and reconcile_schema returns.
Write(w) ==
    /\ pc[w] = "write"
    /\ Holds(w)
    /\ Put(w)
    /\ End(w, "returned")
    /\ UNCHANGED want

\* Mutant: one attempt too many.
RetryOnceMore(w) ==
    IF attempt[w] <= Attempts
    THEN /\ pc' = [pc EXCEPT ![w] = "read"]
         /\ found' = [found EXCEPT ![w] = Absent]
         /\ UNCHANGED attempt
    ELSE End(w, "exhausted")

\* Mutant: the attempts are counted from zero again after each.
RetryForever(w) ==
    /\ pc' = [pc EXCEPT ![w] = "read"]
    /\ found' = [found EXCEPT ![w] = Absent]
    /\ attempt' = [attempt EXCEPT ![w] = 0]

\* PreconditionFailedError: back to the read while attempts are left.
Retry(w) ==
    IF attempt[w] < Attempts
    THEN /\ pc' = [pc EXCEPT ![w] = "read"]
         /\ found' = [found EXCEPT ![w] = Absent]
         /\ UNCHANGED attempt
    ELSE End(w, "exhausted")

\* The manifest changed since it was read.
Lose(w) ==
    /\ pc[w] = "write"
    /\ ~ Holds(w)
    /\ Retry(w)
    /\ UNCHANGED <<manifest, want, held>>

\* S3 answers 409 to a conditional write that races another on the same key.
Conflict(w) ==
    /\ Remote
    /\ pc[w] = "write"
    /\ \E other \in Writers \ {w} : pc[other] = "write"
    /\ Retry(w)
    /\ UNCHANGED <<manifest, want, held>>

\* The put is applied but its answer is lost; the client library sends it
\* again, and the second put fails the condition the first one made false.
LostAnswer(w) ==
    /\ Remote
    /\ pc[w] = "write"
    /\ Holds(w)
    /\ want[w] # found[w]
    /\ Put(w)
    /\ Retry(w)
    /\ UNCHANGED want

\* The process dies inside the call.
Crash(w) ==
    /\ pc[w] \in Running
    /\ End(w, "idle")
    /\ UNCHANGED <<manifest, want, held>>

Next ==
    \E w \in Writers :
        \/ \E s \in Schemas : Begin(w, s)
        \/ Read(w)
        \/ Write(w)
        \/ Lose(w)
        \/ Conflict(w)
        \/ LostAnswer(w)
        \/ Crash(w)

Spec == Init /\ [][Next]_vars

\* A writer inside reconcile_schema keeps running: its thread is scheduled and
\* every call to the store answers.  Nobody has to call reconcile_schema.
Progress(w) == Read(w) \/ Write(w) \/ Lose(w) \/ Conflict(w) \/ LostAnswer(w)

FairSpec == Spec /\ \A w \in Writers : WF_vars(Progress(w))

-----------------------------------------------------------------------------
\* Whether every schema the manifest has held declared its `partial`.
PartialDeclared == \A s \in held : s.partial # Undeclared

\* The writers reconcile_schema has returned to, whose layers are or will be
\* part of the tree.
Returned == {w \in Writers : pc[w] = "returned"}

\* No widening is lost: whatever reconcile_schema accepted, from any writer and
\* however the attempts interleaved, the manifest still declares, with the same
\* types, and while every schema declares `partial` its partial dims too.
ReconciledStillRead ==
    \A s \in held \cup {want[w] : w \in Returned} :
        /\ manifest # Absent
        /\ RowsRead(manifest, s)
        /\ PartialDeclared => s.partial \subseteq manifest.partial

\* A refusal does not come from a lost race: the refused schema would not be
\* accepted by the manifest of now either, though that may have been replaced
\* since it was read.
RefusalIsFinal ==
    \A w \in Writers :
        pc[w] = "refused" /\ PartialDeclared => ~ CompatibleWith(want[w], manifest)

Registry == INSTANCE SchemaRegistry WITH schema <- manifest

\* The manifest implements the atomic registry: the check a writer made before
\* its conditional write holds of the manifest its write replaces.
ImplementsRegistry == Registry!Spec

\* reconcile_schema ends, however many other writers keep winning: the retry is
\* bounded.
Terminates == \A w \in Writers : pc[w] \in Running ~> pc[w] \notin Running
=============================================================================
