--------------------------- MODULE SchemaRegistry ---------------------------
(***************************************************************************)
(* What the manifest of a store promises: one schema, declared once and    *)
(* replaced only, and atomically, by one compatible with it.  The checks   *)
(* of concurrent writers never interleave here; Manifest implements this   *)
(* with a read, a check and a conditional write.                           *)
(***************************************************************************)
EXTENDS SchemaCompat

CONSTANTS Schemas,    \* the schemas writers may declare
          Absent      \* no manifest yet

VARIABLE schema       \* the store's schema

Init == schema = Absent

Declare(s) ==
    /\ (schema # Absent /\ Declares(schema)) => CompatibleWith(s, schema)
    /\ schema' = s

Next == \E s \in Schemas : Declare(s)

Spec == Init /\ [][Next]_schema
=============================================================================
