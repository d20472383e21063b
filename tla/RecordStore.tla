---------------------------- MODULE RecordStore -----------------------------
(***************************************************************************)
(* What a store promises its readers: a schema that only widens, and a     *)
(* tree of revisions that only grows, in which every revision hangs from   *)
(* one already there and its layer reads under the schema.  A revision     *)
(* appears in one step, with its layer whole.                              *)
(***************************************************************************)
EXTENDS SchemaRegistry

CONSTANTS Ids,     \* the ids of revisions
          Root     \* the parent of a root revision

VARIABLE tree      \* the published revisions, each with its parent and schema

StoreInit ==
    /\ Init
    /\ tree = << >>

Widen ==
    /\ \E s \in Schemas : Declare(s)
    /\ UNCHANGED tree

Publish(id, parent, s) ==
    /\ id \notin DOMAIN tree
    /\ parent \in DOMAIN tree \cup {Root}
    /\ schema # Absent
    /\ RowsRead(schema, s)
    /\ tree' = [i \in DOMAIN tree \cup {id} |->
                  IF i = id THEN [parent |-> parent, schema |-> s] ELSE tree[i]]
    /\ UNCHANGED schema

StoreNext ==
    \/ Widen
    \/ \E id \in Ids, s \in Schemas, parent \in Ids \cup {Root} : Publish(id, parent, s)

StoreSpec == StoreInit /\ [][StoreNext]_<<schema, tree>>
=============================================================================
