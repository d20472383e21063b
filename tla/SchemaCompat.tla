---------------------------- MODULE SchemaCompat ----------------------------
(***************************************************************************)
(* The part of a `Schema` that decides whether layers written under one    *)
(* schema still read under another: Schema.compatible_with.                *)
(*                                                                         *)
(* A schema is a record:                                                   *)
(*   dimensions  a function from its dim names to their type               *)
(*   attributes  a function from its attribute names to [dtype, dims]      *)
(*   properties  a function from <<dim, name>> to the property's type      *)
(*   partial     the dims a layer may patch value by value, or Undeclared  *)
(*   rest        what the comparison never looks at: version, meta, units  *)
(* A type stands for the fields _typed_as compares (dtype, one_of, over).  *)
(***************************************************************************)
CONSTANT Undeclared      \* Python's None for `partial`

\* Schema._validate: what a schema names is a dim it declares, and attributes
\* need a dim.
Valid(s) ==
    /\ \A a \in DOMAIN s.attributes : s.attributes[a].dims \subseteq DOMAIN s.dimensions
    /\ DOMAIN s.attributes # {} => DOMAIN s.dimensions # {}
    /\ \A p \in DOMAIN s.properties : p[1] \in DOMAIN s.dimensions
    /\ s.partial # Undeclared => s.partial \subseteq DOMAIN s.dimensions

\* Whether a schema declares anything a layer's rows could be read under.
Declares(s) == DOMAIN s.dimensions # {} \/ DOMAIN s.attributes # {}

\* No dim of `was` is dropped or retyped in `now`.
DimensionsKept(now, was) ==
    \A d \in DOMAIN was.dimensions :
        /\ d \in DOMAIN now.dimensions
        /\ now.dimensions[d] = was.dimensions[d]

\* No attribute of `was` is dropped, changes its dtype, or varies over fewer
\* dims in `now`.
AttributesKept(now, was) ==
    \A a \in DOMAIN was.attributes :
        /\ a \in DOMAIN now.attributes
        /\ now.attributes[a].dtype = was.attributes[a].dtype
        /\ was.attributes[a].dims \subseteq now.attributes[a].dims

\* No property of `was` is dropped or retyped in `now`.
PropertiesKept(now, was) ==
    \A p \in DOMAIN was.properties :
        /\ p \in DOMAIN now.properties
        /\ now.properties[p] = was.properties[p]

\* The comparison of `partial`, made only where both schemas declare it.
PartialAccepted(now, was) ==
    (was.partial # Undeclared /\ now.partial # Undeclared)
        => was.partial \subseteq now.partial

\* now.compatible_with(was) returns no problem.
CompatibleWith(now, was) ==
    /\ DimensionsKept(now, was)
    /\ AttributesKept(now, was)
    /\ PropertiesKept(now, was)
    /\ PartialAccepted(now, was)

\* What a row of a layer written under `was` needs of the schema it is read
\* under: its columns, with their types, still declared.
RowsRead(now, was) ==
    /\ DimensionsKept(now, was)
    /\ AttributesKept(now, was)
    /\ PropertiesKept(now, was)
=============================================================================
