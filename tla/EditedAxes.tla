----------------------------- MODULE EditedAxes -----------------------------
(***************************************************************************)
(* What edited axes promise their reader: each subject, a dim or a         *)
(* multi-dim, maps its labels to the value of a property; an edit changes  *)
(* the labels it names and nothing else, but that a tuple goes with a      *)
(* label of it; and no edit leaves a reference to a label that is not      *)
(* there.  Staging tables, positions and what is copied when are not seen. *)
(***************************************************************************)
CONSTANTS Plain,      \* the dims that are not multi-dims
          Multi,      \* the multi-dim, whose labels are tuples
          Over,       \* the dim each of its coordinates draws on
          Refers,     \* the dim the property of a subject refers to, or NoRef
          NoRef,
          NoValue     \* NULL, no label of any dim

VARIABLES rows,       \* per subject, the value of the property of each label
          start       \* the same without the edits

Subjects == Plain \cup {Multi}

LiveValue(s, value) ==
    IF Refers[s] = NoRef THEN TRUE ELSE value \in DOMAIN rows[Refers[s]] \cup {NoValue}
LiveTuple(t) == \A f \in DOMAIN Over : t[f] \in DOMAIN rows[Over[f]]

\* Every reference is to a label that is there.
Whole ==
    /\ \A s \in Subjects : \A x \in DOMAIN rows[s] : LiveValue(s, rows[s][x])
    /\ \A t \in DOMAIN rows[Multi] : LiveTuple(t)

Start == rows = start /\ Whole

Without(s, gone) == [x \in DOMAIN rows[s] \ gone |-> rows[s][x]]

\* Labels added, or added again whole, or given another value.
Put(s, names, value) ==
    /\ LiveValue(s, value)
    /\ s = Multi => \A t \in names : LiveTuple(t)
    /\ rows' = [rows EXCEPT ![s] = [x \in DOMAIN rows[s] \cup names |->
                                       IF x \in names THEN value ELSE rows[s][x]]]

\* Labels removed, with the tuples naming them.
Drop(s, gone) ==
    /\ \A q \in Subjects : Refers[q] = s => \A x \in DOMAIN rows[q] : rows[q][x] \notin gone
    /\ LET broken == {t \in DOMAIN rows[Multi] : \E f \in DOMAIN Over : Over[f] = s /\ t[f] \in gone}
       IN rows' = [rows EXCEPT ![s] = Without(s, gone),
                               ![Multi] = Without(Multi, IF s = Multi THEN gone ELSE broken)]

Edit ==
    /\ UNCHANGED start
    /\ \/ \E s \in Subjects :
            LET changed == {x \in DOMAIN rows'[s] : x \notin DOMAIN rows[s] \/ rows'[s][x] # rows[s][x]}
            IN \E x \in changed : Put(s, changed, rows'[s][x])
       \/ \E s \in Subjects : Drop(s, DOMAIN rows[s] \ DOMAIN rows'[s])
       \/ rows' = start

EditsSpec == Start /\ [][Edit]_<<rows, start>>
=============================================================================
