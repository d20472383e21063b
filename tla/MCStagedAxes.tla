---------------------------- MODULE MCStagedAxes ----------------------------
(* Values of StagedAxes' constants for TLC. *)
EXTENDS StagedAxes, TLC

CONSTANTS a, b, n, m, x, z

Row(label, value) == [label |-> label, value |-> value]
Pair(from, to) == [from |-> from, to |-> to]

\* Entities refer to a carrier; a corridor joins two entities and refers to a
\* carrier too.
MCOver == [from |-> "e", to |-> "e"]
MCRefers == [e |-> "k", k |-> NoRef, c |-> "k"]
MCLabels == [e |-> {a, b, n, m}, k |-> {x, z}]
MCValues == [e |-> {NoValue, x, z}, k |-> {NoValue}, c |-> {NoValue, x}]
MCCalls == [e |-> {<<a>>, <<n>>, <<m, b>>}, k |-> {<<x>>, <<z>>},
            c |-> {<<Pair(a, b)>>, <<Pair(b, n)>>}]

Lines == <<Row(Pair(a, b), NoValue), Row(Pair(b, a), x)>>
Base(entities, carriers, lines, dead) ==
    [axes |-> [e |-> entities, k |-> carriers, c |-> lines], dead |-> [e |-> {}, k |-> dead]]
MCBases ==
    {Base(<<Row(a, x), Row(b, NoValue)>>, <<Row(x, NoValue)>>, Lines, {z}),
     Base(<<Row(b, NoValue), Row(a, NoValue)>>, NoFile, NoFile, {})}
=============================================================================
