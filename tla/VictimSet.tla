----------------------------- MODULE VictimSet -----------------------------
(***************************************************************************)
(* What the victim queue of src/conv_ftl.c promises its users, and what    *)
(* ConvFTL assumes of it: a set of lines, each with its valid page count,  *)
(* from which select_victim_line() takes one with the least count.         *)
(***************************************************************************)
EXTENDS Integers

CONSTANTS Lines, PgsPerLine

VARIABLES queued, vpc

vars == <<queued, vpc>>

Init ==
    /\ queued = {}
    /\ vpc = [l \in Lines |-> 0]

\* a closed line with v valid pages enters the queue
Enter(l, v) ==
    /\ l \notin queued
    /\ queued' = queued \cup {l}
    /\ vpc' = [vpc EXCEPT ![l] = v]

\* a page of a queued line is overwritten
Lower(l) ==
    /\ l \in queued /\ vpc[l] > 0
    /\ vpc' = [vpc EXCEPT ![l] = @ - 1]
    /\ UNCHANGED queued

\* a line no other line undercuts leaves the queue
Take(l) ==
    /\ l \in queued
    /\ \A m \in queued : vpc[l] <= vpc[m]
    /\ queued' = queued \ {l}
    /\ UNCHANGED vpc

Next == \E l \in Lines :
    \/ \E v \in 0 .. PgsPerLine - 1 : Enter(l, v)
    \/ Lower(l)
    \/ Take(l)

Spec == Init /\ [][Next]_vars
============================================================================
