-------------------------- MODULE MCSchedulerMetrics --------------------------
(***************************************************************************)
(* Instances of SchedulerMetrics for TLC: one population in two orders with *)
(* a repeated row, and one whose rows contradict each other, over calls of   *)
(* two lanes.                                                              *)
(***************************************************************************)
EXTENDS SchedulerMetrics, TLC

CONSTANTS laneA, laneB

Row(task, key, state) ==
    [task |-> task, key |-> key, state |-> state, excluded |-> FALSE, well |-> TRUE]
Slot(slot, available) == [slot |-> slot, available |-> available, well |-> TRUE]

r1 == Row("t1", "k1", "READY")
r2 == Row("t2", "k2", "BLOCKED")
s1 == Slot("s1", TRUE)
s2 == Slot("s2", FALSE)

\* Pressure with a repeated row, the same rows in another order, and two tasks
\* that claim one dedupe key.
SomeMembers == {<<r1, r2, r1>>, <<r1, r1, r2>>, <<r1, Row("t2", "k1", "READY")>>}
SomeSlots == {<<s1, s2>>}
SomeIdentities == {[lane |-> l, plan |-> "p"] : l \in {laneA, laneB}}

LaneSymmetry == Permutations({laneA, laneB})
===============================================================================
