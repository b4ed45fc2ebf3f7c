-------------------------- MODULE MCJobLifecycle --------------------------
EXTENDS JobLifecycle, TLC
(***************************************************************************)
(* Small instances of JobLifecycle for TLC.                                *)
(***************************************************************************)
CONSTANTS j1, j2, a1, c1, c2, c3

\* Every job addresses the one agent.
OneAgent == [j \in Jobs |-> a1]

\* Any connection may carry any request; or each loop has one of its own, and
\* the tasks of pushed jobs share one.
AnyLane == [c \in Conns |-> Deliveries \union Reports]
OwnLanes == [c \in Conns |->
  CASE c = c1 -> {"heartbeat"} [] c = c2 -> {"poll", "polled_result"} [] OTHER -> {"pushed_result"}]

ConnSymmetry == Permutations(Conns)
==========================================================================
