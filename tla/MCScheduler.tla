---------------------------- MODULE MCScheduler ----------------------------
(* Small instances of Scheduler, and of its refinement of Sync, for TLC. *)
EXTENDS SchedulerSync, TLC

CONSTANTS t1, t2, t3, k1, k2, k3

BootAlone == {Boot}
BootAndResident == {Boot, t1}

NoTokens == [s \in Sems |-> 0]
OneToken == [s \in Sems |-> 1]

\* Every thread has a block of its own to live in; t3 may also get the block
\* that t2 leaves behind.
OwnBlock == t1 :> {k1} @@ t2 :> {k2} @@ t3 :> {k3}
SharedBlock == t1 :> {k1} @@ t2 :> {k2} @@ t3 :> {k2, k3}
=============================================================================
