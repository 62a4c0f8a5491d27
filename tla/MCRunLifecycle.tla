--------------------------- MODULE MCRunLifecycle ---------------------------
(***************************************************************************)
(* Instances of RunLifecycle for TLC: one process starts all the runs, the *)
(* API server in some instances and the scheduler in others.               *)
(***************************************************************************)
EXTENDS RunLifecycle

CONSTANT p1

OneProcess == [r \in Runs |-> p1]
=============================================================================
