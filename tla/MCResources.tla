----------------------------- MODULE MCResources -----------------------------
(***************************************************************************)
(* Instance of Resources for TLC: two queues and one transfer, or one      *)
(* queue and two transfers.                                                *)
(***************************************************************************)
EXTENDS Resources, TLC

CONSTANTS k1, k2, t1, t2

MCQueues == {k1, k2}
MCTransfers == {t1, t2}
MCTaken == {{k} : k \in MCQueues} \cup {{t} : t \in MCTransfers}

\* The callers manage every group.
Managers == [u \in Callers |-> [g \in Groups |-> DELETE]]

\* Groups and ids are interchangeable, and so are requests.
Symmetry ==
  Permutations(Groups) \cup Permutations(Connections) \cup Permutations(Queues)
    \cup Permutations(Transfers) \cup Permutations(Requests)
=============================================================================
