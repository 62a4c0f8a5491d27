-------------------------- MODULE MCGroupMembership --------------------------
(***************************************************************************)
(* Instances of GroupMembership for TLC.                                   *)
(***************************************************************************)
EXTENDS GroupMembership, TLC

\* Users that are not superusers are interchangeable, and so are requests.
Symmetry == Permutations(Users \ Superusers) \cup Permutations(Requests)
=============================================================================
