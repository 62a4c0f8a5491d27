------------------------ MODULE MCIncrementalTransfer ------------------------
(***************************************************************************)
(* Instance of IncrementalTransfer for TLC: two workers, and two sources   *)
(* that share the name of the mark (tables of one name and connections of  *)
(* one type).                                                              *)
(***************************************************************************)
EXTENDS IncrementalTransfer

CONSTANTS s1, s2, n1

\* Rows of s1 and s2; s2 stays empty, it is what the transfer can be switched to.
Limits == [s \in Sources |-> IF s = s1 THEN MaxRow ELSE 0]

\* The two rows of s1 have the values -1 and 0: a mark that counts, and one that the
\* code takes for no mark.
MinusOne == -1

SameName == [s \in Sources |-> n1]
=============================================================================
