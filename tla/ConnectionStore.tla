--------------------------- MODULE ConnectionStore ---------------------------
(***************************************************************************)
(* What the endpoints of connections promise about the two rows of a       *)
(* connection, with no requests, locks or transactions: each change is one *)
(* step.  Data and credentials are replaced together, by ones that belong  *)
(* together; a connection is created with credentials or as a copy without *)
(* them, and neither gains nor loses them while it exists; moving it makes *)
(* the copy and removes the origin at once.                                *)
(***************************************************************************)
CONSTANTS
  Id,      \* connection ids
  None,    \* "no value"
  Fits     \* pairs of a kind of data and a type of credentials for it

VARIABLES
  row,     \* each connection's data: its kind, or None
  auth     \* each connection's credentials, or None

Init ==
  /\ row = [c \in Id |-> None]
  /\ auth = [c \in Id |-> None]

\* The rows of a connection that is complete.
Whole(kind, cred) ==
  /\ kind # None /\ cred # None
  /\ <<kind, cred.type>> \in Fits
  /\ \A f \in DOMAIN cred.secrets : cred.secrets[f] # None

\* Only these connections change.
Only(changed) == \A d \in Id \ changed : row'[d] = row[d] /\ auth'[d] = auth[d]

Create(c) == row[c] = None /\ Whole(row'[c], auth'[c]) /\ Only({c})

Replace(c) ==
  /\ row[c] # None /\ auth[c] # None
  /\ Whole(row'[c], auth'[c])
  /\ Only({c})

\* A copy has the data of another connection, of now or of a while ago.
Copied(c) == row[c] = None /\ row'[c] # None /\ auth'[c] = None

Removed(c) == row[c] # None /\ row'[c] = None /\ auth'[c] = None

Copy(c) == Copied(c) /\ Only({c})

Remove(c) == Removed(c) /\ Only({c})

Move(c, new) == Removed(c) /\ Copied(new) /\ Only({c, new})

Next ==
  \/ \E c \in Id : Create(c) \/ Replace(c) \/ Copy(c) \/ Remove(c)
  \/ \E c, new \in Id : Move(c, new)

Spec == Init /\ [][Next]_<<row, auth>>
=============================================================================
