--------------------------- MODULE MCAuthentication ---------------------------
(* Instance for TLC: one user, who is a configured superuser, with two       *)
(* overlapping requests, and one replica that starts.  The users are those   *)
(* of any table with the OAuth2 gateway and the dummy provider.  With        *)
(* Keycloak, whose sessions and keys are what differs there, no replica      *)
(* starts and no user is a superuser.                                        *)
EXTENDS Authentication

CONSTANTS u1, r1, r2, s1

MCUsers == {u1}
MCRequests == {r1, r2}
MCScripts == {s1}

MCInit ==
  /\ Init
  /\ provider = "keycloak" =>
       /\ \A s \in Scripts : script[s].pc = "off"
       /\ \A u \in Users : rows[u] # None => ~rows[u].is_superuser

MCSpec == MCInit /\ [][Next]_vars /\ Fairness
=============================================================================
