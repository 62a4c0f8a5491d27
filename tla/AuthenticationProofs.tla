------------------------ MODULE AuthenticationProofs ------------------------
(***************************************************************************)
(* A logout with the cookie that was answered with success stays one, and  *)
(* configured superusers keep their rights, for any number of users,       *)
(* requests, tokens, keys and replicas, and with each of the providers.    *)
(***************************************************************************)
EXTENDS Authentication, TLAPS

-----------------------------------------------------------------------------
(* The table of users.                                                     *)

\* A script has read rows that still exist: no row is ever removed.
ScriptInv ==
  /\ rows \in [Users -> Row \cup {None}]
  /\ script \in [Scripts -> [pc : {"off", "start", "commit", "done"}, found : SUBSET Configured]]
  /\ \A s \in Scripts : \A u \in script[s].found : rows[u] # None

\* A step keeps the configured superusers: an insert by a first login finds no
\* row, and a script that inserts a user who exists by now fails as a whole.
LEMMA ScriptStep ==
  ASSUME ScriptInv, SuperusersStay, [Next]_vars
  PROVE  ScriptInv' /\ SuperusersStay'
<1> USE ConstantsAssumption, NoneAssumption
<1>1. ASSUME UNCHANGED <<rows, script>> PROVE ScriptInv' /\ SuperusersStay'
  BY <1>1 DEF ScriptInv, SuperusersStay
<1>2. ASSUME NEW r \in Requests, CreateUser(r) PROVE ScriptInv' /\ SuperusersStay'
  <2>1. CASE UNCHANGED rows
    BY <1>1, <1>2, <2>1 DEF CreateUser
  <2>2. CASE rows[req[r].user] = None
             /\ rows' = [rows EXCEPT ![req[r].user] = [is_active |-> TRUE, is_superuser |-> FALSE]]
    <3>1. script' = script
      BY <1>2 DEF CreateUser
    <3>2. rows' \in [Users -> Row \cup {None}]
      BY <2>2 DEF ScriptInv, Row
    <3>3. \A u \in Users : rows[u] # None => rows'[u] = rows[u]
      BY <2>2 DEF ScriptInv
    <3>4. ScriptInv'
      BY <3>1, <3>2, <3>3 DEF ScriptInv
    <3>5. SuperusersStay'
      BY <3>1, <3>3 DEF ScriptInv, SuperusersStay
    <3>6. QED
      BY <3>4, <3>5
  <2>3. QED
    BY <1>2, <2>1, <2>2 DEF CreateUser
<1>3. ASSUME NEW s \in Scripts, ReadUsers(s) PROVE ScriptInv' /\ SuperusersStay'
  BY <1>3 DEF ReadUsers, ScriptInv, SuperusersStay
<1>4. ASSUME NEW s \in Scripts, AddSuperusers(s) PROVE ScriptInv' /\ SuperusersStay'
  <2> DEFINE new == Configured \ script[s].found
             clash == \E u \in new : rows[u] # None
  <2>1. CASE clash
    BY <1>4, <2>1 DEF AddSuperusers, ScriptInv, SuperusersStay
  <2>2. CASE ~clash
    <3>1. rows' = [u \in Users |->
                     CASE u \in new -> [is_active |-> TRUE, is_superuser |-> TRUE]
                       [] u \in script[s].found -> [rows[u] EXCEPT !.is_superuser = TRUE]
                       [] OTHER -> rows[u]]
      BY <1>4, <2>2 DEF AddSuperusers
    <3>2. \A u \in Configured : rows'[u] \in Row /\ rows'[u].is_superuser
      <4> SUFFICES ASSUME NEW u \in Configured PROVE rows'[u] \in Row /\ rows'[u].is_superuser
        OBVIOUS
      <4>1. CASE u \in new
        BY <3>1, <4>1 DEF Row
      <4>2. CASE u \notin new
        <5>1. u \in script[s].found /\ rows[u] \in Row
          BY <4>2 DEF ScriptInv
        <5>2. rows'[u] = [rows[u] EXCEPT !.is_superuser = TRUE]
          BY <3>1, <4>2, <5>1
        <5>3. QED
          BY <5>1, <5>2 DEF Row
      <4>3. QED
        BY <4>1, <4>2
    <3>3. \A u \in Users \ Configured : rows'[u] = rows[u]
      BY <3>1 DEF ScriptInv
    <3>4. rows' \in [Users -> Row \cup {None}]
      <4>1. DOMAIN rows' = Users /\ rows' = [u \in Users |-> rows'[u]]
        BY <3>1
      <4>2. \A u \in Users : rows'[u] \in Row \cup {None}
        BY <3>2, <3>3 DEF ScriptInv
      <4>3. QED
        BY <4>1, <4>2
    <3>5. script' = [script EXCEPT ![s] = [pc |-> "done", found |-> {}]]
      BY <1>4, <2>2 DEF AddSuperusers
    <3>6. ScriptInv'
      BY <3>2, <3>4, <3>5 DEF ScriptInv
    <3>7. QED
      BY <3>2, <3>6 DEF SuperusersStay
  <2>3. QED
    BY <2>1, <2>2
<1>5. QED
  BY <1>1, <1>2, <1>3, <1>4
  DEF Next, Callback, Expire, Rotate, KeyTtlEnds, Send, Handle, FetchKey, Decode, Refresh,
      RefreshFails, Introspect, GetUserIdFromToken, ReadUser, Grant, Logout, LogoutFails,
      Respond, Start, vars

\* Once a replica's script has finished, the configured superusers are ones for
\* good, for any number of users, first logins and replicas.
THEOREM SuperusersStayHolds == Spec => []SuperusersStay
<1>1. Init => ScriptInv /\ SuperusersStay
  <2> SUFFICES ASSUME Init PROVE ScriptInv /\ SuperusersStay
    OBVIOUS
  <2>1. rows \in [Users -> Row \cup {None}]
    BY DEF Init
  <2>2. script \in [Scripts -> [pc : {"start", "off"}, found : {{}}]]
    BY DEF Init
  <2>3. QED
    BY <2>1, <2>2 DEF ScriptInv, SuperusersStay
<1>2. ScriptInv /\ SuperusersStay /\ [Next]_vars => ScriptInv' /\ SuperusersStay'
  BY ScriptStep
<1>3. QED
  BY <1>1, <1>2, PTL DEF Spec

-----------------------------------------------------------------------------
(* Sessions.                                                               *)

\* Types of tokens and of the variables of a request.
Token == [user : Users, session : Nat, key : Nat]
Request == [pc : {"idle", "decode", "refresh", "user", "create", "admitted", "respond"},
            client : Users \cup {None}, user : Users \cup {None}, kind : Kinds,
            tok : Nat, sess : Nat, came : Nat,
            certs : SUBSET Int, again : BOOLEAN, late : BOOLEAN]

\* A request in progress is of a client and, once its token was verified, of a
\* user, and holds only tokens that were issued; a token that is verified or
\* refreshed is there.  What is in the request's session is of the Keycloak session
\* that was in it when the request arrived, however often it was refreshed.
RequestOK(q) ==
  /\ q \in Request
  /\ q.pc # "idle" => q.client \in Users
  /\ q.pc \in {"user", "create", "admitted"} => q.user \in Users
  /\ q.tok <= Len(tokens) /\ q.sess <= Len(tokens) /\ q.came <= Len(tokens)
  /\ q.pc = "decode" => q.tok # 0
  /\ q.pc = "refresh" => q.sess # 0
  /\ q.pc \notin {"idle", "respond"} =>
       /\ q.sess = 0 <=> q.came = 0
       /\ q.sess # 0 => Session(q.sess) = Session(q.came)

\* Every token belongs to the session of a token, and sessions that were left
\* have been ended.
SessionInv ==
  /\ tokens \in Seq(Token) /\ key \in Nat
  /\ \A t \in DOMAIN tokens : Session(t) \in DOMAIN tokens
  /\ left \subseteq ended /\ ended \subseteq DOMAIN tokens
  /\ cookie \in [Users -> Nat]
  /\ \A u \in Users : cookie[u] <= Len(tokens)
  /\ req \in [Requests -> Request]
  /\ \A r \in Requests : RequestOK(req[r])

\* A request that arrived late holds tokens of dead sessions only.
DeadToken(t) == t \in DOMAIN tokens /\ Session(t) \in Dead
LateInv == \A r \in Requests : req[r].late =>
  /\ req[r].pc \in {"decode", "refresh"}
  /\ DeadToken(req[r].tok)
  /\ req[r].sess # 0 => DeadToken(req[r].sess)

\* What an answer leaves of a request.
LEMMA AnswerIs ==
  ASSUME SessionInv, NEW r \in Requests, NEW sess \in Nat, req[r].pc # "idle", Answer(r, sess),
         Len(tokens') \in Nat, sess <= Len(tokens')
  PROVE  /\ req' \in [Requests -> Request]
         /\ \A q \in Requests \ {r} : req'[q] = req[q]
         /\ RequestOK(req[r])'
         /\ ~req'[r].late
<1> DEFINE a == IF sess = 0 /\ req[r].came = 0 THEN NoRequest
                ELSE [NoRequest EXCEPT !.pc = "respond", !.client = req[r].client, !.sess = sess]
<1>1. req[r].client \in Users
  BY DEF SessionInv, RequestOK
<1>2. a \in Request /\ a.pc \in {"idle", "respond"} /\ a.tok = 0 /\ a.sess \in {0, sess} /\ a.came = 0
      /\ ~a.late /\ (a.pc # "idle" => a.client \in Users)
  BY <1>1 DEF NoRequest, Request, Kinds
<1>3. req' = [req EXCEPT ![r] = a]
  BY DEF Answer
<1> HIDE DEF a
<1>4. req' \in [Requests -> Request] /\ req'[r] = a /\ \A q \in Requests \ {r} : req'[q] = req[q]
  BY <1>2, <1>3 DEF SessionInv
<1>5. RequestOK(req[r])'
  BY <1>2, <1>4 DEF RequestOK
<1>6. QED
  BY <1>2, <1>4, <1>5

\* What a change of the program counter leaves of a request.
LEMMA GotoIs ==
  ASSUME SessionInv, NEW r \in Requests, NEW l \in {"create", "admitted"}, Goto(r, l)
  PROVE  /\ req' \in [Requests -> Request]
         /\ \A q \in Requests \ {r} : req'[q] = req[q]
         /\ req'[r] = [req[r] EXCEPT !.pc = l]
<1> DEFINE a == [req[r] EXCEPT !.pc = l]
<1>1. req \in [Requests -> Request]
  BY DEF SessionInv
<1>2. a \in Request
  BY <1>1 DEF Request
<1>3. req' = [req EXCEPT ![r] = a]
  BY DEF Goto
<1>4. req' \in [Requests -> Request] /\ req'[r] = a /\ \A q \in Requests \ {r} : req'[q] = req[q]
  <2> HIDE DEF a
  <2>1. QED
    BY <1>1, <1>2, <1>3
<1>5. QED
  BY <1>4

\* What the acceptance of its token leaves of a request.
LEMMA AcceptIs ==
  ASSUME SessionInv, NEW r \in Requests, req[r].pc = "decode", Accept(r)
  PROVE  /\ req' \in [Requests -> Request]
         /\ \A q \in Requests \ {r} : req'[q] = req[q]
         /\ req'[r].pc = "user" /\ req'[r].user \in Users /\ req'[r].tok = 0
         /\ req'[r].client = req[r].client /\ req'[r].sess = req[r].sess
         /\ req'[r].came = req[r].came /\ req'[r].late = req[r].late
<1> DEFINE a == [req[r] EXCEPT !.pc = "user", !.user = tokens[req[r].tok].user, !.tok = 0,
                               !.certs = {}, !.again = FALSE]
<1>1. req[r] \in Request /\ RequestOK(req[r])
  BY DEF SessionInv
<1>2. tokens[req[r].tok].user \in Users
  <2>1. req[r].tok \in 1 .. Len(tokens)
    BY <1>1 DEF RequestOK, Request
  <2>2. tokens[req[r].tok] \in Token
    BY <2>1 DEF SessionInv
  <2>3. QED
    BY <2>2 DEF Token
<1>3. /\ a \in Request /\ a.pc = "user" /\ a.user \in Users /\ a.tok = 0 /\ a.client = req[r].client
      /\ a.sess = req[r].sess /\ a.came = req[r].came /\ a.late = req[r].late
  BY <1>1, <1>2 DEF Request
<1>4. req' = [req EXCEPT ![r] = a]
  BY DEF Accept
<1> HIDE DEF a
<1>5. QED
  BY <1>3, <1>4 DEF SessionInv

\* A request that goes on with the same tokens stays right.
LEMMA GoesOn ==
  ASSUME SessionInv, tokens' = tokens, NEW r \in Requests, req'[r] \in Request,
         req[r].pc \notin {"idle", "respond"}, req'[r].pc # "idle",
         req'[r].client = req[r].client, req'[r].sess = req[r].sess, req'[r].came = req[r].came,
         req'[r].pc \in {"user", "create", "admitted"} => req'[r].user \in Users,
         req'[r].tok <= Len(tokens), req'[r].pc = "decode" => req'[r].tok # 0,
         req'[r].pc = "refresh" => req'[r].sess # 0
  PROVE  RequestOK(req[r])'
<1>1. RequestOK(req[r])
  BY DEF SessionInv
<1>2. Session(req[r].sess)' = Session(req[r].sess) /\ Session(req[r].came)' = Session(req[r].came)
  BY DEF Session
<1>3. QED
  BY <1>1, <1>2 DEF RequestOK

\* A step in which no token is issued, one request moves and no session is left
\* keeps the invariant when the request's new state is right.
LEMMA OneRequest ==
  ASSUME SessionInv, UNCHANGED <<provider, tokens, ended, key, cookie, left>>,
         NEW r \in Requests, req' \in [Requests -> Request],
         \A q \in Requests \ {r} : req'[q] = req[q], RequestOK(req[r])'
  PROVE  SessionInv'
  BY DEF SessionInv, RequestOK, Session

\* A token that is issued is the next one.
LEMMA Issued ==
  ASSUME SessionInv, NEW new \in Token, tokens' = Append(tokens, new)
  PROVE  /\ tokens' \in Seq(Token) /\ Len(tokens') = Len(tokens) + 1
         /\ DOMAIN tokens' = DOMAIN tokens \cup {Len(tokens) + 1}
         /\ Len(tokens) + 1 \notin DOMAIN tokens
         /\ tokens'[Len(tokens) + 1] = new
         /\ \A t \in DOMAIN tokens : tokens'[t] = tokens[t]
  BY DEF SessionInv

\* A request that is right stays so when a token is issued.
LEMMA IssuedKeeps ==
  ASSUME SessionInv, NEW new \in Token, tokens' = Append(tokens, new),
         NEW r \in Requests, req'[r] = req[r]
  PROVE  RequestOK(req[r])'
<1>1. /\ Len(tokens') = Len(tokens) + 1 /\ Len(tokens) \in Nat
      /\ \A t \in DOMAIN tokens : tokens'[t] = tokens[t]
  BY Issued DEF SessionInv
<1>2. RequestOK(req[r]) /\ req[r] \in Request
  BY DEF SessionInv
<1>3. req[r].sess \in Nat /\ req[r].came \in Nat /\ req[r].tok \in Nat
  BY <1>2 DEF Request
<1>4. /\ req[r].sess <= Len(tokens') /\ req[r].came <= Len(tokens') /\ req[r].tok <= Len(tokens')
  BY <1>1, <1>2, <1>3 DEF RequestOK
<1>5. ASSUME req[r].sess # 0, req[r].came # 0
      PROVE  Session(req[r].sess)' = Session(req[r].sess) /\ Session(req[r].came)' = Session(req[r].came)
  <2>1. req[r].sess \in DOMAIN tokens /\ req[r].came \in DOMAIN tokens
    BY <1>2, <1>3, <1>5 DEF RequestOK, SessionInv
  <2>2. QED
    BY <1>1, <2>1 DEF Session
<1>6. QED
  BY <1>2, <1>4, <1>5 DEF RequestOK

\* No step of a session that was left: Keycloak refuses to refresh its tokens,
\* and a login starts a session of its own.
LEMMA SessionStep ==
  ASSUME SessionInv, [Next]_vars
  PROVE  /\ SessionInv'
         /\ \A t \in DOMAIN tokens' \ DOMAIN tokens : tokens'[t].session \notin left
         /\ DOMAIN tokens \subseteq DOMAIN tokens'
         /\ \A t \in DOMAIN tokens : tokens'[t] = tokens[t]
         /\ left \subseteq left'
<1> DEFINE New == \A t \in DOMAIN tokens' \ DOMAIN tokens : tokens'[t].session \notin left
           Old == DOMAIN tokens \subseteq DOMAIN tokens' /\ \A t \in DOMAIN tokens : tokens'[t] = tokens[t]
           Goal == SessionInv' /\ New /\ Old /\ left \subseteq left'
<1>1. ASSUME UNCHANGED <<tokens, left>>, SessionInv' PROVE Goal
  BY <1>1
<1>2. ASSUME UNCHANGED <<provider, tokens, ended, key, cookie, req, left>> PROVE Goal
  BY <1>1, <1>2 DEF SessionInv, RequestOK, Session
<1>3. ASSUME NEW u \in Users, Callback(u) PROVE Goal
  <2> DEFINE new == [user |-> u, session |-> Len(tokens) + 1, key |-> key]
  <2>1. tokens' = Append(tokens, new) /\ Len(tokens) \in Nat /\ new \in Token
    BY <1>3 DEF Callback, SessionInv, Token
  <2>2. /\ tokens' \in Seq(Token) /\ Len(tokens') = Len(tokens) + 1
        /\ DOMAIN tokens' = DOMAIN tokens \cup {Len(tokens) + 1}
        /\ Len(tokens) + 1 \notin DOMAIN tokens
        /\ tokens'[Len(tokens) + 1] = new
        /\ \A t \in DOMAIN tokens : tokens'[t] = tokens[t]
    BY <2>1, Issued
  <2>3. \A t \in DOMAIN tokens' : tokens'[t].session \in DOMAIN tokens'
    BY <2>2 DEF SessionInv, Session
  <2>4. \A r \in Requests : RequestOK(req[r])'
    BY <1>3, <2>1, IssuedKeeps DEF Callback
  <2>5. cookie' \in [Users -> Nat] /\ \A v \in Users : cookie'[v] <= Len(tokens')
    BY <1>3, <2>1, <2>2 DEF SessionInv, Callback
  <2>6. SessionInv'
    BY <1>3, <2>2, <2>3, <2>4, <2>5 DEF SessionInv, Callback, Session
  <2>7. New /\ Old /\ left' = left
    BY <1>3, <2>2 DEF SessionInv, Callback
  <2>8. QED
    BY <2>6, <2>7
<1>4. ASSUME NEW t \in DOMAIN tokens, Expire(t) PROVE Goal
  BY <1>2, <1>4 DEF Expire
<1>5. ASSUME Rotate PROVE Goal
  <2>1. SessionInv'
    BY <1>5 DEF Rotate, SessionInv, RequestOK, Session
  <2>2. QED
    BY <1>1, <1>5, <2>1 DEF Rotate
<1>6. ASSUME KeyTtlEnds PROVE Goal
  BY <1>2, <1>6 DEF KeyTtlEnds, sso
<1>7. ASSUME NEW r \in Requests, NEW u \in Users, NEW kind \in Kinds, NEW bearer \in DOMAIN tokens \cup {0},
             Send(r, u, kind, bearer)
      PROVE  Goal
  <2> DEFINE token == IF bearer # 0 THEN bearer ELSE cookie[u]
             late == kind # "login" /\ \A t \in {token, cookie[u]} \ {0} : Session(t) \in Dead
             q == [NoRequest EXCEPT !.client = u, !.kind = kind, !.tok = token,
                     !.user = IF kind = "login" THEN u ELSE None,
                     !.sess = cookie[u], !.came = cookie[u],
                     !.late = late,
                     !.pc = IF kind = "login" THEN "user" ELSE "decode"]
  <2>1. /\ token \in Nat /\ token <= Len(tokens) /\ Len(tokens) \in Nat
        /\ cookie[u] \in Nat /\ cookie[u] <= Len(tokens)
    BY DEF SessionInv
  <2>2. UNCHANGED <<provider, tokens, ended, key, cookie, left>>
    BY <1>7 DEF Send, sso
  <2>3. req' = [req EXCEPT ![r] = q]
    BY <1>7 DEF Send
  <2>4. kind # "login" => token # 0
    BY <1>7 DEF Send
  <2>5. late \in BOOLEAN
    OBVIOUS
  <2> HIDE DEF late, token
  <2>6. /\ q \in Request /\ q.client = u /\ q.tok = token /\ q.sess = cookie[u] /\ q.came = cookie[u]
        /\ q.pc = (IF kind = "login" THEN "user" ELSE "decode")
        /\ q.user = (IF kind = "login" THEN u ELSE None)
    BY <2>1, <2>5 DEF NoRequest, Request
  <2> HIDE DEF q
  <2>7. req' \in [Requests -> Request] /\ \A p \in Requests \ {r} : req'[p] = req[p]
    BY <2>3, <2>6 DEF SessionInv
  <2>8. RequestOK(req[r])'
    <3>1. req'[r] = q
      BY <2>3 DEF SessionInv
    <3>2. QED
      BY <2>1, <2>2, <3>1, <2>4, <2>6 DEF RequestOK
  <2>9. SessionInv'
    BY <2>2, <2>7, <2>8, OneRequest
  <2>10. QED
    BY <1>1, <2>2, <2>9
<1>8. ASSUME NEW r \in Requests, FetchKey(r) PROVE Goal
  <2>1. UNCHANGED <<provider, tokens, ended, key, cookie, left>>
    BY <1>8 DEF FetchKey, sso
  <2>2. req' \in [Requests -> Request] /\ \A q \in Requests \ {r} : req'[q] = req[q]
    <3>1. Certs \in SUBSET Int
      BY DEF Certs, SessionInv
    <3>2. QED
      BY <1>8, <3>1 DEF FetchKey, SessionInv, Request
  <2>3. RequestOK(req[r])'
    <3>1. /\ req'[r].pc = "decode" /\ req[r].pc = "decode" /\ req'[r].client = req[r].client
          /\ req'[r].sess = req[r].sess /\ req'[r].came = req[r].came /\ req'[r].tok = req[r].tok
      BY <1>8 DEF FetchKey, SessionInv, Request
    <3>2. req[r].tok <= Len(tokens) /\ req[r].tok # 0
      BY <3>1 DEF SessionInv, RequestOK
    <3>3. QED
      BY <2>1, <2>2, <3>1, <3>2, GoesOn
  <2>4. QED
    BY <1>1, <2>1, <2>2, <2>3, OneRequest
<1>9. ASSUME NEW r \in Requests, NEW sess \in Nat, sess <= Len(tokens), req[r].pc # "idle",
             Answer(r, sess), UNCHANGED <<provider, tokens, ended, key, cookie, left>>
      PROVE  Goal
  <2>1. Len(tokens') \in Nat /\ sess <= Len(tokens')
    BY <1>9 DEF SessionInv
  <2>2. req' \in [Requests -> Request] /\ (\A q \in Requests \ {r} : req'[q] = req[q]) /\ RequestOK(req[r])'
    BY <1>9, <2>1, AnswerIs
  <2>3. QED
    BY <1>1, <1>9, <2>2, OneRequest
<1>10. ASSUME NEW r \in Requests, NEW l \in {"create", "admitted"}, Goto(r, l),
              req[r].pc \in {"user", "create"},
              UNCHANGED <<provider, tokens, ended, key, cookie, left>>
       PROVE  Goal
  <2>1. /\ req' \in [Requests -> Request] /\ \A q \in Requests \ {r} : req'[q] = req[q]
        /\ req'[r] = [req[r] EXCEPT !.pc = l]
    BY <1>10, GotoIs
  <2>2. RequestOK(req[r])'
    <3>1. /\ req'[r].pc = l /\ req'[r].user = req[r].user /\ req'[r].client = req[r].client
          /\ req'[r].sess = req[r].sess /\ req'[r].came = req[r].came /\ req'[r].tok = req[r].tok
      BY <2>1 DEF SessionInv, Request
    <3>2. req[r].tok <= Len(tokens) /\ req[r].user \in Users
      BY <1>10 DEF SessionInv, RequestOK
    <3>3. QED
      BY <1>10, <2>1, <3>1, <3>2, GoesOn
  <2>3. QED
    BY <1>1, <1>10, <2>1, <2>2, OneRequest
<1>11. \A r \in Requests : req[r].sess \in Nat /\ req[r].sess <= Len(tokens)
  BY DEF SessionInv, RequestOK, Request
<1>12. ASSUME NEW r \in Requests, req[r].pc = "decode", Accept(r),
              UNCHANGED <<provider, tokens, ended, key, cookie, left>>
       PROVE  Goal
  <2>1. /\ req' \in [Requests -> Request] /\ \A q \in Requests \ {r} : req'[q] = req[q]
        /\ req'[r].pc = "user" /\ req'[r].user \in Users /\ req'[r].tok = 0
        /\ req'[r].client = req[r].client /\ req'[r].sess = req[r].sess
        /\ req'[r].came = req[r].came
    BY <1>12, AcceptIs
  <2>2. Len(tokens) \in Nat
    BY DEF SessionInv
  <2>3. RequestOK(req[r])'
    BY <1>12, <2>1, <2>2, GoesOn
  <2>4. QED
    BY <1>1, <1>12, <2>1, <2>3, OneRequest
<1>13. ASSUME NEW r \in Requests, Decode(r) PROVE Goal
  <2>1. UNCHANGED <<provider, tokens, ended, key, cookie, left>> /\ req[r].pc = "decode"
    BY <1>13 DEF Decode, sso
  <2>2. ASSUME req[r].sess # 0, req' = [req EXCEPT ![r] = [@ EXCEPT !.pc = "refresh", !.certs = {}]]
        PROVE  Goal
    <3>1. req' \in [Requests -> Request] /\ \A q \in Requests \ {r} : req'[q] = req[q]
      <4>1. [req[r] EXCEPT !.pc = "refresh", !.certs = {}] \in Request
        BY DEF SessionInv, Request
      <4>2. QED
        BY <2>2, <4>1 DEF SessionInv
    <3>2. /\ req'[r].pc = "refresh" /\ req'[r].client = req[r].client
          /\ req'[r].sess = req[r].sess /\ req'[r].came = req[r].came /\ req'[r].tok = req[r].tok
      BY <2>2 DEF SessionInv, Request
    <3>3. req[r].tok <= Len(tokens)
      BY DEF SessionInv, RequestOK
    <3>4. RequestOK(req[r])'
      BY <2>1, <2>2, <3>1, <3>2, <3>3, GoesOn
    <3>5. QED
      BY <1>1, <2>1, <3>1, <3>4, OneRequest
  <2>3. QED
    BY <1>9, <1>11, <1>13, <1>12, <2>1, <2>2 DEF Decode
<1>14. ASSUME NEW r \in Requests, Refresh(r) PROVE Goal
  <2> DEFINE old == tokens[req[r].sess]
             new == [old EXCEPT !.key = key]
  <2>1. req[r].sess \in DOMAIN tokens /\ Len(tokens) \in Nat
    BY <1>14 DEF Refresh, SessionInv, RequestOK, Request
  <2>2. /\ old \in Token /\ new \in Token /\ tokens' = Append(tokens, new)
        /\ new.session = old.session /\ old.session = Session(req[r].sess)
        /\ old.session \in DOMAIN tokens /\ old.session \notin ended
    <3>1. old \in Token /\ key \in Nat
      BY <2>1 DEF SessionInv
    <3>2. new \in Token /\ new.session = old.session
      BY <3>1 DEF Token
    <3>3. tokens' = Append(tokens, new) /\ old.session \notin ended
      BY <1>14 DEF Refresh
    <3>4. old.session = Session(req[r].sess) /\ old.session \in DOMAIN tokens
      BY <2>1 DEF SessionInv, Session
    <3>5. QED
      BY <3>1, <3>2, <3>3, <3>4
  <2> HIDE DEF new, old
  <2>3. /\ tokens' \in Seq(Token) /\ Len(tokens') = Len(tokens) + 1
        /\ DOMAIN tokens' = DOMAIN tokens \cup {Len(tokens) + 1}
        /\ Len(tokens) + 1 \notin DOMAIN tokens
        /\ tokens'[Len(tokens) + 1] = new
        /\ \A t \in DOMAIN tokens : tokens'[t] = tokens[t]
    BY <2>2, Issued
  <2>4. \A t \in DOMAIN tokens' : tokens'[t].session \in DOMAIN tokens'
    <3>1. \A t \in DOMAIN tokens : tokens'[t].session \in DOMAIN tokens
      BY <2>3 DEF SessionInv, Session
    <3>2. tokens'[Len(tokens) + 1].session \in DOMAIN tokens
      BY <2>2, <2>3
    <3>3. QED
      BY <2>3, <3>1, <3>2
  <2>5. req' \in [Requests -> Request]
    BY <1>14, <2>1 DEF Refresh, SessionInv, Request
  <2>6. \A q \in Requests : RequestOK(req[q])'
    <3>1. \A q \in Requests \ {r} : req'[q] = req[q]
      BY <1>14 DEF Refresh, SessionInv
    <3>2. \A q \in Requests \ {r} : RequestOK(req[q])'
      BY <2>2, <3>1, IssuedKeeps
    <3>3. RequestOK(req[r])'
      <4>1. req[r].came \in DOMAIN tokens /\ Session(req[r].came) = Session(req[r].sess) /\ req[r].client \in Users
        BY <1>14, <2>1 DEF Refresh, SessionInv, RequestOK, Request
      <4>2. /\ req'[r] \in Request /\ req'[r].pc = "decode" /\ req'[r].client = req[r].client
            /\ req'[r].tok = Len(tokens) + 1 /\ req'[r].sess = Len(tokens) + 1 /\ req'[r].came = req[r].came
        BY <1>14, <2>1, <2>5 DEF Refresh, SessionInv, Request
      <4>3. tokens'[Len(tokens) + 1].session = Session(req[r].sess) /\ tokens'[req[r].came].session = Session(req[r].came)
        BY <2>2, <2>3, <4>1 DEF Session
      <4>4. req[r].came \in Nat /\ req[r].came # 0 /\ req[r].came <= Len(tokens)
        BY <4>1 DEF SessionInv
      <4>5. QED
        BY <2>1, <2>3, <4>1, <4>2, <4>3, <4>4 DEF RequestOK, Session
    <3>4. QED
      BY <3>2, <3>3
  <2>7. SessionInv'
    <3>1. UNCHANGED <<ended, key, left, cookie>>
      BY <1>14 DEF Refresh
    <3>2. cookie' \in [Users -> Nat] /\ \A u \in Users : cookie'[u] <= Len(tokens')
      BY <2>1, <2>3, <3>1 DEF SessionInv
    <3>3. QED
      BY <2>3, <2>4, <2>5, <2>6, <3>1, <3>2 DEF SessionInv, Session
  <2>8. New /\ Old /\ left' = left
    BY <1>14, <2>2, <2>3 DEF Refresh, SessionInv
  <2>9. QED
    BY <2>7, <2>8
<1>15. ASSUME NEW r \in Requests, RefreshFails(r) \/ LogoutFails(r) PROVE Goal
  BY <1>9, <1>11, <1>15 DEF RefreshFails, LogoutFails, sso, SessionInv
<1>16. ASSUME NEW r \in Requests, Introspect(r) \/ GetUserIdFromToken(r) PROVE Goal
  BY <1>9, <1>11, <1>16, <1>12 DEF Introspect, GetUserIdFromToken, sso
<1>17. ASSUME NEW r \in Requests, ReadUser(r) \/ CreateUser(r) PROVE Goal
  BY <1>9, <1>10, <1>11, <1>17 DEF ReadUser, CreateUser, Admit, sso
<1>18. ASSUME NEW r \in Requests, Grant(r) PROVE Goal
  <2> DEFINE new == [user |-> req[r].user, session |-> Len(tokens) + 1, key |-> 0]
  <2>1. req[r].user \in Users /\ Len(tokens) \in Nat
    BY <1>18 DEF Grant, SessionInv, RequestOK
  <2>2. new \in Token /\ tokens' = Append(tokens, new)
    BY <1>18, <2>1 DEF Grant, Token
  <2>3. /\ tokens' \in Seq(Token) /\ Len(tokens') = Len(tokens) + 1
        /\ DOMAIN tokens' = DOMAIN tokens \cup {Len(tokens) + 1}
        /\ Len(tokens) + 1 \notin DOMAIN tokens
        /\ tokens'[Len(tokens) + 1] = new
        /\ \A t \in DOMAIN tokens : tokens'[t] = tokens[t]
    BY <2>2, Issued
  <2>4. \A t \in DOMAIN tokens' : tokens'[t].session \in DOMAIN tokens'
    BY <2>3 DEF SessionInv, Session
  <2>5. req' \in [Requests -> Request] /\ (\A q \in Requests \ {r} : req'[q] = req[q]) /\ RequestOK(req[r])'
    BY <1>18, <2>1, <2>3, AnswerIs DEF Grant
  <2>6. \A q \in Requests : RequestOK(req[q])'
    BY <2>2, <2>5, IssuedKeeps
  <2>7. SessionInv'
    BY <1>18, <2>1, <2>3, <2>4, <2>5, <2>6 DEF Grant, SessionInv, Session
  <2>8. New /\ Old /\ left' = left
    BY <1>18, <2>3 DEF Grant, SessionInv
  <2>9. QED
    BY <2>7, <2>8
<1>19. ASSUME NEW r \in Requests, Logout(r) PROVE Goal
  <2>1. /\ req[r].sess \in Nat /\ req[r].came \in Nat /\ (req[r].sess = 0 <=> req[r].came = 0)
        /\ req[r].sess # 0 => req[r].sess \in DOMAIN tokens /\ Session(req[r].came) = Session(req[r].sess)
    BY <1>19, <1>11 DEF Logout, SessionInv, RequestOK, Request
  <2>2. /\ tokens' = tokens /\ key' = key /\ cookie' = cookie
        /\ left' = left \cup CookieSession(r)
        /\ ended' = IF req[r].sess = 0 THEN ended ELSE ended \cup {Session(req[r].sess)}
    BY <1>19 DEF Logout
  <2>3. req' \in [Requests -> Request] /\ (\A q \in Requests \ {r} : req'[q] = req[q]) /\ RequestOK(req[r])'
    BY <1>19, <2>2, AnswerIs DEF Logout, SessionInv
  <2>4. \A q \in Requests : RequestOK(req[q])'
    BY <2>2, <2>3 DEF SessionInv, RequestOK, Session
  <2>5. left' \subseteq ended' /\ ended' \subseteq DOMAIN tokens
    <3>1. CASE req[r].sess = 0
      BY <2>1, <2>2, <3>1 DEF CookieSession, SessionInv
    <3>2. CASE req[r].sess # 0
      <4>1. CookieSession(r) = {Session(req[r].sess)} /\ Session(req[r].sess) \in DOMAIN tokens
        BY <2>1, <3>2 DEF CookieSession, SessionInv
      <4>2. QED
        BY <2>2, <3>2, <4>1 DEF SessionInv
    <3>3. QED
      BY <3>1, <3>2
  <2>6. SessionInv'
    BY <2>2, <2>3, <2>4, <2>5 DEF SessionInv, Session
  <2>7. QED
    BY <2>2, <2>6
<1>20. ASSUME NEW r \in Requests, Respond(r) PROVE Goal
  <2>1. req[r].sess \in Nat /\ req[r].sess <= Len(tokens)
    BY <1>11
  <2>2. cookie' \in [Users -> Nat] /\ \A u \in Users : cookie'[u] <= Len(tokens)
    BY <1>20, <2>1 DEF Respond, SessionInv
  <2>3. NoRequest \in Request /\ NoRequest.pc = "idle" /\ NoRequest.tok = 0 /\ NoRequest.sess = 0
        /\ NoRequest.came = 0
    BY DEF NoRequest, Request, Kinds
  <2>4. req' \in [Requests -> Request] /\ \A q \in Requests : RequestOK(req[q])'
    BY <1>20, <2>3 DEF Respond, SessionInv, RequestOK, Session, sso
  <2>5. SessionInv'
    BY <1>20, <2>2, <2>4 DEF Respond, SessionInv, Session, sso
  <2>6. QED
    BY <1>1, <1>20, <2>5 DEF Respond, sso
<1>21. ASSUME NEW s \in Scripts, ReadUsers(s) \/ AddSuperusers(s) PROVE Goal
  BY <1>2, <1>21 DEF ReadUsers, AddSuperusers, sso
<1>22. ASSUME UNCHANGED vars PROVE Goal
  BY <1>2, <1>22 DEF vars, sso
<1> HIDE DEF Goal
<1>23. Goal
  BY <1>3, <1>4, <1>5, <1>6, <1>7, <1>8, <1>13, <1>14, <1>15, <1>16, <1>17, <1>18, <1>19, <1>20,
     <1>21, <1>22 DEF Next, Handle, Start
<1>24. QED
  BY <1>23 DEF Goal

\* The invariant of sessions.
LEMMA SessionInvHolds == Spec => []SessionInv
<1>1. Init => SessionInv
  <2> SUFFICES ASSUME Init PROVE SessionInv
    OBVIOUS
  <2>1. tokens = <<>> /\ ended = {} /\ left = {} /\ key = 1 /\ cookie = [u \in Users |-> 0]
        /\ req = [r \in Requests |-> NoRequest]
    BY DEF Init
  <2>2. NoRequest \in Request /\ NoRequest.pc = "idle" /\ NoRequest.tok = 0 /\ NoRequest.sess = 0
        /\ NoRequest.came = 0
    BY DEF NoRequest, Request, Kinds
  <2>3. req \in [Requests -> Request] /\ \A r \in Requests : RequestOK(req[r])
    BY <2>1, <2>2 DEF RequestOK
  <2>4. QED
    BY <2>1, <2>3 DEF SessionInv
<1>2. SessionInv /\ [Next]_vars => SessionInv'
  BY SessionStep
<1>3. QED
  BY <1>1, <1>2, PTL DEF Spec

\* No request gets new tokens for a session whose cookie came with a logout that was
\* answered with success, whichever answers bring the cookie back.
THEOREM LogoutIsFinalHolds == Spec => LogoutIsFinal
<1>1. SessionInv /\ [Next]_vars =>
        [\A t \in DOMAIN tokens' \ DOMAIN tokens : tokens'[t].session \notin left]_vars
  BY SessionStep
<1>2. QED
  BY <1>1, SessionInvHolds, PTL DEF Spec, LogoutIsFinal

\* An access token that has expired stays so.
LEMMA ExpiredGrows ==
  ASSUME [Next]_vars
  PROVE  expired \subseteq expired'
  BY DEF Next, Callback, Expire, Rotate, KeyTtlEnds, Send, Handle, FetchKey, Decode, Refresh,
         RefreshFails, Introspect, GetUserIdFromToken, ReadUser, CreateUser, Grant, Logout,
         LogoutFails, Respond, Start, ReadUsers, AddSuperusers, vars, sso

\* A dead session stays dead: it gets no tokens, and those it has are expired.
LEMMA DeadStays ==
  ASSUME SessionInv, [Next]_vars, NEW t \in Nat, DeadToken(t)
  PROVE  DeadToken(t)'
<1>1. /\ \A k \in DOMAIN tokens' \ DOMAIN tokens : tokens'[k].session \notin left
      /\ DOMAIN tokens \subseteq DOMAIN tokens'
      /\ \A k \in DOMAIN tokens : tokens'[k] = tokens[k]
      /\ left \subseteq left'
  BY SessionStep
<1>2. expired \subseteq expired'
  BY ExpiredGrows
<1>3. Dead \subseteq Dead'
  BY <1>1, <1>2 DEF Dead, Session
<1>4. QED
  BY <1>1, <1>3 DEF DeadToken, Session

\* A late request is refused: its token is expired, and Keycloak has ended its
\* session.  Decoding sends it to be refreshed or away, and so does refreshing.
LEMMA LateStep ==
  ASSUME SessionInv, LateInv, [Next]_vars
  PROVE  LateInv'
<1> DEFINE Stays(q) == req[q].late /\ req'[q].tok = req[q].tok /\ req'[q].sess = req[q].sess
                       /\ req'[q].pc \in {"decode", "refresh"}
           Arrives(q) == /\ req'[q].pc = "decode" /\ DeadToken(req'[q].tok)
                         /\ req'[q].sess # 0 => DeadToken(req'[q].sess)
           Moves == \A q \in Requests : req'[q].late => Stays(q) \/ Arrives(q)
<1>1. ASSUME NEW r \in Requests, req[r].late
      PROVE  /\ req[r].pc \in {"decode", "refresh"}
             /\ req[r].tok \in expired
             /\ req[r].sess # 0 => Session(req[r].sess) \in ended
  BY <1>1 DEF LateInv, DeadToken, Dead, SessionInv
<1>2. ASSUME req' = req PROVE Moves
  BY <1>2 DEF LateInv
<1>3. ASSUME NEW r \in Requests, \A q \in Requests \ {r} : req'[q] = req[q], ~req'[r].late
      PROVE  Moves
  BY <1>3 DEF LateInv
<1>4. ASSUME NEW r \in Requests, NEW sess \in Nat, req[r].pc # "idle", Answer(r, sess),
             Len(tokens') \in Nat, sess <= Len(tokens')
      PROVE  Moves
  BY <1>3, <1>4, AnswerIs
<1>5. ASSUME NEW r \in Requests, NEW l \in {"create", "admitted"}, Goto(r, l), ~req[r].late
      PROVE  Moves
  <2>1. req'[r] = [req[r] EXCEPT !.pc = l] /\ \A q \in Requests \ {r} : req'[q] = req[q]
    BY <1>5, GotoIs
  <2>2. ~req'[r].late
    BY <1>5, <2>1 DEF SessionInv, Request
  <2>3. QED
    BY <1>3, <2>1, <2>2
<1>6. Len(tokens) \in Nat /\ \A r \in Requests : req[r].sess \in Nat /\ req[r].sess <= Len(tokens)
  BY DEF SessionInv, RequestOK, Request
<1>7. ASSUME NEW r \in Requests, req[r].pc = "decode", Accept(r), ~req[r].late PROVE Moves
  BY <1>3, <1>7, AcceptIs
<1>8. ASSUME NEW r \in Requests, NEW u \in Users, NEW kind \in Kinds, NEW bearer \in DOMAIN tokens \cup {0},
             Send(r, u, kind, bearer)
      PROVE  Moves
  <2> DEFINE token == IF bearer # 0 THEN bearer ELSE cookie[u]
             late == kind # "login" /\ \A t \in {token, cookie[u]} \ {0} : Session(t) \in Dead
             q == [NoRequest EXCEPT !.client = u, !.kind = kind, !.tok = token,
                     !.user = IF kind = "login" THEN u ELSE None,
                     !.sess = cookie[u], !.came = cookie[u],
                     !.late = late,
                     !.pc = IF kind = "login" THEN "user" ELSE "decode"]
  <2>1. req' = [req EXCEPT ![r] = q]
    BY <1>8 DEF Send
  <2>2. /\ token # 0 => token \in DOMAIN tokens
        /\ cookie[u] # 0 => cookie[u] \in DOMAIN tokens
    BY DEF SessionInv
  <2>3. kind # "login" => token # 0
    BY <1>8 DEF Send
  <2>4. late => kind # "login" /\ DeadToken(token) /\ (cookie[u] # 0 => DeadToken(cookie[u]))
    BY <2>2, <2>3 DEF DeadToken
  <2> HIDE DEF late, token
  <2>5. /\ q.late = late /\ q.tok = token /\ q.sess = cookie[u]
        /\ q.pc = IF kind = "login" THEN "user" ELSE "decode"
    BY DEF NoRequest
  <2> HIDE DEF q
  <2>6. req'[r] = q /\ \A p \in Requests \ {r} : req'[p] = req[p]
    BY <2>1 DEF SessionInv
  <2>7. req'[r].late => Arrives(r)
    BY <2>4, <2>5, <2>6
  <2>8. QED
    BY <2>6, <2>7 DEF LateInv
<1>9. ASSUME NEW r \in Requests, FetchKey(r) PROVE Moves
  BY <1>9 DEF FetchKey, SessionInv, LateInv, Request
<1>10. ASSUME NEW r \in Requests, Decode(r) PROVE Moves
  <2>1. tokens' = tokens /\ req[r].pc = "decode"
    BY <1>10 DEF Decode, sso
  <2>3. ASSUME req' = [req EXCEPT ![r] = [@ EXCEPT !.pc = "refresh", !.certs = {}]] PROVE Moves
    BY <2>3 DEF SessionInv, LateInv, Request
  <2>4. QED
    BY <1>1, <1>4, <1>6, <1>10, <1>7, <2>1, <2>3 DEF Decode
<1>11. ASSUME NEW r \in Requests, Refresh(r) PROVE Moves
  <2>1. ~req[r].late
    <3>1. req[r].sess # 0 /\ Session(req[r].sess) \notin ended
      BY <1>11 DEF Refresh, SessionInv, RequestOK, Session
    <3>2. QED
      BY <1>1, <3>1
  <2>2. ~req'[r].late /\ \A q \in Requests \ {r} : req'[q] = req[q]
    BY <1>11, <2>1 DEF Refresh, SessionInv, Request
  <2>3. QED
    BY <1>3, <2>2
<1>12. ASSUME NEW r \in Requests, RefreshFails(r) \/ LogoutFails(r) \/ Logout(r) \/ Grant(r) PROVE Moves
  <2>1. ASSUME Grant(r) PROVE Len(tokens') = Len(tokens) + 1 /\ Len(tokens) \in Nat
    BY <2>1 DEF Grant, SessionInv
  <2>2. Len(tokens) \in Nat
    BY DEF SessionInv
  <2>3. QED
    BY <1>4, <1>6, <1>12, <2>1, <2>2 DEF RefreshFails, LogoutFails, Logout, Grant, sso
<1>13. ASSUME NEW r \in Requests, Introspect(r) \/ GetUserIdFromToken(r) PROVE Moves
  BY <1>1, <1>4, <1>6, <1>13, <1>7 DEF Introspect, GetUserIdFromToken, sso
<1>14. ASSUME NEW r \in Requests, ReadUser(r) \/ CreateUser(r) PROVE Moves
  <2>1. ~req[r].late
    BY <1>1, <1>14 DEF ReadUser, CreateUser
  <2>2. QED
    BY <2>1, <1>4, <1>5, <1>6, <1>14 DEF ReadUser, CreateUser, Admit, sso
<1>15. ASSUME NEW r \in Requests, Respond(r) PROVE Moves
  BY <1>3, <1>15 DEF Respond, NoRequest, SessionInv
<1> HIDE DEF Moves
<1>16. Moves
  BY <1>2, <1>8, <1>9, <1>10, <1>11, <1>12, <1>13, <1>14, <1>15
  DEF Next, Handle, Start, Callback, Expire, Rotate, KeyTtlEnds, ReadUsers, AddSuperusers, vars
<1>17. ASSUME NEW r \in Requests, req'[r].late
       PROVE  /\ req'[r].pc \in {"decode", "refresh"} /\ DeadToken(req[r].tok)'
              /\ req'[r].sess # 0 => DeadToken(req[r].sess)'
  <2>1. PICK t \in Nat, k \in Nat : t = req'[r].tok /\ k = req'[r].sess
    BY SessionStep DEF SessionInv, Request
  <2>2. req'[r].pc \in {"decode", "refresh"} /\ DeadToken(t) /\ (k # 0 => DeadToken(k))
    BY <1>16, <1>17, <2>1 DEF Moves, LateInv
  <2>3. DeadToken(t)' /\ (k # 0 => DeadToken(k)')
    BY <2>2, DeadStays
  <2>4. QED
    BY <2>1, <2>2, <2>3 DEF DeadToken, Session
<1>18. QED
  BY <1>17 DEF LateInv

\* Once the access tokens of sessions that were logged out with their cookie have
\* expired, no request that arrives with such tokens only is served, for any number
\* of clients, requests and refreshed tokens.
THEOREM LoggedOutIsNotServedHolds == Spec => []LoggedOutIsNotServed
<1>1. Init => LateInv
  BY DEF Init, LateInv, NoRequest
<1>2. SessionInv /\ LateInv /\ [Next]_vars => LateInv'
  BY LateStep
<1>3. LateInv => LoggedOutIsNotServed
  BY DEF LateInv, LoggedOutIsNotServed
<1>4. QED
  BY <1>1, <1>2, <1>3, SessionInvHolds, PTL DEF Spec
=============================================================================
