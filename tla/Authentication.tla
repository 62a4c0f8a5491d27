--------------------------- MODULE Authentication ---------------------------
(***************************************************************************)
(* Who is served: the three authentication providers, the rows of the      *)
(* table of users, and the script that grants superuser rights when a      *)
(* server starts.                                                          *)
(*                                                                         *)
(* With Keycloak the tokens live in a signed cookie: a request works on    *)
(* the copy that came with it and every answer writes its copy back, so    *)
(* answers of overlapping requests overwrite each other.  Access tokens    *)
(* are verified locally with cached keys and refreshed on demand.  With    *)
(* each provider a request may bring an access token in its Authorization  *)
(* header, which goes before the cookie's; the OAuth2 gateway and the      *)
(* dummy provider know nothing else.                                       *)
(*                                                                         *)
(* A token is its number in the order of issue; an access token and its    *)
(* refresh token have the same number.  A Keycloak session is named by the *)
(* token of its login.                                                     *)
(***************************************************************************)
EXTENDS Integers, Sequences, FiniteSets

CONSTANTS
  Users,       \* user names
  Configured,  \* names under "superusers" in the settings
  Requests,    \* requests that the server handles at a time
  Scripts,     \* server replicas that may execute "manage_superusers add"
  MaxTokens,   \* bound: tokens issued
  MaxKeys,     \* bound: signing keys of Keycloak
  None         \* "no value"

Providers == {"keycloak", "oauth2_gateway", "dummy"}
Kinds == {"read", "logout", "login"}

ASSUME ConstantsAssumption ==
  /\ Configured \subseteq Users
  /\ MaxTokens \in Nat /\ MaxKeys \in Nat \ {0}

\* The columns of the table of users that matter here.
Row == [is_active : BOOLEAN, is_superuser : BOOLEAN]

\* "No row" is not a row.
ASSUME NoneAssumption == None \notin Row

VARIABLES
  provider,  \* AuthProvider in the settings
  rows,      \* table of users
  tokens,    \* issued tokens
  expired,   \* tokens whose access token has expired
  ended,     \* sessions that Keycloak has ended
  key,       \* Keycloak's signing key
  cache,     \* KeycloakAuthProvider._key; {} when none or past its time to live
  cookie,    \* the tokens in the cookie of each user's browser; 0: no cookie
  req,       \* requests in progress
  script,    \* manage_superusers at each replica; "off" where none is started
  left       \* history: sessions whose cookie came with a logout answered with 204

sso == <<tokens, expired, ended, key>>
vars == <<provider, rows, sso, cache, cookie, req, script, left>>

\* client is whose browser the request comes from and user whom it is found to be
\* of; tok is the access token to be verified, sess the tokens in the request's
\* session, came those that were in it when the request arrived; 0: none.
NoRequest == [pc |-> "idle", client |-> None, user |-> None, kind |-> "read", tok |-> 0, sess |-> 0,
              came |-> 0, certs |-> {}, again |-> FALSE, late |-> FALSE]

Init ==
  /\ provider \in Providers
  /\ rows \in [Users -> Row \cup {None}]
  /\ tokens = <<>> /\ expired = {} /\ ended = {} /\ key = 1
  /\ cache = {}
  /\ cookie = [u \in Users |-> 0]
  /\ req = [r \in Requests |-> NoRequest]
  /\ script \in [Scripts -> [pc : {"start", "off"}, found : {{}}]]
  /\ left = {}

Session(t) == tokens[t].session

\* Sessions that were left and have no access token that is still good.
Dead == {s \in left : \A t \in DOMAIN tokens : Session(t) = s => t \in expired}

-----------------------------------------------------------------------------
(* Keycloak, the gateway, time (external).                                 *)

\* A user logs in at Keycloak; auth_callback stores both tokens in the session,
\* behind the OAuth2 gateway the client keeps them.
Callback(u) ==
  /\ provider # "dummy"
  /\ Len(tokens) < MaxTokens
  /\ tokens' = Append(tokens, [user |-> u, session |-> Len(tokens) + 1, key |-> key])
  /\ cookie' = IF provider = "keycloak" THEN [cookie EXCEPT ![u] = Len(tokens) + 1] ELSE cookie
  /\ UNCHANGED <<provider, rows, expired, ended, key, cache, req, script, left>>

Expire(t) ==
  /\ t \notin expired
  /\ expired' = expired \cup {t}
  /\ UNCHANGED <<provider, rows, tokens, ended, key, cache, cookie, req, script,
                 left>>

Rotate ==
  /\ provider = "keycloak"
  /\ key < MaxKeys
  /\ key' = key + 1
  /\ UNCHANGED <<provider, rows, tokens, expired, ended, cache, cookie, req, script,
                 left>>

\* Mutant: the key is cached for the life of the process.
KeyIsKept ==
  /\ cache # {}
  /\ FALSE
  /\ UNCHANGED vars

\* cert_cache_ttl has passed: _get_key no longer returns the cached key.
KeyTtlEnds ==
  /\ cache # {}
  /\ cache' = {}
  /\ UNCHANGED <<provider, rows, sso, cookie, req, script, left>>

\* The keys that Keycloak publishes: the current one and the one before it.
Certs == {key - 1, key}

-----------------------------------------------------------------------------
(* A request: get_user, then its endpoint.                                 *)

Goto(r, pc) == req' = [req EXCEPT ![r].pc = pc]

\* The request is answered.  SessionMiddleware sends the tokens in the session as
\* the cookie; when the session has become empty it removes the cookie, but only
\* if one came with the request.
Answer(r, sess) ==
  req' = [req EXCEPT ![r] =
            IF sess = 0 /\ req[r].came = 0 THEN NoRequest
            ELSE [NoRequest EXCEPT !.pc = "respond", !.client = req[r].client, !.sess = sess]]

\* The token is good, and names the user.
Accept(r) ==
  req' = [req EXCEPT ![r] = [@ EXCEPT !.pc = "user", !.user = tokens[req[r].tok].user, !.tok = 0,
                                      !.certs = {}, !.again = FALSE]]

\* The request arrives with the cookie of its client's browser, an access token
\* in its header, or both; the header goes before the cookie.  One without a token
\* is answered with 401 at once (RedirectError or AuthorizationError) and changes
\* nothing.
Send(r, u, kind, bearer) ==
  LET token == IF bearer # 0 THEN bearer ELSE cookie[u] IN
  /\ req[r].pc = "idle"
  /\ IF kind = "login" THEN provider = "dummy" /\ bearer = 0 ELSE token # 0
  /\ req' = [req EXCEPT ![r] =
       [NoRequest EXCEPT !.client = u, !.kind = kind, !.tok = token,
          !.user = IF kind = "login" THEN u ELSE None,
          !.sess = cookie[u], !.came = cookie[u],
          !.late = kind # "login" /\ \A t \in {token, cookie[u]} \ {0} : Session(t) \in Dead,
          !.pc = IF kind = "login" THEN "user" ELSE "decode"]]
  /\ UNCHANGED <<provider, rows, sso, cache, cookie, script, left>>

\* _get_key without a good cache: the certificates are requested ...
FetchKey(r) ==
  /\ provider = "keycloak"
  /\ req[r].pc = "decode" /\ req[r].certs = {}
  /\ cache = {}
  /\ req' = [req EXCEPT ![r].certs = Certs]
  /\ UNCHANGED <<provider, rows, sso, cache, cookie, script, left>>

\* Mutant: the token's expiry is not verified.
DecodeIgnoresExpiry(r) ==
  LET keys == IF req[r].certs = {} THEN cache ELSE req[r].certs IN
  /\ provider = "keycloak"
  /\ req[r].pc = "decode"
  /\ keys # {}
  /\ cache' = keys
  /\ \/ /\ tokens[req[r].tok].key \in keys
        /\ Accept(r)
     \/ /\ ~(tokens[req[r].tok].key \in keys)
        /\ IF req[r].again \/ req[r].sess = 0 THEN Answer(r, req[r].sess)
           ELSE req' = [req EXCEPT ![r] = [@ EXCEPT !.pc = "refresh", !.certs = {}]]
  /\ UNCHANGED <<provider, rows, sso, cookie, script, left>>

\* ... and stored, whoever stored others meanwhile.  Then the token is decoded;
\* an invalid one is refreshed, once, if the session has a refresh token.
Decode(r) ==
  LET keys == IF req[r].certs = {} THEN cache ELSE req[r].certs
      valid == req[r].tok \notin expired /\ tokens[req[r].tok].key \in keys
  IN
  /\ provider = "keycloak"
  /\ req[r].pc = "decode"
  /\ keys # {}
  /\ cache' = keys
  /\ \/ /\ valid
        /\ Accept(r)
     \/ /\ ~valid
        /\ IF req[r].again \/ req[r].sess = 0 THEN Answer(r, req[r].sess)
           ELSE req' = [req EXCEPT ![r] = [@ EXCEPT !.pc = "refresh", !.certs = {}]]
  /\ UNCHANGED <<provider, rows, sso, cookie, script, left>>

\* a_refresh_token with the session's token, whoever's the header's was: Keycloak
\* issues new tokens while that session lives; they go into the request's session
\* at once.
Refresh(r) ==
  LET old == tokens[req[r].sess] IN
  /\ req[r].pc = "refresh"
  /\ old.session \notin ended
  /\ Len(tokens) < MaxTokens
  /\ tokens' = Append(tokens, [old EXCEPT !.key = key])
  /\ req' = [req EXCEPT ![r].pc = "decode", ![r].again = TRUE,
                        ![r].tok = Len(tokens) + 1, ![r].sess = Len(tokens) + 1]
  /\ UNCHANGED <<provider, rows, expired, ended, key, cache, cookie, script, left>>

\* Keycloak refuses, or cannot be reached: redirect_to_auth.
RefreshFails(r) ==
  /\ req[r].pc = "refresh"
  /\ Answer(r, req[r].sess)
  /\ UNCHANGED <<provider, rows, sso, cache, cookie, script, left>>

\* OAuth2GatewayProvider asks Keycloak whether the token is active.
Introspect(r) ==
  LET t == req[r].tok IN
  /\ provider = "oauth2_gateway"
  /\ req[r].pc = "decode"
  /\ IF t \notin expired /\ Session(t) \notin ended THEN Accept(r) ELSE Answer(r, req[r].sess)
  /\ UNCHANGED <<provider, rows, sso, cache, cookie, script, left>>

\* DummyAuthProvider verifies its own signature and the time of expiry.
GetUserIdFromToken(r) ==
  /\ provider = "dummy"
  /\ req[r].pc = "decode"
  /\ IF req[r].tok \notin expired THEN Accept(r) ELSE Answer(r, req[r].sess)
  /\ UNCHANGED <<provider, rows, sso, cache, cookie, script, left>>

\* The user is known and active: an endpoint that only reads answers, login and
\* logout go on.
Admit(r) ==
  IF req[r].kind = "read" THEN Answer(r, req[r].sess) ELSE Goto(r, "admitted")

\* read_by_username (the dummy provider reads by id, except at a login).  An
\* inactive user is refused: ActionNotAllowedError, at a login AuthorizationError.
ReadUser(r) ==
  LET row == rows[req[r].user] IN
  /\ req[r].pc = "user"
  /\ \/ row = None /\ Goto(r, "create")
     \/ row # None /\ row.is_active /\ Admit(r)
     \/ /\ row # None /\ ~row.is_active
        /\ Answer(r, req[r].sess)
  /\ UNCHANGED <<provider, rows, sso, cache, cookie, script, left>>

\* Mutant: insert or update.
UpsertUser(r) ==
  LET u == req[r].user IN
  /\ req[r].pc = "create"
  /\ rows' = [rows EXCEPT ![u] = [is_active |-> TRUE, is_superuser |-> FALSE]]
  /\ Admit(r)
  /\ UNCHANGED <<provider, sso, cache, cookie, script, left>>

\* UserRepository.create; the unique index refuses the later of two inserts
\* with UsernameAlreadyExistsError (409).
CreateUser(r) ==
  LET u == req[r].user IN
  /\ req[r].pc = "create"
  /\ \/ /\ rows[u] = None
        /\ rows' = [rows EXCEPT ![u] = [is_active |-> TRUE, is_superuser |-> FALSE]]
        /\ Admit(r)
     \/ /\ rows[u] # None
        /\ Answer(r, req[r].sess)
        /\ UNCHANGED rows
  /\ UNCHANGED <<provider, sso, cache, cookie, script, left>>

\* DummyAuthProvider._generate_access_token; the client keeps the token.
Grant(r) ==
  /\ req[r].pc = "admitted" /\ req[r].kind = "login"
  /\ Len(tokens) < MaxTokens
  /\ tokens' = Append(tokens, [user |-> req[r].user, session |-> Len(tokens) + 1, key |-> 0])
  /\ Answer(r, 0)
  /\ UNCHANGED <<provider, rows, expired, ended, key, cache, cookie, script, left>>

\* The session of the cookie that came with the request.
CookieSession(r) == {Session(t) : t \in {req[r].came} \ {0}}

\* Mutant: the session is cleared before the refresh token is read from it.
LogoutClearsFirst(r) ==
  /\ req[r].pc = "admitted" /\ req[r].kind = "logout"
  /\ provider = "keycloak"
  /\ left' = left \cup CookieSession(r)
  /\ Answer(r, 0)
  /\ UNCHANGED <<provider, rows, sso, cache, cookie, script>>

\* logout: the session is cleared, and a_logout ends the Keycloak session of the
\* refresh token that was in it.  Without one, as with a token in the header only,
\* the provider returns early: 204, and no session ends.
Logout(r) ==
  /\ req[r].pc = "admitted" /\ req[r].kind = "logout"
  /\ provider = "keycloak"
  /\ ended' = IF req[r].sess = 0 THEN ended ELSE ended \cup {Session(req[r].sess)}
  /\ left' = left \cup CookieSession(r)
  /\ Answer(r, 0)
  /\ UNCHANGED <<provider, rows, tokens, expired, key, cache, cookie, script>>

\* a_logout fails (LogoutError, 500) when the session is cleared already; other
\* providers have no session (500).
LogoutFails(r) ==
  /\ req[r].pc = "admitted" /\ req[r].kind = "logout"
  /\ provider = "keycloak" => req[r].sess # 0
  /\ Answer(r, 0)
  /\ UNCHANGED <<provider, rows, sso, cache, cookie, script, left>>

\* The answer arrives, and the browser does what it says of the cookie.
Respond(r) ==
  /\ req[r].pc = "respond"
  /\ cookie' = [cookie EXCEPT ![req[r].client] = req[r].sess]
  /\ req' = [req EXCEPT ![r] = NoRequest]
  /\ UNCHANGED <<provider, rows, sso, cache, script, left>>

-----------------------------------------------------------------------------
(* manage_superusers add, from the entrypoint of every replica.            *)

\* Mutant: only users that are superusers already are found.
ReadSuperusersOnly(s) ==
  /\ script[s].pc = "start"
  /\ script' = [script EXCEPT ![s] = [pc |-> "commit",
                 found |-> {u \in Configured : rows[u] # None /\ rows[u].is_superuser}]]
  /\ UNCHANGED <<provider, rows, sso, cache, cookie, req, left>>

\* add_superusers reads the users that exist ...
ReadUsers(s) ==
  /\ script[s].pc = "start"
  /\ script' = [script EXCEPT ![s] = [pc |-> "commit",
                                      found |-> {u \in Configured : rows[u] # None}]]
  /\ UNCHANGED <<provider, rows, sso, cache, cookie, req, left>>

\* ... and commits; it fails as a whole when a user it wants to insert exists by
\* now, and the container is started again.
AddSuperusers(s) ==
  LET new == Configured \ script[s].found
      clash == \E u \in new : rows[u] # None
  IN
  /\ script[s].pc = "commit"
  /\ rows' = IF clash THEN rows
             ELSE [u \in Users |->
                     CASE u \in new -> [is_active |-> TRUE, is_superuser |-> TRUE]
                       [] u \in script[s].found -> [rows[u] EXCEPT !.is_superuser = TRUE]
                       [] OTHER -> rows[u]]
  /\ script' = [script EXCEPT ![s] = [pc |-> IF clash THEN "start" ELSE "done", found |-> {}]]
  /\ UNCHANGED <<provider, sso, cache, cookie, req, left>>

-----------------------------------------------------------------------------
Handle(r) ==
  \/ FetchKey(r)
  \/ Decode(r)
  \/ Refresh(r)
  \/ RefreshFails(r)
  \/ Introspect(r)
  \/ GetUserIdFromToken(r)
  \/ ReadUser(r)
  \/ CreateUser(r)
  \/ Grant(r)
  \/ Logout(r)
  \/ LogoutFails(r)
  \/ Respond(r)

Start(s) == ReadUsers(s) \/ AddSuperusers(s)

Next ==
  \/ \E u \in Users : Callback(u)
  \/ \E t \in DOMAIN tokens : Expire(t)
  \/ Rotate
  \/ KeyTtlEnds
  \/ \E r \in Requests, u \in Users, kind \in Kinds, bearer \in DOMAIN tokens \cup {0} :
       Send(r, u, kind, bearer)
  \/ \E r \in Requests : Handle(r)
  \/ \E s \in Scripts : Start(s)

Spec == Init /\ [][Next]_vars

\* The server goes on with every request, the cache's time to live passes, and
\* the orchestrator restarts a replica whose script failed.
Fairness ==
  /\ \A r \in Requests : WF_vars(Handle(r))
  /\ WF_vars(KeyTtlEnds)
  /\ \A s \in Scripts : WF_vars(Start(s))

FairSpec == Spec /\ Fairness

-----------------------------------------------------------------------------
(* Properties.                                                             *)

\* A logout that came with a session's cookie and was answered with success is
\* final for that session, whichever token was in the header and whether the
\* tokens were refreshed on the way: although late answers may bring the cookie
\* back, no request ever gets new tokens for that session.
LogoutIsFinal ==
  [][\A t \in DOMAIN tokens' \ DOMAIN tokens : tokens'[t].session \notin left]_vars

\* Once the access tokens of sessions that were logged out with their cookie have
\* expired, no request that arrives with tokens of such sessions only, in its
\* header or its cookie, is served.
LoggedOutIsNotServed ==
  \A r \in Requests : req[r].late => req[r].pc \in {"decode", "refresh"}

\* Every configured superuser has its rights for good once one replica's script
\* has finished, whatever first logins and other replicas do meanwhile.
SuperusersStay ==
  (\E s \in Scripts : script[s].pc = "done") =>
    \A u \in Configured : rows[u] # None /\ rows[u].is_superuser

\* The script of every replica that is started finishes.
ScriptsFinish == <>(\A s \in Scripts : script[s].pc \in {"done", "off"})

\* After a rotation the server verifies with Keycloak's current key again, while
\* requests keep arriving, although overlapping fetches may store older keys.
KeyIsRefreshed ==
  \A k \in 1 .. MaxKeys :
    /\ <>[](key = k)
    /\ []<>(\E r \in Requests : req[r].pc = "decode" /\ provider = "keycloak")
    => <>[](cache = {} \/ k \in cache)
=============================================================================
