----------------------------- MODULE Connections -----------------------------
(***************************************************************************)
(* Connections and their credentials: two rows that belong together.  The  *)
(* endpoints of api/v1/connections.py write them in one transaction, and   *)
(* read them in two queries (READ COMMITTED) when they answer.  The worker *)
(* reads them in two queries as well, the credentials once for the source  *)
(* and once for the target of a transfer, which may be one connection, and *)
(* builds its handlers from what it read.                                  *)
(*                                                                         *)
(* An update leaves out a secret to keep the stored one.  It reads the     *)
(* stored credentials before it takes the connection's row lock.           *)
(*                                                                         *)
(* Permissions, names, groups and the second connection of a transfer are  *)
(* in module Resources.                                                    *)
(***************************************************************************)
EXTENDS ConnectionSchemas, Naturals

CONSTANTS
  Worlds,      \* kinds, types of credentials and secrets that one behaviour uses
  Requests,    \* API requests in progress
  Workers,     \* worker processes
  Id,          \* connection ids; an id that nobody mentions is taken again
  MaxRows,     \* bound: connections are created while there are fewer
  None         \* "no value", of a secret too

\* Complete credentials, with secrets from a set.
Complete(values) == UNION {[type : {t}, secrets : [AuthSchema(t).secret -> values]] : t \in AuthType}

\* "No value" is neither a kind, nor a request, nor a secret, nor credentials.
ASSUME WorldsAssumption ==
  /\ None \notin ConnectionKind \union Requests
  /\ \A w \in Worlds :
       /\ w.kinds \subseteq ConnectionKind /\ w.auths \subseteq AuthType
       /\ None \notin w.values /\ None \notin Complete(w.values)

VARIABLES
  world,    \* the kinds, types and secrets in use, chosen once
  row,      \* each connection's data: its kind, or None
  auth,     \* each connection's credentials, or None
  linked,   \* type of the parameters of the transfer that uses it, or None
  lock,     \* the update that holds the connection's row lock, or None
  req,      \* what each request is doing
  job,      \* what each worker has read
  given     \* history: the credentials clients gave, in order of commit, or
            \* None once an update put back a secret that had been replaced

vars == <<world, row, auth, linked, lock, req, job, given>>

Credentials(secretValues) ==
  UNION {[type : {t}, secrets : [AuthSchema(t).secret -> secretValues]] : t \in world.auths}

Idle == [pc |-> "idle"]

Init ==
  /\ world \in Worlds
  /\ row = [c \in Id |-> None]
  /\ auth = [c \in Id |-> None]
  /\ linked = [c \in Id |-> None]
  /\ lock = [c \in Id |-> None]
  /\ req = [r \in Requests |-> Idle]
  /\ job = [w \in Workers |-> Idle]
  /\ given = [c \in Id |-> None]

Goto(r, state) == req' = [req EXCEPT ![r] = state]

Concerns(state, c) == state.pc # "idle" /\ state.id = c

\* Whoever will combine two queries about c has seen an older state of it than
\* the one that is committed now.
Torn(f, c) ==
  [p \in DOMAIN f |-> IF Concerns(f[p], c) /\ "torn" \in DOMAIN f[p]
                      THEN [f[p] EXCEPT !.torn = TRUE] ELSE f[p]]

\* The next value of the sequence of ids.
NewId ==
  {c \in Id : /\ row[c] = None
              /\ \A r \in Requests : ~Concerns(req[r], c)
              /\ \A w \in Workers : ~Concerns(job[w], c)}

--------------------------------------------------------------------------
(* Endpoints.                                                              *)

\* Answering: the credentials are read again, outside the transaction, and
\* validated together with the row in hand.  wrote: the request changed it.
Answering(c, kind, wrote) ==
  [pc |-> "answer", id |-> c, torn |-> FALSE, kind |-> kind, wrote |-> wrote]

\* create_connection: both rows are inserted in one transaction.
create_connection(r, c, kind, cred) ==
  /\ req[r].pc = "idle"
  /\ c \in NewId
  /\ Accepts(kind, cred.type)
  /\ row' = [row EXCEPT ![c] = kind]
  /\ auth' = [auth EXCEPT ![c] = cred]
  /\ given' = [given EXCEPT ![c] = cred]
  /\ Goto(r, Answering(c, kind, TRUE))
  /\ UNCHANGED <<world, linked, lock, job>>

\* read_connection, and read_connections for each of its items: the row first.
read_connection(r, c) ==
  /\ req[r].pc = "idle"
  /\ row[c] # None
  /\ Goto(r, Answering(c, row[c], FALSE))
  /\ UNCHANGED <<world, row, auth, linked, lock, job, given>>

\* A read without credentials answers with none, the others raise
\* AuthDataNotFoundError; credentials of a type that the row's Read schema
\* does not know end in a validation error (500).
AnswerFails(q) ==
  IF auth[q.id] = None THEN q.wrote ELSE ~ReadAccepts(q.kind, auth[q.id].type)

\* The end of create, read and update, with an answer or an error.
Answer(r) ==
  /\ req[r].pc = "answer"
  /\ Goto(r, Idle)
  /\ UNCHANGED <<world, row, auth, linked, lock, job, given>>

LeftOut(cred) == {f \in DOMAIN cred.secrets : cred.secrets[f] = None}

\* A left out secret is the stored one.
KeepSecrets(cred, left, stored) ==
  [cred EXCEPT !.secrets = [f \in DOMAIN cred.secrets |->
     IF f \in left THEN stored.secrets[f] ELSE cred.secrets[f]]]

\* update_connection up to its first write: ConnectionTypeUpdateError,
\* AuthDataNotFoundError and ConnectionAuthDataUpdateError end it.
update_connection(r, c, kind, cred) ==
  /\ req[r].pc = "idle"
  /\ row[c] # None
  /\ Accepts(kind, cred.type)
  /\ TypeOf(kind) # TypeOf(row[c]) => linked[c] = None
  /\ auth[c] # None
  /\ LeftOut(cred) # {} => cred.type = auth[c].type
  /\ Goto(r, [pc |-> "update", id |-> c, torn |-> FALSE, kind |-> kind, left |-> LeftOut(cred),
              cred |-> KeepSecrets(cred, LeftOut(cred), auth[c])])
  /\ UNCHANGED <<world, row, auth, linked, lock, job, given>>

\* Mutant: the row is committed on its own, before the credentials.
UpdateRowCommits(r) ==
  LET q == req[r]
  IN  /\ q.pc = "update"
      /\ lock[q.id] = None
      /\ IF row[q.id] = None
         THEN Goto(r, Idle) /\ UNCHANGED row
         ELSE Goto(r, [q EXCEPT !.pc = "credentials"]) /\ row' = [row EXCEPT ![q.id] = q.kind]
      /\ UNCHANGED <<world, lock, auth, linked, job, given>>

\* The UPDATE of the connection's row: it waits for the row lock; a row that
\* is gone ends the request (EntityNotFoundError).
UpdateRow(r) ==
  LET q == req[r]
  IN  /\ q.pc = "update"
      /\ lock[q.id] = None
      /\ IF row[q.id] = None
         THEN Goto(r, Idle) /\ UNCHANGED lock
         ELSE Goto(r, [q EXCEPT !.pc = "credentials"]) /\ lock' = [lock EXCEPT ![q.id] = r]
      /\ UNCHANGED <<world, row, auth, linked, job, given>>

\* Mutant: credentials are written only when something was left out.
UpdateSomeCredentials(r) ==
  LET q == req[r]
      c == q.id
  IN  /\ q.pc = "credentials"
      /\ row' = [row EXCEPT ![c] = q.kind]
      /\ auth' = IF q.left # {} \/ q.cred.type # auth[c].type
                 THEN [auth EXCEPT ![c] = q.cred] ELSE auth
      /\ lock' = [lock EXCEPT ![c] = None]
      /\ req' = [Torn(req, c) EXCEPT ![r] = Answering(c, q.kind, TRUE)]
      /\ job' = Torn(job, c)
      /\ given' = [given EXCEPT ![c] = q.cred]
      /\ UNCHANGED <<world, linked>>

\* The UPDATE of the credentials and the COMMIT.
UpdateCredentials(r) ==
  LET q == req[r]
      c == q.id
  IN  /\ q.pc = "credentials"
      /\ row' = [row EXCEPT ![c] = q.kind]
      /\ auth' = [auth EXCEPT ![c] = q.cred]
      /\ lock' = [lock EXCEPT ![c] = None]
      /\ req' = [Torn(req, c) EXCEPT ![r] = Answering(c, q.kind, TRUE)]
      /\ job' = Torn(job, c)
      /\ given' = [given EXCEPT ![c] =
                     IF q.left = {} THEN q.cred
                     ELSE IF q.torn \/ @ = None THEN None
                     ELSE KeepSecrets(q.cred, q.left, @)]
      /\ UNCHANGED <<world, linked>>

\* DELETE of a connection: its credentials and transfers go with it.
Remove(r, c) ==
  /\ lock[c] = None
  /\ auth' = [auth EXCEPT ![c] = None]
  /\ linked' = [linked EXCEPT ![c] = None]
  /\ given' = [given EXCEPT ![c] = None]
  /\ req' = [Torn(req, c) EXCEPT ![r] = Idle]
  /\ job' = Torn(job, c)

\* delete_connection: ConnectionDeleteError while a transfer uses it.
delete_connection(r, c) ==
  /\ req[r].pc = "idle"
  /\ row[c] # None
  /\ linked[c] = None
  /\ Goto(r, [pc |-> "delete", id |-> c])
  /\ UNCHANGED <<world, row, auth, linked, lock, job, given>>

Delete(r) ==
  /\ req[r].pc = "delete"
  /\ row' = [row EXCEPT ![req[r].id] = None]
  /\ Remove(r, req[r].id)
  /\ UNCHANGED <<world, lock>>

\* copy_connection: the row is read, a copy of it inserted, without
\* credentials, and with remove_source the origin deleted, transfers or not.
copy_connection(r, c, remove) ==
  /\ req[r].pc = "idle"
  /\ row[c] # None
  /\ Goto(r, [pc |-> "copy", id |-> c, kind |-> row[c], remove |-> remove])
  /\ UNCHANGED <<world, row, auth, linked, lock, job, given>>

\* A DELETE that finds no row (ConnectionNotFoundError) takes the copy back.
Copy(r, new) ==
  LET q == req[r]
      copied == [row EXCEPT ![new] = q.kind]
  IN  /\ q.pc = "copy"
      /\ new \in NewId
      /\ IF ~q.remove
         THEN /\ row' = copied
              /\ Goto(r, Idle)
              /\ UNCHANGED <<auth, linked, given, job>>
         ELSE /\ row' = IF row[q.id] = None THEN row ELSE [copied EXCEPT ![q.id] = None]
              /\ Remove(r, q.id)
      /\ UNCHANGED <<world, lock>>

\* _raise_error: the INSERT or UPDATE of the row hits a constraint (the name is
\* taken, the group is gone), and the transaction is rolled back.
_raise_error(r) ==
  /\ req[r].pc \in {"copy", "update"}
  /\ Goto(r, Idle)
  /\ UNCHANGED <<world, row, auth, linked, lock, job, given>>

\* create_transfer compares the type of its parameters with the connection's,
\* and inserts the transfer later.
create_transfer(r, c) ==
  /\ req[r].pc = "idle"
  /\ row[c] # None
  /\ linked[c] = None
  /\ Goto(r, [pc |-> "link", id |-> c, type |-> TypeOf(row[c])])
  /\ UNCHANGED <<world, row, auth, linked, lock, job, given>>

\* The foreign key refuses a row that is gone and does not wait for an update.
Link(r) ==
  LET c == req[r].id
  IN  /\ req[r].pc = "link"
      /\ linked' = IF row[c] = None THEN linked ELSE [linked EXCEPT ![c] = req[r].type]
      /\ Goto(r, Idle)
      /\ UNCHANGED <<world, row, auth, lock, job, given>>

delete_transfer(c) ==
  /\ linked[c] # None
  /\ linked' = [linked EXCEPT ![c] = None]
  /\ job' = Torn(job, c)
  /\ UNCHANGED <<world, row, auth, lock, req, given>>

--------------------------------------------------------------------------
(* The worker: run_transfer's queries, in their order.                     *)

\* The run with its transfer, whose parameters name the handler.
LoadTransfer(w, c) ==
  /\ job[w].pc = "idle"
  /\ linked[c] # None
  /\ job' = [job EXCEPT ![w] = [pc |-> "transfer", id |-> c, torn |-> FALSE, type |-> linked[c]]]
  /\ UNCHANGED <<world, row, auth, linked, lock, req, given>>

\* selectinload of the connection; without it the run fails.
LoadConnection(w) ==
  LET j == job[w]
  IN  /\ j.pc = "transfer"
      /\ job' = [job EXCEPT ![w] =
           IF row[j.id] = None THEN Idle
           ELSE [pc |-> "source", id |-> j.id, torn |-> j.torn, type |-> j.type,
                 fields |-> Schema(row[j.id]).data]]
      /\ UNCHANGED <<world, row, auth, linked, lock, req, given>>

\* The fields of get_handler's argument once the credentials are read now: it
\* updates the data in place, so that for one connection on both sides the
\* second update meets the fields of the first.
WithCredentials(j) == j.fields \union AuthFields(auth[j.id].type)

\* .one() finds credentials and get_handler accepts what was read.
JobGoesOn(j) == auth[j.id] # None /\ get_handler(j.type, WithCredentials(j))

\* The credentials of the source, then those of the target; the run goes on
\* with both handlers or fails.
LoadCredentials(w) ==
  LET j == job[w]
  IN  /\ j.pc \in {"source", "target"}
      /\ job' = [job EXCEPT ![w] =
           IF j.pc = "source" /\ JobGoesOn(j)
           THEN [j EXCEPT !.pc = "target", !.fields = WithCredentials(j)]
           ELSE Idle]
      /\ UNCHANGED <<world, row, auth, linked, lock, req, given>>

--------------------------------------------------------------------------
\* Copies are not bounded by MaxRows.
Next ==
  \/ \E r \in Requests :
       \/ \E c \in Id, kind \in world.kinds, cred \in Credentials(world.values) :
            /\ Cardinality({d \in Id : row[d] # None}) < MaxRows
            /\ create_connection(r, c, kind, cred)
       \/ \E c \in Id :
            \/ read_connection(r, c)
            \/ \E kind \in world.kinds, cred \in Credentials(world.values \union {None}) :
                 update_connection(r, c, kind, cred)
            \/ delete_connection(r, c)
            \/ \E remove \in BOOLEAN : copy_connection(r, c, remove)
            \/ Copy(r, c)
            \/ create_transfer(r, c)
       \/ _raise_error(r)
       \/ Answer(r)
       \/ UpdateRow(r)
       \/ UpdateCredentials(r)
       \/ Delete(r)
       \/ Link(r)
  \/ \E c \in Id : delete_transfer(c)
  \/ \E w \in Workers :
       \/ \E c \in Id : LoadTransfer(w, c)
       \/ LoadConnection(w)
       \/ LoadCredentials(w)

Spec == Init /\ [][Next]_vars

--------------------------------------------------------------------------
(* Properties.                                                             *)

\* However updates, copies and deletions of a connection overlap, the
\* credentials stored for it are of a type that its own kind of data needs,
\* complete, and never left behind by a connection that is gone
\* (update_connection and CreateIcebergConnectionSchema's validator).
CredentialsFit ==
  \A c \in Id : auth[c] # None =>
    /\ row[c] # None
    /\ Accepts(row[c], auth[c].type)
    /\ LeftOut(auth[c]) = {}

\* An update that leaves a secret out keeps the secret given last, unless
\* another update of the connection committed after it had read the stored
\* one (update_connection reads the credentials without a lock).
SecretsAreLastGiven ==
  \A c \in Id : given[c] # None => auth[c] = given[c]

\* A worker builds the handlers of a transfer from what it read, for a
\* transfer from a connection to itself too, unless a commit came between its
\* queries, the connection's type is not the transfer's (it was changed while
\* the transfer was created: Resources), or the connection is a copy, which
\* has no credentials (run_transfer, get_handler and every connect).
JobsBuild ==
  \A w \in Workers :
    /\ job[w].pc \in {"source", "target"}
    /\ ~job[w].torn
    /\ job[w].type = TypeOf(row[job[w].id])
    /\ auth[job[w].id] # None
    => JobGoesOn(job[w])

\* The answer to a request fails only when another request's commit came
\* between its own and its answer: a client that is alone is never told that
\* what it did went wrong (create_connection, update_connection and
\* read_connection read the credentials after the transaction).
AnswersFailTorn ==
  \A r \in Requests : req[r].pc = "answer" /\ AnswerFails(req[r]) => req[r].torn

\* Both rows of a connection change as if every endpoint were one step.
Store == INSTANCE ConnectionStore WITH
  Fits <- {p \in ConnectionKind \X AuthType : Accepts(p[1], p[2])}

ImplementsStore == Store!Spec
=============================================================================
