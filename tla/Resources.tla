------------------------------ MODULE Resources ------------------------------
(***************************************************************************)
(* Connections, queues and transfers: tables that belong to groups and     *)
(* refer to each other.  A transfer names two connections and a queue; the *)
(* endpoints check that all of them are of the transfer's group, that the  *)
(* transfer's parameters are of its connections' types, and that nothing   *)
(* in use is deleted.  The database checks the foreign keys only, and      *)
(* deletes the transfers of a deleted connection or queue (ON DELETE       *)
(* CASCADE).                                                               *)
(*                                                                         *)
(* An endpoint that checks and then writes is two steps, its reads and its *)
(* commit, with other requests in between (READ COMMITTED, no row lock).   *)
(* Names and descriptions are left out: a unique constraint refuses a      *)
(* request, which changes nothing.                                         *)
(***************************************************************************)
EXTENDS Integers

CONSTANTS
  Groups, Connections, Queues, Transfers,  \* ids, each used once
  Types,       \* connection types
  Callers,     \* users that send requests
  Access,      \* Access[u][g]: the caller's permission in each group
  Taken,       \* which ids may be taken at the start, by rows that are gone
  Requests,    \* concurrent requests
  None         \* "no value"

READ == 1
WRITE == 2
DELETE == 3

ConnectionRow == [group : Groups, type : Types, auth : BOOLEAN]
TransferRow ==
  [group : Groups, source : Connections, target : Connections,
   source_type : Types, target_type : Types, queue : Queues]

ASSUME ConstantsAssumption ==
  /\ Access \in [Callers -> [Groups -> 0 .. DELETE]]
  /\ None \notin ConnectionRow \cup TransferRow \cup Groups

ASSUME TakenAssumption == Taken \subseteq SUBSET (Connections \cup Queues \cup Transfers)

VARIABLES
  groups,      \* rows of table "group"
  connection,  \* rows of "connection", auth: there is a row in "auth_data"
  queue,       \* group of each row of "queue"
  transfer,    \* rows of "transfer"
  used,        \* ids already taken from the sequences
  req,         \* requests between their reads and their commit
  crossed,     \* history: transfers whose PUT named another group than theirs
  raced        \* history: a request has changed a table during another one

tables == <<groups, connection, queue, transfer, used>>
vars == <<tables, req, crossed, raced>>

Init ==
  /\ groups = Groups
  /\ connection = [c \in Connections |-> None]
  /\ queue = [k \in Queues |-> None]
  /\ transfer = [t \in Transfers |-> None]
  /\ used \in Taken
  /\ req = [q \in Requests |-> None]
  /\ crossed = {}
  /\ raced = FALSE

-----------------------------------------------------------------------------
\* The rows a transfer refers to, through which it is deleted.
UsesConnection(t, cs) == transfer[t] # None /\ {transfer[t].source, transfer[t].target} \cap cs # {}
UsesQueue(t, ks) == transfer[t] # None /\ transfer[t].queue \in ks

\* ON DELETE CASCADE for connections cs, queues ks and groups gs.
Cascade(cs, ks, gs) ==
  [t \in Transfers |->
     IF \/ UsesConnection(t, cs) \/ UsesQueue(t, ks)
        \/ transfer[t] # None /\ transfer[t].group \in gs
     THEN None ELSE transfer[t]]

\* list_by_connection_id.
LinkedTransfers(c) == {t \in Transfers : UsesConnection(t, {c})}

Ask(q, r) == req' = [req EXCEPT ![q] = r] /\ UNCHANGED <<tables, crossed, raced>>

Done(q) == req' = [req EXCEPT ![q] = None]

\* The foreign keys of a transfer's row.
ReferencesExist(row) ==
  /\ row.group \in groups
  /\ connection[row.source] # None
  /\ connection[row.target] # None
  /\ queue[row.queue] # None

-----------------------------------------------------------------------------
(* Connections.                                                            *)

\* create_connection: the connection and its credentials in one transaction.
CreateConnection(u, c, g, type) ==
  /\ c \notin used
  /\ g \in groups
  /\ Access[u][g] >= WRITE
  /\ used' = used \cup {c}
  /\ connection' = [connection EXCEPT ![c] = [group |-> g, type |-> type, auth |-> TRUE]]
  /\ UNCHANGED <<groups, queue, transfer, req, crossed, raced>>

\* Mutant: change the type of a connection that transfers use.
CheckUpdateOfAnyConnection(q, u, c, type) ==
  /\ connection[c] # None
  /\ Access[u][connection[c].group] >= WRITE
  /\ connection[c].auth
  /\ Ask(q, [op |-> "update_connection", id |-> c, type |-> type])

\* update_connection up to the UPDATE: a new type only while no transfer uses
\* the connection; without stored credentials AuthDataNotFoundError is raised.
CheckUpdateConnection(q, u, c, type) ==
  /\ connection[c] # None
  /\ Access[u][connection[c].group] >= WRITE
  /\ type # connection[c].type => LinkedTransfers(c) = {}
  /\ connection[c].auth
  /\ Ask(q, [op |-> "update_connection", id |-> c, type |-> type])

\* The UPDATE of the connection and of its credentials.
UpdateConnection(q) ==
  LET r == req[q] IN
  /\ r # None
  /\ r.op = "update_connection"
  /\ connection' = IF connection[r.id] = None THEN connection
                   ELSE [connection EXCEPT ![r.id].type = r.type]
  /\ Done(q)
  /\ UNCHANGED <<crossed, groups, queue, transfer, used>>

\* Mutant: delete a connection whatever uses it.
CheckDeleteOfAnyConnection(q, u, c) ==
  /\ connection[c] # None
  /\ Access[u][connection[c].group] >= DELETE
  /\ Ask(q, [op |-> "delete_connection", id |-> c])

\* delete_connection: ConnectionDeleteError while transfers use it.
CheckDeleteConnection(q, u, c) ==
  /\ connection[c] # None
  /\ Access[u][connection[c].group] >= DELETE
  /\ LinkedTransfers(c) = {}
  /\ Ask(q, [op |-> "delete_connection", id |-> c])

\* The DELETE, with its cascade.
DeleteConnection(q) ==
  LET r == req[q] IN
  /\ r # None
  /\ r.op = "delete_connection"
  /\ connection' = [connection EXCEPT ![r.id] = None]
  /\ transfer' = Cascade({r.id}, {}, {})
  /\ Done(q)
  /\ UNCHANGED <<crossed, groups, queue, used>>

\* copy_connection: the copy has no credentials; with remove_source the
\* original is deleted in the same transaction, without a look at transfers.
CopyConnection(u, c, new, g, remove) ==
  /\ connection[c] # None
  /\ Access[u][connection[c].group] >= (IF remove THEN DELETE ELSE READ)
  /\ g \in groups
  /\ Access[u][g] >= WRITE
  /\ new \notin used
  /\ used' = used \cup {new}
  /\ connection' = [connection EXCEPT
       ![new] = [group |-> g, type |-> connection[c].type, auth |-> FALSE],
       ![c] = IF remove THEN None ELSE @]
  /\ transfer' = IF remove THEN Cascade({c}, {}, {}) ELSE transfer
  /\ UNCHANGED <<groups, queue, req, crossed, raced>>

-----------------------------------------------------------------------------
(* Queues.  update_queue changes a name and a description only.            *)

\* create_queue.
CreateQueue(u, k, g) ==
  /\ k \notin used
  /\ g \in groups
  /\ Access[u][g] >= DELETE
  /\ used' = used \cup {k}
  /\ queue' = [queue EXCEPT ![k] = g]
  /\ UNCHANGED <<groups, connection, transfer, req, crossed, raced>>

\* Mutant: delete a queue whatever uses it.
CheckDeleteOfAnyQueue(q, u, k) ==
  /\ queue[k] # None
  /\ Access[u][queue[k]] >= DELETE
  /\ Ask(q, [op |-> "delete_queue", id |-> k])

\* delete_queue: QueueDeleteError while transfers of the queue's group use it.
CheckDeleteQueue(q, u, k) ==
  /\ queue[k] # None
  /\ Access[u][queue[k]] >= DELETE
  /\ \A t \in Transfers : UsesQueue(t, {k}) => transfer[t].group # queue[k]
  /\ Ask(q, [op |-> "delete_queue", id |-> k])

\* The DELETE, with its cascade.
DeleteQueue(q) ==
  LET r == req[q] IN
  /\ r # None
  /\ r.op = "delete_queue"
  /\ queue' = [queue EXCEPT ![r.id] = None]
  /\ transfer' = Cascade({}, {r.id}, {})
  /\ Done(q)
  /\ UNCHANGED <<crossed, groups, connection, used>>

-----------------------------------------------------------------------------
(* Transfers.                                                              *)

\* Mutant: the queue's group is not compared.
BodyAgreesButForQueue(row) ==
  /\ connection[row.source] # None
  /\ connection[row.target] # None
  /\ queue[row.queue] # None
  /\ {connection[row.source].group, connection[row.target].group} = {row.group}
  /\ connection[row.target].type = row.target_type
  /\ connection[row.source].type = row.source_type

\* What create_transfer and update_transfer ask of the request body.
BodyAgrees(row) ==
  /\ connection[row.source] # None
  /\ connection[row.target] # None
  /\ queue[row.queue] # None
  /\ {connection[row.source].group, connection[row.target].group} = {row.group}
  /\ connection[row.target].type = row.target_type
  /\ connection[row.source].type = row.source_type
  /\ queue[row.queue] = row.group

\* create_transfer up to the unit of work.
CheckCreateTransfer(q, u, row) ==
  /\ row.group \in groups
  /\ Access[u][row.group] >= WRITE
  /\ BodyAgrees(row)
  /\ Ask(q, [op |-> "create_transfer", row |-> row])

\* The INSERT; the id is taken from the sequence.
CreateTransfer(q, t) ==
  LET r == req[q] IN
  /\ r # None
  /\ r.op = "create_transfer"
  /\ ReferencesExist(r.row)
  /\ t \notin used
  /\ used' = used \cup {t}
  /\ transfer' = [transfer EXCEPT ![t] = r.row]
  /\ Done(q)
  /\ UNCHANGED <<crossed, groups, connection, queue>>

\* update_transfer compares the connections and the queue with the group_id of
\* the body, which is not stored; the transfer's own group is not looked at.
CheckUpdateTransfer(q, u, t, row) ==
  /\ transfer[t] # None
  /\ Access[u][transfer[t].group] >= WRITE
  /\ BodyAgrees(row)
  /\ Access[u][row.group] >= READ
  /\ Ask(q, [op |-> "update_transfer", id |-> t, row |-> row])

\* The UPDATE; a row that is gone, or a reference that is, rolls it back.
UpdateTransfer(q) ==
  LET r == req[q]
      new == [r.row EXCEPT !.group = transfer[r.id].group] IN
  /\ r # None
  /\ r.op = "update_transfer"
  /\ IF transfer[r.id] # None /\ ReferencesExist(new)
       THEN /\ transfer' = [transfer EXCEPT ![r.id] = new]
            /\ crossed' = IF r.row.group = new.group THEN crossed \ {r.id}
                                                     ELSE crossed \cup {r.id}
       ELSE UNCHANGED <<transfer, crossed>>
  /\ Done(q)
  /\ UNCHANGED <<groups, connection, queue, used>>

\* delete_transfer.
DeleteTransfer(u, t) ==
  /\ transfer[t] # None
  /\ Access[u][transfer[t].group] >= DELETE
  /\ transfer' = [transfer EXCEPT ![t] = None]
  /\ UNCHANGED <<groups, connection, queue, used, req, crossed, raced>>

\* copy_transfer up to the unit of work; the transfer object it has read stays
\* in the session and is what will be copied.
CheckCopyTransfer(q, u, t, g, k, remove) ==
  /\ transfer[t] # None
  /\ Access[u][transfer[t].group] >= (IF remove THEN DELETE ELSE READ)
  /\ g \in groups
  /\ Access[u][g] >= WRITE
  /\ \A c \in {transfer[t].source, transfer[t].target} : Access[u][connection[c].group] >= READ
  /\ queue[k] = g
  /\ Ask(q, [op |-> "copy_transfer", id |-> t, remove |-> remove,
             row |-> [transfer[t] EXCEPT !.group = g, !.queue = k]])

\* The copies of both connections (one when they are the same) and of the
\* transfer are inserted, and with remove_source the original is deleted.
CopyTransfer(q, new, source, target) ==
  LET r == req[q]
      copy(c) == [group |-> r.row.group, type |-> connection[c].type, auth |-> FALSE] IN
  /\ r # None
  /\ r.op = "copy_transfer"
  /\ transfer[r.id] # None
  /\ ReferencesExist(r.row)
  /\ {new, source, target} \cap used = {}
  /\ source = target <=> r.row.source = r.row.target
  /\ used' = used \cup {new, source, target}
  /\ connection' = [connection EXCEPT ![source] = copy(r.row.source),
                                      ![target] = copy(r.row.target)]
  /\ transfer' = [transfer EXCEPT
       ![new] = [r.row EXCEPT !.source = source, !.target = target],
       ![r.id] = IF r.remove THEN None ELSE @]
  /\ Done(q)
  /\ UNCHANGED <<crossed, groups, queue>>

\* Something that the insert or the copy refers to was deleted meanwhile:
\* rolled back.
InsertRefused(q) ==
  LET r == req[q] IN
  /\ r # None
  /\ \/ r.op = "create_transfer"
     \/ r.op = "copy_transfer" /\ transfer[r.id] # None
  /\ ~ReferencesExist(r.row)
  /\ Done(q)
  /\ UNCHANGED <<tables, crossed>>

\* The transfer to be copied is gone.
CopyRefused(q) ==
  LET r == req[q] IN
  /\ r # None
  /\ r.op = "copy_transfer"
  /\ transfer[r.id] = None
  /\ Done(q)
  /\ UNCHANGED <<tables, crossed>>

-----------------------------------------------------------------------------
\* delete_group, by a superuser: everything in the group goes with it.
DeleteGroup(g) ==
  LET cs == {c \in Connections : connection[c] # None /\ connection[c].group = g}
      ks == {k \in Queues : queue[k] = g} IN
  /\ g \in groups
  /\ groups' = groups \ {g}
  /\ connection' = [c \in Connections |-> IF c \in cs THEN None ELSE connection[c]]
  /\ queue' = [k \in Queues |-> IF k \in ks THEN None ELSE queue[k]]
  /\ transfer' = Cascade(cs, ks, {g})
  /\ UNCHANGED <<used, req, crossed, raced>>

-----------------------------------------------------------------------------
Check(q, u) ==
  /\ req[q] = None
  /\ \/ \E c \in Connections, type \in Types : CheckUpdateConnection(q, u, c, type)
     \/ \E c \in Connections : CheckDeleteConnection(q, u, c)
     \/ \E k \in Queues : CheckDeleteQueue(q, u, k)
     \/ \E row \in TransferRow : CheckCreateTransfer(q, u, row)
     \/ \E t \in Transfers, row \in TransferRow : CheckUpdateTransfer(q, u, t, row)
     \/ \E t \in Transfers, g \in Groups, k \in Queues, remove \in BOOLEAN :
          CheckCopyTransfer(q, u, t, g, k, remove)

Commit(q) ==
  \/ UpdateConnection(q)
  \/ DeleteConnection(q)
  \/ DeleteQueue(q)
  \/ \E t \in Transfers : CreateTransfer(q, t)
  \/ UpdateTransfer(q)
  \/ \E new \in Transfers, source, target \in Connections : CopyTransfer(q, new, source, target)
  \/ InsertRefused(q)
  \/ CopyRefused(q)

\* A commit of q changes a table while another request is between its checks and
\* its commit.
Races(q) ==
  raced' = \/ raced
           \/ tables' # tables /\ \E p \in Requests \ {q} : req[p] # None

Finish(q) == Commit(q) /\ Races(q)

AtOnce(u) ==
  \/ \E c \in Connections, g \in Groups, type \in Types : CreateConnection(u, c, g, type)
  \/ \E c, new \in Connections, g \in Groups, remove \in BOOLEAN :
       CopyConnection(u, c, new, g, remove)
  \/ \E k \in Queues, g \in Groups : CreateQueue(u, k, g)
  \/ \E t \in Transfers : DeleteTransfer(u, t)

Next ==
  \/ \E q \in Requests, u \in Callers : Check(q, u)
  \/ \E q \in Requests : Finish(q)
  \/ \E u \in Callers : AtOnce(u)
  \/ \E g \in Groups : DeleteGroup(g)

Spec == Init /\ [][Next]_vars

-----------------------------------------------------------------------------
(* Properties.                                                             *)

\* A request that has made its checks.
Request ==
  [op : {"update_connection"}, id : Connections, type : Types]
    \cup [op : {"delete_connection"}, id : Connections]
    \cup [op : {"delete_queue"}, id : Queues]
    \cup [op : {"create_transfer"}, row : TransferRow]
    \cup [op : {"update_transfer"}, id : Transfers, row : TransferRow]
    \cup [op : {"copy_transfer"}, id : Transfers, remove : BOOLEAN, row : TransferRow]

\* Type invariant of the tables and of the requests in progress.
TypeOK ==
  /\ groups \subseteq Groups
  /\ connection \in [Connections -> ConnectionRow \cup {None}]
  /\ queue \in [Queues -> Groups \cup {None}]
  /\ transfer \in [Transfers -> TransferRow \cup {None}]
  /\ used \subseteq Connections \cup Queues \cup Transfers
  /\ req \in [Requests -> Request \cup {None}]
  /\ crossed \subseteq Transfers
  /\ raced \in BOOLEAN

\* "Connections should belong to the transfer group", "Queue should belong to
\* the transfer group": whatever requests overlap, a transfer's connections and
\* its queue exist and are of its group, unless the last PUT /transfers/{id}
\* named another group.
GroupsAgree ==
  \A t \in Transfers : transfer[t] # None =>
    /\ ReferencesExist(transfer[t])
    /\ t \notin crossed =>
         /\ connection[transfer[t].source].group = transfer[t].group
         /\ connection[transfer[t].target].group = transfer[t].group
         /\ queue[transfer[t].queue] = transfer[t].group

\* "You cannot update the connection type of a connection already associated
\* with a transfer": a transfer's parameters are of the types of its
\* connections (the worker reads the one with the other), until some request
\* commits between another's checks and its commit.
TypesAgree ==
  ~raced => \A t \in Transfers : transfer[t] # None =>
    /\ connection[transfer[t].source].type = transfer[t].source_type
    /\ connection[transfer[t].target].type = transfer[t].target_type

\* "The connection has an associated transfers": a connection that a transfer
\* uses is not removed, unless its whole group is or it is moved by a copy with
\* remove_source (the only step that takes an id and removes a row), until some
\* request commits between another's checks and its commit.
LinkedConnectionStays ==
  [][~raced /\ groups' = groups /\ used' = used => \A c \in Connections :
       connection[c] # None /\ connection'[c] = None => LinkedTransfers(c) = {}]_vars

\* "The queue has an associated transfers(s)": a queue that a transfer uses is
\* not removed, unless its whole group is or the transfer's PUT named another
\* group, until some request commits between another's checks and its commit.
LinkedQueueStays ==
  [][~raced /\ groups' = groups => \A k \in Queues :
       queue[k] # None /\ queue'[k] = None =>
         \A t \in Transfers \ crossed : ~UsesQueue(t, {k})]_vars
=============================================================================
