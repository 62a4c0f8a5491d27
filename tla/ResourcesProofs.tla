--------------------------- MODULE ResourcesProofs ---------------------------
(***************************************************************************)
(* A transfer's connections and queue exist and are of its group, for any  *)
(* number of groups, rows and overlapping requests, unless its last PUT    *)
(* named another group; its parameters are of the types of its connections *)
(* until requests race, and until then no deletion takes a connection or a *)
(* queue that a transfer uses.                                             *)
(***************************************************************************)
EXTENDS Resources, TLAPS

\* Rows have ids that were taken from a sequence.
UsedInv ==
  /\ \A c \in Connections : connection[c] # None => c \in used
  /\ \A k \in Queues : queue[k] # None => k \in used
  /\ \A t \in Transfers : transfer[t] # None => t \in used

\* The connection, while it exists, is of group g; its id is not free.
ConnectionOf(c, g) == c \in used /\ (connection[c] # None => connection[c].group = g)
QueueOf(k, g) == k \in used /\ (queue[k] # None => queue[k] = g)

\* What a request has checked about groups remains so until it commits: no row
\* ever changes its group and no id is used again.
Checked(r) == r # None =>
  /\ r.op \in {"create_transfer", "update_transfer"} =>
       ConnectionOf(r.row.source, r.row.group) /\ ConnectionOf(r.row.target, r.row.group)
  /\ r.op \in {"create_transfer", "update_transfer", "copy_transfer"} =>
       QueueOf(r.row.queue, r.row.group)

\* Every request.
CheckedInv == \A q \in Requests : Checked(req[q])

\* The inductive invariant of groups.
GroupInv == TypeOK /\ UsedInv /\ CheckedInv /\ GroupsAgree

\* No row changes its group and no id is used again.
KeepsGroups ==
  /\ used \subseteq used'
  /\ \A c \in Connections : c \in used /\ connection'[c] # None =>
       connection[c] # None /\ connection'[c].group = connection[c].group
  /\ \A k \in Queues : k \in used /\ queue'[k] # None => queue'[k] = queue[k]
  /\ \A t \in Transfers : t \in used /\ transfer'[t] # None =>
       transfer[t] # None /\ transfer'[t].group = transfer[t].group

\* What the operation of a request says about its other fields.
LEMMA RequestFields ==
  ASSUME TypeOK, NEW q \in Requests, req[q] # None
  PROVE  /\ req[q].op = "update_connection" => req[q].id \in Connections /\ req[q].type \in Types
         /\ req[q].op = "delete_connection" => req[q].id \in Connections
         /\ req[q].op = "delete_queue" => req[q].id \in Queues
         /\ req[q].op = "create_transfer" => req[q].row \in TransferRow
         /\ req[q].op = "update_transfer" => req[q].id \in Transfers /\ req[q].row \in TransferRow
         /\ req[q].op = "copy_transfer" =>
              req[q].id \in Transfers /\ req[q].row \in TransferRow /\ req[q].remove \in BOOLEAN
<1>1. req[q] \in Request
  BY DEF TypeOK
<1>2. QED
  BY <1>1 DEF Request

\* The initial state satisfies the inductive invariant.
LEMMA GroupInit == Init => GroupInv
  BY ConstantsAssumption, TakenAssumption DEF Init, GroupInv, TypeOK, UsedInv, CheckedInv, Checked, GroupsAgree

\* Every step preserves the type invariant.
LEMMA TypeStep == TypeOK /\ [Next]_vars => TypeOK'
<1> SUFFICES ASSUME TypeOK, [Next]_vars PROVE TypeOK'
  OBVIOUS
<1> USE ConstantsAssumption, RequestFields DEF TypeOK
<1>0. ASSUME NEW q \in Requests, Races(q) PROVE raced' \in BOOLEAN
  BY <1>0 DEF Races
<1>1. ASSUME NEW q \in Requests, NEW u \in Callers, NEW c \in Connections, NEW type \in Types,
             CheckUpdateConnection(q, u, c, type)
      PROVE  TypeOK'
  BY <1>1 DEF Ask, tables, CheckUpdateConnection, Request, Cascade, ReferencesExist, ConnectionRow, TransferRow
<1>2. ASSUME NEW q \in Requests, NEW u \in Callers, NEW c \in Connections,
             CheckDeleteConnection(q, u, c)
      PROVE  TypeOK'
  BY <1>2 DEF Ask, tables, CheckDeleteConnection, Request, Cascade, ReferencesExist, ConnectionRow, TransferRow
<1>3. ASSUME NEW q \in Requests, NEW u \in Callers, NEW k \in Queues,
             CheckDeleteQueue(q, u, k)
      PROVE  TypeOK'
  BY <1>3 DEF Ask, tables, CheckDeleteQueue, Request, Cascade, ReferencesExist, ConnectionRow, TransferRow
<1>4. ASSUME NEW q \in Requests, NEW u \in Callers, NEW row \in TransferRow,
             CheckCreateTransfer(q, u, row)
      PROVE  TypeOK'
  BY <1>4 DEF Ask, tables, CheckCreateTransfer, Request, Cascade, ReferencesExist, ConnectionRow, TransferRow
<1>5. ASSUME NEW q \in Requests, NEW u \in Callers, NEW t \in Transfers, NEW row \in TransferRow,
             CheckUpdateTransfer(q, u, t, row)
      PROVE  TypeOK'
  BY <1>5 DEF Ask, tables, CheckUpdateTransfer, Request, Cascade, ReferencesExist, ConnectionRow, TransferRow
<1>6. ASSUME NEW q \in Requests, NEW u \in Callers, NEW t \in Transfers, NEW g \in Groups, NEW k \in Queues, NEW remove \in BOOLEAN,
             CheckCopyTransfer(q, u, t, g, k, remove)
      PROVE  TypeOK'
  <2>1. [transfer[t] EXCEPT !.group = g, !.queue = k] \in TransferRow
    BY <1>6 DEF CheckCopyTransfer, TransferRow
  <2>2. [op |-> "copy_transfer", id |-> t, remove |-> remove,
         row |-> [transfer[t] EXCEPT !.group = g, !.queue = k]] \in Request
    BY <2>1 DEF Request
  <2>3. QED
    BY <1>6, <2>2 DEF Ask, tables, CheckCopyTransfer
<1>7. ASSUME NEW q \in Requests,
             UpdateConnection(q), Races(q)
      PROVE  TypeOK'
  BY <1>0, <1>7 DEF Done, tables, UpdateConnection, Request, Cascade, ReferencesExist, ConnectionRow, TransferRow
<1>8. ASSUME NEW q \in Requests,
             DeleteConnection(q), Races(q)
      PROVE  TypeOK'
  BY <1>0, <1>8 DEF Done, tables, DeleteConnection, Request, Cascade, ReferencesExist, ConnectionRow, TransferRow
<1>9. ASSUME NEW q \in Requests,
             DeleteQueue(q), Races(q)
      PROVE  TypeOK'
  BY <1>0, <1>9 DEF Done, tables, DeleteQueue, Request, Cascade, ReferencesExist, ConnectionRow, TransferRow
<1>10. ASSUME NEW q \in Requests, NEW t \in Transfers,
             CreateTransfer(q, t), Races(q)
      PROVE  TypeOK'
  BY <1>0, <1>10 DEF Done, tables, CreateTransfer, Request, Cascade, ReferencesExist, ConnectionRow, TransferRow
<1>11. ASSUME NEW q \in Requests,
             UpdateTransfer(q), Races(q)
      PROVE  TypeOK'
  <2> DEFINE r == req[q]
             new == [r.row EXCEPT !.group = transfer[r.id].group]
  <2>1. r.id \in Transfers /\ r.row \in TransferRow
    BY <1>11 DEF UpdateTransfer
  <2>2. transfer[r.id] # None => new \in TransferRow
    BY <2>1 DEF TransferRow
  <2>3. transfer' \in [Transfers -> TransferRow \cup {None}]
    BY <1>11, <2>1, <2>2 DEF UpdateTransfer
  <2>4. crossed' \subseteq Transfers
    BY <1>11, <2>1 DEF UpdateTransfer
  <2>5. QED
    BY <1>0, <1>11, <2>3, <2>4 DEF Done, UpdateTransfer
<1>12. ASSUME NEW q \in Requests, NEW new \in Transfers, NEW source \in Connections, NEW target \in Connections,
             CopyTransfer(q, new, source, target), Races(q)
      PROVE  TypeOK'
  <2> DEFINE r == req[q]
             copy(c) == [group |-> r.row.group, type |-> connection[c].type, auth |-> FALSE]
             new_row == [r.row EXCEPT !.source = source, !.target = target]
  <2>1. r.id \in Transfers /\ r.row \in TransferRow /\ r.remove \in BOOLEAN
    BY <1>12 DEF CopyTransfer
  <2>2. new_row \in TransferRow
    BY <2>1 DEF TransferRow
  <2>3. copy(r.row.source) \in ConnectionRow /\ copy(r.row.target) \in ConnectionRow
    BY <1>12, <2>1 DEF CopyTransfer, ReferencesExist, ConnectionRow, TransferRow
  <2>4. connection' = [connection EXCEPT ![source] = copy(r.row.source), ![target] = copy(r.row.target)]
    BY <1>12 DEF CopyTransfer
  <2>5. transfer' = [transfer EXCEPT ![new] = new_row, ![r.id] = IF r.remove THEN None ELSE @]
    BY <1>12 DEF CopyTransfer
  <2>6. UNCHANGED <<groups, queue, crossed>> /\ used' = used \cup {new, source, target}
          /\ req' = [req EXCEPT ![q] = None]
    BY <1>12 DEF CopyTransfer, Done
  <2> HIDE DEF copy, new_row, r
  <2>7. QED
    BY <1>0, <1>12, <2>1, <2>2, <2>3, <2>4, <2>5, <2>6
<1>13. ASSUME NEW q \in Requests,
             InsertRefused(q), Races(q)
      PROVE  TypeOK'
  BY <1>0, <1>13 DEF Done, tables, InsertRefused, Request, Cascade, ReferencesExist, ConnectionRow, TransferRow
<1>14. ASSUME NEW q \in Requests,
             CopyRefused(q), Races(q)
      PROVE  TypeOK'
  BY <1>0, <1>14 DEF Done, tables, CopyRefused, Request, Cascade, ReferencesExist, ConnectionRow, TransferRow
<1>15. ASSUME NEW u \in Callers, NEW c \in Connections, NEW g \in Groups, NEW type \in Types,
             CreateConnection(u, c, g, type)
      PROVE  TypeOK'
  BY <1>15 DEF CreateConnection, Request, Cascade, ReferencesExist, ConnectionRow, TransferRow
<1>16. ASSUME NEW u \in Callers, NEW c \in Connections, NEW new \in Connections, NEW g \in Groups, NEW remove \in BOOLEAN,
             CopyConnection(u, c, new, g, remove)
      PROVE  TypeOK'
  BY <1>16 DEF CopyConnection, Request, Cascade, ReferencesExist, ConnectionRow, TransferRow
<1>17. ASSUME NEW u \in Callers, NEW k \in Queues, NEW g \in Groups,
             CreateQueue(u, k, g)
      PROVE  TypeOK'
  BY <1>17 DEF CreateQueue, Request, Cascade, ReferencesExist, ConnectionRow, TransferRow
<1>18. ASSUME NEW u \in Callers, NEW t \in Transfers,
             DeleteTransfer(u, t)
      PROVE  TypeOK'
  BY <1>18 DEF DeleteTransfer, Request, Cascade, ReferencesExist, ConnectionRow, TransferRow
<1>19. ASSUME NEW g \in Groups, DeleteGroup(g) PROVE TypeOK'
  BY <1>19 DEF DeleteGroup, Request, Cascade, ReferencesExist, ConnectionRow, TransferRow
<1>20. CASE UNCHANGED vars
  BY <1>20 DEF vars, tables, Request, Cascade, ReferencesExist, ConnectionRow, TransferRow
<1>21. QED
  BY <1>1, <1>2, <1>3, <1>4, <1>5, <1>6, <1>7, <1>8, <1>9, <1>10, <1>11, <1>12, <1>13, <1>14, <1>15, <1>16, <1>17, <1>18, <1>19, <1>20
     DEF Next, Check, Finish, Commit, AtOnce

\* The tables and the requests keep their types.
THEOREM TypeCorrect == Spec => []TypeOK
<1>1. Init => TypeOK
  BY GroupInit DEF GroupInv
<1>2. QED
  BY <1>1, TypeStep, PTL DEF Spec

\* Every step keeps ids and groups.
LEMMA KeepsStep == TypeOK /\ UsedInv /\ [Next]_vars => KeepsGroups /\ UsedInv'
<1> DEFINE Goal == KeepsGroups /\ UsedInv'
<1> SUFFICES ASSUME TypeOK, UsedInv, [Next]_vars PROVE Goal
  OBVIOUS
<1> USE ConstantsAssumption, RequestFields DEF TypeOK, UsedInv, KeepsGroups
<1>1. ASSUME NEW q \in Requests, NEW u \in Callers, NEW c \in Connections, NEW type \in Types,
             CheckUpdateConnection(q, u, c, type)
      PROVE  Goal
  BY <1>1 DEF Ask, tables, CheckUpdateConnection, Cascade, ReferencesExist, ConnectionRow, TransferRow
<1>2. ASSUME NEW q \in Requests, NEW u \in Callers, NEW c \in Connections,
             CheckDeleteConnection(q, u, c)
      PROVE  Goal
  BY <1>2 DEF Ask, tables, CheckDeleteConnection, Cascade, ReferencesExist, ConnectionRow, TransferRow
<1>3. ASSUME NEW q \in Requests, NEW u \in Callers, NEW k \in Queues,
             CheckDeleteQueue(q, u, k)
      PROVE  Goal
  BY <1>3 DEF Ask, tables, CheckDeleteQueue, Cascade, ReferencesExist, ConnectionRow, TransferRow
<1>4. ASSUME NEW q \in Requests, NEW u \in Callers, NEW row \in TransferRow,
             CheckCreateTransfer(q, u, row)
      PROVE  Goal
  BY <1>4 DEF Ask, tables, CheckCreateTransfer, Cascade, ReferencesExist, ConnectionRow, TransferRow
<1>5. ASSUME NEW q \in Requests, NEW u \in Callers, NEW t \in Transfers, NEW row \in TransferRow,
             CheckUpdateTransfer(q, u, t, row)
      PROVE  Goal
  BY <1>5 DEF Ask, tables, CheckUpdateTransfer, Cascade, ReferencesExist, ConnectionRow, TransferRow
<1>6. ASSUME NEW q \in Requests, NEW u \in Callers, NEW t \in Transfers, NEW g \in Groups, NEW k \in Queues, NEW remove \in BOOLEAN,
             CheckCopyTransfer(q, u, t, g, k, remove)
      PROVE  Goal
  BY <1>6 DEF Ask, tables, CheckCopyTransfer, Cascade, ReferencesExist, ConnectionRow, TransferRow
<1>7. ASSUME NEW q \in Requests,
             UpdateConnection(q)
      PROVE  Goal
  BY <1>7 DEF Done, tables, UpdateConnection, Cascade, ReferencesExist, ConnectionRow, TransferRow
<1>8. ASSUME NEW q \in Requests,
             DeleteConnection(q)
      PROVE  Goal
  BY <1>8 DEF Done, tables, DeleteConnection, Cascade, ReferencesExist, ConnectionRow, TransferRow
<1>9. ASSUME NEW q \in Requests,
             DeleteQueue(q)
      PROVE  Goal
  BY <1>9 DEF Done, tables, DeleteQueue, Cascade, ReferencesExist, ConnectionRow, TransferRow
<1>10. ASSUME NEW q \in Requests, NEW t \in Transfers,
             CreateTransfer(q, t)
      PROVE  Goal
  BY <1>10 DEF Done, tables, CreateTransfer, Cascade, ReferencesExist, ConnectionRow, TransferRow
<1>11. ASSUME NEW q \in Requests,
             UpdateTransfer(q)
      PROVE  Goal
  BY <1>11 DEF Done, tables, UpdateTransfer, Cascade, ReferencesExist, ConnectionRow, TransferRow
<1>12. ASSUME NEW q \in Requests, NEW new \in Transfers, NEW source \in Connections, NEW target \in Connections,
             CopyTransfer(q, new, source, target)
      PROVE  Goal
  BY <1>12 DEF Done, tables, CopyTransfer, Cascade, ReferencesExist, ConnectionRow, TransferRow
<1>13. ASSUME NEW q \in Requests,
             InsertRefused(q)
      PROVE  Goal
  BY <1>13 DEF Done, tables, InsertRefused, Cascade, ReferencesExist, ConnectionRow, TransferRow
<1>14. ASSUME NEW q \in Requests,
             CopyRefused(q)
      PROVE  Goal
  BY <1>14 DEF Done, tables, CopyRefused, Cascade, ReferencesExist, ConnectionRow, TransferRow
<1>15. ASSUME NEW u \in Callers, NEW c \in Connections, NEW g \in Groups, NEW type \in Types,
             CreateConnection(u, c, g, type)
      PROVE  Goal
  BY <1>15 DEF CreateConnection, Cascade, ReferencesExist, ConnectionRow, TransferRow
<1>16. ASSUME NEW u \in Callers, NEW c \in Connections, NEW new \in Connections, NEW g \in Groups, NEW remove \in BOOLEAN,
             CopyConnection(u, c, new, g, remove)
      PROVE  Goal
  BY <1>16 DEF CopyConnection, Cascade, ReferencesExist, ConnectionRow, TransferRow
<1>17. ASSUME NEW u \in Callers, NEW k \in Queues, NEW g \in Groups,
             CreateQueue(u, k, g)
      PROVE  Goal
  BY <1>17 DEF CreateQueue, Cascade, ReferencesExist, ConnectionRow, TransferRow
<1>18. ASSUME NEW u \in Callers, NEW t \in Transfers,
             DeleteTransfer(u, t)
      PROVE  Goal
  BY <1>18 DEF DeleteTransfer, Cascade, ReferencesExist, ConnectionRow, TransferRow
<1>19. ASSUME NEW g \in Groups, DeleteGroup(g) PROVE Goal
  BY <1>19 DEF DeleteGroup, Cascade, ReferencesExist, ConnectionRow, TransferRow
<1>20. CASE UNCHANGED vars
  BY <1>20 DEF vars, tables, Cascade, ReferencesExist, ConnectionRow, TransferRow
<1>21. QED
  BY <1>1, <1>2, <1>3, <1>4, <1>5, <1>6, <1>7, <1>8, <1>9, <1>10, <1>11, <1>12, <1>13, <1>14, <1>15, <1>16, <1>17, <1>18, <1>19, <1>20
     DEF Next, Check, Finish, Commit, AtOnce

\* What a request has checked stays true while it waits.
LEMMA Persists ==
  ASSUME TypeOK, KeepsGroups, NEW r \in Request \cup {None}, Checked(r)
  PROVE  Checked(r)'
<1> USE DEF KeepsGroups, Checked, ConnectionOf, QueueOf, TransferRow
<1>1. CASE r \in [op : {"create_transfer"}, row : TransferRow]
  BY <1>1
<1>2. CASE r \in [op : {"update_transfer"}, id : Transfers, row : TransferRow]
  BY <1>2
<1>3. CASE r \in [op : {"copy_transfer"}, id : Transfers, remove : BOOLEAN, row : TransferRow]
  BY <1>3
<1>4. QED
  BY <1>1, <1>2, <1>3 DEF Request

\* A step that gives one request the value r, for which the checks hold, and
\* leaves the others alone, preserves the invariant.
LEMMA OneRequest ==
  ASSUME TypeOK, TypeOK', CheckedInv, KeepsGroups, NEW q \in Requests,
         NEW r \in Request \cup {None}, req' = [req EXCEPT ![q] = r], Checked(r)
  PROVE  CheckedInv'
<1> SUFFICES ASSUME NEW p \in Requests PROVE Checked(req[p])'
  BY DEF CheckedInv
<1>1. PICK s \in Request \cup {None} : s = req'[p]
  BY DEF TypeOK
<1>2. Checked(s)
  BY <1>1 DEF CheckedInv, TypeOK
<1>3. Checked(s)'
  BY <1>2, Persists
<1>4. QED
  BY <1>1, <1>3 DEF Checked, ConnectionOf, QueueOf

\* Every step preserves what requests have checked.
LEMMA CheckedStep ==
  TypeOK /\ UsedInv /\ GroupsAgree /\ CheckedInv /\ KeepsGroups /\ TypeOK' /\ [Next]_vars
    => CheckedInv'
<1> SUFFICES ASSUME TypeOK, UsedInv, GroupsAgree, CheckedInv, KeepsGroups, TypeOK', [Next]_vars
             PROVE  CheckedInv'
  OBVIOUS
<1>a. ASSUME UNCHANGED req PROVE CheckedInv'
  <2> SUFFICES ASSUME NEW p \in Requests PROVE Checked(req[p])'
    BY DEF CheckedInv
  <2>1. PICK s \in Request \cup {None} : s = req[p]
    BY DEF TypeOK
  <2>2. Checked(s)'
    BY <2>1, Persists DEF CheckedInv
  <2>3. QED
    BY <1>a, <2>1, <2>2 DEF Checked, ConnectionOf, QueueOf
<1>b. ASSUME NEW q \in Requests, Done(q) PROVE CheckedInv'
  BY <1>b, OneRequest DEF Done, Checked
<1>1. ASSUME NEW q \in Requests, NEW u \in Callers, NEW c \in Connections, NEW type \in Types,
             CheckUpdateConnection(q, u, c, type)
      PROVE  CheckedInv'
  <2> DEFINE r == [op |-> "update_connection", id |-> c, type |-> type]
  <2>1. r \in Request
    BY DEF Request, TransferRow, TypeOK
  <2>2. Checked(r)
    BY <1>1 DEF Ask, CheckUpdateConnection, Checked, ConnectionOf, QueueOf, UsedInv, BodyAgrees, TransferRow
  <2>3. req' = [req EXCEPT ![q] = r]
    BY <1>1 DEF Ask, CheckUpdateConnection
  <2> HIDE DEF r
  <2>4. QED
    BY <2>1, <2>2, <2>3, OneRequest
<1>2. ASSUME NEW q \in Requests, NEW u \in Callers, NEW c \in Connections,
             CheckDeleteConnection(q, u, c)
      PROVE  CheckedInv'
  <2> DEFINE r == [op |-> "delete_connection", id |-> c]
  <2>1. r \in Request
    BY DEF Request, TransferRow, TypeOK
  <2>2. Checked(r)
    BY <1>2 DEF Ask, CheckDeleteConnection, Checked, ConnectionOf, QueueOf, UsedInv, BodyAgrees, TransferRow
  <2>3. req' = [req EXCEPT ![q] = r]
    BY <1>2 DEF Ask, CheckDeleteConnection
  <2> HIDE DEF r
  <2>4. QED
    BY <2>1, <2>2, <2>3, OneRequest
<1>3. ASSUME NEW q \in Requests, NEW u \in Callers, NEW k \in Queues,
             CheckDeleteQueue(q, u, k)
      PROVE  CheckedInv'
  <2> DEFINE r == [op |-> "delete_queue", id |-> k]
  <2>1. r \in Request
    BY DEF Request, TransferRow, TypeOK
  <2>2. Checked(r)
    BY <1>3 DEF Ask, CheckDeleteQueue, Checked, ConnectionOf, QueueOf, UsedInv, BodyAgrees, TransferRow
  <2>3. req' = [req EXCEPT ![q] = r]
    BY <1>3 DEF Ask, CheckDeleteQueue
  <2> HIDE DEF r
  <2>4. QED
    BY <2>1, <2>2, <2>3, OneRequest
<1>4. ASSUME NEW q \in Requests, NEW u \in Callers, NEW row \in TransferRow,
             CheckCreateTransfer(q, u, row)
      PROVE  CheckedInv'
  <2> DEFINE r == [op |-> "create_transfer", row |-> row]
  <2>1. r \in Request
    BY DEF Request, TransferRow, TypeOK
  <2>2. Checked(r)
    BY <1>4 DEF Ask, CheckCreateTransfer, Checked, ConnectionOf, QueueOf, UsedInv, BodyAgrees, TransferRow
  <2>3. req' = [req EXCEPT ![q] = r]
    BY <1>4 DEF Ask, CheckCreateTransfer
  <2> HIDE DEF r
  <2>4. QED
    BY <2>1, <2>2, <2>3, OneRequest
<1>5. ASSUME NEW q \in Requests, NEW u \in Callers, NEW t \in Transfers, NEW row \in TransferRow,
             CheckUpdateTransfer(q, u, t, row)
      PROVE  CheckedInv'
  <2> DEFINE r == [op |-> "update_transfer", id |-> t, row |-> row]
  <2>1. r \in Request
    BY DEF Request, TransferRow, TypeOK
  <2>2. Checked(r)
    BY <1>5 DEF Ask, CheckUpdateTransfer, Checked, ConnectionOf, QueueOf, UsedInv, BodyAgrees, TransferRow
  <2>3. req' = [req EXCEPT ![q] = r]
    BY <1>5 DEF Ask, CheckUpdateTransfer
  <2> HIDE DEF r
  <2>4. QED
    BY <2>1, <2>2, <2>3, OneRequest
<1>6. ASSUME NEW q \in Requests, NEW u \in Callers, NEW t \in Transfers, NEW g \in Groups, NEW k \in Queues, NEW remove \in BOOLEAN,
             CheckCopyTransfer(q, u, t, g, k, remove)
      PROVE  CheckedInv'
  <2>0. PICK row \in TransferRow : row = [transfer[t] EXCEPT !.group = g, !.queue = k]
    BY <1>6 DEF CheckCopyTransfer, TypeOK, TransferRow
  <2>a. row.group = g /\ row.queue = k /\ queue[k] = g /\ queue[k] # None
    BY <1>6, <2>0, ConstantsAssumption DEF CheckCopyTransfer, TypeOK, TransferRow
  <2> DEFINE r == [op |-> "copy_transfer", id |-> t, remove |-> remove, row |-> row]
  <2>1. r \in Request
    BY DEF Request, TransferRow, TypeOK
  <2>2. Checked(r)
    BY <1>6, <2>a DEF Ask, CheckCopyTransfer, Checked, ConnectionOf, QueueOf, UsedInv, BodyAgrees, TransferRow
  <2>3. req' = [req EXCEPT ![q] = r]
    BY <1>6, <2>0 DEF Ask, CheckCopyTransfer
  <2> HIDE DEF r
  <2>4. QED
    BY <2>1, <2>2, <2>3, OneRequest
<1>7. ASSUME NEW q \in Requests,
             UpdateConnection(q)
      PROVE  CheckedInv'
  BY <1>7, <1>b DEF UpdateConnection
<1>8. ASSUME NEW q \in Requests,
             DeleteConnection(q)
      PROVE  CheckedInv'
  BY <1>8, <1>b DEF DeleteConnection
<1>9. ASSUME NEW q \in Requests,
             DeleteQueue(q)
      PROVE  CheckedInv'
  BY <1>9, <1>b DEF DeleteQueue
<1>10. ASSUME NEW q \in Requests, NEW t \in Transfers,
             CreateTransfer(q, t)
      PROVE  CheckedInv'
  BY <1>10, <1>b DEF CreateTransfer
<1>11. ASSUME NEW q \in Requests,
             UpdateTransfer(q)
      PROVE  CheckedInv'
  BY <1>11, <1>b DEF UpdateTransfer
<1>12. ASSUME NEW q \in Requests, NEW new \in Transfers, NEW source \in Connections, NEW target \in Connections,
             CopyTransfer(q, new, source, target)
      PROVE  CheckedInv'
  BY <1>12, <1>b DEF CopyTransfer
<1>13. ASSUME NEW q \in Requests,
             InsertRefused(q)
      PROVE  CheckedInv'
  BY <1>13, <1>b DEF InsertRefused
<1>14. ASSUME NEW q \in Requests,
             CopyRefused(q)
      PROVE  CheckedInv'
  BY <1>14, <1>b DEF CopyRefused
<1>15. ASSUME NEW u \in Callers, NEW c \in Connections, NEW g \in Groups, NEW type \in Types,
             CreateConnection(u, c, g, type)
      PROVE  CheckedInv'
  BY <1>15, <1>a DEF CreateConnection
<1>16. ASSUME NEW u \in Callers, NEW c \in Connections, NEW new \in Connections, NEW g \in Groups, NEW remove \in BOOLEAN,
             CopyConnection(u, c, new, g, remove)
      PROVE  CheckedInv'
  BY <1>16, <1>a DEF CopyConnection
<1>17. ASSUME NEW u \in Callers, NEW k \in Queues, NEW g \in Groups,
             CreateQueue(u, k, g)
      PROVE  CheckedInv'
  BY <1>17, <1>a DEF CreateQueue
<1>18. ASSUME NEW u \in Callers, NEW t \in Transfers,
             DeleteTransfer(u, t)
      PROVE  CheckedInv'
  BY <1>18, <1>a DEF DeleteTransfer
<1>19. ASSUME NEW g \in Groups, DeleteGroup(g) PROVE CheckedInv'
  BY <1>19, <1>a DEF DeleteGroup
<1>20. CASE UNCHANGED vars
  BY <1>20, <1>a DEF vars
<1>21. QED
  BY <1>1, <1>2, <1>3, <1>4, <1>5, <1>6, <1>7, <1>8, <1>9, <1>10, <1>11, <1>12, <1>13, <1>14, <1>15, <1>16, <1>17, <1>18, <1>19, <1>20
     DEF Next, Check, Finish, Commit, AtOnce

\* Every step keeps a transfer's references in its group.
LEMMA AgreeStep ==
  TypeOK /\ UsedInv /\ GroupsAgree /\ CheckedInv /\ [Next]_vars => GroupsAgree'
<1> SUFFICES ASSUME TypeOK, UsedInv, GroupsAgree, CheckedInv, [Next]_vars PROVE GroupsAgree'
  OBVIOUS
<1> USE ConstantsAssumption, RequestFields DEF TypeOK, GroupsAgree, ReferencesExist, TransferRow
<1>1. ASSUME NEW q \in Requests, NEW u \in Callers, NEW c \in Connections, NEW type \in Types,
             CheckUpdateConnection(q, u, c, type)
      PROVE  GroupsAgree'
  BY <1>1 DEF Ask, tables, CheckUpdateConnection
<1>2. ASSUME NEW q \in Requests, NEW u \in Callers, NEW c \in Connections,
             CheckDeleteConnection(q, u, c)
      PROVE  GroupsAgree'
  BY <1>2 DEF Ask, tables, CheckDeleteConnection
<1>3. ASSUME NEW q \in Requests, NEW u \in Callers, NEW k \in Queues,
             CheckDeleteQueue(q, u, k)
      PROVE  GroupsAgree'
  BY <1>3 DEF Ask, tables, CheckDeleteQueue
<1>4. ASSUME NEW q \in Requests, NEW u \in Callers, NEW row \in TransferRow,
             CheckCreateTransfer(q, u, row)
      PROVE  GroupsAgree'
  BY <1>4 DEF Ask, tables, CheckCreateTransfer
<1>5. ASSUME NEW q \in Requests, NEW u \in Callers, NEW t \in Transfers, NEW row \in TransferRow,
             CheckUpdateTransfer(q, u, t, row)
      PROVE  GroupsAgree'
  BY <1>5 DEF Ask, tables, CheckUpdateTransfer
<1>6. ASSUME NEW q \in Requests, NEW u \in Callers, NEW t \in Transfers, NEW g \in Groups, NEW k \in Queues, NEW remove \in BOOLEAN,
             CheckCopyTransfer(q, u, t, g, k, remove)
      PROVE  GroupsAgree'
  BY <1>6 DEF Ask, tables, CheckCopyTransfer
<1>7. ASSUME NEW q \in Requests,
             UpdateConnection(q)
      PROVE  GroupsAgree'
  BY <1>7 DEF Done, tables, UpdateConnection, ConnectionRow
<1>8. ASSUME NEW q \in Requests,
             DeleteConnection(q)
      PROVE  GroupsAgree'
  BY <1>8 DEF Done, tables, DeleteConnection, Cascade, UsesConnection, UsesQueue
<1>9. ASSUME NEW q \in Requests,
             DeleteQueue(q)
      PROVE  GroupsAgree'
  BY <1>9 DEF Done, tables, DeleteQueue, Cascade, UsesConnection, UsesQueue
<1>10. ASSUME NEW q \in Requests, NEW t \in Transfers,
             CreateTransfer(q, t)
      PROVE  GroupsAgree'
  BY <1>10 DEF Done, tables, CreateTransfer, CheckedInv, Checked, ConnectionOf, QueueOf
<1>11. ASSUME NEW q \in Requests,
             UpdateTransfer(q)
      PROVE  GroupsAgree'
  BY <1>11 DEF Done, tables, UpdateTransfer, CheckedInv, Checked, ConnectionOf, QueueOf
<1>12. ASSUME NEW q \in Requests, NEW new \in Transfers, NEW source \in Connections, NEW target \in Connections,
             CopyTransfer(q, new, source, target)
      PROVE  GroupsAgree'
  <2> DEFINE r == req[q]
             copy(c) == [group |-> r.row.group, type |-> connection[c].type, auth |-> FALSE]
             new_row == [r.row EXCEPT !.source = source, !.target = target]
  <2>1. r \in Request /\ r # None /\ r.op = "copy_transfer" /\ r.id \in Transfers
          /\ r.row \in TransferRow /\ r.remove \in BOOLEAN
    BY <1>12 DEF CopyTransfer
  <2>2. /\ new_row.source = source /\ new_row.target = target
        /\ new_row.group = r.row.group /\ new_row.queue = r.row.queue
        /\ r.row.group \in groups /\ queue[r.row.queue] # None
    BY <1>12, <2>1 DEF CopyTransfer
  <2>3. queue[r.row.queue] = r.row.group
    BY <2>1, <2>2 DEF CheckedInv, Checked, QueueOf
  <2>4. \A c \in {r.row.source, r.row.target} : copy(c) # None /\ copy(c).group = r.row.group
    <3>1. copy(r.row.source) \in ConnectionRow /\ copy(r.row.target) \in ConnectionRow
      BY <1>12, <2>1 DEF CopyTransfer, ConnectionRow
    <3>2. QED
      BY <3>1
  <2>5. connection' = [connection EXCEPT ![source] = copy(r.row.source), ![target] = copy(r.row.target)]
    BY <1>12 DEF CopyTransfer
  <2>6. transfer' = [transfer EXCEPT ![new] = new_row, ![r.id] = IF r.remove THEN None ELSE @]
    BY <1>12 DEF CopyTransfer
  <2>7. groups' = groups /\ queue' = queue /\ crossed' = crossed /\ transfer[r.id] # None
          /\ new \notin used /\ source \notin used /\ target \notin used
    BY <1>12 DEF CopyTransfer
  <2> HIDE DEF copy, new_row, r
  <2>8. connection'[source] # None /\ connection'[source].group = r.row.group
        /\ connection'[target] # None /\ connection'[target].group = r.row.group
    BY <2>1, <2>4, <2>5
  <2>9. \A c \in Connections : c \in used => connection'[c] = connection[c]
    BY <2>5, <2>7
  <2>10. new # r.id
    BY <2>1, <2>7 DEF UsedInv
  <2>11. transfer'[new] = new_row
    BY <2>1, <2>6, <2>10
  <2>12. \A x \in Transfers \ {new} : transfer'[x] \in {None, transfer[x]}
    BY <2>1, <2>6
  <2>13. ASSUME NEW x \in Transfers \ {new}, transfer'[x] # None
         PROVE  /\ ReferencesExist(transfer[x])'
                /\ x \notin crossed' =>
                     /\ connection'[transfer'[x].source].group = transfer'[x].group
                     /\ connection'[transfer'[x].target].group = transfer'[x].group
                     /\ queue'[transfer'[x].queue] = transfer'[x].group
    BY <2>7, <2>9, <2>12, <2>13 DEF UsedInv
  <2>14. /\ ReferencesExist(transfer[new])'
         /\ connection'[transfer'[new].source].group = transfer'[new].group
         /\ connection'[transfer'[new].target].group = transfer'[new].group
         /\ queue'[transfer'[new].queue] = transfer'[new].group
    BY <2>2, <2>3, <2>7, <2>8, <2>11
  <2>15. QED
    BY <2>13, <2>14
<1>13. ASSUME NEW q \in Requests,
             InsertRefused(q)
      PROVE  GroupsAgree'
  BY <1>13 DEF Done, tables, InsertRefused
<1>14. ASSUME NEW q \in Requests,
             CopyRefused(q)
      PROVE  GroupsAgree'
  BY <1>14 DEF Done, tables, CopyRefused
<1>15. ASSUME NEW u \in Callers, NEW c \in Connections, NEW g \in Groups, NEW type \in Types,
             CreateConnection(u, c, g, type)
      PROVE  GroupsAgree'
  BY <1>15 DEF CreateConnection, UsedInv
<1>16. ASSUME NEW u \in Callers, NEW c \in Connections, NEW new \in Connections, NEW g \in Groups, NEW remove \in BOOLEAN,
             CopyConnection(u, c, new, g, remove)
      PROVE  GroupsAgree'
  BY <1>16 DEF CopyConnection, UsedInv, Cascade, UsesConnection, UsesQueue, ConnectionRow
<1>17. ASSUME NEW u \in Callers, NEW k \in Queues, NEW g \in Groups,
             CreateQueue(u, k, g)
      PROVE  GroupsAgree'
  BY <1>17 DEF CreateQueue, UsedInv
<1>18. ASSUME NEW u \in Callers, NEW t \in Transfers,
             DeleteTransfer(u, t)
      PROVE  GroupsAgree'
  BY <1>18 DEF DeleteTransfer
<1>19. ASSUME NEW g \in Groups, DeleteGroup(g) PROVE GroupsAgree'
  BY <1>19 DEF DeleteGroup, Cascade, UsesConnection, UsesQueue
<1>20. CASE UNCHANGED vars
  BY <1>20 DEF vars, tables
<1>21. QED
  BY <1>1, <1>2, <1>3, <1>4, <1>5, <1>6, <1>7, <1>8, <1>9, <1>10, <1>11, <1>12, <1>13, <1>14, <1>15, <1>16, <1>17, <1>18, <1>19, <1>20
     DEF Next, Check, Finish, Commit, AtOnce

\* A transfer's connections and its queue exist and are of its group, however
\* requests overlap, unless its last PUT named another group.
THEOREM GroupsAgreeHolds == Spec => []GroupsAgree
<1>1. GroupInv /\ [Next]_vars => GroupInv'
  BY TypeStep, KeepsStep, CheckedStep, AgreeStep DEF GroupInv
<1>2. GroupInv => GroupsAgree
  BY DEF GroupInv
<1>3. QED
  BY GroupInit, <1>1, <1>2, PTL DEF Spec
-----------------------------------------------------------------------------
(* Types.  What has been checked about types does not persist: it holds    *)
(* until a request commits between another's checks and its commit.        *)

\* The connection, while it exists, is of the type; its id is not free.
HasType(c, type) == c \in used /\ (connection[c] # None => connection[c].type = type)

\* What request r has checked about types is still so.
StillTyped(r) == r # None =>
  /\ r.op = "update_connection" =>
       connection[r.id] = None \/ connection[r.id].type = r.type \/ LinkedTransfers(r.id) = {}
  /\ r.op \in {"create_transfer", "update_transfer", "copy_transfer"} =>
       HasType(r.row.source, r.row.source_type) /\ HasType(r.row.target, r.row.target_type)

\* The parameters of transfer t are of the types of its connections.
Typed(t) == transfer[t] # None =>
  /\ connection[transfer[t].source].type = transfer[t].source_type
  /\ connection[transfer[t].target].type = transfer[t].target_type

\* Every transfer.
AllTyped == \A t \in Transfers : Typed(t)

\* The inductive invariant of types.
TypesInv == ~raced => AllTyped /\ \A q \in Requests : StillTyped(req[q])

\* No connection changes its type and no transfer its row.
KeepsTypes ==
  /\ used \subseteq used'
  /\ \A c \in Connections : c \in used /\ connection'[c] # None =>
       connection[c] # None /\ connection'[c].type = connection[c].type
  /\ \A t \in Transfers : transfer'[t] \in {None, transfer[t]}

\* Such a step leaves what requests have checked, and the transfers, typed.
LEMMA TypesPersist ==
  ASSUME TypeOK, TypeOK', UsedInv, GroupsAgree, GroupsAgree', KeepsTypes
  PROVE  /\ AllTyped => AllTyped'
         /\ \A r \in Request \cup {None} : StillTyped(r) => StillTyped(r)'
<1> USE ConstantsAssumption DEF TypeOK, KeepsTypes
<1>1. ASSUME AllTyped, NEW t \in Transfers, transfer'[t] # None
      PROVE  Typed(t)'
  <2>1. transfer'[t] = transfer[t] /\ transfer[t] \in TransferRow
    BY <1>1
  <2>2. \A c \in {transfer[t].source, transfer[t].target} :
          c \in Connections /\ c \in used /\ connection'[c] # None
    BY <1>1, <2>1 DEF GroupsAgree, ReferencesExist, UsedInv, TransferRow
  <2>3. QED
    BY <1>1, <2>1, <2>2 DEF AllTyped, Typed
<1>2. ASSUME NEW r \in Request \cup {None}, StillTyped(r), r # None
      PROVE  StillTyped(r)'
  <2>1. CASE r \in [op : {"update_connection"}, id : Connections, type : Types]
    <3>1. LinkedTransfers(r.id)' \subseteq LinkedTransfers(r.id)
      BY <2>1 DEF LinkedTransfers, UsesConnection
    <3>2. r \in Request /\ r.id \in Connections /\ r.op = "update_connection"
      BY <2>1 DEF Request
    <3>3. CASE connection[r.id] = None /\ connection'[r.id] # None
      <4>1. LinkedTransfers(r.id) = {}
        <5> SUFFICES ASSUME NEW t \in Transfers, transfer[t] # None
                     PROVE  r.id \notin {transfer[t].source, transfer[t].target}
          BY DEF LinkedTransfers, UsesConnection
        <5>1. connection[transfer[t].source] # None /\ connection[transfer[t].target] # None
          BY DEF GroupsAgree, ReferencesExist
        <5>2. QED
          BY <3>3, <5>1
      <4>2. QED
        BY <2>1, <3>1, <4>1 DEF StillTyped
    <3>4. CASE connection[r.id] # None \/ connection'[r.id] = None
      <4>1. connection'[r.id] = None \/ connection'[r.id].type = connection[r.id].type
        BY <3>2, <3>4 DEF UsedInv
      <4>2. connection[r.id] = None \/ connection[r.id].type = r.type \/ LinkedTransfers(r.id) = {}
        BY <1>2, <3>2 DEF StillTyped
      <4>3. connection'[r.id] = None \/ connection'[r.id].type = r.type \/ LinkedTransfers(r.id)' = {}
        BY <3>1, <3>4, <4>1, <4>2
      <4>4. QED
        BY <3>2, <4>3 DEF StillTyped
    <3>5. QED
      BY <3>3, <3>4
  <2>2. CASE r \in [op : {"create_transfer"}, row : TransferRow]
    BY <1>2, <2>2 DEF StillTyped, HasType, TransferRow
  <2>3. CASE r \in [op : {"update_transfer"}, id : Transfers, row : TransferRow]
    BY <1>2, <2>3 DEF StillTyped, HasType, TransferRow
  <2>4. CASE r \in [op : {"copy_transfer"}, id : Transfers, remove : BOOLEAN, row : TransferRow]
    BY <1>2, <2>4 DEF StillTyped, HasType, TransferRow
  <2>5. CASE r \in [op : {"delete_connection"}, id : Connections] \cup [op : {"delete_queue"}, id : Queues]
    BY <2>5 DEF StillTyped
  <2>6. QED
    BY <1>2, <2>1, <2>2, <2>3, <2>4, <2>5 DEF Request
<1>3. \A r \in Request \cup {None} : StillTyped(r) => StillTyped(r)'
  BY <1>2 DEF StillTyped
<1>4. AllTyped => AllTyped'
  BY <1>1 DEF AllTyped, Typed
<1>5. QED
  BY <1>3, <1>4
\* A commit keeps the transfers typed when what its request has checked is
\* still so.
LEMMA CommitKeepsTyped ==
  ASSUME TypeOK, UsedInv, GroupsAgree, AllTyped, NEW q \in Requests, Commit(q), StillTyped(req[q])
  PROVE  AllTyped'
<1> USE ConstantsAssumption, RequestFields DEF TypeOK
<1>0. \A t \in Transfers : transfer[t] # None =>
        /\ transfer[t] \in TransferRow /\ transfer[t].source \in Connections /\ transfer[t].target \in Connections
        /\ transfer[t].source \in used /\ transfer[t].target \in used
        /\ connection[transfer[t].source] # None /\ connection[transfer[t].target] # None
  BY DEF GroupsAgree, ReferencesExist, UsedInv, TransferRow
<1>1. CASE UpdateConnection(q)
  <2>1. \A c \in Connections \ {req[q].id} : connection'[c] = connection[c]
    BY <1>1 DEF UpdateConnection
  <2>2. transfer' = transfer /\ req[q].id \in Connections /\ req[q] # None
    BY <1>1 DEF UpdateConnection
  <2>3. CASE connection[req[q].id] = None
    BY <1>0, <1>1, <2>2, <2>3 DEF UpdateConnection, AllTyped, Typed
  <2>4. CASE connection[req[q].id] # None /\ connection[req[q].id].type = req[q].type
    <3>1. connection'[req[q].id].type = connection[req[q].id].type
      BY <1>1, <2>2, <2>4 DEF UpdateConnection, ConnectionRow
    <3>2. QED
      BY <1>0, <2>1, <2>2, <3>1 DEF AllTyped, Typed
  <2>5. CASE LinkedTransfers(req[q].id) = {}
    <3>1. \A t \in Transfers : transfer[t] # None =>
            transfer[t].source # req[q].id /\ transfer[t].target # req[q].id
      BY <2>5 DEF LinkedTransfers, UsesConnection
    <3>2. QED
      BY <1>0, <2>1, <2>2, <3>1 DEF AllTyped, Typed
  <2>6. QED
    BY <1>1, <2>2, <2>3, <2>4, <2>5 DEF UpdateConnection, StillTyped
<1>2. CASE DeleteConnection(q)
  <2>1. \A c \in Connections \ {req[q].id} : connection'[c] = connection[c]
    BY <1>2 DEF DeleteConnection
  <2>2. \A t \in Transfers : transfer'[t] # None =>
          transfer'[t] = transfer[t] /\ req[q].id \notin {transfer[t].source, transfer[t].target}
    BY <1>2 DEF DeleteConnection, Cascade, UsesConnection, UsesQueue
  <2>3. QED
    BY <1>0, <2>1, <2>2 DEF AllTyped, Typed
<1>3. CASE DeleteQueue(q)
  <2>1. connection' = connection /\ \A t \in Transfers : transfer'[t] # None => transfer'[t] = transfer[t]
    BY <1>3 DEF DeleteQueue, Cascade
  <2>2. QED
    BY <2>1 DEF AllTyped, Typed
<1>4. ASSUME NEW t \in Transfers, CreateTransfer(q, t) PROVE AllTyped'
  <2>1. PICK row \in TransferRow : row = req[q].row
    BY <1>4 DEF CreateTransfer
  <2>2. connection' = connection /\ transfer' = [transfer EXCEPT ![t] = row] /\ ReferencesExist(row)
    BY <1>4, <2>1 DEF CreateTransfer
  <2>3. connection[row.source].type = row.source_type /\ connection[row.target].type = row.target_type
    BY <1>4, <2>1, <2>2 DEF CreateTransfer, StillTyped, HasType, ReferencesExist
  <2>4. QED
    BY <2>2, <2>3 DEF AllTyped, Typed
<1>5. CASE UpdateTransfer(q)
  <2>1. PICK row \in TransferRow, id \in Transfers : row = req[q].row /\ id = req[q].id
    BY <1>5 DEF UpdateTransfer
  <2>2. PICK new : new = [row EXCEPT !.group = transfer[id].group]
    OBVIOUS
  <2>3. /\ new.source = row.source /\ new.target = row.target
        /\ new.source_type = row.source_type /\ new.target_type = row.target_type
    BY <2>2 DEF TransferRow
  <2>4. /\ connection' = connection
        /\ \/ transfer' = transfer
           \/ transfer' = [transfer EXCEPT ![id] = new] /\ ReferencesExist(new)
    BY <1>5, <2>1, <2>2 DEF UpdateTransfer
  <2>5. ReferencesExist(new) =>
          connection[row.source].type = row.source_type /\ connection[row.target].type = row.target_type
    BY <1>5, <2>1, <2>3 DEF UpdateTransfer, StillTyped, HasType, ReferencesExist
  <2>6. QED
    BY <2>1, <2>3, <2>4, <2>5 DEF AllTyped, Typed
<1>6. ASSUME NEW new \in Transfers, NEW source \in Connections, NEW target \in Connections,
             CopyTransfer(q, new, source, target)
      PROVE  AllTyped'
  <2> DEFINE copy(c) == [group |-> req[q].row.group, type |-> connection[c].type, auth |-> FALSE]
  <2>1. PICK row \in TransferRow : row = req[q].row
    BY <1>6 DEF CopyTransfer
  <2>2. PICK new_row : new_row = [row EXCEPT !.source = source, !.target = target]
    OBVIOUS
  <2>3. /\ new_row.source = source /\ new_row.target = target
        /\ new_row.source_type = row.source_type /\ new_row.target_type = row.target_type
    BY <2>2 DEF TransferRow
  <2>4. connection[row.source].type = row.source_type /\ connection[row.target].type = row.target_type
    BY <1>6, <2>1 DEF CopyTransfer, StillTyped, HasType, ReferencesExist
  <2>5. /\ connection' = [connection EXCEPT ![source] = copy(row.source), ![target] = copy(row.target)]
        /\ source = target => row.source = row.target
        /\ source \notin used /\ target \notin used
    BY <1>6, <2>1 DEF CopyTransfer
  <2>6. copy(row.source).type = row.source_type /\ copy(row.target).type = row.target_type
    BY <2>4
  <2> HIDE DEF copy
  <2>7. connection'[source].type = row.source_type /\ connection'[target].type = row.target_type
    BY <2>5, <2>6
  <2>8. \A c \in Connections : c \in used => connection'[c] = connection[c]
    BY <2>5
  <2>9. \A t \in Transfers : transfer'[t] \in {None, new_row, transfer[t]}
    BY <1>6, <2>1, <2>2 DEF CopyTransfer
  <2>10. QED
    BY <1>0, <2>3, <2>7, <2>8, <2>9 DEF AllTyped, Typed
<1>7. CASE InsertRefused(q) \/ CopyRefused(q)
  BY <1>7 DEF InsertRefused, CopyRefused, tables, AllTyped, Typed
<1>8. QED
  BY <1>1, <1>2, <1>3, <1>4, <1>5, <1>6, <1>7 DEF Commit
\* What a request that passes its checks has checked about types.
LEMMA CheckIsTyped ==
  ASSUME TypeOK, UsedInv, GroupsAgree, AllTyped,
         NEW q \in Requests, NEW u \in Callers, Check(q, u)
  PROVE  \E r \in Request : req' = [req EXCEPT ![q] = r] /\ StillTyped(r)
<1> USE ConstantsAssumption DEF TypeOK
<1>1. ASSUME NEW c \in Connections, NEW type \in Types, CheckUpdateConnection(q, u, c, type)
      PROVE  \E r \in Request : req' = [req EXCEPT ![q] = r] /\ StillTyped(r)
  <2> DEFINE r == [op |-> "update_connection", id |-> c, type |-> type]
  <2>1. r \in Request /\ StillTyped(r) /\ req' = [req EXCEPT ![q] = r]
    BY <1>1 DEF CheckUpdateConnection, Ask, Request, StillTyped
  <2>2. QED
    BY <2>1
<1>2. ASSUME NEW c \in Connections, CheckDeleteConnection(q, u, c)
      PROVE  \E r \in Request : req' = [req EXCEPT ![q] = r] /\ StillTyped(r)
  <2> DEFINE r == [op |-> "delete_connection", id |-> c]
  <2>1. r \in Request /\ StillTyped(r) /\ req' = [req EXCEPT ![q] = r]
    BY <1>2 DEF CheckDeleteConnection, Ask, Request, StillTyped
  <2>2. QED
    BY <2>1
<1>3. ASSUME NEW k \in Queues, CheckDeleteQueue(q, u, k)
      PROVE  \E r \in Request : req' = [req EXCEPT ![q] = r] /\ StillTyped(r)
  <2> DEFINE r == [op |-> "delete_queue", id |-> k]
  <2>1. r \in Request /\ StillTyped(r) /\ req' = [req EXCEPT ![q] = r]
    BY <1>3 DEF CheckDeleteQueue, Ask, Request, StillTyped
  <2>2. QED
    BY <2>1
<1>4. ASSUME NEW row \in TransferRow, BodyAgrees(row)
      PROVE  HasType(row.source, row.source_type) /\ HasType(row.target, row.target_type)
  BY <1>4 DEF BodyAgrees, HasType, UsedInv, TransferRow
<1>5. ASSUME NEW row \in TransferRow, CheckCreateTransfer(q, u, row)
      PROVE  \E r \in Request : req' = [req EXCEPT ![q] = r] /\ StillTyped(r)
  <2> DEFINE r == [op |-> "create_transfer", row |-> row]
  <2>1. r \in Request /\ StillTyped(r) /\ req' = [req EXCEPT ![q] = r]
    BY <1>4, <1>5 DEF CheckCreateTransfer, Ask, Request, StillTyped
  <2>2. QED
    BY <2>1
<1>6. ASSUME NEW t \in Transfers, NEW row \in TransferRow, CheckUpdateTransfer(q, u, t, row)
      PROVE  \E r \in Request : req' = [req EXCEPT ![q] = r] /\ StillTyped(r)
  <2> DEFINE r == [op |-> "update_transfer", id |-> t, row |-> row]
  <2>1. r \in Request /\ StillTyped(r) /\ req' = [req EXCEPT ![q] = r]
    BY <1>4, <1>6 DEF CheckUpdateTransfer, Ask, Request, StillTyped
  <2>2. QED
    BY <2>1
<1>7. ASSUME NEW t \in Transfers, NEW g \in Groups, NEW k \in Queues, NEW remove \in BOOLEAN,
             CheckCopyTransfer(q, u, t, g, k, remove)
      PROVE  \E r \in Request : req' = [req EXCEPT ![q] = r] /\ StillTyped(r)
  <2>1. PICK row \in TransferRow : row = [transfer[t] EXCEPT !.group = g, !.queue = k]
    BY <1>7 DEF CheckCopyTransfer, TransferRow
  <2>2. /\ row.source = transfer[t].source /\ row.source_type = transfer[t].source_type
        /\ row.target = transfer[t].target /\ row.target_type = transfer[t].target_type
        /\ transfer[t] # None /\ transfer[t] \in TransferRow
    BY <1>7, <2>1 DEF CheckCopyTransfer, TransferRow
  <2>3. HasType(row.source, row.source_type) /\ HasType(row.target, row.target_type)
    BY <2>2 DEF HasType, AllTyped, Typed, GroupsAgree, ReferencesExist, UsedInv, TransferRow
  <2> DEFINE r == [op |-> "copy_transfer", id |-> t, remove |-> remove, row |-> row]
  <2>4. r \in Request /\ StillTyped(r)
    BY <2>3 DEF Request, StillTyped
  <2>5. req' = [req EXCEPT ![q] = r]
    BY <1>7, <2>1 DEF CheckCopyTransfer, Ask
  <2> HIDE DEF r
  <2>6. QED
    BY <2>4, <2>5
<1>8. QED
  BY <1>1, <1>2, <1>3, <1>5, <1>6, <1>7 DEF Check

\* Requests that check and write at once, and the deletion of a group, change
\* neither the type of a connection nor the row of a transfer.
LEMMA AtOnceKeepsTypes ==
  ASSUME TypeOK, UsedInv, NEW u \in Callers, AtOnce(u)
  PROVE  KeepsTypes /\ UNCHANGED <<req, raced>>
<1> USE ConstantsAssumption DEF TypeOK, UsedInv
<1>1. ASSUME NEW c \in Connections, NEW g \in Groups, NEW type \in Types,
             CreateConnection(u, c, g, type)
      PROVE  KeepsTypes /\ UNCHANGED <<req, raced>>
  BY <1>1 DEF CreateConnection, KeepsTypes
<1>2. ASSUME NEW c \in Connections, NEW new \in Connections, NEW g \in Groups, NEW remove \in BOOLEAN,
             CopyConnection(u, c, new, g, remove)
      PROVE  KeepsTypes /\ UNCHANGED <<req, raced>>
  BY <1>2 DEF CopyConnection, Cascade, KeepsTypes
<1>3. ASSUME NEW k \in Queues, NEW g \in Groups, CreateQueue(u, k, g)
      PROVE  KeepsTypes /\ UNCHANGED <<req, raced>>
  BY <1>3 DEF CreateQueue, KeepsTypes
<1>4. ASSUME NEW t \in Transfers, DeleteTransfer(u, t)
      PROVE  KeepsTypes /\ UNCHANGED <<req, raced>>
  BY <1>4 DEF DeleteTransfer, KeepsTypes
<1>5. QED
  BY <1>1, <1>2, <1>3, <1>4 DEF AtOnce

\* The deletion of a group does not, either.
LEMMA DeleteGroupKeepsTypes ==
  ASSUME TypeOK, NEW g \in Groups, DeleteGroup(g)
  PROVE  KeepsTypes /\ UNCHANGED <<req, raced>>
  BY ConstantsAssumption DEF TypeOK, DeleteGroup, Cascade, KeepsTypes

\* Every step keeps types and checks in agreement until requests race.
LEMMA TypesStep == GroupInv /\ GroupInv' /\ TypesInv /\ [Next]_vars => TypesInv'
<1> SUFFICES ASSUME GroupInv, GroupInv', TypesInv, [Next]_vars, ~raced'
             PROVE  AllTyped' /\ \A p \in Requests : StillTyped(req[p])'
  BY DEF TypesInv
<1> USE ConstantsAssumption DEF GroupInv, TypeOK
<1>0. ASSUME UNCHANGED tables
      PROVE  /\ AllTyped' <=> AllTyped
             /\ \A r : StillTyped(r)' <=> StillTyped(r)
  BY <1>0 DEF tables, AllTyped, Typed, StillTyped, HasType, LinkedTransfers, UsesConnection
<1>1. ASSUME NEW q \in Requests, NEW u \in Callers, Check(q, u)
      PROVE  AllTyped' /\ \A p \in Requests : StillTyped(req[p])'
  <2>1. UNCHANGED tables /\ ~raced
    BY <1>1 DEF Check, CheckUpdateConnection, CheckDeleteConnection, CheckDeleteQueue,
                CheckCreateTransfer, CheckUpdateTransfer, CheckCopyTransfer, Ask
  <2>2. AllTyped /\ \A p \in Requests : StillTyped(req[p])
    BY <2>1 DEF TypesInv
  <2>3. PICK r \in Request : req' = [req EXCEPT ![q] = r] /\ StillTyped(r)
    BY <1>1, <2>2, CheckIsTyped
  <2>4. \A p \in Requests : req'[p] = IF p = q THEN r ELSE req[p]
    BY <2>3
  <2>5. ASSUME NEW p \in Requests PROVE StillTyped(req[p])'
    <3>1. PICK s : s = req'[p] /\ StillTyped(s)
      BY <2>2, <2>3, <2>4
    <3>2. StillTyped(s)'
      BY <1>0, <2>1, <3>1
    <3>3. QED
      BY <3>1, <3>2 DEF StillTyped, HasType
  <2>6. QED
    BY <1>0, <2>1, <2>2, <2>5
<1>2. ASSUME NEW q \in Requests, Commit(q), Races(q)
      PROVE  AllTyped' /\ \A p \in Requests : StillTyped(req[p])'
  <2>1. ~raced
    BY <1>2 DEF Races
  <2>2. AllTyped /\ \A p \in Requests : StillTyped(req[p])
    BY <2>1 DEF TypesInv
  <2>3. AllTyped'
    BY <1>2, <2>2, CommitKeepsTyped
  <2>4. req' = [req EXCEPT ![q] = None]
    BY <1>2 DEF Commit, UpdateConnection, DeleteConnection, DeleteQueue, CreateTransfer,
                UpdateTransfer, CopyTransfer, InsertRefused, CopyRefused, Done
  <2>5. ASSUME NEW p \in Requests PROVE StillTyped(req[p])'
    <3>1. CASE req'[p] = None
      BY <3>1 DEF StillTyped
    <3>2. CASE req'[p] # None
      <4>1. p # q /\ req'[p] = req[p] /\ UNCHANGED tables
        BY <1>2, <2>4, <3>2 DEF Races
      <4>2. PICK s : s = req[p] /\ StillTyped(s)
        BY <2>2
      <4>3. StillTyped(s)'
        BY <1>0, <4>1, <4>2
      <4>4. QED
        BY <4>1, <4>2, <4>3 DEF StillTyped, HasType
    <3>3. QED
      BY <3>1, <3>2
  <2>6. QED
    BY <2>3, <2>5
<1>3. ASSUME KeepsTypes, UNCHANGED <<req, raced>>
      PROVE  AllTyped' /\ \A p \in Requests : StillTyped(req[p])'
  <2>1. AllTyped /\ \A p \in Requests : StillTyped(req[p])
    BY <1>3 DEF TypesInv
  <2>2. ASSUME NEW p \in Requests PROVE StillTyped(req[p])'
    <3>1. PICK s \in Request \cup {None} : s = req[p] /\ StillTyped(s)
      BY <2>1
    <3>2. StillTyped(s)'
      BY <1>3, <3>1, TypesPersist
    <3>3. QED
      BY <1>3, <3>1, <3>2 DEF StillTyped, HasType
  <2>3. QED
    BY <1>3, <2>1, <2>2, TypesPersist
<1>4. ASSUME NEW u \in Callers, AtOnce(u) PROVE KeepsTypes /\ UNCHANGED <<req, raced>>
  BY <1>4, AtOnceKeepsTypes
<1>5. ASSUME NEW g \in Groups, DeleteGroup(g) PROVE KeepsTypes /\ UNCHANGED <<req, raced>>
  BY <1>5, DeleteGroupKeepsTypes
<1>6. CASE UNCHANGED vars
  BY <1>3, <1>6 DEF vars, tables, KeepsTypes
<1>7. QED
  BY <1>1, <1>2, <1>3, <1>4, <1>5, <1>6 DEF Next, Finish

\* A transfer's parameters are of the types of its connections, for any number
\* of groups, rows and requests, until a request commits between another's
\* checks and its commit.
THEOREM TypesAgreeHolds == Spec => []TypesAgree
<1>1. Init => GroupInv /\ TypesInv
  BY GroupInit DEF Init, TypesInv, AllTyped, Typed, StillTyped
<1>2. GroupInv /\ [Next]_vars => GroupInv'
  BY TypeStep, KeepsStep, CheckedStep, AgreeStep DEF GroupInv
<1>3. GroupInv /\ TypesInv /\ [Next]_vars => GroupInv' /\ TypesInv'
  BY <1>2, TypesStep
<1>4. TypesInv => TypesAgree
  BY DEF TypesInv, AllTyped, Typed, TypesAgree
<1>5. QED
  BY <1>1, <1>3, <1>4, PTL DEF Spec

-----------------------------------------------------------------------------
(* Deletions.  A connection or a queue that was checked to be unused stays *)
(* unused until a request commits between the check and the DELETE.        *)

\* What a deletion r has checked is still so.
StillFree(r) == r # None =>
  /\ r.op = "delete_connection" => LinkedTransfers(r.id) = {}
  /\ r.op = "delete_queue" =>
       \A t \in Transfers : UsesQueue(t, {r.id}) => transfer[t].group # queue[r.id]

\* Until requests race, what a deletion has found unused is unused.
FreeInv == ~raced => \A q \in Requests : StillFree(req[q])

\* A step that adds no transfer and keeps groups leaves it so.
LEMMA FreePersists ==
  ASSUME TypeOK, UsedInv, GroupsAgree, KeepsTypes, KeepsGroups,
         NEW r \in Request, r # None, StillFree(r)
  PROVE  StillFree(r)'
<1> USE ConstantsAssumption DEF TypeOK
<1>1. CASE r \in [op : {"delete_connection"}, id : Connections]
  <2>1. LinkedTransfers(r.id)' \subseteq LinkedTransfers(r.id)
    BY <1>1 DEF KeepsTypes, LinkedTransfers, UsesConnection
  <2>2. QED
    BY <1>1, <2>1 DEF StillFree
<1>2. CASE r \in [op : {"delete_queue"}, id : Queues]
  <2> SUFFICES ASSUME NEW t \in Transfers, UsesQueue(t, {r.id})'
               PROVE  transfer'[t].group # queue'[r.id]
    BY <1>2 DEF StillFree
  <2>1. transfer'[t] = transfer[t] /\ UsesQueue(t, {r.id}) /\ transfer[t] \in TransferRow
    BY DEF KeepsTypes, UsesQueue
  <2>2. transfer[t].group # queue[r.id] /\ transfer[t].group # None
    BY <1>2, <2>1 DEF StillFree, TransferRow
  <2>3. r.id \in Queues /\ r.id \in used
    BY <1>2, <2>1 DEF UsesQueue, GroupsAgree, ReferencesExist, UsedInv
  <2>4. queue'[r.id] \in {None, queue[r.id]}
    BY <2>3 DEF KeepsGroups
  <2>5. QED
    BY <2>1, <2>2, <2>4
<1>3. CASE r.op \notin {"delete_connection", "delete_queue"}
  BY <1>3 DEF StillFree
<1>4. QED
  BY <1>1, <1>2, <1>3 DEF Request

\* A deletion that passes its checks has found its row unused.
LEMMA CheckIsFree ==
  ASSUME TypeOK, NEW q \in Requests, NEW u \in Callers, Check(q, u)
  PROVE  /\ UNCHANGED <<tables, raced>>
         /\ \E r \in Request : req' = [req EXCEPT ![q] = r] /\ StillFree(r)
<1> DEFINE Asked == \E r \in Request : req' = [req EXCEPT ![q] = r] /\ StillFree(r)
<1>0. UNCHANGED <<tables, raced>>
  BY DEF Check, CheckUpdateConnection, CheckDeleteConnection, CheckDeleteQueue,
         CheckCreateTransfer, CheckUpdateTransfer, CheckCopyTransfer, Ask
<1>1. ASSUME NEW c \in Connections, NEW type \in Types, CheckUpdateConnection(q, u, c, type)
      PROVE  Asked
  <2> DEFINE r == [op |-> "update_connection", id |-> c, type |-> type]
  <2>1. r \in Request /\ StillFree(r) /\ req' = [req EXCEPT ![q] = r]
    BY <1>1 DEF CheckUpdateConnection, Ask, Request, StillFree
  <2>2. QED
    BY <2>1
<1>2. ASSUME NEW c \in Connections, CheckDeleteConnection(q, u, c) PROVE Asked
  <2> DEFINE r == [op |-> "delete_connection", id |-> c]
  <2>1. r \in Request /\ StillFree(r) /\ req' = [req EXCEPT ![q] = r]
    BY <1>2 DEF CheckDeleteConnection, Ask, Request, StillFree
  <2>2. QED
    BY <2>1
<1>3. ASSUME NEW k \in Queues, CheckDeleteQueue(q, u, k) PROVE Asked
  <2> DEFINE r == [op |-> "delete_queue", id |-> k]
  <2>1. r \in Request /\ StillFree(r) /\ req' = [req EXCEPT ![q] = r]
    BY <1>3 DEF CheckDeleteQueue, Ask, Request, StillFree
  <2>2. QED
    BY <2>1
<1>4. ASSUME NEW row \in TransferRow, CheckCreateTransfer(q, u, row) PROVE Asked
  <2> DEFINE r == [op |-> "create_transfer", row |-> row]
  <2>1. r \in Request /\ StillFree(r) /\ req' = [req EXCEPT ![q] = r]
    BY <1>4 DEF CheckCreateTransfer, Ask, Request, StillFree
  <2>2. QED
    BY <2>1
<1>5. ASSUME NEW t \in Transfers, NEW row \in TransferRow, CheckUpdateTransfer(q, u, t, row)
      PROVE  Asked
  <2> DEFINE r == [op |-> "update_transfer", id |-> t, row |-> row]
  <2>1. r \in Request /\ StillFree(r) /\ req' = [req EXCEPT ![q] = r]
    BY <1>5 DEF CheckUpdateTransfer, Ask, Request, StillFree
  <2>2. QED
    BY <2>1
<1>6. ASSUME NEW t \in Transfers, NEW g \in Groups, NEW k \in Queues, NEW remove \in BOOLEAN,
             CheckCopyTransfer(q, u, t, g, k, remove)
      PROVE  Asked
  <2>1. PICK row \in TransferRow : row = [transfer[t] EXCEPT !.group = g, !.queue = k]
    BY <1>6, ConstantsAssumption DEF CheckCopyTransfer, TypeOK, TransferRow
  <2> DEFINE r == [op |-> "copy_transfer", id |-> t, remove |-> remove, row |-> row]
  <2>2. r \in Request /\ StillFree(r)
    BY DEF Request, StillFree
  <2>3. req' = [req EXCEPT ![q] = r]
    BY <1>6, <2>1 DEF CheckCopyTransfer, Ask
  <2> HIDE DEF r
  <2>4. QED
    BY <2>2, <2>3
<1>7. QED
  BY <1>0, <1>1, <1>2, <1>3, <1>4, <1>5, <1>6 DEF Check

\* Every step keeps what deletions have checked until requests race.
LEMMA FreeStep == GroupInv /\ FreeInv /\ [Next]_vars => FreeInv'
<1> SUFFICES ASSUME GroupInv, FreeInv, [Next]_vars, ~raced', NEW p \in Requests, req'[p] # None
             PROVE  StillFree(req[p])'
  BY DEF FreeInv, StillFree
<1> USE DEF GroupInv
<1>0. ASSUME NEW r, r = req'[p], StillFree(r)' PROVE StillFree(req[p])'
  BY <1>0 DEF StillFree
<1>1. ASSUME UNCHANGED tables, NEW r, r = req'[p], StillFree(r) PROVE StillFree(req[p])'
  <2>1. StillFree(r)'
    BY <1>1 DEF tables, StillFree, LinkedTransfers, UsesConnection, UsesQueue
  <2>2. QED
    BY <1>0, <1>1, <2>1
<1>2. ASSUME NEW q \in Requests, NEW u \in Callers, Check(q, u) PROVE StillFree(req[p])'
  <2>1. PICK r \in Request : req' = [req EXCEPT ![q] = r] /\ StillFree(r)
    BY <1>2, CheckIsFree
  <2>2. UNCHANGED tables /\ StillFree(req[p])
    BY <1>2, CheckIsFree DEF FreeInv
  <2>3. PICK s : s = req'[p] /\ StillFree(s)
    BY <2>1, <2>2 DEF TypeOK
  <2>4. QED
    BY <1>1, <2>2, <2>3
<1>3. ASSUME NEW q \in Requests, Commit(q), Races(q) PROVE StillFree(req[p])'
  <2>1. req' = [req EXCEPT ![q] = None]
    BY <1>3 DEF Commit, UpdateConnection, DeleteConnection, DeleteQueue, CreateTransfer,
                UpdateTransfer, CopyTransfer, InsertRefused, CopyRefused, Done
  <2>2. p # q /\ req'[p] = req[p] /\ UNCHANGED tables /\ ~raced
    BY <1>3, <2>1 DEF Races, TypeOK
  <2>3. PICK s : s = req'[p] /\ StillFree(s)
    BY <2>2 DEF FreeInv
  <2>4. QED
    BY <1>1, <2>2, <2>3
<1>4. ASSUME KeepsTypes, UNCHANGED <<req, raced>> PROVE StillFree(req[p])'
  <2>1. KeepsGroups
    BY KeepsStep
  <2>2. PICK r \in Request : r = req'[p] /\ StillFree(r)
    BY <1>4 DEF FreeInv, TypeOK
  <2>3. StillFree(r)'
    BY <1>4, <2>1, <2>2, FreePersists
  <2>4. QED
    BY <1>0, <2>2, <2>3
<1>5. ASSUME NEW u \in Callers, AtOnce(u) PROVE KeepsTypes /\ UNCHANGED <<req, raced>>
  BY <1>5, AtOnceKeepsTypes
<1>6. ASSUME NEW g \in Groups, DeleteGroup(g) PROVE KeepsTypes /\ UNCHANGED <<req, raced>>
  BY <1>6, DeleteGroupKeepsTypes
<1>7. CASE UNCHANGED vars
  BY <1>4, <1>7 DEF vars, tables, KeepsTypes, TypeOK
<1>8. QED
  BY <1>2, <1>3, <1>4, <1>5, <1>6, <1>7 DEF Next, Finish

\* GroupInv and FreeInv hold together.
LEMMA FreeHolds == Spec => [](GroupInv /\ FreeInv)
<1>1. Init => GroupInv /\ FreeInv
  BY GroupInit DEF Init, FreeInv, StillFree
<1>2. GroupInv /\ FreeInv /\ [Next]_vars => GroupInv' /\ FreeInv'
  BY FreeStep, TypeStep, KeepsStep, CheckedStep, AgreeStep DEF GroupInv
<1>3. QED
  BY <1>1, <1>2, PTL DEF Spec

\* Which steps remove connection c, and which remove queue k.
ConnectionGoes(c) == connection[c] # None /\ connection'[c] = None
QueueGoes(k) == queue[k] # None /\ queue'[k] = None

\* While no group is deleted, a connection is removed by a DELETE or a copy, and
\* a queue by a DELETE.
LEMMA WhoRemoves ==
  ASSUME TypeOK, [Next]_vars, groups' = groups
  PROVE  /\ \A c \in Connections : ConnectionGoes(c) /\ used' = used =>
              \E q \in Requests : DeleteConnection(q) /\ req[q].id = c
         /\ \A k \in Queues : QueueGoes(k) =>
              \E q \in Requests : DeleteQueue(q) /\ req[q].id = k
<1> DEFINE Conn == \A c \in Connections : ConnectionGoes(c) /\ used' = used =>
                     \E q \in Requests : DeleteConnection(q) /\ req[q].id = c
           Que == \A k \in Queues : QueueGoes(k) =>
                    \E q \in Requests : DeleteQueue(q) /\ req[q].id = k
<1> USE ConstantsAssumption DEF TypeOK
<1>1. ASSUME UNCHANGED <<connection, queue>> PROVE Conn /\ Que
  BY <1>1 DEF ConnectionGoes, QueueGoes
<1>2. ASSUME NEW q \in Requests, NEW u \in Callers, Check(q, u) PROVE Conn /\ Que
  BY <1>1, <1>2, CheckIsFree DEF tables
<1>3. ASSUME NEW q \in Requests, Commit(q) PROVE Conn /\ Que
  <2>1. CASE UpdateConnection(q)
    <3>1. req[q].id \in Connections /\ req[q].type \in Types
      BY <2>1, RequestFields DEF UpdateConnection
    <3>2. \A c \in Connections : ~ConnectionGoes(c)
      BY <2>1, <3>1 DEF UpdateConnection, ConnectionRow, ConnectionGoes
    <3>3. \A k \in Queues : ~QueueGoes(k)
      BY <2>1 DEF UpdateConnection, QueueGoes
    <3>4. QED
      BY <3>2, <3>3
  <2>2. CASE DeleteConnection(q)
    <3>1. \A c \in Connections : ConnectionGoes(c) => c = req[q].id
      BY <2>2 DEF DeleteConnection, ConnectionGoes
    <3>2. \A k \in Queues : ~QueueGoes(k)
      BY <2>2 DEF DeleteConnection, QueueGoes
    <3>3. QED
      BY <2>2, <3>1, <3>2
  <2>3. CASE DeleteQueue(q)
    <3>1. \A k \in Queues : QueueGoes(k) => k = req[q].id
      BY <2>3 DEF DeleteQueue, QueueGoes
    <3>2. \A c \in Connections : ~ConnectionGoes(c)
      BY <2>3 DEF DeleteQueue, ConnectionGoes
    <3>3. QED
      BY <2>3, <3>1, <3>2
  <2>4. ASSUME NEW t \in Transfers, CreateTransfer(q, t) PROVE Conn /\ Que
    BY <1>1, <2>4 DEF CreateTransfer
  <2>5. CASE UpdateTransfer(q)
    BY <1>1, <2>5 DEF UpdateTransfer
  <2>6. ASSUME NEW new \in Transfers, NEW source \in Connections, NEW target \in Connections,
               CopyTransfer(q, new, source, target)
        PROVE  Conn /\ Que
    BY <2>6 DEF CopyTransfer, QueueGoes
  <2>7. CASE InsertRefused(q) \/ CopyRefused(q)
    BY <1>1, <2>7 DEF InsertRefused, CopyRefused, tables
  <2>8. QED
    BY <1>3, <2>1, <2>2, <2>3, <2>4, <2>5, <2>6, <2>7 DEF Commit
<1>4. ASSUME NEW u \in Callers, AtOnce(u) PROVE Conn /\ Que
  <2>1. ASSUME NEW c \in Connections, NEW g \in Groups, NEW type \in Types,
               CreateConnection(u, c, g, type)
        PROVE  Conn /\ Que
    BY <2>1 DEF CreateConnection, QueueGoes
  <2>2. ASSUME NEW c \in Connections, NEW new \in Connections, NEW g \in Groups, NEW remove \in BOOLEAN,
               CopyConnection(u, c, new, g, remove)
        PROVE  Conn /\ Que
    BY <2>2 DEF CopyConnection, QueueGoes
  <2>3. ASSUME NEW k \in Queues, NEW g \in Groups, CreateQueue(u, k, g) PROVE Conn /\ Que
    <3>1. \A c \in Connections : ~ConnectionGoes(c)
      BY <2>3 DEF CreateQueue, ConnectionGoes
    <3>2. \A j \in Queues : ~QueueGoes(j)
      BY <2>3 DEF CreateQueue, QueueGoes
    <3>3. QED
      BY <3>1, <3>2
  <2>4. ASSUME NEW t \in Transfers, DeleteTransfer(u, t) PROVE Conn /\ Que
    BY <1>1, <2>4 DEF DeleteTransfer
  <2>5. QED
    BY <1>4, <2>1, <2>2, <2>3, <2>4 DEF AtOnce
<1>5. ASSUME NEW g \in Groups, DeleteGroup(g) PROVE FALSE
  BY <1>5 DEF DeleteGroup
<1>6. ASSUME UNCHANGED vars PROVE Conn /\ Que
  BY <1>1, <1>6 DEF vars, tables
<1> HIDE DEF Conn, Que, TypeOK
<1>7. Conn /\ Que
  BY <1>2, <1>3, <1>4, <1>5, <1>6 DEF Next, Finish
<1>8. QED
  BY <1>7 DEF Conn, Que

\* A connection that a transfer uses is removed only with its group or by a copy
\* that moves it, for any number of rows and requests, until requests race.
THEOREM LinkedConnectionStaysHolds == Spec => LinkedConnectionStays
<1> DEFINE Step == ~raced /\ groups' = groups /\ used' = used => \A c \in Connections :
                     connection[c] # None /\ connection'[c] = None => LinkedTransfers(c) = {}
<1>1. GroupInv /\ FreeInv /\ [Next]_vars => Step
  <2> SUFFICES ASSUME GroupInv, FreeInv, [Next]_vars, ~raced, groups' = groups, used' = used,
                      NEW c \in Connections, connection[c] # None, connection'[c] = None
               PROVE  LinkedTransfers(c) = {}
    OBVIOUS
  <2>1. PICK q \in Requests : DeleteConnection(q) /\ req[q].id = c
    BY WhoRemoves DEF GroupInv, ConnectionGoes
  <2>2. QED
    BY <2>1 DEF FreeInv, StillFree, DeleteConnection
<1>2. QED
  BY <1>1, FreeHolds, PTL DEF Spec, LinkedConnectionStays

\* A queue that a transfer uses is removed only with its group, for any number of
\* rows and requests, until requests race, unless the transfer's last PUT named
\* another group.
THEOREM LinkedQueueStaysHolds == Spec => LinkedQueueStays
<1> DEFINE Step == ~raced /\ groups' = groups => \A k \in Queues :
                     queue[k] # None /\ queue'[k] = None =>
                       \A t \in Transfers \ crossed : ~UsesQueue(t, {k})
<1>1. GroupInv /\ FreeInv /\ [Next]_vars => Step
  <2> SUFFICES ASSUME GroupInv, FreeInv, [Next]_vars, ~raced, groups' = groups,
                      NEW k \in Queues, queue[k] # None, queue'[k] = None,
                      NEW t \in Transfers \ crossed, UsesQueue(t, {k})
               PROVE  FALSE
    OBVIOUS
  <2>1. PICK q \in Requests : DeleteQueue(q) /\ req[q].id = k
    BY WhoRemoves DEF GroupInv, QueueGoes
  <2>2. transfer[t].group # queue[k]
    BY <2>1 DEF FreeInv, StillFree, DeleteQueue
  <2>3. transfer[t] # None /\ transfer[t].queue = k
    BY DEF UsesQueue
  <2>4. queue[k] = transfer[t].group
    BY <2>3 DEF GroupInv, GroupsAgree
  <2>5. QED
    BY <2>2, <2>4
<1>2. QED
  BY <1>1, FreeHolds, PTL DEF Spec, LinkedQueueStays
=============================================================================
