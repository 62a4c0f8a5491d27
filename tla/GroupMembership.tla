--------------------------- MODULE GroupMembership ---------------------------
(***************************************************************************)
(* One group: its owner (column owner_id of table "group") and its members *)
(* (rows of table "user_group").  The owner has no row among the members.  *)
(*                                                                         *)
(* Every endpoint first reads what the caller may do, in a transaction of  *)
(* READ COMMITTED isolation, and then acts.  A request is modelled as the  *)
(* sequence of its reads and its commit; only UPDATE and DELETE of the     *)
(* group's row lock it, so requests interleave between these steps.        *)
(***************************************************************************)
EXTENDS Integers

CONSTANTS
  Users,       \* user ids
  Superusers,  \* those with is_superuser
  Requests,    \* concurrent requests
  None         \* "no value"

\* GroupMemberRole.public_roles: what AddUserSchema accepts.
PublicRoles == {"Maintainer", "Developer", "Guest"}

Ops == {"update", "set_role", "add", "remove", "delete", "read"}

\* What a client can ask for, with the new owner of "update" as target.
Bodies ==
  [op : {"add", "set_role"}, target : Users, role : PublicRoles]
    \cup [op : {"update", "remove"}, target : Users, role : {None}]
    \cup [op : {"delete", "read"}, target : {None}, role : {None}]

ASSUME ConstantsAssumption ==
  /\ Superusers \subseteq Users
  /\ None \notin Users \cup PublicRoles \cup {"Owner", "Superuser"} \cup Ops \cup Requests

VARIABLES
  created,  \* the group has been created
  owner,    \* owner_id, None when there is no group
  members,  \* role of each user's row in user_group, None when there is none
  lock,     \* the request that holds the lock of the group's row
  req,      \* the requests in progress
  reply,    \* the role that the last "read" of each request reported
  raced     \* history: a request has changed the group during another one

vars == <<created, owner, members, lock, req, reply, raced>>

Idle == [pc |-> "idle", op |-> None, actor |-> None, target |-> None,
         role |-> None, prev |-> None, seen |-> FALSE]

Init ==
  /\ created = FALSE
  /\ owner = None
  /\ members = [u \in Users |-> None]
  /\ lock = None
  /\ req = [q \in Requests |-> Idle]
  /\ reply = [q \in Requests |-> None]
  /\ raced = FALSE

-----------------------------------------------------------------------------
(* Permissions in the group repository.                                    *)

NONE == 0
READ == 1
DELETE == 3

\* GroupRepository.get_group_permission, for a group that exists.
GroupPermission(u) ==
  IF u \in Superusers \/ owner = u THEN DELETE
  ELSE IF members[u] # None THEN READ ELSE NONE

\* GroupRepository.get_member_role: a user without a row is taken for the owner.
MemberRole(u) ==
  IF u \in Superusers THEN "Superuser"
  ELSE IF members[u] # None THEN members[u] ELSE "Owner"

\* Mutant: read_group does not check the permission.
AllowedToRead(op, u, target) ==
  CASE op = "delete" -> u \in Superusers
    [] op = "read"   -> TRUE
    [] op = "remove" -> GroupPermission(u) = DELETE \/ (u = target /\ GroupPermission(u) # NONE)
    [] OTHER         -> GroupPermission(u) = DELETE

\* What each endpoint asks of the caller.
Allowed(op, u, target) ==
  CASE op = "delete" -> u \in Superusers
    [] op = "read"   -> GroupPermission(u) # NONE
    [] op = "remove" -> GroupPermission(u) = DELETE \/ (u = target /\ GroupPermission(u) # NONE)
    [] OTHER         -> GroupPermission(u) = DELETE

-----------------------------------------------------------------------------
(* Requests.                                                               *)

\* create_group: the caller becomes the owner.
CreateGroup(u) ==
  /\ ~created
  /\ created' = TRUE
  /\ owner' = u
  /\ UNCHANGED <<members, lock, req, reply, raced>>

\* The permission check of a request that is not refused.
Ask(q, u, b) ==
  /\ req[q].pc = "idle"
  /\ owner # None
  /\ Allowed(b.op, u, b.target)
  /\ req' = [req EXCEPT ![q] = [Idle EXCEPT !.pc = "asked", !.actor = u, !.op = b.op,
                                            !.target = b.target, !.role = b.role]]
  /\ reply' = [reply EXCEPT ![q] = None]
  /\ UNCHANGED <<created, owner, members, lock, raced>>

Done(q) == req' = [req EXCEPT ![q] = Idle]

At(q, op, pc) == req[q].op = op /\ req[q].pc = pc

\* A request that finds the group gone, raises GroupNotFoundError.
GroupGone(q) ==
  /\ req[q].pc \in {"asked", "read"}
  /\ owner = None
  /\ Done(q)
  /\ UNCHANGED <<created, owner, members, lock, reply>>

\* update_group: remember the previous owner.
ReadPreviousOwner(q) ==
  /\ At(q, "update", "asked")
  /\ owner # None
  /\ req' = [req EXCEPT ![q].pc = "read", ![q].prev = owner]
  /\ UNCHANGED <<created, owner, members, lock, reply>>

\* update_group: UPDATE "group" takes the row's lock, then get_user_group reads
\* whether the new owner has a row.
LockGroup(q) ==
  /\ At(q, "update", "read")
  /\ owner # None
  /\ lock = None
  /\ lock' = q
  /\ req' = [req EXCEPT ![q].pc = "locked", ![q].seen = members[req[q].target] # None]
  /\ UNCHANGED <<created, owner, members, reply>>

\* Mutant: forget the previous owner.
TransferOwnershipOnly(q) ==
  /\ At(q, "update", "locked")
  /\ owner' = req[q].target
  /\ members' = [members EXCEPT ![req[q].target] = IF req[q].seen THEN None ELSE @]
  /\ lock' = None
  /\ Done(q)
  /\ UNCHANGED <<created, reply>>

\* The ownership changes hands and the transaction commits: the new owner's row
\* is deleted, the previous owner gets a row as Guest.
TransferOwnership(q) ==
  LET r == req[q] IN
  /\ At(q, "update", "locked")
  /\ r.prev # r.target
  /\ members[r.prev] = None
  /\ owner' = r.target
  /\ members' = [members EXCEPT ![r.target] = IF r.seen THEN None ELSE @,
                                ![r.prev] = "Guest"]
  /\ lock' = None
  /\ Done(q)
  /\ UNCHANGED <<created, reply>>

\* AlreadyIsGroupMemberError (primary key of user_group): rolled back.
TransferRefused(q) ==
  /\ At(q, "update", "locked")
  /\ req[q].prev # req[q].target
  /\ members[req[q].prev] # None
  /\ lock' = None
  /\ Done(q)
  /\ UNCHANGED <<created, owner, members, reply>>

\* The request names the owner it has read: only name and description differ,
\* but owner_id is part of the UPDATE.
RenameGroup(q) ==
  /\ At(q, "update", "locked")
  /\ req[q].prev = req[q].target
  /\ owner' = req[q].target
  /\ lock' = None
  /\ Done(q)
  /\ UNCHANGED <<created, members, reply>>

\* Mutant: add_user_to_group does not compare the user with the owner.
CheckNothing(q) ==
  /\ At(q, "add", "asked")
  /\ owner # None
  /\ req' = [req EXCEPT ![q].pc = "read"]
  /\ UNCHANGED <<created, owner, members, lock, reply>>

\* add_user_to_group: the user is not the owner.
CheckNotOwner(q) ==
  /\ At(q, "add", "asked")
  /\ owner # None
  /\ owner # req[q].target
  /\ req' = [req EXCEPT ![q].pc = "read"]
  /\ UNCHANGED <<created, owner, members, lock, reply>>

\* AlreadyIsGroupOwnerError.
IsOwner(q) ==
  /\ At(q, "add", "asked")
  /\ owner # None
  /\ owner = req[q].target
  /\ Done(q)
  /\ UNCHANGED <<created, owner, members, lock, reply>>

\* Mutant: user_group has no foreign key to the group.
AddUserWithoutGroup(q) ==
  /\ At(q, "add", "read")
  /\ members' = [members EXCEPT ![req[q].target] = req[q].role]
  /\ Done(q)
  /\ UNCHANGED <<created, owner, lock, reply>>

\* GroupRepository.add_user; AlreadyIsGroupMemberError when there is a row.
AddUser(q) ==
  /\ At(q, "add", "read")
  /\ owner # None
  /\ members' = [members EXCEPT ![req[q].target] = IF @ = None THEN req[q].role ELSE @]
  /\ Done(q)
  /\ UNCHANGED <<created, owner, lock, reply>>

\* GroupRepository.update_member_role; UserNotFoundError when there is no row.
UpdateMemberRole(q) ==
  /\ At(q, "set_role", "asked")
  /\ owner # None
  /\ members' = [members EXCEPT ![req[q].target] = IF @ = None THEN None ELSE req[q].role]
  /\ Done(q)
  /\ UNCHANGED <<created, owner, lock, reply>>

\* GroupRepository.delete_user; AlreadyIsNotGroupMemberError when there is no
\* row, which is the owner's case too.
DeleteUser(q) ==
  /\ At(q, "remove", "asked")
  /\ owner # None
  /\ members' = [members EXCEPT ![req[q].target] = None]
  /\ Done(q)
  /\ UNCHANGED <<created, owner, lock, reply>>

\* delete_group; the members' rows go with it (ON DELETE CASCADE).
DeleteGroup(q) ==
  /\ At(q, "delete", "asked")
  /\ owner # None
  /\ lock = None
  /\ owner' = None
  /\ members' = [u \in Users |-> None]
  /\ Done(q)
  /\ UNCHANGED <<created, lock, reply>>

\* read_group: the group and the caller's role, after the permission check.
ReadGroup(q) ==
  /\ At(q, "read", "asked")
  /\ owner # None
  /\ reply' = [reply EXCEPT ![q] = MemberRole(req[q].actor)]
  /\ Done(q)
  /\ UNCHANGED <<created, owner, members, lock>>

-----------------------------------------------------------------------------
Handle(q) ==
  \/ GroupGone(q)
  \/ ReadPreviousOwner(q)
  \/ LockGroup(q)
  \/ TransferOwnership(q)
  \/ TransferRefused(q)
  \/ RenameGroup(q)
  \/ CheckNotOwner(q)
  \/ IsOwner(q)
  \/ AddUser(q)
  \/ UpdateMemberRole(q)
  \/ DeleteUser(q)
  \/ DeleteGroup(q)
  \/ ReadGroup(q)

\* A step of q changes the owner or the members while another request is
\* between its check and its commit.
Races(q) ==
  raced' = \/ raced
           \/ /\ <<owner, members>>' # <<owner, members>>
              /\ \E p \in Requests \ {q} : req[p].pc # "idle"

Serve(q) == Handle(q) /\ Races(q)

Next ==
  \/ \E u \in Users : CreateGroup(u)
  \/ \E q \in Requests, u \in Users, b \in Bodies : Ask(q, u, b)
  \/ \E q \in Requests : Serve(q)

Spec == Init /\ [][Next]_vars

-----------------------------------------------------------------------------
(* Properties.                                                             *)

\* Type invariant of the group, its members and the requests.
TypeOK ==
  /\ created \in BOOLEAN
  /\ owner \in Users \cup {None}
  /\ members \in [Users -> PublicRoles \cup {None}]
  /\ lock \in Requests \cup {None}
  /\ req \in [Requests -> [pc : {"idle", "asked", "read", "locked"}, op : Ops \cup {None},
                           actor : Users \cup {None}, target : Users \cup {None},
                           role : PublicRoles \cup {None}, prev : Users \cup {None},
                           seen : BOOLEAN]]
  /\ reply \in [Requests -> PublicRoles \cup {"Owner", "Superuser", None}]
  /\ raced \in BOOLEAN

\* "query for groups where the user is a member (not Owner)": the owner has no
\* row in user_group (update_group and add_user_to_group each keep it so with
\* a check that precedes their commit), until some request changes the group in
\* the middle of another.
OwnerIsNotMember == ~raced /\ owner # None => members[owner] = None

\* "Grant read-only permissions for the previous group owner when ownership is
\* transferred": whoever loses the group stays in it as Guest (update_group),
\* until some request changes the group in the middle of another.
HandOver ==
  [][~raced /\ owner # None /\ owner' \notin {owner, None} => members'[owner] = "Guest"]_vars

\* "Group can have only one owner": read_group answers Owner to the owner and
\* to nobody else, although get_member_role takes everybody without a row for
\* the owner, until some request changes the group in the middle of another.
OwnerRoleIsReal ==
  [][\A q \in Requests : ~raced /\ reply[q] = None /\ reply'[q] = "Owner" => owner = req[q].actor]_vars

\* No row of user_group outlives the group, whatever requests were under way
\* when it was deleted.
NoOrphanMembers == owner = None => \A u \in Users : members[u] = None
=============================================================================
