----------------------- MODULE GroupMembershipProofs -----------------------
(***************************************************************************)
(* A group never leaves members behind, for any number of users and of     *)
(* overlapping requests; and until a request changes the group in the      *)
(* middle of another, the owner is not a member, a previous owner stays as *)
(* Guest and the role Owner is reported to the owner only.                 *)
(***************************************************************************)
EXTENDS GroupMembership, TLAPS

\* A request names the users its operation needs, and only an update holds
\* the lock of the group's row.
RequestInv ==
  /\ ~created => owner = None
  /\ \A q \in Requests :
    /\ ~created => req[q].pc = "idle"
    /\ req[q].pc # "idle" => req[q].op \in Ops /\ req[q].actor \in Users
    /\ req[q].op \in {"update", "add"} => req[q].target \in Users
    /\ req[q].op \in {"add", "set_role"} => req[q].role \in PublicRoles
    /\ req[q].pc = "locked" => lock = q /\ owner # None /\ req[q].op = "update"
    /\ req[q].op = "update" /\ req[q].pc \in {"read", "locked"} => req[q].prev \in Users

\* The values of a request.
Request ==
  [pc : {"idle", "asked", "read", "locked"}, op : Ops \cup {None},
   actor : Users \cup {None}, target : Users \cup {None},
   role : PublicRoles \cup {None}, prev : Users \cup {None}, seen : BOOLEAN]

Base == TypeOK /\ RequestInv

OrphanInv == Base /\ NoOrphanMembers

\* What request q has read is still so.
Fresh(q) ==
  /\ At(q, "add", "read") => owner # req[q].target
  /\ req[q].op = "update" /\ req[q].pc \in {"read", "locked"} => req[q].prev = owner
  /\ req[q].pc = "locked" => req[q].seen = (members[req[q].target] # None)
  /\ At(q, "read", "asked") => GroupPermission(req[q].actor) # NONE

\* It is, for every request, as long as no request has raced another.
FreshInv == ~raced => \A q \in Requests : Fresh(q)

SerialInv == OrphanInv /\ OwnerIsNotMember /\ FreshInv

\* The initial state satisfies the type invariant and the requests' invariant.
LEMMA BaseInit == Init => Base
<1> SUFFICES ASSUME Init PROVE Base
  OBVIOUS
<1>1. Idle \in Request
  BY DEF Idle, Request
<1>2. TypeOK
  BY <1>1 DEF Init, TypeOK, Request
<1>3. \A q \in Requests : req[q].pc = "idle" /\ req[q].op = None
  BY DEF Init, Idle
<1>4. RequestInv
  BY <1>3, ConstantsAssumption DEF Init, RequestInv, Ops
<1>5. QED
  BY <1>2, <1>4 DEF Base

\* Every step preserves the type invariant.
LEMMA TypeStep == Base /\ [Next]_vars => TypeOK'
<1> SUFFICES ASSUME Base, [Next]_vars PROVE TypeOK'
  OBVIOUS
<1> USE ConstantsAssumption DEF Base, TypeOK, RequestInv, Ops, PublicRoles
<1>0. ASSUME NEW q \in Requests, Races(q) PROVE raced' \in BOOLEAN
  BY <1>0 DEF Races
<1>1. ASSUME NEW u \in Users, CreateGroup(u) PROVE TypeOK'
  BY <1>1 DEF CreateGroup, MemberRole
<1>2. ASSUME NEW q \in Requests, NEW u \in Users, NEW b \in Bodies, Ask(q, u, b)
      PROVE  TypeOK'
  BY <1>2 DEF Ask, Idle, Bodies, Allowed, GroupPermission, NONE, READ, DELETE, MemberRole
<1>3. ASSUME NEW q \in Requests, GroupGone(q), Races(q) PROVE TypeOK'
  BY <1>0, <1>3 DEF GroupGone, At, Done, Idle, MemberRole
<1>4. ASSUME NEW q \in Requests, ReadPreviousOwner(q), Races(q) PROVE TypeOK'
  <2>1. req' = [req EXCEPT ![q] = [req[q] EXCEPT !.pc = "read", !.prev = owner]]
    BY <1>0, <1>4 DEF ReadPreviousOwner
  <2>2. [req[q] EXCEPT !.pc = "read", !.prev = owner] \in Request
    BY DEF Request
  <2>3. req' \in [Requests -> Request]
    BY <2>1, <2>2 DEF Request
  <2>4. QED
    BY <1>0, <1>4, <2>3 DEF ReadPreviousOwner, Request
<1>5. ASSUME NEW q \in Requests, LockGroup(q), Races(q) PROVE TypeOK'
  <2> DEFINE seen == members[req[q].target] # None
  <2>1. req' = [req EXCEPT ![q] = [req[q] EXCEPT !.pc = "locked", !.seen = seen]]
    BY <1>0, <1>5 DEF LockGroup
  <2>2. seen \in BOOLEAN
    OBVIOUS
  <2>3. [req[q] EXCEPT !.pc = "locked", !.seen = seen] \in Request
    <3> HIDE DEF seen
    <3>1. QED
      BY <2>2 DEF Request
  <2>4. req' \in [Requests -> Request]
    BY <2>1, <2>3 DEF Request
  <2>5. QED
    BY <1>0, <1>5, <2>4 DEF LockGroup, Request
<1>6. ASSUME NEW q \in Requests, TransferOwnership(q), Races(q) PROVE TypeOK'
  BY <1>0, <1>6 DEF TransferOwnership, At, Done, Idle, MemberRole
<1>7. ASSUME NEW q \in Requests, TransferRefused(q), Races(q) PROVE TypeOK'
  BY <1>0, <1>7 DEF TransferRefused, At, Done, Idle, MemberRole
<1>8. ASSUME NEW q \in Requests, RenameGroup(q), Races(q) PROVE TypeOK'
  BY <1>0, <1>8 DEF RenameGroup, At, Done, Idle, MemberRole
<1>9. ASSUME NEW q \in Requests, CheckNotOwner(q), Races(q) PROVE TypeOK'
  BY <1>0, <1>9 DEF CheckNotOwner, At, Done, Idle, MemberRole
<1>10. ASSUME NEW q \in Requests, IsOwner(q), Races(q) PROVE TypeOK'
  BY <1>0, <1>10 DEF IsOwner, At, Done, Idle, MemberRole
<1>11. ASSUME NEW q \in Requests, AddUser(q), Races(q) PROVE TypeOK'
  BY <1>0, <1>11 DEF AddUser, At, Done, Idle, MemberRole
<1>12. ASSUME NEW q \in Requests, UpdateMemberRole(q), Races(q) PROVE TypeOK'
  BY <1>0, <1>12 DEF UpdateMemberRole, At, Done, Idle, MemberRole
<1>13. ASSUME NEW q \in Requests, DeleteUser(q), Races(q) PROVE TypeOK'
  BY <1>0, <1>13 DEF DeleteUser, At, Done, Idle, MemberRole
<1>14. ASSUME NEW q \in Requests, DeleteGroup(q), Races(q) PROVE TypeOK'
  BY <1>0, <1>14 DEF DeleteGroup, At, Done, Idle, MemberRole
<1>15. ASSUME NEW q \in Requests, ReadGroup(q), Races(q) PROVE TypeOK'
  BY <1>0, <1>15 DEF ReadGroup, At, Done, Idle, MemberRole
<1>16. CASE UNCHANGED vars
  BY <1>16 DEF vars, MemberRole
<1>17. QED
  BY <1>1, <1>2, <1>3, <1>4, <1>5, <1>6, <1>7, <1>8, <1>9, <1>10, <1>11, <1>12, <1>13, <1>14, <1>15, <1>16 DEF Next, Serve, Handle

\* Every step preserves the requests' invariant.
LEMMA RequestStep == Base /\ TypeOK' /\ [Next]_vars => RequestInv'
<1> SUFFICES ASSUME Base, TypeOK', [Next]_vars PROVE RequestInv'
  OBVIOUS
<1> USE ConstantsAssumption DEF Base, TypeOK, RequestInv, Ops
<1>1. ASSUME NEW u \in Users, CreateGroup(u) PROVE RequestInv'
  BY <1>1 DEF CreateGroup
<1>2. ASSUME NEW q \in Requests, NEW u \in Users, NEW b \in Bodies, Ask(q, u, b)
      PROVE  RequestInv'
  BY <1>2 DEF Ask, Idle, Bodies, Allowed, GroupPermission, NONE, READ, DELETE
<1>3. ASSUME NEW q \in Requests, GroupGone(q) PROVE RequestInv'
  BY <1>3 DEF GroupGone, At, Done, Idle
<1>4. ASSUME NEW q \in Requests, ReadPreviousOwner(q) PROVE RequestInv'
  BY <1>4 DEF ReadPreviousOwner, At, Done, Idle
<1>5. ASSUME NEW q \in Requests, LockGroup(q) PROVE RequestInv'
  BY <1>5 DEF LockGroup, At, Done, Idle
<1>6. ASSUME NEW q \in Requests, TransferOwnership(q) PROVE RequestInv'
  BY <1>6 DEF TransferOwnership, At, Done, Idle
<1>7. ASSUME NEW q \in Requests, TransferRefused(q) PROVE RequestInv'
  BY <1>7 DEF TransferRefused, At, Done, Idle
<1>8. ASSUME NEW q \in Requests, RenameGroup(q) PROVE RequestInv'
  BY <1>8 DEF RenameGroup, At, Done, Idle
<1>9. ASSUME NEW q \in Requests, CheckNotOwner(q) PROVE RequestInv'
  BY <1>9 DEF CheckNotOwner, At, Done, Idle
<1>10. ASSUME NEW q \in Requests, IsOwner(q) PROVE RequestInv'
  BY <1>10 DEF IsOwner, At, Done, Idle
<1>11. ASSUME NEW q \in Requests, AddUser(q) PROVE RequestInv'
  BY <1>11 DEF AddUser, At, Done, Idle
<1>12. ASSUME NEW q \in Requests, UpdateMemberRole(q) PROVE RequestInv'
  BY <1>12 DEF UpdateMemberRole, At, Done, Idle
<1>13. ASSUME NEW q \in Requests, DeleteUser(q) PROVE RequestInv'
  BY <1>13 DEF DeleteUser, At, Done, Idle
<1>14. ASSUME NEW q \in Requests, DeleteGroup(q) PROVE RequestInv'
  BY <1>14 DEF DeleteGroup, At, Done, Idle
<1>15. ASSUME NEW q \in Requests, ReadGroup(q) PROVE RequestInv'
  BY <1>15 DEF ReadGroup, At, Done, Idle
<1>16. CASE UNCHANGED vars
  BY <1>16 DEF vars
<1>17. QED
  BY <1>1, <1>2, <1>3, <1>4, <1>5, <1>6, <1>7, <1>8, <1>9, <1>10, <1>11, <1>12, <1>13, <1>14, <1>15, <1>16 DEF Next, Serve, Handle

\* Owner, members, requests and replies keep their types, with any number of
\* requests under way.
THEOREM TypeCorrect == Spec => []TypeOK
<1>1. Base /\ [Next]_vars => Base'
  BY TypeStep, RequestStep DEF Base
<1>2. Base => TypeOK
  BY DEF Base
<1>3. QED
  BY BaseInit, <1>1, <1>2, PTL DEF Spec

\* Every step keeps a deleted group free of members.
LEMMA OrphanStep == OrphanInv /\ Base' /\ [Next]_vars => NoOrphanMembers'
<1> SUFFICES ASSUME OrphanInv, Base', [Next]_vars PROVE NoOrphanMembers'
  OBVIOUS
<1> USE ConstantsAssumption DEF OrphanInv, Base, TypeOK, RequestInv, NoOrphanMembers
<1>1. ASSUME NEW u \in Users, CreateGroup(u) PROVE NoOrphanMembers'
  BY <1>1 DEF CreateGroup
<1>2. ASSUME NEW q \in Requests, NEW u \in Users, NEW b \in Bodies, Ask(q, u, b)
      PROVE  NoOrphanMembers'
  BY <1>2 DEF Ask, Idle, Bodies, Allowed, GroupPermission, NONE, READ, DELETE
<1>3. ASSUME NEW q \in Requests, GroupGone(q) PROVE NoOrphanMembers'
  BY <1>3 DEF GroupGone, At, Done, Idle
<1>4. ASSUME NEW q \in Requests, ReadPreviousOwner(q) PROVE NoOrphanMembers'
  BY <1>4 DEF ReadPreviousOwner, At, Done, Idle
<1>5. ASSUME NEW q \in Requests, LockGroup(q) PROVE NoOrphanMembers'
  BY <1>5 DEF LockGroup, At, Done, Idle
<1>6. ASSUME NEW q \in Requests, TransferOwnership(q) PROVE NoOrphanMembers'
  BY <1>6 DEF TransferOwnership, At, Done, Idle
<1>7. ASSUME NEW q \in Requests, TransferRefused(q) PROVE NoOrphanMembers'
  BY <1>7 DEF TransferRefused, At, Done, Idle
<1>8. ASSUME NEW q \in Requests, RenameGroup(q) PROVE NoOrphanMembers'
  BY <1>8 DEF RenameGroup, At, Done, Idle
<1>9. ASSUME NEW q \in Requests, CheckNotOwner(q) PROVE NoOrphanMembers'
  BY <1>9 DEF CheckNotOwner, At, Done, Idle
<1>10. ASSUME NEW q \in Requests, IsOwner(q) PROVE NoOrphanMembers'
  BY <1>10 DEF IsOwner, At, Done, Idle
<1>11. ASSUME NEW q \in Requests, AddUser(q) PROVE NoOrphanMembers'
  BY <1>11 DEF AddUser, At, Done, Idle
<1>12. ASSUME NEW q \in Requests, UpdateMemberRole(q) PROVE NoOrphanMembers'
  BY <1>12 DEF UpdateMemberRole, At, Done, Idle
<1>13. ASSUME NEW q \in Requests, DeleteUser(q) PROVE NoOrphanMembers'
  BY <1>13 DEF DeleteUser, At, Done, Idle
<1>14. ASSUME NEW q \in Requests, DeleteGroup(q) PROVE NoOrphanMembers'
  BY <1>14 DEF DeleteGroup, At, Done, Idle
<1>15. ASSUME NEW q \in Requests, ReadGroup(q) PROVE NoOrphanMembers'
  BY <1>15 DEF ReadGroup, At, Done, Idle
<1>16. CASE UNCHANGED vars
  BY <1>16 DEF vars
<1>17. QED
  BY <1>1, <1>2, <1>3, <1>4, <1>5, <1>6, <1>7, <1>8, <1>9, <1>10, <1>11, <1>12, <1>13, <1>14, <1>15, <1>16 DEF Next, Serve, Handle

\* No row of user_group outlives the group, for any number of requests that
\* overlap the deletion.
THEOREM NoOrphanMembersHolds == Spec => []NoOrphanMembers
<1>1. Init => OrphanInv
  BY BaseInit DEF OrphanInv, Init, NoOrphanMembers
<1>2. OrphanInv /\ [Next]_vars => OrphanInv'
  BY TypeStep, RequestStep, OrphanStep DEF OrphanInv, Base
<1>3. OrphanInv => NoOrphanMembers
  BY DEF OrphanInv
<1>4. QED
  BY <1>1, <1>2, <1>3, PTL DEF Spec

\* What the other requests have read stays so when q takes a step that does not
\* race them.
LEMMA OthersStayFresh ==
  ASSUME SerialInv, NEW q \in Requests, Races(q), ~raced',
         \A p \in Requests \ {q} : req'[p] = req[p]
  PROVE  ~raced /\ \A p \in Requests \ {q} : Fresh(p)'
<1>1. ~raced
  BY DEF Races
<1>2. ASSUME NEW p \in Requests \ {q} PROVE Fresh(p)'
  <2>1. CASE req[p].pc = "idle"
    BY <1>2, <2>1 DEF Fresh, At
  <2>2. CASE owner' = owner /\ members' = members
    BY <1>1, <1>2, <2>2 DEF SerialInv, FreshInv, Fresh, At, GroupPermission
  <2>3. QED
    BY <1>2, <2>1, <2>2 DEF Races
<1>3. QED
  BY <1>1, <1>2

\* Every step that races no request keeps the owner out of the members and what
\* the requests have read fresh.
LEMMA SerialStep == SerialInv /\ OrphanInv' /\ [Next]_vars => OwnerIsNotMember' /\ FreshInv'
<1> DEFINE Free == owner # None => members[owner] = None
<1> DEFINE Goal == Free /\ \A q \in Requests : Fresh(q)
<1> SUFFICES ASSUME SerialInv, OrphanInv', [Next]_vars, ~raced' PROVE Goal'
  BY DEF OwnerIsNotMember, FreshInv
<1>1. ASSUME NEW u \in Users, CreateGroup(u) PROVE Goal'
  <2>1. ~raced /\ owner = None /\ \A q \in Requests : req[q].pc = "idle" /\ req'[q] = req[q]
    BY <1>1 DEF CreateGroup, SerialInv, OrphanInv, Base, RequestInv
  <2>2. Free'
    BY <1>1, <2>1 DEF CreateGroup, SerialInv, OrphanInv, NoOrphanMembers
  <2>3. QED
    BY <2>1, <2>2 DEF Fresh, At
<1>2. ASSUME NEW q \in Requests, NEW u \in Users, NEW b \in Bodies, Ask(q, u, b)
      PROVE  Goal'
  <2>1. ~raced /\ owner' = owner /\ members' = members
    BY <1>2 DEF Ask
  <2>2. Free'
    BY <2>1 DEF SerialInv, OwnerIsNotMember
  <2>3. ASSUME NEW p \in Requests \ {q} PROVE Fresh(p)'
    <3>1. req'[p] = req[p]
      BY <1>2, <2>3 DEF Ask, SerialInv, OrphanInv, Base, TypeOK
    <3>2. QED
      BY <2>1, <2>3, <3>1 DEF SerialInv, FreshInv, Fresh, At, GroupPermission
  <2>4. Fresh(q)'
    BY <1>2, <2>1, ConstantsAssumption
       DEF Ask, Idle, Bodies, Allowed, SerialInv, OrphanInv, Base, TypeOK, Fresh, At, GroupPermission
  <2>5. QED
    BY <2>2, <2>3, <2>4
<1>3. ASSUME NEW q \in Requests, Handle(q), Races(q) PROVE Goal'
  <2> USE ConstantsAssumption DEF SerialInv, OrphanInv, Base, NoOrphanMembers, TypeOK, RequestInv,
        OwnerIsNotMember, FreshInv, Fresh, At, Done, Idle
  <2> DEFINE Own == Free /\ Fresh(q)
  <2>1. \A p \in Requests \ {q} : req'[p] = req[p]
    BY <1>3 DEF Handle, GroupGone, ReadPreviousOwner, LockGroup, TransferOwnership, TransferRefused, RenameGroup, CheckNotOwner, IsOwner, AddUser, UpdateMemberRole, DeleteUser, DeleteGroup, ReadGroup
  <2>2. ~raced /\ \A p \in Requests \ {q} : Fresh(p)'
    BY <1>3, <2>1, OthersStayFresh
  <2>3. ASSUME GroupGone(q) PROVE Own'
    BY <2>2, <2>3 DEF GroupGone
  <2>4. ASSUME ReadPreviousOwner(q) PROVE Own'
    BY <2>2, <2>4 DEF ReadPreviousOwner
  <2>5. ASSUME LockGroup(q) PROVE Own'
    BY <2>2, <2>5 DEF LockGroup
  <2>6. ASSUME TransferOwnership(q) PROVE Own'
    BY <2>2, <2>6 DEF TransferOwnership
  <2>7. ASSUME TransferRefused(q) PROVE Own'
    BY <2>2, <2>7 DEF TransferRefused
  <2>8. ASSUME RenameGroup(q) PROVE Own'
    BY <2>2, <2>8 DEF RenameGroup
  <2>9. ASSUME CheckNotOwner(q) PROVE Own'
    BY <2>2, <2>9 DEF CheckNotOwner
  <2>10. ASSUME IsOwner(q) PROVE Own'
    BY <2>2, <2>10 DEF IsOwner
  <2>11. ASSUME AddUser(q) PROVE Own'
    BY <2>2, <2>11 DEF AddUser
  <2>12. ASSUME UpdateMemberRole(q) PROVE Own'
    BY <2>2, <2>12 DEF UpdateMemberRole
  <2>13. ASSUME DeleteUser(q) PROVE Own'
    BY <2>2, <2>13 DEF DeleteUser
  <2>14. ASSUME DeleteGroup(q) PROVE Own'
    BY <2>2, <2>14 DEF DeleteGroup
  <2>15. ASSUME ReadGroup(q) PROVE Own'
    BY <2>2, <2>15 DEF ReadGroup
  <2>16. Own'
    BY <1>3, <2>3, <2>4, <2>5, <2>6, <2>7, <2>8, <2>9, <2>10, <2>11, <2>12, <2>13, <2>14, <2>15 DEF Handle
  <2>17. QED
    BY <2>2, <2>16
<1>4. CASE UNCHANGED vars
  <2>1. Free' /\ ~raced
    BY <1>4 DEF vars, SerialInv, OwnerIsNotMember
  <2>2. QED
    BY <1>4, <2>1 DEF vars, SerialInv, FreshInv, Fresh, At, GroupPermission
<1>5. QED
  BY <1>1, <1>2, <1>3, <1>4 DEF Next, Serve

\* The serial invariant holds in every state.
LEMMA SerialInvariant == Spec => []SerialInv
<1>1. Init => SerialInv
  BY BaseInit, ConstantsAssumption
     DEF SerialInv, Init, OwnerIsNotMember, FreshInv, Fresh, At, Idle, OrphanInv, NoOrphanMembers, Ops
<1>2. SerialInv /\ [Next]_vars => SerialInv'
  BY TypeStep, RequestStep, OrphanStep, SerialStep DEF SerialInv, OrphanInv, Base, NoOrphanMembers
<1>3. QED
  BY <1>1, <1>2, PTL DEF Spec

\* The owner never has a row among the members unless a request has changed the
\* group in the middle of another.
THEOREM OwnerIsNotMemberHolds == Spec => []OwnerIsNotMember
<1>1. SerialInv => OwnerIsNotMember
  BY DEF SerialInv
<1>2. QED
  BY SerialInvariant, <1>1, PTL

HandOverStep == ~raced /\ owner # None /\ owner' \notin {owner, None} => members'[owner] = "Guest"

OwnerRoleStep ==
  \A q \in Requests : ~raced /\ reply[q] = None /\ reply'[q] = "Owner" => owner = req[q].actor

\* A step that changes the owner leaves the previous one as Guest.
LEMMA HandOverAction == SerialInv /\ [Next]_vars => HandOverStep
<1> SUFFICES ASSUME SerialInv, [Next]_vars PROVE HandOverStep
  OBVIOUS
<1> USE ConstantsAssumption DEF SerialInv, OrphanInv, Base, NoOrphanMembers, TypeOK, RequestInv, FreshInv, Fresh, At, HandOverStep
<1>1. ASSUME NEW u \in Users, CreateGroup(u) PROVE HandOverStep
  BY <1>1 DEF CreateGroup
<1>2. ASSUME NEW q \in Requests, NEW u \in Users, NEW b \in Bodies, Ask(q, u, b)
      PROVE  HandOverStep
  BY <1>2 DEF Ask, Idle, Bodies, Allowed, GroupPermission, NONE, READ, DELETE
<1>3. ASSUME NEW q \in Requests, GroupGone(q) PROVE HandOverStep
  BY <1>3 DEF GroupGone, At, Done, Idle
<1>4. ASSUME NEW q \in Requests, ReadPreviousOwner(q) PROVE HandOverStep
  BY <1>4 DEF ReadPreviousOwner, At, Done, Idle
<1>5. ASSUME NEW q \in Requests, LockGroup(q) PROVE HandOverStep
  BY <1>5 DEF LockGroup, At, Done, Idle
<1>6. ASSUME NEW q \in Requests, TransferOwnership(q) PROVE HandOverStep
  BY <1>6 DEF TransferOwnership, At, Done, Idle
<1>7. ASSUME NEW q \in Requests, TransferRefused(q) PROVE HandOverStep
  BY <1>7 DEF TransferRefused, At, Done, Idle
<1>8. ASSUME NEW q \in Requests, RenameGroup(q) PROVE HandOverStep
  BY <1>8 DEF RenameGroup, At, Done, Idle
<1>9. ASSUME NEW q \in Requests, CheckNotOwner(q) PROVE HandOverStep
  BY <1>9 DEF CheckNotOwner, At, Done, Idle
<1>10. ASSUME NEW q \in Requests, IsOwner(q) PROVE HandOverStep
  BY <1>10 DEF IsOwner, At, Done, Idle
<1>11. ASSUME NEW q \in Requests, AddUser(q) PROVE HandOverStep
  BY <1>11 DEF AddUser, At, Done, Idle
<1>12. ASSUME NEW q \in Requests, UpdateMemberRole(q) PROVE HandOverStep
  BY <1>12 DEF UpdateMemberRole, At, Done, Idle
<1>13. ASSUME NEW q \in Requests, DeleteUser(q) PROVE HandOverStep
  BY <1>13 DEF DeleteUser, At, Done, Idle
<1>14. ASSUME NEW q \in Requests, DeleteGroup(q) PROVE HandOverStep
  BY <1>14 DEF DeleteGroup, At, Done, Idle
<1>15. ASSUME NEW q \in Requests, ReadGroup(q) PROVE HandOverStep
  BY <1>15 DEF ReadGroup, At, Done, Idle
<1>16. CASE UNCHANGED vars
  BY <1>16 DEF vars
<1>17. QED
  BY <1>1, <1>2, <1>3, <1>4, <1>5, <1>6, <1>7, <1>8, <1>9, <1>10, <1>11, <1>12, <1>13, <1>14, <1>15, <1>16 DEF Next, Serve, Handle

\* A step that reports the role Owner reports it to the owner.
LEMMA OwnerRoleAction == SerialInv /\ [Next]_vars => OwnerRoleStep
<1> SUFFICES ASSUME SerialInv, [Next]_vars PROVE OwnerRoleStep
  OBVIOUS
<1> USE ConstantsAssumption DEF SerialInv, OrphanInv, Base, NoOrphanMembers, TypeOK, RequestInv, FreshInv, Fresh, At, OwnerRoleStep
<1>1. ASSUME NEW u \in Users, CreateGroup(u) PROVE OwnerRoleStep
  BY <1>1 DEF CreateGroup, MemberRole, GroupPermission, NONE, READ, DELETE, PublicRoles
<1>2. ASSUME NEW q \in Requests, NEW u \in Users, NEW b \in Bodies, Ask(q, u, b)
      PROVE  OwnerRoleStep
  BY <1>2 DEF Ask, Idle, Bodies, Allowed, GroupPermission, NONE, READ, DELETE, MemberRole, GroupPermission, NONE, READ, DELETE, PublicRoles
<1>3. ASSUME NEW q \in Requests, GroupGone(q) PROVE OwnerRoleStep
  BY <1>3 DEF GroupGone, At, Done, Idle, MemberRole, GroupPermission, NONE, READ, DELETE, PublicRoles
<1>4. ASSUME NEW q \in Requests, ReadPreviousOwner(q) PROVE OwnerRoleStep
  BY <1>4 DEF ReadPreviousOwner, At, Done, Idle, MemberRole, GroupPermission, NONE, READ, DELETE, PublicRoles
<1>5. ASSUME NEW q \in Requests, LockGroup(q) PROVE OwnerRoleStep
  BY <1>5 DEF LockGroup, At, Done, Idle, MemberRole, GroupPermission, NONE, READ, DELETE, PublicRoles
<1>6. ASSUME NEW q \in Requests, TransferOwnership(q) PROVE OwnerRoleStep
  BY <1>6 DEF TransferOwnership, At, Done, Idle, MemberRole, GroupPermission, NONE, READ, DELETE, PublicRoles
<1>7. ASSUME NEW q \in Requests, TransferRefused(q) PROVE OwnerRoleStep
  BY <1>7 DEF TransferRefused, At, Done, Idle, MemberRole, GroupPermission, NONE, READ, DELETE, PublicRoles
<1>8. ASSUME NEW q \in Requests, RenameGroup(q) PROVE OwnerRoleStep
  BY <1>8 DEF RenameGroup, At, Done, Idle, MemberRole, GroupPermission, NONE, READ, DELETE, PublicRoles
<1>9. ASSUME NEW q \in Requests, CheckNotOwner(q) PROVE OwnerRoleStep
  BY <1>9 DEF CheckNotOwner, At, Done, Idle, MemberRole, GroupPermission, NONE, READ, DELETE, PublicRoles
<1>10. ASSUME NEW q \in Requests, IsOwner(q) PROVE OwnerRoleStep
  BY <1>10 DEF IsOwner, At, Done, Idle, MemberRole, GroupPermission, NONE, READ, DELETE, PublicRoles
<1>11. ASSUME NEW q \in Requests, AddUser(q) PROVE OwnerRoleStep
  BY <1>11 DEF AddUser, At, Done, Idle, MemberRole, GroupPermission, NONE, READ, DELETE, PublicRoles
<1>12. ASSUME NEW q \in Requests, UpdateMemberRole(q) PROVE OwnerRoleStep
  BY <1>12 DEF UpdateMemberRole, At, Done, Idle, MemberRole, GroupPermission, NONE, READ, DELETE, PublicRoles
<1>13. ASSUME NEW q \in Requests, DeleteUser(q) PROVE OwnerRoleStep
  BY <1>13 DEF DeleteUser, At, Done, Idle, MemberRole, GroupPermission, NONE, READ, DELETE, PublicRoles
<1>14. ASSUME NEW q \in Requests, DeleteGroup(q) PROVE OwnerRoleStep
  BY <1>14 DEF DeleteGroup, At, Done, Idle, MemberRole, GroupPermission, NONE, READ, DELETE, PublicRoles
<1>15. ASSUME NEW q \in Requests, ReadGroup(q) PROVE OwnerRoleStep
  BY <1>15 DEF ReadGroup, At, Done, Idle, MemberRole, GroupPermission, NONE, READ, DELETE, PublicRoles
<1>16. CASE UNCHANGED vars
  BY <1>16 DEF vars, MemberRole, GroupPermission, NONE, READ, DELETE, PublicRoles
<1>17. QED
  BY <1>1, <1>2, <1>3, <1>4, <1>5, <1>6, <1>7, <1>8, <1>9, <1>10, <1>11, <1>12, <1>13, <1>14, <1>15, <1>16 DEF Next, Serve, Handle

\* Whoever loses the group stays in it as Guest, unless a request has changed
\* the group in the middle of another.
THEOREM HandOverHolds == Spec => HandOver
<1>1. [Next]_vars /\ SerialInv => [~raced /\ owner # None /\ owner' \notin {owner, None} => members'[owner] = "Guest"]_vars
  BY HandOverAction DEF HandOverStep
<1>2. QED
  BY SerialInvariant, <1>1, PTL DEF Spec, HandOver

\* read_group answers Owner to the owner only, unless a request has changed the
\* group in the middle of another.
THEOREM OwnerRoleIsRealHolds == Spec => OwnerRoleIsReal
<1>1. [Next]_vars /\ SerialInv =>
        [\A q \in Requests : ~raced /\ reply[q] = None /\ reply'[q] = "Owner" => owner = req[q].actor]_vars
  BY OwnerRoleAction DEF OwnerRoleStep
<1>2. QED
  BY SerialInvariant, <1>1, PTL DEF Spec, OwnerRoleIsReal

-----------------------------------------------------------------------------
(* Facts that hold after races, too.                                       *)

\* The lock of the group's row is held by an update that is about to commit, and
\* by nobody else.
LockIsHeld == \A q \in Requests : lock = q <=> req[q].pc = "locked"

\* A deletion is final: an update that was under way, even one that had been
\* allowed to hand the group over, does not bring the group back.
DeletedIsFinal == created /\ owner = None => created' /\ owner' = None

\* The requests' invariant holds.
LEMMA BaseHolds == Spec => []Base
<1>1. Base /\ [Next]_vars => Base'
  BY TypeStep, RequestStep DEF Base
<1>2. QED
  BY BaseInit, <1>1, PTL DEF Spec

\* Taking and giving back the lock.
LEMMA LockStep == Base /\ LockIsHeld /\ [Next]_vars => LockIsHeld'
<1> SUFFICES ASSUME Base, LockIsHeld, [Next]_vars PROVE LockIsHeld'
  OBVIOUS
<1> USE ConstantsAssumption DEF Base, TypeOK, LockIsHeld
<1>1. ASSUME NEW q \in Requests, lock' = lock, req[q].pc # "locked", req'[q].pc # "locked",
             \A p \in Requests \ {q} : req'[p] = req[p]
      PROVE  LockIsHeld'
  BY <1>1
<1>2. ASSUME NEW q \in Requests, NEW u \in Users, NEW b \in Bodies, Ask(q, u, b) PROVE LockIsHeld'
  <2>1. req[q].pc = "idle" /\ req'[q].pc = "asked" /\ lock' = lock
        /\ \A p \in Requests \ {q} : req'[p] = req[p]
    BY <1>2 DEF Ask, Idle
  <2>2. QED
    BY <1>1, <2>1
<1>3. ASSUME NEW q \in Requests,
             \/ GroupGone(q) \/ ReadPreviousOwner(q) \/ CheckNotOwner(q) \/ IsOwner(q) \/ AddUser(q)
             \/ UpdateMemberRole(q) \/ DeleteUser(q) \/ DeleteGroup(q) \/ ReadGroup(q)
      PROVE  LockIsHeld'
  <2>1. req[q].pc # "locked" /\ lock' = lock
    BY <1>3 DEF GroupGone, ReadPreviousOwner, CheckNotOwner, IsOwner, AddUser, UpdateMemberRole,
                DeleteUser, DeleteGroup, ReadGroup, At
  <2>2. req'[q].pc # "locked" /\ \A p \in Requests \ {q} : req'[p] = req[p]
    BY <1>3 DEF GroupGone, ReadPreviousOwner, CheckNotOwner, IsOwner, AddUser, UpdateMemberRole,
                DeleteUser, DeleteGroup, ReadGroup, Done, Idle
  <2>3. QED
    BY <1>1, <2>1, <2>2
<1>4. ASSUME NEW q \in Requests, LockGroup(q) PROVE LockIsHeld'
  BY <1>4 DEF LockGroup
<1>5. ASSUME NEW q \in Requests, TransferOwnership(q) \/ TransferRefused(q) \/ RenameGroup(q)
      PROVE  LockIsHeld'
  <2>1. req[q].pc = "locked" /\ lock' = None /\ Done(q)
    BY <1>5 DEF TransferOwnership, TransferRefused, RenameGroup, At
  <2>2. QED
    BY <2>1 DEF Done, Idle
<1>6. CASE UNCHANGED <<lock, req>>
  BY <1>6
<1>7. QED
  BY <1>2, <1>3, <1>4, <1>5, <1>6 DEF Next, CreateGroup, Serve, Handle, vars

\* No end of a request, refused or not, leaves the group's row locked: the next
\* update or deletion can always go on.
THEOREM LockIsHeldHolds == Spec => []LockIsHeld
<1>1. Init => LockIsHeld
  BY ConstantsAssumption DEF Init, LockIsHeld, Idle
<1>2. QED
  BY <1>1, LockStep, BaseHolds, PTL DEF Spec

\* A deleted group stays deleted, whichever requests overlap the deletion.
THEOREM DeletedIsFinalHolds == Spec => [][DeletedIsFinal]_vars
<1>1. Base /\ [Next]_vars => DeletedIsFinal
  <2> SUFFICES ASSUME Base, [Next]_vars, created, owner = None PROVE created' /\ owner' = None
    BY DEF DeletedIsFinal
  <2>1. \A q \in Requests : req[q].pc # "locked"
    BY DEF Base, RequestInv
  <2>2. ASSUME NEW q \in Requests, Handle(q) PROVE created' /\ owner' = None
    BY <2>1, <2>2
    DEF Handle, GroupGone, ReadPreviousOwner, LockGroup, TransferOwnership, TransferRefused, RenameGroup,
        CheckNotOwner, IsOwner, AddUser, UpdateMemberRole, DeleteUser, DeleteGroup, ReadGroup, At
  <2>3. QED
    BY <2>2 DEF Next, CreateGroup, Ask, Serve, vars
<1>2. QED
  BY <1>1, BaseHolds, PTL DEF Spec
=============================================================================
