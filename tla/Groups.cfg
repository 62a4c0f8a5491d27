SPECIFICATION Spec
CONSTANTS
  Users = {u1, u2, root}
  Superusers = {root}
  Requests = {q1, q2}
  None = None
SYMMETRY Symmetry
INVARIANTS OwnerIsNotMember NoOrphanMembers
PROPERTIES HandOver OwnerRoleIsReal
\* The system may stop: a group that was deleted is not created again.
CHECK_DEADLOCK FALSE
