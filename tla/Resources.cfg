SPECIFICATION Spec
CONSTANTS
  k1 = k1
  k2 = k2
  t1 = t1
  t2 = t2
  Groups = {g1, g2}
  Connections = {c1, c2}
  Queues <- MCQueues
  Transfers <- MCTransfers
  Types = {db, file}
  Callers = {lead}
  Access <- Managers
  Taken <- MCTaken
  Requests = {q1, q2}
  None = None
SYMMETRY Symmetry
\* The system may stop: nobody is obliged to use a group that still exists.
CHECK_DEADLOCK FALSE
INVARIANTS GroupsAgree TypesAgree
PROPERTIES LinkedConnectionStays LinkedQueueStays
