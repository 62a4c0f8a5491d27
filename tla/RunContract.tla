----------------------------- MODULE RunContract -----------------------------
(***************************************************************************)
(* What a user of SyncMaster is promised about runs, with no queue, no     *)
(* transactions and no processes.                                          *)
(*                                                                         *)
(* A run is created, is executed at most once, is FINISHED only after it   *)
(* was executed, and ends once; then it is settled, and only a stop        *)
(* request still changes its status.  A stop may come too late, may stop   *)
(* nothing, or may keep the run from being executed.  The runs that a      *)
(* process leaves behind when it dies are settled together.  A run         *)
(* disappears with its transfer.                                           *)
(*                                                                         *)
(* When the broker has duplicated the message of a run, or has accepted a  *)
(* message that it reported as refused, the run is in doubt.  It may then  *)
(* be executed again, and its end may be overwritten; it is still true     *)
(* that it is FINISHED only after it was executed and never CREATED again. *)
(***************************************************************************)
CONSTANTS Runs, None

VARIABLES
  state,     \* None | "CREATED" | "STARTED" | "SEND_STOP_SIGNAL" | "FINISHED" | "FAILED"
  executed,  \* the runs whose data transfer was begun
  settled,   \* the runs that nobody works on any more
  doubtful,  \* the runs whose delivery went wrong
  deleted    \* the runs that existed and were deleted

contractVars == <<state, executed, settled, doubtful, deleted>>

Init ==
  /\ state = [r \in Runs |-> None]
  /\ executed = {} /\ settled = {} /\ doubtful = {} /\ deleted = {}

Become(r, s) == state' = [state EXCEPT ![r] = s]

Create(r) ==
  /\ state[r] = None
  /\ r \notin deleted \cup settled \cup doubtful
  /\ Become(r, "CREATED")
  /\ UNCHANGED <<executed, settled, doubtful, deleted>>

\* A stop that was stored after the run had been loaded stops nothing.
Execute(r) ==
  /\ state[r] \in {"CREATED", "SEND_STOP_SIGNAL"}
  /\ r \notin executed \cup settled
  /\ Become(r, "STARTED")
  /\ executed' = executed \cup {r}
  /\ UNCHANGED <<settled, doubtful, deleted>>

Finish(r) ==
  /\ state[r] \in {"STARTED", "SEND_STOP_SIGNAL"}
  /\ r \in executed \ settled
  /\ Become(r, "FINISHED")
  /\ settled' = settled \cup {r}
  /\ UNCHANGED <<executed, doubtful, deleted>>

Fail(r) ==
  /\ state[r] \in {"CREATED", "STARTED", "SEND_STOP_SIGNAL"}
  /\ r \notin settled
  /\ Become(r, "FAILED")
  /\ settled' = settled \cup {r}
  /\ UNCHANGED <<executed, doubtful, deleted>>

\* The status that a stop request has read may be an old one, so it is stored
\* in whatever status the run is by now.
Stop(r) ==
  /\ state[r] # None
  /\ Become(r, "SEND_STOP_SIGNAL")
  /\ \/ UNCHANGED settled
     \/ r \notin executed /\ settled' = settled \cup {r}
  /\ UNCHANGED <<executed, doubtful, deleted>>

\* A process dies or returns, and nobody is left who works on the runs in D.
Settle(D) ==
  /\ D \subseteq {r \in Runs : state[r] \in {"STARTED", "SEND_STOP_SIGNAL"}}
  /\ settled' = settled \cup D
  /\ UNCHANGED <<state, executed, doubtful, deleted>>

Doubt(r) ==
  /\ r \notin doubtful
  /\ doubtful' = doubtful \cup {r}
  /\ settled' = settled \ {r}
  /\ UNCHANGED <<state, executed, deleted>>

\* What may happen to a run in doubt, besides a stop.
Rewrite(r) ==
  /\ r \in doubtful
  /\ state[r] # None
  /\ \/ Become(r, "STARTED") /\ executed' = executed \cup {r}
     \/ r \in executed /\ Become(r, "FINISHED") /\ UNCHANGED executed
     \/ Become(r, "FAILED") /\ UNCHANGED executed
  /\ UNCHANGED <<settled, doubtful, deleted>>

Delete(D) ==
  /\ D \subseteq {r \in Runs : state[r] # None}
  /\ state' = [r \in Runs |-> IF r \in D THEN None ELSE state[r]]
  /\ settled' = settled \ D
  /\ deleted' = deleted \cup D
  /\ UNCHANGED <<executed, doubtful>>

Next ==
  \/ \E r \in Runs :
       \/ Create(r) \/ Execute(r) \/ Finish(r) \/ Fail(r)
       \/ Stop(r) \/ Doubt(r) \/ Rewrite(r)
  \/ \E D \in SUBSET Runs : Settle(D) \/ Delete(D)

Spec == Init /\ [][Next]_contractVars
=============================================================================
