---------------------------- MODULE RunLifecycle ----------------------------
(***************************************************************************)
(* The life of a SyncMaster run: the row of table "run" that the REST      *)
(* server or the scheduler creates, the Celery message that carries its    *)
(* id, and the worker that executes it.                                    *)
(*                                                                         *)
(* Three kinds of process share the database without any row lock:         *)
(*   - a producer per run (POST /runs, or the cron job of a transfer):     *)
(*     check, insert the row, publish the message;                         *)
(*   - stop requests (POST /runs/{id}/stop): read the row, then write it;  *)
(*   - workers: read the row, mark it STARTED, transfer the data, write    *)
(*     the outcome.                                                        *)
(* Every database read and every commit is a step of its own, so a value   *)
(* read in one transaction may be stale when a later commit relies on it.  *)
(***************************************************************************)
EXTENDS Integers

CONSTANTS
  Runs,             \* run ids; an id stands for one attempt to start a run
  Manual,           \* the runs started through the API; others by the scheduler
  Processes,        \* server and scheduler processes
  ProcessOf,        \* the process that starts each run
  Transfers,        \* transfer ids
  Workers,          \* worker processes of the queue
  Stoppers,         \* concurrent stop requests
  BrokerFaults,     \* subset of {"ack_loss", "redelivery"}
  MaxRedeliveries,  \* bound: extra copies of one message
  MaxFaults,        \* bound: deaths of processes and failed database sessions
  None              \* "no value"

\* The values of the status column.  STOPPED exists in the enum but no code
\* ever stores it.
Status == {"CREATED", "STARTED", "FAILED", "SEND_STOP_SIGNAL", "STOPPED", "FINISHED"}

ASSUME ConstantsAssumption ==
  /\ Manual \subseteq Runs
  /\ ProcessOf \in [Runs -> Processes]
  /\ \A r, q \in Runs : ProcessOf[r] = ProcessOf[q] => (r \in Manual <=> q \in Manual)
  /\ BrokerFaults \subseteq {"ack_loss", "redelivery"}
  /\ MaxRedeliveries \in Nat
  /\ MaxFaults \in Nat
  /\ None \notin Runs \cup Transfers \cup Status

VARIABLES
  transfers,    \* rows of table "transfer"
  status,       \* status column of each run's row, None when there is no row
  startedAt,    \* the runs whose started_at is set
  endedAt,      \* the runs whose ended_at is set
  producer,     \* where the producer of each run is
  transferOf,   \* the transfer each run was asked for
  published,    \* the runs whose message the broker has accepted
  queue,        \* copies of each run's message waiting in the broker
  redelivered,  \* extra copies the broker has made of each message
  pc,           \* where each worker is in run_transfer
  job,          \* the run_id each worker was called with
  outcome,      \* local variable "status" of run_transfer
  seen,         \* status loaded by the worker's second session
  stop,         \* stop requests: the run and the status they have read
  starts,       \* how often each worker has begun to execute each run
  faults,       \* deaths and failed sessions so far
  dropped       \* the runs that a death or a failed session has let go of

rowVars    == <<transfers, status, startedAt, endedAt>>
producerVars == <<producer, transferOf>>
brokerVars == <<published, queue, redelivered>>
workerVars == <<pc, job, outcome, seen, starts>>
faultVars == <<faults, dropped>>
vars == <<rowVars, producerVars, brokerVars, workerVars, stop, faultVars>>

Exists(r) == status[r] # None

Idle == [run |-> None, status |-> None]

Init ==
  /\ transfers = Transfers
  /\ status = [r \in Runs |-> None]
  /\ startedAt = {}
  /\ endedAt = {}
  /\ producer = [r \in Runs |-> "idle"]
  /\ transferOf = [r \in Runs |-> None]
  /\ published = {}
  /\ queue = [r \in Runs |-> 0]
  /\ redelivered = [r \in Runs |-> 0]
  /\ pc = [w \in Workers |-> "idle"]
  /\ job = [w \in Workers |-> None]
  /\ outcome = [w \in Workers |-> None]
  /\ seen = [w \in Workers |-> None]
  /\ stop = [s \in Stoppers |-> Idle]
  /\ starts = [r \in Runs |-> [w \in Workers |-> 0]]
  /\ faults = 0
  /\ dropped = {}

-----------------------------------------------------------------------------
(* Producers.  "idle" -> "checked" -> "created" -> "done", with "refused"  *)
(* when no row is inserted and "failing" -> "failed" for the except branch *)
(* of send_task.                                                           *)

\* The producer has read the transfer, its queue and both credentials.
Checked(r, t) ==
  /\ producer[r] = "idle"
  /\ t \in transfers
  /\ producer' = [producer EXCEPT ![r] = "checked"]
  /\ transferOf' = [transferOf EXCEPT ![r] = t]
  /\ UNCHANGED <<rowVars, brokerVars, workerVars, stop, faultVars>>

\* start_run up to the unit of work.  A refused request (no such transfer, no
\* permission, no credentials) changes nothing.
StartRun(r, t) == r \in Manual /\ Checked(r, t)

\* send_job_to_celery up to the unit of work; it returns when the transfer is
\* gone and asks nothing else of it.
SendJobToCelery(r, t) == r \notin Manual /\ Checked(r, t)

\* RunRepository.create and the commit.
CreateRun(r) ==
  /\ producer[r] = "checked"
  /\ transferOf[r] \in transfers
  /\ status' = [status EXCEPT ![r] = "CREATED"]
  /\ producer' = [producer EXCEPT ![r] = "created"]
  /\ UNCHANGED <<transfers, startedAt, endedAt, transferOf,
                 brokerVars, workerVars, stop, faultVars>>

\* The transfer was deleted since it was read: its second SELECT or the
\* foreign key fails and the transaction is rolled back.
CreateRefused(r) ==
  /\ producer[r] = "checked"
  /\ transferOf[r] \notin transfers
  /\ producer' = [producer EXCEPT ![r] = "refused"]
  /\ UNCHANGED <<rowVars, transferOf, brokerVars, workerVars, stop, faultVars>>

\* The broker accepts the message of r (external).
Accept(r) ==
  /\ published' = published \cup {r}
  /\ queue' = [queue EXCEPT ![r] = @ + 1]

\* send_task succeeds.
SendTask(r) ==
  /\ producer[r] = "created"
  /\ producer' = [producer EXCEPT ![r] = "done"]
  /\ Accept(r)
  /\ UNCHANGED <<rowVars, transferOf, redelivered, workerVars, stop, faultVars>>

\* Mutant: publish again instead of giving up.
SendTaskFailsRetries(r) ==
  /\ producer[r] = "created"
  /\ "ack_loss" \in BrokerFaults /\ Accept(r)
  /\ UNCHANGED <<producerVars, rowVars, redelivered, workerVars, stop, faultVars>>

\* send_task raises KombuError.  With "ack_loss" the broker may have accepted
\* the message all the same.
SendTaskFails(r) ==
  /\ producer[r] = "created"
  /\ producer' = [producer EXCEPT ![r] = "failing"]
  /\ \/ UNCHANGED <<published, queue>>
     \/ "ack_loss" \in BrokerFaults /\ Accept(r)
  /\ UNCHANGED <<rowVars, transferOf, redelivered, workerVars, stop, faultVars>>

\* Mutant: raise CannotConnectToTaskQueueError without updating the run.
MarkFailedForgotten(r) ==
  /\ producer[r] = "failing"
  /\ producer' = [producer EXCEPT ![r] = "failed"]
  /\ UNCHANGED <<rowVars, transferOf, brokerVars, workerVars, stop, faultVars>>

\* The except branch: UPDATE run SET status = FAILED WHERE id, whatever the
\* row holds by now; EntityNotFound when the row is gone.
MarkFailed(r) ==
  /\ producer[r] = "failing"
  /\ producer' = [producer EXCEPT ![r] = "failed"]
  /\ status' = [status EXCEPT ![r] = IF Exists(r) THEN "FAILED" ELSE None]
  /\ UNCHANGED <<transfers, startedAt, endedAt, transferOf,
                 brokerVars, workerVars, stop, faultVars>>

\* The producers of the runs in R get no further: no row is inserted, or the row
\* stays as it is.
GiveUp(R) ==
  /\ faults < MaxFaults
  /\ faults' = faults + 1
  /\ dropped' = dropped \cup {r \in R : producer[r] \in {"created", "failing"}}
  /\ producer' = [r \in Runs |-> IF r \notin R THEN producer[r]
                                ELSE CASE producer[r] = "checked" -> "refused"
                                       [] producer[r] = "created" -> "done"
                                       [] OTHER -> "failed"]
  /\ UNCHANGED <<rowVars, transferOf, brokerVars, workerVars, stop>>

InFlight == {r \in Runs : producer[r] \in {"checked", "created", "failing"}}

\* A server or scheduler process dies, with every request and job it has begun.
\* A stop request that dies with it is one that never takes its next step.
ProducerCrash(p) ==
  LET begun == {r \in InFlight : ProcessOf[r] = p} IN begun # {} /\ GiveUp(begun)

\* The database session of one producer raises: the insert is rolled back, its
\* commit succeeds but is not confirmed, or the update of the except branch fails.
ProducerFails(r) == r \in InFlight /\ GiveUp({r})

-----------------------------------------------------------------------------
(* Stop requests.                                                          *)

\* stop_run reads the row; the object stays in the session's identity map.
StopRead(s, r) ==
  /\ stop[s] = Idle
  /\ Exists(r)
  /\ stop' = [stop EXCEPT ![s] = [run |-> r, status |-> status[r]]]
  /\ UNCHANGED <<rowVars, producerVars, brokerVars, workerVars, faultVars>>

\* RunRepository.stop decides on the status that was read, then the unit of
\* work commits UPDATE run SET status WHERE id.
StopRun(s) ==
  /\ stop[s].status \in {"CREATED", "STARTED"}
  /\ Exists(stop[s].run)
  /\ status' = [status EXCEPT ![stop[s].run] = "SEND_STOP_SIGNAL"]
  /\ stop' = [stop EXCEPT ![s] = Idle]
  /\ UNCHANGED <<transfers, startedAt, endedAt,
                 producerVars, brokerVars, workerVars, faultVars>>

\* CannotStopRunError, or a rollback because the row is gone.
StopRefused(s) ==
  /\ stop[s] # Idle
  /\ stop[s].status \notin {"CREATED", "STARTED"} \/ ~Exists(stop[s].run)
  /\ stop' = [stop EXCEPT ![s] = Idle]
  /\ UNCHANGED <<rowVars, producerVars, brokerVars, workerVars, faultVars>>

-----------------------------------------------------------------------------
(* The transfer is deleted, directly or with its group, its queue or one   *)
(* of its connections; its runs go with it (ON DELETE CASCADE).            *)

DeleteTransfer(t) ==
  LET gone == {r \in Runs : transferOf[r] = t} IN
  /\ t \in transfers
  /\ transfers' = transfers \ {t}
  /\ status' = [r \in Runs |-> IF r \in gone THEN None ELSE status[r]]
  /\ startedAt' = startedAt \ gone
  /\ endedAt' = endedAt \ gone
  /\ UNCHANGED <<producerVars, brokerVars, workerVars, stop, faultVars>>

-----------------------------------------------------------------------------
(* The broker (external): unordered delivery, and with "redelivery" extra  *)
(* copies of a message that was published (a lost acknowledgement, or      *)
(* Celery's own retry of the publication).                                 *)

Redeliver(r) ==
  /\ "redelivery" \in BrokerFaults
  /\ r \in published
  /\ redelivered[r] < MaxRedeliveries
  /\ redelivered' = [redelivered EXCEPT ![r] = @ + 1]
  /\ queue' = [queue EXCEPT ![r] = @ + 1]
  /\ UNCHANGED <<rowVars, producerVars, published, workerVars, stop, faultVars>>

-----------------------------------------------------------------------------
(* Workers: run_transfer.                                                  *)

GoTo(w, p, r) ==
  /\ pc' = [pc EXCEPT ![w] = p]
  /\ job' = [job EXCEPT ![w] = r]

\* Mutant: select the run by id only.
LoadRunInAnyStatus(w, r) ==
  /\ pc[w] = "idle"
  /\ queue[r] > 0
  /\ Exists(r)
  /\ queue' = [queue EXCEPT ![r] = @ - 1]
  /\ GoTo(w, "loaded", r)
  /\ UNCHANGED <<rowVars, producerVars, published, redelivered, outcome, seen, starts, stop, faultVars>>

\* A message is taken and acknowledged, and the row is selected by its id and
\* status CREATED.
LoadRun(w, r) ==
  /\ pc[w] = "idle"
  /\ queue[r] > 0
  /\ status[r] = "CREATED"
  /\ queue' = [queue EXCEPT ![r] = @ - 1]
  /\ GoTo(w, "loaded", r)
  /\ UNCHANGED <<rowVars, producerVars, published, redelivered, outcome, seen, starts, stop, faultVars>>

\* The SELECT raises, whatever the status of the row: the except branch records
\* the run as FAILED.
LoadFails(w, r) ==
  /\ pc[w] = "idle"
  /\ queue[r] > 0
  /\ queue' = [queue EXCEPT ![r] = @ - 1]
  /\ outcome' = [outcome EXCEPT ![w] = "FAILED"]
  /\ GoTo(w, "ending", r)
  /\ UNCHANGED <<rowVars, producerVars, published, redelivered, seen, starts, stop, faultVars>>

\* There is no such row: the task returns, the message is consumed.
SkipRun(w, r) ==
  /\ pc[w] = "idle"
  /\ queue[r] > 0
  /\ status[r] # "CREATED"
  /\ queue' = [queue EXCEPT ![r] = @ - 1]
  /\ UNCHANGED <<rowVars, producerVars, published, redelivered, workerVars, stop, faultVars>>

\* Commit of STARTED and started_at, by primary key only; the controller then
\* begins to move data.  When the row was deleted meanwhile the commit raises.
StartTransfer(w) ==
  LET r == job[w] IN
  /\ pc[w] = "loaded"
  /\ Exists(r)
  /\ status' = [status EXCEPT ![r] = "STARTED"]
  /\ startedAt' = startedAt \cup {r}
  /\ starts' = [starts EXCEPT ![r][w] = @ + 1]
  /\ GoTo(w, "executing", r)
  /\ UNCHANGED <<transfers, endedAt, producerVars, brokerVars, outcome, seen, stop, faultVars>>

\* Mutant: an exception before the commit leaves the task at once.
StartFailsUnrecorded(w) ==
  /\ pc[w] = "loaded"
  /\ GoTo(w, "idle", None)
  /\ UNCHANGED <<rowVars, producerVars, brokerVars, outcome, seen, starts, stop, faultVars>>

\* Any exception before the commit: missing or undecryptable credentials, a
\* deleted row, a lost connection.
StartFails(w) ==
  /\ pc[w] = "loaded"
  /\ outcome' = [outcome EXCEPT ![w] = "FAILED"]
  /\ GoTo(w, "ending", job[w])
  /\ UNCHANGED <<rowVars, producerVars, brokerVars, seen, starts, stop, faultVars>>

\* perform_transfer returns or raises.
PerformTransfer(w) ==
  /\ pc[w] = "executing"
  /\ \E o \in {"FINISHED", "FAILED"} : outcome' = [outcome EXCEPT ![w] = o]
  /\ GoTo(w, "ending", job[w])
  /\ UNCHANGED <<rowVars, producerVars, brokerVars, seen, starts, stop, faultVars>>

\* Mutant: leave a run alone that is no longer STARTED.
ReloadStartedRun(w) ==
  /\ pc[w] = "ending"
  /\ status[job[w]] = "STARTED"
  /\ seen' = [seen EXCEPT ![w] = status[job[w]]]
  /\ GoTo(w, "closing", job[w])
  /\ UNCHANGED <<rowVars, producerVars, brokerVars, outcome, starts, stop, faultVars>>

\* The second session loads the row.
ReloadRun(w) ==
  /\ pc[w] = "ending"
  /\ Exists(job[w])
  /\ seen' = [seen EXCEPT ![w] = status[job[w]]]
  /\ GoTo(w, "closing", job[w])
  /\ UNCHANGED <<rowVars, producerVars, brokerVars, outcome, starts, stop, faultVars>>

\* The row is gone: there is nothing to update.
AbandonRun(w) ==
  /\ pc[w] = "ending"
  /\ ~Exists(job[w])
  /\ GoTo(w, "idle", None)
  /\ outcome' = [outcome EXCEPT ![w] = None]
  /\ UNCHANGED <<rowVars, producerVars, brokerVars, seen, starts, stop, faultVars>>

\* Mutant: do not set ended_at.
EndRunWithoutTime(w) ==
  LET r == job[w] IN
  /\ pc[w] = "closing"
  /\ status' = IF Exists(r) THEN [status EXCEPT ![r] = outcome[w]] ELSE status
  /\ GoTo(w, "idle", None)
  /\ outcome' = [outcome EXCEPT ![w] = None]
  /\ seen' = [seen EXCEPT ![w] = None]
  /\ UNCHANGED <<transfers, startedAt, endedAt, producerVars, brokerVars, starts, stop, faultVars>>

\* Mutant: merge the detached run back, which inserts the row when it is gone.
EndRunMerges(w) ==
  LET r == job[w] IN
  /\ pc[w] = "closing"
  /\ status' = [status EXCEPT ![r] = outcome[w]]
  /\ endedAt' = endedAt \cup {r}
  /\ GoTo(w, "idle", None)
  /\ outcome' = [outcome EXCEPT ![w] = None]
  /\ seen' = [seen EXCEPT ![w] = None]
  /\ UNCHANGED <<transfers, startedAt, producerVars, brokerVars, starts, stop, faultVars>>

\* Commit of the outcome and ended_at.  The ORM writes only what differs from
\* the loaded row; an UPDATE that matches no row raises.
EndRun(w) ==
  LET r == job[w] IN
  /\ pc[w] = "closing"
  /\ status' = IF Exists(r) /\ seen[w] # outcome[w]
                 THEN [status EXCEPT ![r] = outcome[w]] ELSE status
  /\ endedAt' = IF Exists(r) THEN endedAt \cup {r} ELSE endedAt
  /\ GoTo(w, "idle", None)
  /\ outcome' = [outcome EXCEPT ![w] = None]
  /\ seen' = [seen EXCEPT ![w] = None]
  /\ UNCHANGED <<transfers, startedAt, producerVars, brokerVars, starts, stop, faultVars>>

\* The worker lets go of its run; the message was acknowledged when it was taken.
Drop(w) ==
  /\ faults < MaxFaults
  /\ faults' = faults + 1
  /\ dropped' = dropped \cup {job[w]}
  /\ GoTo(w, "idle", None)
  /\ outcome' = [outcome EXCEPT ![w] = None]
  /\ seen' = [seen EXCEPT ![w] = None]
  /\ UNCHANGED <<rowVars, producerVars, brokerVars, starts, stop>>

\* The worker process is killed.
WorkerCrash(w) == pc[w] # "idle" /\ Drop(w)

\* The second session cannot connect, load the row or commit: run_transfer raises
\* and the outcome is not stored.
EndFails(w) == pc[w] \in {"ending", "closing"} /\ Drop(w)

-----------------------------------------------------------------------------
Begin(r) == \E t \in Transfers : StartRun(r, t) \/ SendJobToCelery(r, t)

Produce(r) ==
  \/ CreateRun(r)
  \/ CreateRefused(r)
  \/ SendTask(r)
  \/ SendTaskFails(r)
  \/ MarkFailed(r)

Stopper(s) == StopRun(s) \/ StopRefused(s) \/ \E r \in Runs : StopRead(s, r)

Worker(w) ==
  \/ \E r \in Runs : LoadRun(w, r) \/ LoadFails(w, r) \/ SkipRun(w, r)
  \/ StartTransfer(w)
  \/ StartFails(w)
  \/ PerformTransfer(w)
  \/ ReloadRun(w)
  \/ AbandonRun(w)
  \/ EndRun(w)

Next ==
  \/ \E r \in Runs : Begin(r) \/ Produce(r) \/ ProducerFails(r) \/ Redeliver(r)
  \/ \E p \in Processes : ProducerCrash(p)
  \/ \E s \in Stoppers : Stopper(s)
  \/ \E t \in Transfers : DeleteTransfer(t)
  \/ \E w \in Workers : Worker(w) \/ EndFails(w) \/ WorkerCrash(w)

Spec == Init /\ [][Next]_vars

\* A request that was begun runs to its end unless its process dies or its session
\* fails, which nothing forces; a worker process keeps taking messages, and perform_transfer terminates.  Requests
\* and deletions come from users and are never forced.
Fairness ==
  /\ \A r \in Runs : WF_vars(Produce(r))
  /\ \A w \in Workers : WF_vars(Worker(w))

FairSpec == Spec /\ Fairness

-----------------------------------------------------------------------------
(* Properties.                                                             *)

\* Type invariant of the run table, the broker and the local state of the
\* producers, stop requests and workers.
TypeOK ==
  /\ transfers \subseteq Transfers
  /\ status \in [Runs -> Status \cup {None}]
  /\ startedAt \subseteq Runs
  /\ endedAt \subseteq Runs
  /\ producer \in [Runs -> {"idle", "checked", "created", "failing", "refused", "done", "failed"}]
  /\ transferOf \in [Runs -> Transfers \cup {None}]
  /\ published \subseteq Runs
  /\ queue \in [Runs -> Nat]
  /\ redelivered \in [Runs -> 0 .. MaxRedeliveries]
  /\ pc \in [Workers -> {"idle", "loaded", "executing", "ending", "closing"}]
  /\ job \in [Workers -> Runs \cup {None}]
  /\ outcome \in [Workers -> {"FINISHED", "FAILED", None}]
  /\ seen \in [Workers -> Status \cup {None}]
  /\ stop \in [Stoppers -> [run : Runs \cup {None}, status : Status \cup {None}]]
  /\ starts \in [Runs -> [Workers -> Nat]]
  /\ faults \in 0 .. MaxFaults
  /\ dropped \subseteq Runs

Executed(r, w) == starts[r][w] > 0

\* However often the broker delivers its message, one worker process begins to
\* execute a run at most once: the SELECT on status CREATED (transfer.py:63)
\* never matches again after the worker's own commit of STARTED, whatever the
\* stop requests and the failing producer write to the row in between.
OncePerWorker == \A r \in Runs, w \in Workers : starts[r][w] <= 1

\* A run whose message the broker did not duplicate is executed by at most one
\* worker, although nothing locks the row: faults, stop requests, deletions
\* and publications reported as failed do not produce a second execution.
AtMostOnce ==
  \A r \in Runs : redelivered[r] = 0 =>
    \A w, v \in Workers : Executed(r, w) /\ Executed(r, v) => w = v

\* started_at and ended_at agree with the status a user reads: a FINISHED run
\* has both, a STARTED run has the first, and only a run that some worker has
\* closed has the second (columns written by two commits of run_transfer and
\* by two blind updates of the API in any order).
TimestampsMatchStatus ==
  \A r \in Runs :
    /\ status[r] = "FINISHED" => r \in startedAt /\ r \in endedAt
    /\ status[r] = "STARTED" => r \in startedAt
    /\ r \in endedAt /\ r \notin startedAt => status[r] \in {"FAILED", "SEND_STOP_SIGNAL"}

\* No worker has loaded r, none has begun it, and its row is past CREATED.
Cancelled(r) ==
  /\ status[r] \notin {None, "CREATED"}
  /\ \A w \in Workers : ~(pc[w] = "loaded" /\ job[w] = r) /\ starts[r][w] = 0

\* A stop request (or a failed publication) that is stored before any worker
\* has loaded the run is effective: the run is never executed, even though its
\* message stays in the queue and is delivered later.
StopBeforeLoadIsEffective ==
  \A r \in Runs : [](Cancelled(r) => [](\A w \in Workers : starts[r][w] = 0))

\* Nobody will touch the row of r again: its producer has returned or died, no
\* message of it is in the queue and no worker has it.
Unattended(r) ==
  /\ producer[r] \in {"done", "failed"}
  /\ queue[r] = 0
  /\ \A w \in Workers : job[w] # r

\* The row says that the run is still to be executed or to be ended.
Unfinished(r) == status[r] = "CREATED" \/ r \in startedAt \ endedAt

Stranded == {r \in Runs : Exists(r) /\ Unfinished(r) /\ Unattended(r)}

\* A run is left behind in CREATED, or started and never ended, only when a process
\* that died had it in hand (all that a server or scheduler process had begun, the
\* one of a worker), or when a session that had to store its end failed: a lost or
\* duplicated message, a publication that fails, a failed load, a stop request or a
\* second worker on the same run never strands it (runs.py:125, transfer.py:97).
OnlyFaultsStrand == Stranded \subseteq dropped

\* A run does not stay CREATED: it is published and loaded, or marked FAILED,
\* or a fault has stranded it.
CreatedIsLeft ==
  \A r \in Runs : status[r] = "CREATED" ~>
    status[r] # "CREATED" \/ (r \in dropped /\ r \in Stranded)

\* A run that a worker has marked STARTED gets its ended_at, even when a stop
\* request overwrites the status meanwhile, unless it is deleted or a fault has
\* stranded it.
StartedEnds ==
  \A r \in Runs : status[r] = "STARTED" ~>
    r \in endedAt \/ ~Exists(r) \/ (r \in dropped /\ r \in Stranded)

\* The delivery of the message of r went wrong: the broker made a copy of it, or
\* has it although it told the producer that it was refused.
InDoubt(r) == redelivered[r] > 0 \/ (r \in published /\ producer[r] \in {"failing", "failed"})

\* The row of r is past CREATED and neither its producer nor a worker, called by a
\* message that is still to come, will write to it.
Settled(r) ==
  /\ status[r] \notin {None, "CREATED"}
  /\ producer[r] \notin {"created", "failing"}
  /\ queue[r] = 0
  /\ \A w \in Workers : job[w] # r

\* Runs keep the contract of RunContract, whatever the broker, the stop requests,
\* the deletions and the faults do, in whatever order (start_run, stop_run,
\* run_transfer).
Contract == INSTANCE RunContract WITH
  state <- status,
  executed <- {r \in Runs : \E w \in Workers : Executed(r, w)},
  settled <- {r \in Runs : Settled(r) /\ ~InDoubt(r)},
  doubtful <- {r \in Runs : InDoubt(r)},
  deleted <- {r \in Runs : producer[r] \in {"created", "failing", "done", "failed"} /\ ~Exists(r)}

ImplementsContract == Contract!Spec

\* "Cannot stop run in status except started or created": a run that is
\* FINISHED is never turned into SEND_STOP_SIGNAL.
FinishedIsNotStopped ==
  [][\A r \in Runs : status[r] = "FINISHED" => status'[r] # "SEND_STOP_SIGNAL"]_vars
=============================================================================
