-------------------------- MODULE RunLifecycleProofs --------------------------
(***************************************************************************)
(* Proofs about RunLifecycle, for any number of runs, workers, stop        *)
(* requests, redeliveries and faults: its invariants, its action           *)
(* properties, what a fault may strand, and that it implements the         *)
(* contract of a run that a client of the API relies on.                   *)
(***************************************************************************)
EXTENDS RunLifecycle, TLAPS

\* Who can know of a run: nobody before its message was accepted, and its
\* message is not accepted before its row was inserted.
Causality ==
  /\ \A w \in Workers : pc[w] # "idle" => job[w] \in Runs
  /\ \A s \in Stoppers : stop[s].status # None => stop[s].run \in Runs
  /\ \A r \in Runs : r \notin published =>
       queue[r] = 0 /\ \A w \in Workers : job[w] # r /\ starts[r][w] = 0
  /\ \A r \in Runs :
       producer[r] \in {"idle", "checked", "refused", "created"} => r \notin published
  /\ \A r \in Runs : producer[r] \in {"idle", "checked", "refused"} => status[r] = None

\* A run that was begun is past CREATED, so no worker loads it any more.
Claims ==
  /\ \A r \in Runs, w \in Workers : starts[r][w] > 0 => status[r] # "CREATED"
  /\ \A w \in Workers : pc[w] = "loaded" => starts[job[w]][w] = 0

\* The single message of a run, the worker that holds it and the execution it
\* caused exclude each other.
Token(r) ==
  /\ queue[r] <= 1
  /\ queue[r] > 0 => \A w \in Workers : job[w] # r /\ starts[r][w] = 0
  /\ \A w, v \in Workers : job[w] = r /\ job[v] = r => w = v
  /\ \A w, v \in Workers : job[w] = r /\ starts[r][v] > 0 => w = v
  /\ \A w, v \in Workers : starts[r][w] > 0 /\ starts[r][v] > 0 => w = v

\* The inductive invariant behind OncePerWorker and AtMostOnce, on top of
\* TypeOK and Causality.
ExecInv ==
  /\ Claims
  /\ OncePerWorker
  /\ \A r \in Runs : redelivered[r] = 0 => Token(r)

\* The inductive invariant behind TimestampsMatchStatus.
TimeInv ==
  /\ TimestampsMatchStatus
  /\ \A r \in Runs : status[r] = None => r \notin startedAt /\ r \notin endedAt
  /\ \A r \in Runs : status[r] # "STOPPED"
  /\ \A w \in Workers :
       /\ pc[w] = "executing" /\ Exists(job[w]) => job[w] \in startedAt
       /\ outcome[w] = "FINISHED" /\ Exists(job[w]) => job[w] \in startedAt
       /\ pc[w] = "closing" => outcome[w] # None
       /\ pc[w] = "ending" => outcome[w] # None
       /\ pc[w] \in {"idle", "loaded", "executing"} => outcome[w] = None
       /\ pc[w] = "closing" /\ seen[w] # "CREATED" => status[job[w]] # "CREATED"

\* The faults of Next: producers give up, or a worker drops its run.
LEMMA FaultSteps ==
  /\ \A p \in Processes : ProducerCrash(p) => \E R \in SUBSET InFlight : GiveUp(R)
  /\ \A r \in Runs : ProducerFails(r) => \E R \in SUBSET InFlight : GiveUp(R)
  /\ \A w \in Workers : WorkerCrash(w) \/ EndFails(w) => pc[w] # "idle" /\ Drop(w)
  BY DEF ProducerCrash, ProducerFails, WorkerCrash, EndFails

\* Type correctness is inductive together with Causality.
BaseInv == TypeOK /\ Causality

\* The initial state satisfies TypeOK and Causality.
LEMMA BaseInit == Init => BaseInv
  BY ConstantsAssumption DEF Init, BaseInv, TypeOK, Causality, Idle

\* Every step preserves TypeOK and Causality.
LEMMA BaseStep == BaseInv /\ [Next]_vars => BaseInv'
<1> SUFFICES ASSUME BaseInv, [Next]_vars PROVE BaseInv'
  OBVIOUS
<1> USE ConstantsAssumption DEF BaseInv, TypeOK, Causality, Exists, Status, Idle,
          rowVars, producerVars, brokerVars, workerVars, faultVars
<1>1. ASSUME NEW r \in Runs, NEW t \in Transfers, Checked(r, t) PROVE BaseInv'
  BY <1>1 DEF Checked
<1>2. ASSUME NEW r \in Runs, CreateRun(r) PROVE BaseInv'
  BY <1>2 DEF CreateRun
<1>3. ASSUME NEW r \in Runs, CreateRefused(r) PROVE BaseInv'
  BY <1>3 DEF CreateRefused
<1>4. ASSUME NEW r \in Runs, SendTask(r) PROVE BaseInv'
  BY <1>4 DEF SendTask, Accept
<1>5. ASSUME NEW r \in Runs, SendTaskFails(r) PROVE BaseInv'
  BY <1>5 DEF SendTaskFails, Accept
<1>6. ASSUME NEW r \in Runs, MarkFailed(r) PROVE BaseInv'
  BY <1>6 DEF MarkFailed
<1>7. ASSUME NEW R \in SUBSET InFlight, GiveUp(R) PROVE BaseInv'
  BY <1>7 DEF GiveUp, InFlight
<1>8. ASSUME NEW r \in Runs, Redeliver(r) PROVE BaseInv'
  BY <1>8 DEF Redeliver
<1>9. ASSUME NEW s \in Stoppers, NEW r \in Runs, StopRead(s, r) PROVE BaseInv'
  BY <1>9 DEF StopRead
<1>10. ASSUME NEW s \in Stoppers, StopRun(s) PROVE BaseInv'
  BY <1>10 DEF StopRun
<1>11. ASSUME NEW s \in Stoppers, StopRefused(s) PROVE BaseInv'
  BY <1>11 DEF StopRefused
<1>12. ASSUME NEW t \in Transfers, DeleteTransfer(t) PROVE BaseInv'
  BY <1>12 DEF DeleteTransfer
<1>13. ASSUME NEW w \in Workers, NEW r \in Runs, LoadRun(w, r) PROVE BaseInv'
  BY <1>13 DEF LoadRun, GoTo
<1>14. ASSUME NEW w \in Workers, NEW r \in Runs, SkipRun(w, r) PROVE BaseInv'
  BY <1>14 DEF SkipRun
<1>15. ASSUME NEW w \in Workers, StartTransfer(w) PROVE BaseInv'
  BY <1>15 DEF StartTransfer, GoTo
<1>16. ASSUME NEW w \in Workers, StartFails(w) PROVE BaseInv'
  BY <1>16 DEF StartFails, GoTo
<1>17. ASSUME NEW w \in Workers, PerformTransfer(w) PROVE BaseInv'
  BY <1>17 DEF PerformTransfer, GoTo
<1>18. ASSUME NEW w \in Workers, ReloadRun(w) PROVE BaseInv'
  BY <1>18 DEF ReloadRun, GoTo
<1>19. ASSUME NEW w \in Workers, AbandonRun(w) PROVE BaseInv'
  BY <1>19 DEF AbandonRun, GoTo
<1>20. ASSUME NEW w \in Workers, EndRun(w) PROVE BaseInv'
  BY <1>20 DEF EndRun, GoTo
<1>21. ASSUME NEW w \in Workers, pc[w] # "idle", Drop(w) PROVE BaseInv'
  BY <1>21 DEF Drop, GoTo
<1>22. ASSUME NEW w \in Workers, NEW r \in Runs, LoadFails(w, r) PROVE BaseInv'
  BY <1>22 DEF LoadFails, GoTo
<1>23. CASE UNCHANGED vars
  BY <1>23 DEF vars
<1>24. QED
  BY FaultSteps, <1>1, <1>2, <1>3, <1>4, <1>5, <1>6, <1>7, <1>8, <1>9, <1>10, <1>11, <1>12,
     <1>13, <1>14, <1>15, <1>16, <1>17, <1>18, <1>19, <1>20, <1>21, <1>22, <1>23
     DEF Next, Begin, Produce, Stopper, Worker, StartRun, SendJobToCelery

\* The initial state satisfies the invariant on executions.
LEMMA ExecInit == Init => ExecInv
  BY ConstantsAssumption DEF Init, ExecInv, Claims, OncePerWorker, Token

\* Every step preserves the invariant on executions.
LEMMA ExecStep == BaseInv /\ BaseInv' /\ ExecInv /\ [Next]_vars => ExecInv'
<1> SUFFICES ASSUME BaseInv, BaseInv', ExecInv, [Next]_vars PROVE ExecInv'
  OBVIOUS
<1> USE ConstantsAssumption
    DEF BaseInv, TypeOK, Causality, ExecInv, Claims, OncePerWorker, Token, Exists, Status, Idle,
          rowVars, producerVars, brokerVars, workerVars, faultVars
<1>1. ASSUME NEW r \in Runs, NEW t \in Transfers, Checked(r, t) PROVE ExecInv'
  BY <1>1 DEF Checked
<1>2. ASSUME NEW r \in Runs, CreateRun(r) PROVE ExecInv'
  BY <1>2 DEF CreateRun
<1>3. ASSUME NEW r \in Runs, CreateRefused(r) PROVE ExecInv'
  BY <1>3 DEF CreateRefused
<1>4. ASSUME NEW r \in Runs, SendTask(r) PROVE ExecInv'
  BY <1>4 DEF SendTask, Accept
<1>5. ASSUME NEW r \in Runs, SendTaskFails(r) PROVE ExecInv'
  BY <1>5 DEF SendTaskFails, Accept
<1>6. ASSUME NEW r \in Runs, MarkFailed(r) PROVE ExecInv'
  BY <1>6 DEF MarkFailed
<1>7. ASSUME NEW R \in SUBSET InFlight, GiveUp(R) PROVE ExecInv'
  BY <1>7 DEF GiveUp, InFlight
<1>8. ASSUME NEW r \in Runs, Redeliver(r) PROVE ExecInv'
  BY <1>8 DEF Redeliver
<1>9. ASSUME NEW s \in Stoppers, NEW r \in Runs, StopRead(s, r) PROVE ExecInv'
  BY <1>9 DEF StopRead
<1>10. ASSUME NEW s \in Stoppers, StopRun(s) PROVE ExecInv'
  BY <1>10 DEF StopRun
<1>11. ASSUME NEW s \in Stoppers, StopRefused(s) PROVE ExecInv'
  BY <1>11 DEF StopRefused
<1>12. ASSUME NEW t \in Transfers, DeleteTransfer(t) PROVE ExecInv'
  BY <1>12 DEF DeleteTransfer
<1>13. ASSUME NEW w \in Workers, NEW r \in Runs, LoadRun(w, r) PROVE ExecInv'
  BY <1>13 DEF LoadRun, GoTo
<1>14. ASSUME NEW w \in Workers, NEW r \in Runs, SkipRun(w, r) PROVE ExecInv'
  BY <1>14 DEF SkipRun
<1>15. ASSUME NEW w \in Workers, StartTransfer(w) PROVE ExecInv'
  BY <1>15 DEF StartTransfer, GoTo
<1>16. ASSUME NEW w \in Workers, StartFails(w) PROVE ExecInv'
  BY <1>16 DEF StartFails, GoTo
<1>17. ASSUME NEW w \in Workers, PerformTransfer(w) PROVE ExecInv'
  BY <1>17 DEF PerformTransfer, GoTo
<1>18. ASSUME NEW w \in Workers, ReloadRun(w) PROVE ExecInv'
  BY <1>18 DEF ReloadRun, GoTo
<1>19. ASSUME NEW w \in Workers, AbandonRun(w) PROVE ExecInv'
  BY <1>19 DEF AbandonRun, GoTo
<1>20. ASSUME NEW w \in Workers, EndRun(w) PROVE ExecInv'
  BY <1>20 DEF EndRun, GoTo
<1>21. ASSUME NEW w \in Workers, pc[w] # "idle", Drop(w) PROVE ExecInv'
  BY <1>21 DEF Drop, GoTo
<1>22. ASSUME NEW w \in Workers, NEW r \in Runs, LoadFails(w, r) PROVE ExecInv'
  BY <1>22 DEF LoadFails, GoTo
<1>23. CASE UNCHANGED vars
  BY <1>23 DEF vars
<1>24. QED
  BY FaultSteps, <1>1, <1>2, <1>3, <1>4, <1>5, <1>6, <1>7, <1>8, <1>9, <1>10, <1>11, <1>12,
     <1>13, <1>14, <1>15, <1>16, <1>17, <1>18, <1>19, <1>20, <1>21, <1>22, <1>23
     DEF Next, Begin, Produce, Stopper, Worker, StartRun, SendJobToCelery

\* The initial state satisfies the invariant on timestamps.
LEMMA TimeInit == Init => TimeInv
  BY ConstantsAssumption DEF Init, TimeInv, TimestampsMatchStatus, Status

\* Every step preserves the invariant on timestamps.
LEMMA TimeStep == BaseInv /\ BaseInv' /\ TimeInv /\ [Next]_vars => TimeInv'
<1> SUFFICES ASSUME BaseInv, BaseInv', TimeInv, [Next]_vars PROVE TimeInv'
  OBVIOUS
<1> USE ConstantsAssumption
    DEF BaseInv, TypeOK, Causality, TimeInv, TimestampsMatchStatus, Exists, Status, Idle,
          rowVars, producerVars, brokerVars, workerVars, faultVars
<1>1. ASSUME NEW r \in Runs, NEW t \in Transfers, Checked(r, t) PROVE TimeInv'
  BY <1>1 DEF Checked
<1>2. ASSUME NEW r \in Runs, CreateRun(r) PROVE TimeInv'
  BY <1>2 DEF CreateRun
<1>3. ASSUME NEW r \in Runs, CreateRefused(r) PROVE TimeInv'
  BY <1>3 DEF CreateRefused
<1>4. ASSUME NEW r \in Runs, SendTask(r) PROVE TimeInv'
  BY <1>4 DEF SendTask, Accept
<1>5. ASSUME NEW r \in Runs, SendTaskFails(r) PROVE TimeInv'
  BY <1>5 DEF SendTaskFails, Accept
<1>6. ASSUME NEW r \in Runs, MarkFailed(r) PROVE TimeInv'
  BY <1>6 DEF MarkFailed
<1>7. ASSUME NEW R \in SUBSET InFlight, GiveUp(R) PROVE TimeInv'
  BY <1>7 DEF GiveUp, InFlight
<1>8. ASSUME NEW r \in Runs, Redeliver(r) PROVE TimeInv'
  BY <1>8 DEF Redeliver
<1>9. ASSUME NEW s \in Stoppers, NEW r \in Runs, StopRead(s, r) PROVE TimeInv'
  BY <1>9 DEF StopRead
<1>10. ASSUME NEW s \in Stoppers, StopRun(s) PROVE TimeInv'
  BY <1>10 DEF StopRun
<1>11. ASSUME NEW s \in Stoppers, StopRefused(s) PROVE TimeInv'
  BY <1>11 DEF StopRefused
<1>12. ASSUME NEW t \in Transfers, DeleteTransfer(t) PROVE TimeInv'
  BY <1>12 DEF DeleteTransfer
<1>13. ASSUME NEW w \in Workers, NEW r \in Runs, LoadRun(w, r) PROVE TimeInv'
  BY <1>13 DEF LoadRun, GoTo
<1>14. ASSUME NEW w \in Workers, NEW r \in Runs, SkipRun(w, r) PROVE TimeInv'
  BY <1>14 DEF SkipRun
<1>15. ASSUME NEW w \in Workers, StartTransfer(w) PROVE TimeInv'
  BY <1>15 DEF StartTransfer, GoTo
<1>16. ASSUME NEW w \in Workers, StartFails(w) PROVE TimeInv'
  BY <1>16 DEF StartFails, GoTo
<1>17. ASSUME NEW w \in Workers, PerformTransfer(w) PROVE TimeInv'
  BY <1>17 DEF PerformTransfer, GoTo
<1>18. ASSUME NEW w \in Workers, ReloadRun(w) PROVE TimeInv'
  BY <1>18 DEF ReloadRun, GoTo
<1>19. ASSUME NEW w \in Workers, AbandonRun(w) PROVE TimeInv'
  BY <1>19 DEF AbandonRun, GoTo
<1>20. ASSUME NEW w \in Workers, EndRun(w) PROVE TimeInv'
  BY <1>20 DEF EndRun, GoTo
<1>21. ASSUME NEW w \in Workers, pc[w] # "idle", Drop(w) PROVE TimeInv'
  BY <1>21 DEF Drop, GoTo
<1>22. ASSUME NEW w \in Workers, NEW r \in Runs, LoadFails(w, r) PROVE TimeInv'
  BY <1>22 DEF LoadFails, GoTo
<1>23. CASE UNCHANGED vars
  BY <1>23 DEF vars
<1>24. QED
  BY FaultSteps, <1>1, <1>2, <1>3, <1>4, <1>5, <1>6, <1>7, <1>8, <1>9, <1>10, <1>11, <1>12,
     <1>13, <1>14, <1>15, <1>16, <1>17, <1>18, <1>19, <1>20, <1>21, <1>22, <1>23
     DEF Next, Begin, Produce, Stopper, Worker, StartRun, SendJobToCelery

\* The type invariant of runs, messages and processes holds in every state of
\* the run lifecycle, for any number of runs, workers and stop requests.
THEOREM TypeCorrect == Spec => []TypeOK
<1>1. BaseInv => TypeOK
  BY DEF BaseInv
<1>2. QED
  BY <1>1, BaseInit, BaseStep, PTL DEF Spec

\* No worker begins to execute the same run twice, however often run_transfer
\* is called for it.
THEOREM OncePerWorkerHolds == Spec => []OncePerWorker
<1>1. ExecInv => OncePerWorker
  BY DEF ExecInv
<1>2. QED
  BY <1>1, BaseInit, BaseStep, ExecInit, ExecStep, PTL DEF Spec

\* A run whose message is not duplicated by the broker is executed by at most
\* one worker.
THEOREM AtMostOnceHolds == Spec => []AtMostOnce
<1>1. BaseInv /\ ExecInv => AtMostOnce
  BY DEF BaseInv, TypeOK, ExecInv, Token, AtMostOnce, Executed
<1>2. QED
  BY <1>1, BaseInit, BaseStep, ExecInit, ExecStep, PTL DEF Spec

\* started_at and ended_at agree with the status in every state.
THEOREM TimestampsHold == Spec => []TimestampsMatchStatus
<1>1. TimeInv => TimestampsMatchStatus
  BY DEF TimeInv
<1>2. QED
  BY <1>1, BaseInit, BaseStep, TimeInit, TimeStep, PTL DEF Spec

\* r has a row or had one, is past CREATED, and no worker has it in hand to
\* begin it: the stable form of Cancelled, which survives a deletion.
PastRecall(r) ==
  /\ producer[r] \notin {"idle", "checked"}
  /\ status[r] # "CREATED"
  /\ \A w \in Workers : ~(pc[w] = "loaded" /\ job[w] = r) /\ starts[r][w] = 0

\* Once past recall, a run stays past recall.
LEMMA PastRecallStable ==
  ASSUME NEW r0 \in Runs
  PROVE  BaseInv /\ PastRecall(r0) /\ [Next]_vars => PastRecall(r0)'
<1> SUFFICES ASSUME BaseInv, PastRecall(r0), [Next]_vars PROVE PastRecall(r0)'
  OBVIOUS
<1> USE ConstantsAssumption DEF BaseInv, TypeOK, Causality, PastRecall, Exists, Status, Idle,
          rowVars, producerVars, brokerVars, workerVars, faultVars
<1>1. ASSUME NEW r \in Runs, NEW t \in Transfers, Checked(r, t) PROVE PastRecall(r0)'
  BY <1>1 DEF Checked
<1>2. ASSUME NEW r \in Runs, CreateRun(r) PROVE PastRecall(r0)'
  BY <1>2 DEF CreateRun
<1>3. ASSUME NEW r \in Runs, CreateRefused(r) PROVE PastRecall(r0)'
  BY <1>3 DEF CreateRefused
<1>4. ASSUME NEW r \in Runs, SendTask(r) PROVE PastRecall(r0)'
  BY <1>4 DEF SendTask, Accept
<1>5. ASSUME NEW r \in Runs, SendTaskFails(r) PROVE PastRecall(r0)'
  BY <1>5 DEF SendTaskFails, Accept
<1>6. ASSUME NEW r \in Runs, MarkFailed(r) PROVE PastRecall(r0)'
  BY <1>6 DEF MarkFailed
<1>7. ASSUME NEW R \in SUBSET InFlight, GiveUp(R) PROVE PastRecall(r0)'
  BY <1>7 DEF GiveUp, InFlight
<1>8. ASSUME NEW r \in Runs, Redeliver(r) PROVE PastRecall(r0)'
  BY <1>8 DEF Redeliver
<1>9. ASSUME NEW s \in Stoppers, NEW r \in Runs, StopRead(s, r) PROVE PastRecall(r0)'
  BY <1>9 DEF StopRead
<1>10. ASSUME NEW s \in Stoppers, StopRun(s) PROVE PastRecall(r0)'
  BY <1>10 DEF StopRun
<1>11. ASSUME NEW s \in Stoppers, StopRefused(s) PROVE PastRecall(r0)'
  BY <1>11 DEF StopRefused
<1>12. ASSUME NEW t \in Transfers, DeleteTransfer(t) PROVE PastRecall(r0)'
  BY <1>12 DEF DeleteTransfer
<1>13. ASSUME NEW w \in Workers, NEW r \in Runs, LoadRun(w, r) PROVE PastRecall(r0)'
  BY <1>13 DEF LoadRun, GoTo
<1>14. ASSUME NEW w \in Workers, NEW r \in Runs, SkipRun(w, r) PROVE PastRecall(r0)'
  BY <1>14 DEF SkipRun
<1>15. ASSUME NEW w \in Workers, StartTransfer(w) PROVE PastRecall(r0)'
  BY <1>15 DEF StartTransfer, GoTo
<1>16. ASSUME NEW w \in Workers, StartFails(w) PROVE PastRecall(r0)'
  BY <1>16 DEF StartFails, GoTo
<1>17. ASSUME NEW w \in Workers, PerformTransfer(w) PROVE PastRecall(r0)'
  BY <1>17 DEF PerformTransfer, GoTo
<1>18. ASSUME NEW w \in Workers, ReloadRun(w) PROVE PastRecall(r0)'
  BY <1>18 DEF ReloadRun, GoTo
<1>19. ASSUME NEW w \in Workers, AbandonRun(w) PROVE PastRecall(r0)'
  BY <1>19 DEF AbandonRun, GoTo
<1>20. ASSUME NEW w \in Workers, EndRun(w) PROVE PastRecall(r0)'
  <2>1. status[r0] # "CREATED" => status'[r0] # "CREATED"
    BY <1>20 DEF EndRun
  <2>2. UNCHANGED <<producer, starts>> /\ pc' = [pc EXCEPT ![w] = "idle"] /\ job' = [job EXCEPT ![w] = None]
    BY <1>20 DEF EndRun, GoTo
  <2>3. QED
    BY <2>1, <2>2
<1>21. ASSUME NEW w \in Workers, pc[w] # "idle", Drop(w) PROVE PastRecall(r0)'
  BY <1>21 DEF Drop, GoTo
<1>22. ASSUME NEW w \in Workers, NEW r \in Runs, LoadFails(w, r) PROVE PastRecall(r0)'
  BY <1>22 DEF LoadFails, GoTo
<1>23. CASE UNCHANGED vars
  BY <1>23 DEF vars
<1>24. QED
  BY FaultSteps, <1>1, <1>2, <1>3, <1>4, <1>5, <1>6, <1>7, <1>8, <1>9, <1>10, <1>11, <1>12,
     <1>13, <1>14, <1>15, <1>16, <1>17, <1>18, <1>19, <1>20, <1>21, <1>22, <1>23
     DEF Next, Begin, Produce, Stopper, Worker, StartRun, SendJobToCelery

\* A stop that is stored before a worker has loaded the run keeps the run from
\* ever being executed.
THEOREM StopIsEffective == Spec => StopBeforeLoadIsEffective
<1> DEFINE Never(r) == \A w \in Workers : starts[r][w] = 0
<1>1. SUFFICES ASSUME NEW r \in Runs
               PROVE  Spec => [](Cancelled(r) => []Never(r))
  BY DEF StopBeforeLoadIsEffective
<1>2. BaseInv /\ Cancelled(r) => PastRecall(r)
  BY ConstantsAssumption DEF BaseInv, TypeOK, Causality, Cancelled, PastRecall
<1>3. PastRecall(r) => Never(r)
  BY DEF PastRecall
<1>4. BaseInv /\ PastRecall(r) /\ [Next]_vars => PastRecall(r)'
  BY PastRecallStable
<1> HIDE DEF Never
<1>5. QED
  BY <1>2, <1>3, <1>4, BaseInit, BaseStep, PTL DEF Spec

-----------------------------------------------------------------------------
(* Only faults strand a run.                                               *)

\* Stranded is not inductive: a worker may die before the producer of its run
\* has returned, or while a second copy of the message waits, and the run joins
\* Stranded in a later step of somebody else.  A run is lost at the death
\* itself: nobody is left who would move it out of CREATED, or no worker is left
\* that would end what was started.
Lost(r) ==
  /\ Exists(r)
  /\ \/ status[r] = "CREATED" /\ Unattended(r)
     \/ r \in startedAt \ endedAt /\ \A w \in Workers : job[w] = r => pc[w] = "loaded"

\* The runs that count as lost.
LostRuns == {r \in Runs : Lost(r)}

\* The inductive invariant behind OnlyFaultsStrand.
StrandInv == LostRuns \subseteq dropped

\* An idle worker holds no run.
IdleHasNoJob == \A w \in Workers : pc[w] = "idle" => job[w] = None

\* Every step preserves that idle workers hold no run.
LEMMA IdleStep == BaseInv /\ IdleHasNoJob /\ [Next]_vars => IdleHasNoJob'
<1> SUFFICES ASSUME BaseInv, IdleHasNoJob, [Next]_vars PROVE IdleHasNoJob'
  OBVIOUS
<1> USE DEF BaseInv, TypeOK, IdleHasNoJob, rowVars, producerVars, brokerVars, workerVars, faultVars
<1>1. ASSUME NEW r \in Runs, NEW t \in Transfers, Checked(r, t) PROVE IdleHasNoJob'
  BY <1>1 DEF Checked
<1>2. ASSUME NEW r \in Runs, CreateRun(r) PROVE IdleHasNoJob'
  BY <1>2 DEF CreateRun
<1>3. ASSUME NEW r \in Runs, CreateRefused(r) PROVE IdleHasNoJob'
  BY <1>3 DEF CreateRefused
<1>4. ASSUME NEW r \in Runs, SendTask(r) PROVE IdleHasNoJob'
  BY <1>4 DEF SendTask, Accept
<1>5. ASSUME NEW r \in Runs, SendTaskFails(r) PROVE IdleHasNoJob'
  BY <1>5 DEF SendTaskFails, Accept
<1>6. ASSUME NEW r \in Runs, MarkFailed(r) PROVE IdleHasNoJob'
  BY <1>6 DEF MarkFailed
<1>7. ASSUME NEW R \in SUBSET InFlight, GiveUp(R) PROVE IdleHasNoJob'
  BY <1>7 DEF GiveUp, InFlight
<1>8. ASSUME NEW r \in Runs, Redeliver(r) PROVE IdleHasNoJob'
  BY <1>8 DEF Redeliver
<1>9. ASSUME NEW s \in Stoppers, NEW r \in Runs, StopRead(s, r) PROVE IdleHasNoJob'
  BY <1>9 DEF StopRead
<1>10. ASSUME NEW s \in Stoppers, StopRun(s) PROVE IdleHasNoJob'
  BY <1>10 DEF StopRun
<1>11. ASSUME NEW s \in Stoppers, StopRefused(s) PROVE IdleHasNoJob'
  BY <1>11 DEF StopRefused
<1>12. ASSUME NEW t \in Transfers, DeleteTransfer(t) PROVE IdleHasNoJob'
  BY <1>12 DEF DeleteTransfer
<1>13. ASSUME NEW w \in Workers, NEW r \in Runs, LoadRun(w, r) PROVE IdleHasNoJob'
  BY <1>13 DEF LoadRun, GoTo
<1>14. ASSUME NEW w \in Workers, NEW r \in Runs, SkipRun(w, r) PROVE IdleHasNoJob'
  BY <1>14 DEF SkipRun
<1>15. ASSUME NEW w \in Workers, StartTransfer(w) PROVE IdleHasNoJob'
  BY <1>15 DEF StartTransfer, GoTo
<1>16. ASSUME NEW w \in Workers, StartFails(w) PROVE IdleHasNoJob'
  BY <1>16 DEF StartFails, GoTo
<1>17. ASSUME NEW w \in Workers, PerformTransfer(w) PROVE IdleHasNoJob'
  BY <1>17 DEF PerformTransfer, GoTo
<1>18. ASSUME NEW w \in Workers, ReloadRun(w) PROVE IdleHasNoJob'
  BY <1>18 DEF ReloadRun, GoTo
<1>19. ASSUME NEW w \in Workers, AbandonRun(w) PROVE IdleHasNoJob'
  BY <1>19 DEF AbandonRun, GoTo
<1>20. ASSUME NEW w \in Workers, EndRun(w) PROVE IdleHasNoJob'
  BY <1>20 DEF EndRun, GoTo
<1>21. ASSUME NEW w \in Workers, pc[w] # "idle", Drop(w) PROVE IdleHasNoJob'
  BY <1>21 DEF Drop, GoTo
<1>22. ASSUME NEW w \in Workers, NEW r \in Runs, LoadFails(w, r) PROVE IdleHasNoJob'
  BY <1>22 DEF LoadFails, GoTo
<1>23. CASE UNCHANGED vars
  BY <1>23 DEF vars
<1>24. QED
  BY FaultSteps, <1>1, <1>2, <1>3, <1>4, <1>5, <1>6, <1>7, <1>8, <1>9, <1>10, <1>11, <1>12,
     <1>13, <1>14, <1>15, <1>16, <1>17, <1>18, <1>19, <1>20, <1>21, <1>22, <1>23
     DEF Next, Begin, Produce, Stopper, Worker, StartRun, SendJobToCelery

\* Every step preserves that only dropped runs are lost.
LEMMA StrandStep == BaseInv /\ TimeInv /\ IdleHasNoJob /\ StrandInv /\ [Next]_vars => StrandInv'
<1> SUFFICES ASSUME BaseInv, TimeInv, IdleHasNoJob, StrandInv, [Next]_vars PROVE StrandInv'
  OBVIOUS
<1> USE ConstantsAssumption
    DEF BaseInv, TypeOK, Causality, TimeInv, IdleHasNoJob, StrandInv, LostRuns, Lost, Unattended, Exists,
          Status, rowVars, producerVars, brokerVars, workerVars, faultVars
<1>1. ASSUME NEW r \in Runs, NEW t \in Transfers, Checked(r, t) PROVE StrandInv'
  BY <1>1 DEF Checked
<1>2. ASSUME NEW r \in Runs, CreateRun(r) PROVE StrandInv'
  BY <1>2 DEF CreateRun
<1>3. ASSUME NEW r \in Runs, CreateRefused(r) PROVE StrandInv'
  BY <1>3 DEF CreateRefused
<1>4. ASSUME NEW r \in Runs, SendTask(r) PROVE StrandInv'
  BY <1>4 DEF SendTask, Accept
<1>5. ASSUME NEW r \in Runs, SendTaskFails(r) PROVE StrandInv'
  BY <1>5 DEF SendTaskFails, Accept
<1>6. ASSUME NEW r \in Runs, MarkFailed(r) PROVE StrandInv'
  BY <1>6 DEF MarkFailed
<1>7. ASSUME NEW R \in SUBSET InFlight, GiveUp(R) PROVE StrandInv'
  BY <1>7 DEF GiveUp, InFlight
<1>8. ASSUME NEW r \in Runs, Redeliver(r) PROVE StrandInv'
  BY <1>8 DEF Redeliver
<1>9. ASSUME NEW s \in Stoppers, NEW r \in Runs, StopRead(s, r) PROVE StrandInv'
  BY <1>9 DEF StopRead
<1>10. ASSUME NEW s \in Stoppers, StopRun(s) PROVE StrandInv'
  BY <1>10 DEF StopRun
<1>11. ASSUME NEW s \in Stoppers, StopRefused(s) PROVE StrandInv'
  BY <1>11 DEF StopRefused
<1>12. ASSUME NEW t \in Transfers, DeleteTransfer(t) PROVE StrandInv'
  BY <1>12 DEF DeleteTransfer
<1>13. ASSUME NEW w \in Workers, NEW r \in Runs, LoadRun(w, r) PROVE StrandInv'
  <2>1. \A q \in Runs : Lost(q)' => Lost(q)
    BY <1>13 DEF LoadRun, GoTo
  <2>2. dropped' = dropped
    BY <1>13 DEF LoadRun
  <2>3. QED
    BY <2>1, <2>2
<1>14. ASSUME NEW w \in Workers, NEW r \in Runs, SkipRun(w, r) PROVE StrandInv'
  BY <1>14 DEF SkipRun
<1>15. ASSUME NEW w \in Workers, StartTransfer(w) PROVE StrandInv'
  BY <1>15 DEF StartTransfer, GoTo
<1>16. ASSUME NEW w \in Workers, StartFails(w) PROVE StrandInv'
  BY <1>16 DEF StartFails, GoTo
<1>17. ASSUME NEW w \in Workers, PerformTransfer(w) PROVE StrandInv'
  BY <1>17 DEF PerformTransfer, GoTo
<1>18. ASSUME NEW w \in Workers, ReloadRun(w) PROVE StrandInv'
  BY <1>18 DEF ReloadRun, GoTo
<1>19. ASSUME NEW w \in Workers, AbandonRun(w) PROVE StrandInv'
  BY <1>19 DEF AbandonRun, GoTo
<1>20. ASSUME NEW w \in Workers, EndRun(w) PROVE StrandInv'
  BY <1>20 DEF EndRun, GoTo
<1>21. ASSUME NEW w \in Workers, pc[w] # "idle", Drop(w) PROVE StrandInv'
  BY <1>21 DEF Drop, GoTo
<1>22. ASSUME NEW w \in Workers, NEW r \in Runs, LoadFails(w, r) PROVE StrandInv'
  BY <1>22 DEF LoadFails, GoTo
<1>23. CASE UNCHANGED vars
  BY <1>23 DEF vars
<1> HIDE DEF BaseInv, TypeOK, Causality, TimeInv, IdleHasNoJob, StrandInv, LostRuns, Lost, Unattended, Exists,
             Status, rowVars, producerVars, brokerVars, workerVars, faultVars
<1>24. QED
  BY FaultSteps, <1>1, <1>2, <1>3, <1>4, <1>5, <1>6, <1>7, <1>8, <1>9, <1>10, <1>11, <1>12,
     <1>13, <1>14, <1>15, <1>16, <1>17, <1>18, <1>19, <1>20, <1>21, <1>22, <1>23
     DEF Next, Begin, Produce, Stopper, Worker, StartRun, SendJobToCelery

\* However many processes, runs, redeliveries and stop requests there are, a run is
\* left behind only by the death of a process that had it in hand or by a failed
\* database session.
THEOREM OnlyFaultsStrandHolds == Spec => []OnlyFaultsStrand
<1>1. Init => IdleHasNoJob /\ StrandInv
  BY ConstantsAssumption DEF Init, IdleHasNoJob, StrandInv, LostRuns, Lost, Exists
<1>2. BaseInv /\ StrandInv => OnlyFaultsStrand
  BY DEF OnlyFaultsStrand, StrandInv, Stranded, LostRuns, Lost, Unfinished, Unattended, BaseInv, Causality
<1>3. QED
  BY <1>1, <1>2, BaseInit, BaseStep, TimeInit, TimeStep, IdleStep, StrandStep, PTL DEF Spec

-----------------------------------------------------------------------------
(* RunLifecycle implements RunContract, with broker faults, stop requests, *)
(* deletions, deaths and failed sessions.                                  *)

\* The statuses of a run that nobody has ended.
Unended == {"CREATED", "STARTED", "SEND_STOP_SIGNAL", None}

\* What is known of a run whose delivery went well: only stop requests write to
\* its row beside the one process that works on it.
Calm(r) ==
  /\ producer[r] \in {"created", "failing"} => r \notin published /\ status[r] \in Unended \ {"STARTED"}
  /\ queue[r] > 0 => status[r] \in Unended \ {"STARTED"}
  /\ \A w \in Workers : job[w] = r =>
       /\ pc[w] = "loaded" => status[r] \in Unended \ {"STARTED"}
       /\ pc[w] = "executing" => status[r] \in Unended \ {"CREATED"}
       /\ pc[w] \in {"ending", "closing"} =>
            status[r] \in Unended /\ (outcome[w] = "FINISHED" => status[r] # "CREATED")
       /\ pc[w] = "closing" => seen[w] \in Unended \ {None}

\* Everything else the refinement needs: a worker has executed the run that it
\* is about to finish, and the broker copies only what it has accepted.
CalmInv ==
  /\ \A r \in Runs : ~InDoubt(r) => Calm(r)
  /\ \A r \in Runs : redelivered[r] > 0 => r \in published
  /\ \A w \in Workers : pc[w] = "executing" \/ outcome[w] = "FINISHED" => starts[job[w]][w] > 0

\* Everything the refinement rests on.
RefInv == BaseInv /\ ExecInv /\ TimeInv /\ IdleHasNoJob /\ CalmInv

\* The initial state is calm.
LEMMA CalmInit == Init => CalmInv
  BY ConstantsAssumption DEF Init, CalmInv, Calm, InDoubt, Status

\* Every step keeps calm the runs whose delivery goes well.
LEMMA CalmStep == RefInv /\ BaseInv' /\ [Next]_vars => CalmInv'
<1> SUFFICES ASSUME RefInv, BaseInv', [Next]_vars PROVE CalmInv'
  OBVIOUS
<1> USE ConstantsAssumption
    DEF RefInv, BaseInv, TypeOK, Causality, ExecInv, Token, TimeInv, IdleHasNoJob, CalmInv, Calm,
        InDoubt, Unended, Exists, Status, rowVars, producerVars, brokerVars, workerVars, faultVars
<1>1. ASSUME NEW r \in Runs, NEW t \in Transfers, Checked(r, t) PROVE CalmInv'
  BY <1>1 DEF Checked
<1>2. ASSUME NEW r \in Runs, CreateRun(r) PROVE CalmInv'
  BY <1>2 DEF CreateRun
<1>3. ASSUME NEW r \in Runs, CreateRefused(r) PROVE CalmInv'
  BY <1>3 DEF CreateRefused
<1>4. ASSUME NEW r \in Runs, SendTask(r) PROVE CalmInv'
  BY <1>4 DEF SendTask, Accept
<1>5. ASSUME NEW r \in Runs, SendTaskFails(r) PROVE CalmInv'
  BY <1>5 DEF SendTaskFails, Accept
<1>6. ASSUME NEW r \in Runs, MarkFailed(r) PROVE CalmInv'
  BY <1>6 DEF MarkFailed
<1>7. ASSUME NEW R \in SUBSET InFlight, GiveUp(R) PROVE CalmInv'
  BY <1>7 DEF GiveUp, InFlight
<1>8. ASSUME NEW r \in Runs, Redeliver(r) PROVE CalmInv'
  BY <1>8 DEF Redeliver
<1>9. ASSUME NEW s \in Stoppers, NEW r \in Runs, StopRead(s, r) PROVE CalmInv'
  BY <1>9 DEF StopRead
<1>10. ASSUME NEW s \in Stoppers, StopRun(s) PROVE CalmInv'
  BY <1>10 DEF StopRun
<1>11. ASSUME NEW s \in Stoppers, StopRefused(s) PROVE CalmInv'
  BY <1>11 DEF StopRefused
<1>12. ASSUME NEW t \in Transfers, DeleteTransfer(t) PROVE CalmInv'
  BY <1>12 DEF DeleteTransfer
<1>13. ASSUME NEW w \in Workers, NEW r \in Runs, LoadRun(w, r) PROVE CalmInv'
  BY <1>13 DEF LoadRun, GoTo
<1>14. ASSUME NEW w \in Workers, NEW r \in Runs, SkipRun(w, r) PROVE CalmInv'
  BY <1>14 DEF SkipRun
<1>15. ASSUME NEW w \in Workers, StartTransfer(w) PROVE CalmInv'
  BY <1>15 DEF StartTransfer, GoTo
<1>16. ASSUME NEW w \in Workers, StartFails(w) PROVE CalmInv'
  BY <1>16 DEF StartFails, GoTo
<1>17. ASSUME NEW w \in Workers, PerformTransfer(w) PROVE CalmInv'
  BY <1>17 DEF PerformTransfer, GoTo
<1>18. ASSUME NEW w \in Workers, ReloadRun(w) PROVE CalmInv'
  BY <1>18 DEF ReloadRun, GoTo
<1>19. ASSUME NEW w \in Workers, AbandonRun(w) PROVE CalmInv'
  BY <1>19 DEF AbandonRun, GoTo
<1>20. ASSUME NEW w \in Workers, EndRun(w) PROVE CalmInv'
  BY <1>20 DEF EndRun, GoTo
<1>21. ASSUME NEW w \in Workers, pc[w] # "idle", Drop(w) PROVE CalmInv'
  BY <1>21 DEF Drop, GoTo
<1>22. ASSUME NEW w \in Workers, NEW r \in Runs, LoadFails(w, r) PROVE CalmInv'
  BY <1>22 DEF LoadFails, GoTo
<1>23. CASE UNCHANGED vars
  BY <1>23 DEF vars
<1>24. QED
  BY FaultSteps, <1>1, <1>2, <1>3, <1>4, <1>5, <1>6, <1>7, <1>8, <1>9, <1>10, <1>11, <1>12,
     <1>13, <1>14, <1>15, <1>16, <1>17, <1>18, <1>19, <1>20, <1>21, <1>22, <1>23
     DEF Next, Begin, Produce, Stopper, Worker, StartRun, SendJobToCelery

\* The variables of the contract, for one run.
Begun(r) == \E w \in Workers : Executed(r, w)
Over(r) == Settled(r) /\ ~InDoubt(r)
Gone(r) == producer[r] \in {"created", "failing", "done", "failed"} /\ ~Exists(r)

\* What a step does to them.
Becomes(r, state, executed, settled, doubtful) ==
  /\ status'[r] = state
  /\ Begun(r)' <=> executed
  /\ Over(r)' <=> settled
  /\ InDoubt(r)' <=> doubtful
  /\ Gone(r)' <=> Gone(r)

Stays(r) == Becomes(r, status[r], Begun(r), Over(r), InDoubt(r))

\* The steps of the contract, seen from one run.
Local(r) ==
  \/ Stays(r)
  \/ /\ status[r] = None /\ ~Gone(r) /\ ~Over(r) /\ ~InDoubt(r)
     /\ Becomes(r, "CREATED", Begun(r), Over(r), InDoubt(r))
  \/ /\ status[r] \in {"CREATED", "SEND_STOP_SIGNAL"} /\ ~Begun(r) /\ ~Over(r)
     /\ Becomes(r, "STARTED", TRUE, Over(r), InDoubt(r))
  \/ /\ status[r] \in {"STARTED", "SEND_STOP_SIGNAL"} /\ Begun(r) /\ ~Over(r)
     /\ Becomes(r, "FINISHED", Begun(r), TRUE, InDoubt(r))
  \/ /\ status[r] \in {"CREATED", "STARTED", "SEND_STOP_SIGNAL"} /\ ~Over(r)
     /\ Becomes(r, "FAILED", Begun(r), TRUE, InDoubt(r))
  \/ /\ status[r] # None
     /\ \/ Becomes(r, "SEND_STOP_SIGNAL", Begun(r), Over(r), InDoubt(r))
        \/ ~Begun(r) /\ Becomes(r, "SEND_STOP_SIGNAL", Begun(r), TRUE, InDoubt(r))
  \/ /\ status[r] \in {"STARTED", "SEND_STOP_SIGNAL"} /\ ~Over(r)
     /\ Becomes(r, status[r], Begun(r), TRUE, InDoubt(r))
  \/ ~InDoubt(r) /\ Becomes(r, status[r], Begun(r), FALSE, TRUE)
  \/ /\ InDoubt(r) /\ status[r] # None
     /\ \/ Becomes(r, "STARTED", TRUE, Over(r), InDoubt(r))
        \/ Begun(r) /\ Becomes(r, "FINISHED", Begun(r), Over(r), InDoubt(r))
        \/ Becomes(r, "FAILED", Begun(r), Over(r), InDoubt(r))

\* A step that concerns one run and is a step of the contract for it is a step
\* of the contract.
LEMMA LocalStep ==
  ASSUME TypeOK, TypeOK', NEW r \in Runs, Local(r), \A q \in Runs \ {r} : Stays(q)
  PROVE  Contract!Next \/ UNCHANGED Contract!contractVars
<1> DEFINE E == {q \in Runs : \E w \in Workers : Executed(q, w)}
           S == {q \in Runs : Settled(q) /\ ~InDoubt(q)}
           D == {q \in Runs : InDoubt(q)}
           G == {q \in Runs : producer[q] \in {"created", "failing", "done", "failed"} /\ ~Exists(q)}
<1>1. /\ status \in [Runs -> Status \cup {None}] /\ status' \in [Runs -> Status \cup {None}]
      /\ \A q \in Runs \ {r} : status'[q] = status[q]
  BY DEF TypeOK, Stays, Becomes
<1>2. status' = [status EXCEPT ![r] = status'[r]]
  BY <1>1
<1>3. (r \in E <=> Begun(r)) /\ (r \in S <=> Over(r)) /\ (r \in D <=> InDoubt(r)) /\ (r \in G <=> Gone(r))
  BY DEF Begun, Over, Gone
<1>4. E' = IF Begun(r)' THEN E \cup {r} ELSE E \ {r}
  BY DEF Stays, Becomes, Begun
<1>5. S' = IF Over(r)' THEN S \cup {r} ELSE S \ {r}
  BY DEF Stays, Becomes, Over
<1>6. D' = IF InDoubt(r)' THEN D \cup {r} ELSE D \ {r}
  BY DEF Stays, Becomes
<1>7. G' = IF Gone(r)' THEN G \cup {r} ELSE G \ {r}
  BY DEF Stays, Becomes, Gone
<1>8. UNCHANGED <<status, E, S, D, G>> => UNCHANGED Contract!contractVars
  BY DEF Contract!contractVars
<1>9. Gone(r)' <=> Gone(r)
  BY DEF Local, Stays, Becomes
<1>10. G' = G
  BY <1>3, <1>7, <1>9
<1> DEFINE To(x) == status' = [status EXCEPT ![r] = x]
<1>11. /\ status[r] = None /\ r \notin G \cup S \cup D /\ To("CREATED") /\ UNCHANGED <<E, S, D, G>>
       => Contract!Create(r)
  BY DEF Contract!Create, Contract!Become
<1>12. /\ status[r] \in {"CREATED", "SEND_STOP_SIGNAL"} /\ r \notin E \cup S /\ To("STARTED")
       /\ E' = E \cup {r} /\ UNCHANGED <<S, D, G>>
       => Contract!Execute(r)
  BY DEF Contract!Execute, Contract!Become
<1>13. /\ status[r] \in {"STARTED", "SEND_STOP_SIGNAL"} /\ r \in E \ S /\ To("FINISHED")
       /\ S' = S \cup {r} /\ UNCHANGED <<E, D, G>>
       => Contract!Finish(r)
  BY DEF Contract!Finish, Contract!Become
<1>14. /\ status[r] \in {"CREATED", "STARTED", "SEND_STOP_SIGNAL"} /\ r \notin S /\ To("FAILED")
       /\ S' = S \cup {r} /\ UNCHANGED <<E, D, G>>
       => Contract!Fail(r)
  BY DEF Contract!Fail, Contract!Become
<1>15. /\ status[r] # None /\ To("SEND_STOP_SIGNAL")
       /\ (UNCHANGED S \/ (r \notin E /\ S' = S \cup {r})) /\ UNCHANGED <<E, D, G>>
       => Contract!Stop(r)
  BY DEF Contract!Stop, Contract!Become
<1>16. /\ status[r] \in {"STARTED", "SEND_STOP_SIGNAL"} /\ r \notin S
       /\ S' = S \cup {r} /\ UNCHANGED <<status, E, D, G>>
       => Contract!Settle({r})
  BY DEF Contract!Settle
<1>17. /\ r \notin D /\ D' = D \cup {r} /\ S' = S \ {r} /\ UNCHANGED <<status, E, G>>
       => Contract!Doubt(r)
  BY DEF Contract!Doubt
<1>18. /\ r \in D /\ status[r] # None /\ UNCHANGED <<S, D, G>>
       /\ \/ To("STARTED") /\ E' = E \cup {r}
          \/ r \in E /\ To("FINISHED") /\ UNCHANGED E
          \/ To("FAILED") /\ UNCHANGED E
       => Contract!Rewrite(r)
  BY DEF Contract!Rewrite, Contract!Become
<1> HIDE DEF E, S, D, G
<1>19. To(status'[r]) /\ (status'[r] = status[r] => status' = status)
  BY <1>1, <1>2
<1>20. \/ UNCHANGED <<status, E, S, D, G>>
       \/ Contract!Create(r) \/ Contract!Execute(r) \/ Contract!Finish(r) \/ Contract!Fail(r)
       \/ Contract!Stop(r) \/ Contract!Settle({r}) \/ Contract!Doubt(r) \/ Contract!Rewrite(r)
  BY <1>3, <1>4, <1>5, <1>6, <1>10, <1>11, <1>12, <1>13, <1>14, <1>15, <1>16, <1>17, <1>18, <1>19
     DEF Local, Stays, Becomes
<1>21. {r} \in SUBSET Runs
  OBVIOUS
<1>22. QED
  BY <1>8, <1>20, <1>21 DEF Contract!Next

\* A step that changes no row, execution, message or position of a producer and
\* no worker's run leaves the variables of the contract as they are.
LEMMA Quiet ==
  ASSUME UNCHANGED <<status, starts, producer, published, queue, redelivered, job>>
  PROVE  UNCHANGED Contract!contractVars
  BY DEF Contract!contractVars, Executed, Exists, Settled, InDoubt

\* Every step is a step of the contract or leaves its variables alone.
LEMMA ContractStep ==
  RefInv /\ RefInv' /\ [Next]_vars => [Contract!Next]_Contract!contractVars
<1> SUFFICES ASSUME RefInv, RefInv', [Next]_vars
             PROVE  Contract!Next \/ UNCHANGED Contract!contractVars
  OBVIOUS
<1> DEFINE Goal == Contract!Next \/ UNCHANGED Contract!contractVars
<1>0. /\ TypeOK /\ TypeOK'
      /\ \A r \in Runs : Local(r) /\ (\A q \in Runs \ {r} : Stays(q)) => Goal
  BY LocalStep DEF RefInv, BaseInv
<1> HIDE DEF Goal
<1> USE ConstantsAssumption
    DEF RefInv, BaseInv, TypeOK, Causality, ExecInv, Claims, Token, TimeInv, IdleHasNoJob, CalmInv, Calm,
        Unended, Exists, Status, rowVars, producerVars, brokerVars, workerVars, faultVars
<1>1. ASSUME NEW r \in Runs, NEW t \in Transfers, Checked(r, t) PROVE Goal
  <2>1. r \in Runs
    BY <1>1 DEF Checked
  <2>2. \A q \in Runs \ {r} : Stays(q)
    BY <1>1, <2>1 DEF Checked, Stays, Becomes, Begun, Over, Gone, Settled, InDoubt, Executed
  <2>3. Local(r)
    BY <1>1, <2>1 DEF Checked, Local, Stays, Becomes, Begun, Over, Gone, Settled, InDoubt, Executed
  <2>4. QED
    BY <1>0, <2>1, <2>2, <2>3
<1>2. ASSUME NEW r \in Runs, CreateRun(r) PROVE Goal
  <2>1. r \in Runs
    BY <1>2 DEF CreateRun
  <2>2. \A q \in Runs \ {r} : Stays(q)
    BY <1>2, <2>1 DEF CreateRun, Stays, Becomes, Begun, Over, Gone, Settled, InDoubt, Executed
  <2>3. Local(r)
    BY <1>2, <2>1 DEF CreateRun, Local, Stays, Becomes, Begun, Over, Gone, Settled, InDoubt, Executed
  <2>4. QED
    BY <1>0, <2>1, <2>2, <2>3
<1>3. ASSUME NEW r \in Runs, CreateRefused(r) PROVE Goal
  <2>1. r \in Runs
    BY <1>3 DEF CreateRefused
  <2>2. \A q \in Runs \ {r} : Stays(q)
    BY <1>3, <2>1 DEF CreateRefused, Stays, Becomes, Begun, Over, Gone, Settled, InDoubt, Executed
  <2>3. Local(r)
    BY <1>3, <2>1 DEF CreateRefused, Local, Stays, Becomes, Begun, Over, Gone, Settled, InDoubt, Executed
  <2>4. QED
    BY <1>0, <2>1, <2>2, <2>3
<1>4. ASSUME NEW r \in Runs, SendTask(r) PROVE Goal
  <2>1. r \in Runs
    BY <1>4 DEF SendTask, Accept
  <2>2. \A q \in Runs \ {r} : Stays(q)
    BY <1>4, <2>1 DEF SendTask, Accept, Stays, Becomes, Begun, Over, Gone, Settled, InDoubt, Executed
  <2>3. Local(r)
    BY <1>4, <2>1 DEF SendTask, Accept, Local, Stays, Becomes, Begun, Over, Gone, Settled, InDoubt, Executed
  <2>4. QED
    BY <1>0, <2>1, <2>2, <2>3
<1>5. ASSUME NEW r \in Runs, SendTaskFails(r) PROVE Goal
  <2>1. r \in Runs
    BY <1>5 DEF SendTaskFails, Accept
  <2>2. \A q \in Runs \ {r} : Stays(q)
    BY <1>5, <2>1 DEF SendTaskFails, Accept, Stays, Becomes, Begun, Over, Gone, Settled, InDoubt, Executed
  <2>3. Local(r)
    BY <1>5, <2>1 DEF SendTaskFails, Accept, Local, Stays, Becomes, Begun, Over, Gone, Settled, InDoubt, Executed
  <2>4. QED
    BY <1>0, <2>1, <2>2, <2>3
<1>6. ASSUME NEW r \in Runs, MarkFailed(r) PROVE Goal
  <2>1. r \in Runs
    BY <1>6 DEF MarkFailed
  <2>2. \A q \in Runs \ {r} : Stays(q)
    BY <1>6, <2>1 DEF MarkFailed, Stays, Becomes, Begun, Over, Gone, Settled, InDoubt, Executed
  <2>3. Local(r)
    BY <1>6, <2>1 DEF MarkFailed, Local, Stays, Becomes, Begun, Over, Gone, Settled, InDoubt, Executed
  <2>4. QED
    BY <1>0, <2>1, <2>2, <2>3
<1>7. ASSUME NEW R \in SUBSET InFlight, GiveUp(R) PROVE Goal
  <2> DEFINE D == {q \in Runs : Over(q)' /\ ~Over(q)}
  <2>1. ASSUME NEW q \in Runs
        PROVE  /\ (Begun(q)' <=> Begun(q)) /\ (InDoubt(q)' <=> InDoubt(q)) /\ (Gone(q)' <=> Gone(q))
               /\ Over(q) => Over(q)'
               /\ Over(q)' /\ ~Over(q) => status[q] \in {"STARTED", "SEND_STOP_SIGNAL"}
    BY <1>7 DEF GiveUp, InFlight, Begun, Over, Gone, Settled, InDoubt, Executed
  <2>2. status' = status
    BY <1>7 DEF GiveUp
  <2>3. Contract!Settle(D)
    BY <2>1, <2>2 DEF Contract!Settle, Begun, Over, Gone
  <2>4. QED
    BY <2>3 DEF Contract!Next, Goal
<1>8. ASSUME NEW r \in Runs, Redeliver(r) PROVE Goal
  <2>1. r \in Runs
    BY <1>8 DEF Redeliver
  <2>2. \A q \in Runs \ {r} : Stays(q)
    BY <1>8, <2>1 DEF Redeliver, Stays, Becomes, Begun, Over, Gone, Settled, InDoubt, Executed
  <2>3. Local(r)
    BY <1>8, <2>1 DEF Redeliver, Local, Stays, Becomes, Begun, Over, Gone, Settled, InDoubt, Executed
  <2>4. QED
    BY <1>0, <2>1, <2>2, <2>3
<1>9. ASSUME NEW s \in Stoppers, (\E r \in Runs : StopRead(s, r)) \/ StopRefused(s) PROVE Goal
  BY <1>9, Quiet DEF StopRead, StopRefused, Goal
<1>10. ASSUME NEW s \in Stoppers, StopRun(s) PROVE Goal
  <2>1. PICK r \in Runs : r = stop[s].run
    BY <1>10 DEF StopRun
  <2>2. \A q \in Runs \ {r} : Stays(q)
    BY <1>10, <2>1 DEF StopRun, Stays, Becomes, Begun, Over, Gone, Settled, InDoubt, Executed
  <2>3. Local(r)
    <3>1. /\ status[r] # None /\ status'[r] = "SEND_STOP_SIGNAL"
          /\ (Begun(r)' <=> Begun(r)) /\ (InDoubt(r)' <=> InDoubt(r)) /\ (Gone(r)' <=> Gone(r))
      BY <1>10, <2>1 DEF StopRun, Begun, Gone, InDoubt, Executed
    <3>2. status[r] = "CREATED" => ~Begun(r) /\ ~Over(r)
      BY <2>1 DEF Begun, Executed, Over, Settled
    <3>3. status[r] # "CREATED" => (Over(r)' <=> Over(r))
      BY <1>10, <2>1, <3>1 DEF StopRun, Over, Settled, InDoubt
    <3>4. QED
      BY <3>1, <3>2, <3>3 DEF Local, Becomes
  <2>4. QED
    BY <1>0, <2>1, <2>2, <2>3
<1>12. ASSUME NEW w \in Workers, NEW r \in Runs, LoadRun(w, r) PROVE Goal
  <2>1. r \in Runs
    BY <1>12 DEF LoadRun, GoTo
  <2>2. \A q \in Runs \ {r} : Stays(q)
    BY <1>12, <2>1 DEF LoadRun, GoTo, Stays, Becomes, Begun, Over, Gone, Settled, InDoubt, Executed
  <2>3. Local(r)
    BY <1>12, <2>1 DEF LoadRun, GoTo, Local, Stays, Becomes, Begun, Over, Gone, Settled, InDoubt, Executed
  <2>4. QED
    BY <1>0, <2>1, <2>2, <2>3
<1>13. ASSUME NEW w \in Workers, NEW r \in Runs, SkipRun(w, r) PROVE Goal
  <2>1. r \in Runs
    BY <1>13 DEF SkipRun
  <2>2. \A q \in Runs \ {r} : Stays(q)
    BY <1>13, <2>1 DEF SkipRun, Stays, Becomes, Begun, Over, Gone, Settled, InDoubt, Executed
  <2>3. Local(r)
    BY <1>13, <2>1 DEF SkipRun, Local, Stays, Becomes, Begun, Over, Gone, Settled, InDoubt, Executed
  <2>4. QED
    BY <1>0, <2>1, <2>2, <2>3
<1>14. ASSUME NEW w \in Workers, StartTransfer(w) PROVE Goal
  <2>1. PICK r \in Runs : r = job[w]
    BY <1>14 DEF StartTransfer, GoTo
  <2>2. \A q \in Runs \ {r} : Stays(q)
    BY <1>14, <2>1 DEF StartTransfer, GoTo, Stays, Becomes, Begun, Over, Gone, Settled, InDoubt, Executed
  <2>3. Local(r)
    BY <1>14, <2>1 DEF StartTransfer, GoTo, Local, Stays, Becomes, Begun, Over, Gone, Settled, InDoubt, Executed
  <2>4. QED
    BY <1>0, <2>1, <2>2, <2>3
<1>15. ASSUME NEW w \in Workers, StartFails(w) PROVE Goal
  <2>1. PICK r \in Runs : r = job[w]
    BY <1>15 DEF StartFails, GoTo
  <2>2. \A q \in Runs \ {r} : Stays(q)
    BY <1>15, <2>1 DEF StartFails, GoTo, Stays, Becomes, Begun, Over, Gone, Settled, InDoubt, Executed
  <2>3. Local(r)
    BY <1>15, <2>1 DEF StartFails, GoTo, Local, Stays, Becomes, Begun, Over, Gone, Settled, InDoubt, Executed
  <2>4. QED
    BY <1>0, <2>1, <2>2, <2>3
<1>16. ASSUME NEW w \in Workers, PerformTransfer(w) PROVE Goal
  <2>1. PICK r \in Runs : r = job[w]
    BY <1>16 DEF PerformTransfer, GoTo
  <2>2. \A q \in Runs \ {r} : Stays(q)
    BY <1>16, <2>1 DEF PerformTransfer, GoTo, Stays, Becomes, Begun, Over, Gone, Settled, InDoubt, Executed
  <2>3. Local(r)
    BY <1>16, <2>1 DEF PerformTransfer, GoTo, Local, Stays, Becomes, Begun, Over, Gone, Settled, InDoubt, Executed
  <2>4. QED
    BY <1>0, <2>1, <2>2, <2>3
<1>17. ASSUME NEW w \in Workers, ReloadRun(w) PROVE Goal
  <2>1. PICK r \in Runs : r = job[w]
    BY <1>17 DEF ReloadRun, GoTo
  <2>2. \A q \in Runs \ {r} : Stays(q)
    BY <1>17, <2>1 DEF ReloadRun, GoTo, Stays, Becomes, Begun, Over, Gone, Settled, InDoubt, Executed
  <2>3. Local(r)
    BY <1>17, <2>1 DEF ReloadRun, GoTo, Local, Stays, Becomes, Begun, Over, Gone, Settled, InDoubt, Executed
  <2>4. QED
    BY <1>0, <2>1, <2>2, <2>3
<1>18. ASSUME NEW w \in Workers, AbandonRun(w) PROVE Goal
  <2>1. PICK r \in Runs : r = job[w]
    BY <1>18 DEF AbandonRun, GoTo
  <2>2. \A q \in Runs \ {r} : Stays(q)
    BY <1>18, <2>1 DEF AbandonRun, GoTo, Stays, Becomes, Begun, Over, Gone, Settled, InDoubt, Executed
  <2>3. Local(r)
    <3>1. status[r] = None /\ status' = status
      BY <1>18, <2>1 DEF AbandonRun
    <3>2. ~Over(r) /\ ~Over(r)'
      BY <3>1 DEF Over, Settled
    <3>3. (Begun(r)' <=> Begun(r)) /\ (InDoubt(r)' <=> InDoubt(r)) /\ (Gone(r)' <=> Gone(r))
      BY <1>18 DEF AbandonRun, GoTo, Begun, Gone, InDoubt, Executed
    <3>4. QED
      BY <3>1, <3>2, <3>3 DEF Local, Stays, Becomes
  <2>4. QED
    BY <1>0, <2>1, <2>2, <2>3
<1>19. ASSUME NEW w \in Workers, EndRun(w) PROVE Goal
  <2>1. PICK r \in Runs : r = job[w]
    BY <1>19 DEF EndRun, GoTo
  <2>2. \A q \in Runs \ {r} : Stays(q)
    BY <1>19, <2>1 DEF EndRun, GoTo, Stays, Becomes, Begun, Over, Gone, Settled, InDoubt, Executed
  <2>0. pc[w] = "closing" /\ job[w] = r
    BY <1>19, <2>1 DEF EndRun
  <2>3. Local(r)
    <3>1. /\ (Begun(r)' <=> Begun(r)) /\ (InDoubt(r)' <=> InDoubt(r)) /\ (Gone(r)' <=> Gone(r))
          /\ ~Over(r)
      BY <1>19, <2>0, <2>1 DEF EndRun, GoTo, Begun, Gone, InDoubt, Executed, Over, Settled
    <3>2. outcome[w] \in {"FINISHED", "FAILED"} /\ (outcome[w] = "FINISHED" => Begun(r))
      BY <2>0, <2>1 DEF Begun, Executed
    <3>3. ~InDoubt(r) => /\ Calm(r) /\ producer[r] \notin {"created", "failing"}
                         /\ \A v \in Workers \ {w} : job[v] # r
      <4>1. r \in published
        BY <2>0, <2>1
      <4>2. QED
        BY <2>0, <2>1, <4>1 DEF InDoubt
    <3>4. CASE status[r] = None
      <4>1. status' = status /\ ~Over(r)'
        BY <1>19, <2>0, <3>4 DEF EndRun, Over, Settled
      <4>2. QED
        BY <3>1, <4>1 DEF Local, Stays, Becomes
    <3>5. CASE status[r] # None /\ InDoubt(r)
      <4>1. ~Over(r)'
        BY <3>1, <3>5 DEF Over
      <4>2. status'[r] = status[r] \/ status'[r] = outcome[w]
        BY <1>19, <2>0, <2>1 DEF EndRun
      <4>3. QED
        BY <3>1, <3>2, <3>5, <4>1, <4>2 DEF Local, Stays, Becomes
    <3>6. CASE status[r] # None /\ ~InDoubt(r)
      <4>1. /\ status[r] \in {"CREATED", "STARTED", "SEND_STOP_SIGNAL"} /\ seen[w] # outcome[w]
            /\ outcome[w] = "FINISHED" => status[r] # "CREATED"
        BY <2>0, <3>2, <3>3, <3>6
      <4>2. status'[r] = outcome[w]
        BY <1>19, <2>0, <2>1, <3>6, <4>1 DEF EndRun
      <4>3. Over(r)'
        BY <1>19, <2>0, <2>1, <3>1, <3>2, <3>3, <3>6, <4>2 DEF EndRun, GoTo, Over, Settled
      <4>4. QED
        BY <3>1, <3>2, <3>6, <4>1, <4>2, <4>3 DEF Local, Becomes
    <3>7. QED
      BY <3>4, <3>5, <3>6
  <2>4. QED
    BY <1>0, <2>1, <2>2, <2>3
<1>20. ASSUME NEW w \in Workers, pc[w] # "idle", Drop(w) PROVE Goal
  <2>1. PICK r \in Runs : r = job[w]
    BY <1>20 DEF Drop, GoTo
  <2>2. \A q \in Runs \ {r} : Stays(q)
    BY <1>20, <2>1 DEF Drop, GoTo, Stays, Becomes, Begun, Over, Gone, Settled, InDoubt, Executed
  <2>0. pc[w] # "idle" /\ job[w] = r /\ status' = status
    BY <1>20, <2>1 DEF Drop
  <2>3. Local(r)
    <3>1. /\ (Begun(r)' <=> Begun(r)) /\ (InDoubt(r)' <=> InDoubt(r)) /\ (Gone(r)' <=> Gone(r))
          /\ ~Over(r)
      BY <1>20, <2>0, <2>1 DEF Drop, GoTo, Begun, Gone, InDoubt, Executed, Over, Settled
    <3>2. ~InDoubt(r) => /\ Calm(r) /\ producer[r] \notin {"created", "failing"} /\ queue[r] = 0
                         /\ \A v \in Workers \ {w} : job[v] # r
      <4>1. r \in published
        BY <2>0, <2>1
      <4>2. QED
        BY <2>0, <2>1, <4>1 DEF InDoubt
    <3>3. CASE InDoubt(r) \/ status[r] \in {None, "CREATED"}
      <4>1. ~Over(r)'
        BY <2>0, <3>1, <3>3 DEF Over, Settled
      <4>2. QED
        BY <2>0, <3>1, <4>1 DEF Local, Stays, Becomes
    <3>4. CASE ~InDoubt(r) /\ status[r] \notin {None, "CREATED"}
      <4>1. status[r] \in {"STARTED", "SEND_STOP_SIGNAL"}
        BY <2>0, <2>1, <3>2, <3>4
      <4>2. Over(r)'
        BY <1>20, <2>0, <2>1, <3>1, <3>2, <3>4 DEF Drop, GoTo, Over, Settled
      <4>3. QED
        BY <2>0, <3>1, <4>1, <4>2 DEF Local, Becomes
    <3>5. QED
      BY <3>3, <3>4
  <2>4. QED
    BY <1>0, <2>1, <2>2, <2>3
<1>21. ASSUME NEW w \in Workers, NEW r \in Runs, LoadFails(w, r) PROVE Goal
  <2>1. \A q \in Runs : Stays(q)
    BY <1>21 DEF LoadFails, GoTo, Stays, Becomes, Begun, Over, Gone, Settled, InDoubt, Executed
  <2>2. Local(r) /\ \A q \in Runs \ {r} : Stays(q)
    BY <2>1 DEF Local
  <2>3. QED
    BY <1>0, <2>2
<1>11. ASSUME NEW t \in Transfers, DeleteTransfer(t) PROVE Goal
  <2>1. PICK D \in SUBSET Runs : D = {r \in Runs : transferOf[r] = t /\ Exists(r)}
    OBVIOUS
  <2>2. Contract!Delete(D)
    BY <1>11, <2>1 DEF DeleteTransfer, Contract!Delete, Executed, Settled, InDoubt
  <2>3. QED
    BY <2>2 DEF Contract!Next, Goal
<1>22. CASE UNCHANGED vars
  BY <1>22, Quiet DEF vars, Goal
<1>23. QED
  BY FaultSteps, <1>1, <1>2, <1>3, <1>4, <1>5, <1>6, <1>7, <1>8, <1>9, <1>10, <1>11, <1>12,
     <1>13, <1>14, <1>15, <1>16, <1>17, <1>18, <1>19, <1>20, <1>21, <1>22
     DEF Goal, Next, Begin, Produce, Stopper, Worker, StartRun, SendJobToCelery

\* The invariant of the refinement.
LEMMA RefHolds == Spec => []RefInv
<1>1. Init => RefInv
  BY BaseInit, ExecInit, TimeInit, CalmInit DEF RefInv, IdleHasNoJob, Init
<1>2. RefInv /\ [Next]_vars => RefInv'
  BY BaseStep, ExecStep, TimeStep, CalmStep, IdleStep DEF RefInv
<1>3. QED
  BY <1>1, <1>2, PTL DEF Spec

\* For any number of runs, transfers, workers, stop requests, redeliveries, lost
\* acknowledgements and faults, the run table behaves as RunContract promises.
THEOREM ContractImplemented == Spec => ImplementsContract
<1>1. Init => Contract!Init
  BY ConstantsAssumption DEF Init, Contract!Init, Executed, Exists, Settled, InDoubt
<1>2. RefInv /\ RefInv' /\ [Next]_vars => [Contract!Next]_Contract!contractVars
  BY ContractStep
<1>3. QED
  BY <1>1, <1>2, RefHolds, PTL DEF Spec, ImplementsContract, Contract!Spec

\* Nothing but a stop request or a deletion changes the row of a run that is over,
\* and it is not executed any more, unless its message is delivered again: the
\* stop of a run that has ended (run_stale_stop shows one of a FINISHED run) is the only
\* exception to "cannot stop run in status except started or created".
OnlyStopsComeLate ==
  [][\A r \in Runs : Over(r) /\ ~InDoubt(r)' =>
       /\ status'[r] \in {status[r], "SEND_STOP_SIGNAL", None}
       /\ Begun(r)' => Begun(r)]_vars

\* For any number of processes and any faults, a run that is over stays so: by the
\* contract.
THEOREM OverIsFinal == Spec => OnlyStopsComeLate
<1> DEFINE Step == \A r \in Runs : Over(r) /\ ~InDoubt(r)' =>
                     /\ status'[r] \in {status[r], "SEND_STOP_SIGNAL", None}
                     /\ Begun(r)' => Begun(r)
<1>1. ASSUME RefInv, RefInv', [Next]_vars PROVE Step
  <2> SUFFICES ASSUME NEW r \in Runs, Over(r), ~InDoubt(r)'
               PROVE  /\ status'[r] \in {status[r], "SEND_STOP_SIGNAL", None}
                      /\ Begun(r)' => Begun(r)
    OBVIOUS
  <2> DEFINE E == {q \in Runs : \E w \in Workers : Executed(q, w)}
             S == {q \in Runs : Settled(q) /\ ~InDoubt(q)}
             D == {q \in Runs : InDoubt(q)}
  <2>1. r \in S /\ r \notin D /\ (r \in E <=> Begun(r)) /\ (r \in E' <=> Begun(r)')
    BY DEF Over, Begun
  <2>2. status \in [Runs -> Status \cup {None}]
    BY <1>1 DEF RefInv, BaseInv, TypeOK
  <2> DEFINE Is(q, x) == status' = [status EXCEPT ![q] = x]
             Other(q) == E' = E \cup {q} /\ q # r
  <2>3. ASSUME NEW q \in Runs, Contract!Create(q) \/ Contract!Stop(q)
        PROVE  ((Is(q, "CREATED") /\ q # r) \/ Is(q, "SEND_STOP_SIGNAL")) /\ E' = E
    BY <2>1, <2>3 DEF Contract!Create, Contract!Stop, Contract!Become
  <2>4. ASSUME NEW q \in Runs, Contract!Execute(q) PROVE Is(q, "STARTED") /\ Other(q)
    BY <2>1, <2>4 DEF Contract!Execute, Contract!Become
  <2>5. ASSUME NEW q \in Runs, Contract!Finish(q) \/ Contract!Fail(q)
        PROVE  (\E x : Is(q, x)) /\ q # r /\ E' = E
    BY <2>1, <2>5 DEF Contract!Finish, Contract!Fail, Contract!Become
  <2>6. ASSUME (\E Q \in SUBSET Runs : Contract!Settle(Q)) \/ (\E q \in Runs : Contract!Doubt(q))
        PROVE  status' = status /\ E' = E
    BY <2>6 DEF Contract!Settle, Contract!Doubt
  <2>7. ASSUME NEW q \in Runs, Contract!Rewrite(q)
        PROVE  (\E x : Is(q, x)) /\ (E' = E \/ E' = E \cup {q}) /\ q # r
    BY <2>1, <2>7 DEF Contract!Rewrite, Contract!Become
  <2>8. ASSUME NEW Q \in SUBSET Runs, Contract!Delete(Q)
        PROVE  status' = [q \in Runs |-> IF q \in Q THEN None ELSE status[q]] /\ E' = E
    BY <2>8 DEF Contract!Delete
  <2>9. CASE UNCHANGED Contract!contractVars
    <3>1. status' = status /\ E' = E
      BY <2>9 DEF Contract!contractVars
    <3>2. QED
      BY <2>1, <3>1
  <2> HIDE DEF E, S, D
  <2>10. CASE Contract!Next
    BY <2>1, <2>2, <2>3, <2>4, <2>5, <2>6, <2>7, <2>8, <2>10 DEF Contract!Next
  <2>11. QED
    BY <1>1, <2>9, <2>10, ContractStep
<1>2. QED
  BY <1>1, RefHolds, PTL DEF Spec, OnlyStopsComeLate
=============================================================================
