--------------------------- MODULE SchedulerProofs ---------------------------
(***************************************************************************)
(* The scheduler's watermark is sound for any number of transfers, writers *)
(* and crashes: only a row that becomes visible behind the poll is missed. *)
(***************************************************************************)
EXTENDS Scheduler, TLAPS

\* Timestamps are positive, so that a poll from 0 finds every row.
ClockInv ==
  /\ \A t \in Transfers : table[t] # None => table[t].updated_at > 0
  /\ \A w \in Writers : tx[w] # None => tx[w].row.updated_at > 0

\* While a batch is applied: a fetched row is still current, gone, late, or
\* replaced by one that the next poll will fetch; and what is at or below mark
\* is waiting in the batch or already right.
BatchInv ==
  pc = "apply" =>
    /\ \A b \in batch :
         \/ b.id \in late
         \/ table[b.id] = None
         \/ table[b.id] = b.row
         \/ table[b.id].updated_at > mark
    /\ \A t \in Transfers \ late : table[t] # None /\ table[t].updated_at <= mark =>
         [id |-> t, row |-> table[t]] \in batch \/ Synced(t)

SchedInv == TypeOK /\ ClockInv /\ watermark <= mark /\ BatchInv /\ WatermarkSound

\* The type invariant holds in the initial state.
LEMMA TypeInit == Init => TypeOK
  BY ConstantsAssumption DEF Init, TypeOK

\* Every step preserves the type invariant.
LEMMA TypeStep == TypeOK /\ [Next]_vars => TypeOK'
<1> SUFFICES ASSUME TypeOK, [Next]_vars PROVE TypeOK'
  OBVIOUS
<1> USE ConstantsAssumption DEF TypeOK, apiVars, loopVars, historyVars
<1>1. ASSUME NEW w \in Writers, NEW t \in Transfers, NEW sch \in BOOLEAN, NEW cron \in Crons,
             CreateTransfer(w, t, sch, cron)
      PROVE  TypeOK'
  BY <1>1 DEF CreateTransfer, Open, Tx, Row
<1>2. ASSUME NEW w \in Writers, NEW t \in Transfers, NEW sch \in BOOLEAN, NEW cron \in Crons,
             UpdateTransfer(w, t, sch, cron)
      PROVE  TypeOK'
  BY <1>2 DEF UpdateTransfer, Open, Tx, Row
<1>3. ASSUME NEW w \in Writers, Commit(w) PROVE TypeOK'
  <2>1. tx[w].id \in Transfers /\ tx[w].row \in Row
    BY <1>3 DEF Commit, Tx
  <2>2. table' \in [Transfers -> Row \cup {None}]
    BY <1>3, <2>1 DEF Commit
  <2>3. QED
    BY <1>3, <2>1, <2>2 DEF Commit, Appears
<1>4. ASSUME NEW t \in Transfers, DeleteTransfer(t) PROVE TypeOK'
  BY <1>4 DEF DeleteTransfer
<1>5. ASSUME NEW t \in Transfers, NEW new \in Transfers, NEW remove \in BOOLEAN,
             CopyTransfer(t, new, remove)
      PROVE  TypeOK'
  <2>1. table' \in [Transfers -> Row \cup {None}]
    BY <1>5 DEF CopyTransfer
  <2>2. QED
    BY <1>5, <2>1 DEF CopyTransfer, Appears
<1>6. CASE RemoveOrphanJobs
  BY <1>6 DEF RemoveOrphanJobs
<1>7. CASE FetchNothing
  BY <1>7 DEF FetchNothing
<1>8. CASE FetchUpdatedJobs
  <2>1. batch' \subseteq [id : Transfers, row : Row]
    BY <1>8 DEF FetchUpdatedJobs
  <2>2. mark' \in Nat
    BY <1>8 DEF FetchUpdatedJobs, Row
  <2>3. QED
    BY <1>8, <2>1, <2>2 DEF FetchUpdatedJobs
<1>9. ASSUME NEW b \in batch, UpdateJob(b) PROVE TypeOK'
  <2>1. b.id \in Transfers /\ Wanted(b.row) \in Crons \cup {None}
    BY <1>9 DEF Wanted, Row
  <2>2. QED
    BY <1>9, <2>1 DEF UpdateJob
<1>10. ASSUME NEW b \in batch, UpdateJobRaises(b) PROVE TypeOK'
  BY <1>10 DEF UpdateJobRaises, Restart
<1>11. CASE AdvanceWatermark
  BY <1>11 DEF AdvanceWatermark
<1>12. CASE Crash
  BY <1>12 DEF Crash, Restart
<1>13. CASE UNCHANGED vars
  BY <1>13 DEF vars
<1>14. QED
  BY <1>1, <1>2, <1>3, <1>4, <1>5, <1>6, <1>7, <1>8, <1>9, <1>10, <1>11, <1>12, <1>13
     DEF Next, Api, Loop

\* The table, the transactions and the scheduler's state keep their types.
THEOREM TypeCorrect == Spec => []TypeOK
  BY TypeInit, TypeStep, PTL DEF Spec

\* The initial state satisfies the inductive invariant.
LEMMA SchedInit == Init => SchedInv
  BY TypeInit DEF Init, SchedInv, ClockInv, BatchInv, WatermarkSound

\* A row of t that becomes visible, while all other rows stay or go, keeps the
\* invariant: it is later than the poll, or t is late from now on.
LEMMA AppearsStep ==
  ASSUME TypeOK, TypeOK', watermark <= mark, BatchInv, WatermarkSound,
         NEW t \in Transfers, NEW s \in Row,
         table'[t] \in {s, table[t], None}, table'[t] = table[t] => table[t] \in {s, None},
         \A u \in Transfers \ {t} : table'[u] = table[u] \/ table'[u] = None,
         Appears(t, s.updated_at),
         UNCHANGED <<jobs, pc, watermark, batch, mark>>
  PROVE  BatchInv' /\ WatermarkSound'
<1> USE ConstantsAssumption DEF TypeOK, Row
<1>1. late' = IF s.updated_at <= mark THEN late \cup {t} ELSE late \ {t}
  BY DEF Appears
<1>2. t \notin late' => table'[t] = None \/ table'[t].updated_at > mark
  BY <1>1
<1>3. \A u \in Transfers \ {t} : u \in late' <=> u \in late
  BY <1>1
<1>4. ASSUME NEW u \in Transfers \ late', table'[u] # None, table'[u].updated_at <= mark
      PROVE  u # t /\ u \notin late /\ table'[u] = table[u]
  BY <1>2, <1>3, <1>4
<1>5. WatermarkSound'
  BY <1>4 DEF WatermarkSound, Synced
<1>6. ASSUME pc = "apply", NEW b \in batch
      PROVE  \/ b.id \in late' \/ table'[b.id] = None
             \/ table'[b.id] = b.row \/ table'[b.id].updated_at > mark
  <2>1. CASE b.id = t
    BY <1>2, <2>1
  <2>2. CASE b.id # t
    BY <1>3, <1>6, <2>2 DEF BatchInv
  <2>3. QED
    BY <2>1, <2>2
<1>7. BatchInv'
  BY <1>4, <1>6 DEF BatchInv, Synced
<1>8. QED
  BY <1>5, <1>7

\* Every step preserves the inductive invariant.
LEMMA SchedStep == SchedInv /\ TypeOK' /\ [Next]_vars => SchedInv'
<1> DEFINE Rest == ClockInv /\ watermark <= mark /\ BatchInv /\ WatermarkSound
<1> SUFFICES ASSUME TypeOK, TypeOK', Rest, [Next]_vars PROVE Rest'
  BY DEF SchedInv
<1> USE ConstantsAssumption DEF TypeOK, Row, Tx
<1>1. ASSUME NEW w \in Writers, NEW t \in Transfers, NEW create \in BOOLEAN,
             NEW sch \in BOOLEAN, NEW cron \in Crons,
             Open(w, t, create, sch, cron), UNCHANGED <<table, jobs, loopVars, historyVars>>
      PROVE  Rest'
  <2>1. ClockInv'
    BY <1>1 DEF Open, ClockInv
  <2>2. QED
    BY <1>1, <2>1 DEF loopVars, historyVars, BatchInv, WatermarkSound, Synced
<1>2. ASSUME NEW w \in Writers, NEW t \in Transfers, NEW sch \in BOOLEAN, NEW cron \in Crons,
             CreateTransfer(w, t, sch, cron) \/ UpdateTransfer(w, t, sch, cron)
      PROVE  Rest'
  <2>1. CASE CreateTransfer(w, t, sch, cron)
    <3>1. Open(w, t, TRUE, sch, cron) /\ UNCHANGED <<table, jobs, loopVars, historyVars>>
      BY <2>1 DEF CreateTransfer
    <3>2. QED
      BY <1>1, <3>1, TRUE \in BOOLEAN
  <2>2. CASE UpdateTransfer(w, t, sch, cron)
    <3>1. Open(w, t, FALSE, sch, cron) /\ UNCHANGED <<table, jobs, loopVars, historyVars>>
      BY <2>2 DEF UpdateTransfer
    <3>2. QED
      BY <1>1, <3>1, FALSE \in BOOLEAN
  <2>3. QED
    BY <1>2, <2>1, <2>2
<1>3. ASSUME NEW w \in Writers, Commit(w) PROVE Rest'
  <2>1. PICK t \in Transfers, s \in Row : t = tx[w].id /\ s = tx[w].row
    BY <1>3 DEF Commit
  <2>2. /\ \/ table' = [table EXCEPT ![t] = s]
           \/ table' = table /\ table[t] = None
        /\ tx' = [tx EXCEPT ![w] = None]
        /\ Appears(t, s.updated_at)
        /\ UNCHANGED <<jobs, pc, watermark, batch, mark>>
    BY <1>3, <2>1 DEF Commit, loopVars
  <2>3. ClockInv'
    BY <1>3, <2>1, <2>2 DEF Commit, ClockInv
  <2>4. table'[t] \in {s, None} /\ \A u \in Transfers \ {t} : table'[u] = table[u]
    BY <2>2
  <2>5. BatchInv' /\ WatermarkSound'
    BY <2>2, <2>4, AppearsStep
  <2>6. QED
    BY <2>2, <2>3, <2>5
<1>4. ASSUME NEW t \in Transfers, DeleteTransfer(t) PROVE Rest'
  <2>1. \A u \in Transfers : table'[u] = IF u = t THEN None ELSE table[u]
    BY <1>4 DEF DeleteTransfer
  <2>2. UNCHANGED <<tx, jobs, pc, watermark, batch, mark, late>>
    BY <1>4 DEF DeleteTransfer, loopVars, historyVars
  <2>3. ClockInv'
    BY <2>1, <2>2 DEF ClockInv
  <2>4. WatermarkSound'
    BY <2>1, <2>2 DEF WatermarkSound, Synced
  <2>5. BatchInv'
    BY <2>1, <2>2 DEF BatchInv, Synced
  <2>6. QED
    BY <2>2, <2>3, <2>4, <2>5
<1>5. ASSUME NEW t \in Transfers, NEW new \in Transfers, NEW remove \in BOOLEAN,
             CopyTransfer(t, new, remove)
      PROVE  Rest'
  <2>1. PICK s \in Row : s = table[t] /\ table[t] # None
    BY <1>5 DEF CopyTransfer
  <2>2. /\ table' = [table EXCEPT ![new] = table[t], ![t] = IF remove THEN None ELSE @]
        /\ Appears(new, s.updated_at)
        /\ UNCHANGED <<tx, jobs, pc, watermark, batch, mark>>
    BY <1>5, <2>1 DEF CopyTransfer, loopVars
  <2>3. /\ table'[new] \in {s, None}
        /\ \A u \in Transfers \ {new} : table'[u] = table[u] \/ table'[u] = None
    BY <2>1, <2>2
  <2>4. ClockInv'
    BY <2>1, <2>2, <2>3 DEF ClockInv
  <2>5. BatchInv' /\ WatermarkSound'
    BY <2>2, <2>3, AppearsStep
  <2>6. QED
    BY <2>2, <2>4, <2>5
<1>6. CASE RemoveOrphanJobs
  <2>1. \A u \in Transfers : table[u] # None => jobs'[u] = jobs[u]
    BY <1>6 DEF RemoveOrphanJobs
  <2>2. UNCHANGED <<table, tx, watermark, batch, mark, late>> /\ pc' = "fetch"
    BY <1>6 DEF RemoveOrphanJobs, apiVars, historyVars
  <2>3. QED
    BY <2>1, <2>2 DEF ClockInv, BatchInv, WatermarkSound, Synced
<1>7. CASE FetchNothing
  BY <1>7 DEF FetchNothing, apiVars, historyVars, ClockInv, BatchInv, WatermarkSound, Synced
<1>8. CASE FetchUpdatedJobs
  <2>1. UNCHANGED <<table, tx, jobs, watermark, late>> /\ pc' = "apply"
    BY <1>8 DEF FetchUpdatedJobs, apiVars, historyVars
  <2>2. mark' > watermark
    BY <1>8 DEF FetchUpdatedJobs
  <2>3. ClockInv' /\ WatermarkSound'
    BY <2>1 DEF ClockInv, WatermarkSound, Synced
  <2>4. \A b \in batch' : \E u \in Transfers : b = [id |-> u, row |-> table[u]]
    BY <1>8 DEF FetchUpdatedJobs
  <2>5. \A u \in Transfers : table[u] # None /\ table[u].updated_at > watermark =>
          [id |-> u, row |-> table[u]] \in batch'
    BY <1>8 DEF FetchUpdatedJobs
  <2>6. BatchInv'
    <3>1. \A b \in batch' : table'[b.id] = b.row
      BY <2>1, <2>4
    <3>2. \A u \in Transfers \ late : table[u] # None /\ table[u].updated_at <= mark' =>
            [id |-> u, row |-> table[u]] \in batch' \/ Synced(u)
      BY <2>5 DEF WatermarkSound
    <3>3. QED
      BY <2>1, <3>1, <3>2 DEF BatchInv, Synced
  <2>7. QED
    BY <2>1, <2>2, <2>3, <2>6
<1>9. ASSUME NEW b \in batch, UpdateJob(b) PROVE Rest'
  <2>1. /\ pc = "apply" /\ batch' = batch \ {b}
        /\ UNCHANGED <<table, tx, pc, watermark, mark, late>>
        /\ \A u \in Transfers : jobs'[u] = IF u = b.id THEN Wanted(b.row) ELSE jobs[u]
    BY <1>9 DEF UpdateJob, apiVars, historyVars
  <2>2. ClockInv'
    BY <2>1 DEF ClockInv
  <2>3. ASSUME NEW u \in Transfers \ late, table[u] # None, table[u].updated_at <= mark
        PROVE  [id |-> u, row |-> table[u]] \in batch' \/ Synced(u)'
    <3>1. CASE u = b.id
      <4>1. table[u] = b.row
        BY <2>1, <2>3, <3>1 DEF BatchInv
      <4>2. QED
        BY <2>1, <3>1, <4>1 DEF Synced
    <3>2. CASE u # b.id
      <4>1. b # [id |-> u, row |-> table[u]]
        BY <3>2
      <4>2. QED
        BY <2>1, <2>3, <3>2, <4>1 DEF BatchInv, Synced
    <3>3. QED
      BY <3>1, <3>2
  <2>4. BatchInv'
    BY <2>1, <2>3 DEF BatchInv
  <2>5. WatermarkSound'
    <3> SUFFICES ASSUME NEW u \in Transfers \ late, table[u] # None,
                        table[u].updated_at <= watermark
                 PROVE  Synced(u)'
      BY <2>1 DEF WatermarkSound
    <3>1. CASE u = b.id
      <4>1. table[u] = b.row
        BY <2>1, <3>1 DEF BatchInv
      <4>2. QED
        BY <2>1, <3>1, <4>1 DEF Synced
    <3>2. CASE u # b.id
      BY <2>1, <3>2 DEF WatermarkSound, Synced
    <3>3. QED
      BY <3>1, <3>2
  <2>6. QED
    BY <2>1, <2>2, <2>4, <2>5
<1>10. ASSUME Restart, UNCHANGED <<apiVars, jobs>> PROVE Rest'
  BY <1>10 DEF Restart, apiVars, ClockInv, BatchInv, WatermarkSound
<1>11. CASE AdvanceWatermark
  BY <1>11 DEF AdvanceWatermark, apiVars, historyVars, ClockInv, BatchInv, WatermarkSound, Synced
<1>12. CASE UNCHANGED vars
  BY <1>12 DEF vars, apiVars, loopVars, historyVars, ClockInv, BatchInv, WatermarkSound, Synced
<1>13. QED
  BY <1>2, <1>3, <1>4, <1>5, <1>6, <1>7, <1>8, <1>9, <1>10, <1>11, <1>12
     DEF Next, Api, Loop, UpdateJobRaises, Crash

\* The inductive invariant of the scheduler.
LEMMA SchedHolds == Spec => []SchedInv
<1>1. SchedInv /\ [Next]_vars => SchedInv'
  BY TypeStep, SchedStep DEF SchedInv
<1>2. QED
  BY <1>1, SchedInit, PTL DEF Spec

\* Polling by "updated_at > last_updated_at" misses only what became visible
\* behind the poll: every other row the scheduler will not fetch again has the
\* job it asks for, across crashes of the scheduler, deletions, copies and
\* commits in any order.
THEOREM WatermarkIsSound == Spec => []WatermarkSound
<1>1. SchedInv => WatermarkSound
  BY DEF SchedInv
<1>2. QED
  BY <1>1, SchedHolds, PTL

\* The scheduler, crashing or not, spoils no job that is right: only a row that
\* is late or newer than the snapshot being applied can get an older job, and
\* the next poll fetches the newer ones.
NothingIsUndone ==
  Loop \/ Crash =>
    \A t \in Transfers \ late :
      /\ table[t] # None
      /\ pc = "apply" => table[t].updated_at <= mark
      /\ Synced(t)
      => Synced(t)'

\* A poll that finds nothing leaves nothing undone: every row that is not late
\* has the job it asks for.
EmptyPollIsSynced ==
  FetchNothing => \A t \in Transfers \ late : table[t] # None => Synced(t)

\* Snapshots that are applied after the rows have changed, deletions between a
\* sweep and a poll, and restarts never replace a right job by an older one.
THEOREM NothingIsUndoneHolds == Spec => [][NothingIsUndone]_vars
<1>1. ASSUME SchedInv, Loop \/ Crash, NEW t \in Transfers \ late, table[t] # None,
             pc = "apply" => table[t].updated_at <= mark, Synced(t)
      PROVE  Synced(t)'
  <2> USE ConstantsAssumption DEF TypeOK, Row, apiVars
  <2>1. TypeOK /\ BatchInv /\ table' = table
    BY <1>1 DEF SchedInv, Loop, Crash, RemoveOrphanJobs, FetchNothing, FetchUpdatedJobs, UpdateJob,
                UpdateJobRaises, AdvanceWatermark
  <2>2. CASE RemoveOrphanJobs
    BY <1>1, <2>1, <2>2 DEF RemoveOrphanJobs, Synced
  <2>3. CASE jobs' = jobs
    BY <1>1, <2>1, <2>3 DEF Synced
  <2>4. ASSUME NEW b \in batch, UpdateJob(b) PROVE Synced(t)'
    <3>1. pc = "apply" /\ jobs' = [jobs EXCEPT ![b.id] = Wanted(b.row)]
      BY <2>4 DEF UpdateJob
    <3>2. CASE b.id = t
      <4>1. ~(table[t].updated_at > mark)
        BY <1>1, <2>1, <3>1
      <4>2. table[t] = b.row
        BY <1>1, <2>1, <3>1, <3>2, <4>1 DEF BatchInv
      <4>3. QED
        BY <2>1, <3>1, <3>2, <4>2 DEF Synced
    <3>3. CASE b.id # t
      BY <1>1, <2>1, <3>1, <3>3 DEF Synced
    <3>4. QED
      BY <3>2, <3>3
  <2>5. QED
    BY <1>1, <2>2, <2>3, <2>4
    DEF Loop, Crash, FetchNothing, FetchUpdatedJobs, UpdateJobRaises, AdvanceWatermark
<1>2. SchedInv => NothingIsUndone
  BY <1>1 DEF NothingIsUndone
<1>3. QED
  BY <1>2, SchedHolds, PTL DEF Spec

\* Once a poll comes back empty, the jobs are those of the table but for late
\* rows, whatever was committed, copied or deleted before.
THEOREM EmptyPollIsSyncedHolds == Spec => [][EmptyPollIsSynced]_vars
<1>1. SchedInv => EmptyPollIsSynced
  BY DEF SchedInv, WatermarkSound, EmptyPollIsSynced, FetchNothing
<1>2. QED
  BY <1>1, SchedHolds, PTL DEF Spec
=============================================================================
