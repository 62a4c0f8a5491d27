------------------------------ MODULE Scheduler ------------------------------
(***************************************************************************)
(* The scheduler process keeps one APScheduler job per scheduled transfer. *)
(* It polls table "transfer" for the rows whose updated_at is later than   *)
(* the latest it has seen, and turns each into a job; jobs of deleted      *)
(* transfers are removed by a separate sweep.  The REST server changes the *)
(* table concurrently, in transactions that take their updated_at before   *)
(* they commit.                                                            *)
(*                                                                         *)
(* Timestamps are drawn from one clock and are distinct; 0 stands for      *)
(* "last_updated_at is None".                                              *)
(***************************************************************************)
EXTENDS Integers

CONSTANTS
  Transfers,     \* transfer ids, each used once
  Crons,         \* schedule expressions
  BadCrons,      \* those CronTrigger.from_crontab refuses
  Writers,       \* concurrent API transactions
  MaxClock,      \* bound: timestamps taken in a behaviour
  MaxCrashes,    \* bound: scheduler crashes
  None           \* "no value"

ASSUME ConstantsAssumption ==
  /\ BadCrons \subseteq Crons
  /\ MaxClock \in Nat
  /\ MaxCrashes \in Nat
  /\ None \notin Crons
  /\ None \notin [is_scheduled : BOOLEAN, schedule : Crons, updated_at : Nat]
  /\ None \notin [id : Transfers, create : BOOLEAN,
                  row : [is_scheduled : BOOLEAN, schedule : Crons, updated_at : Nat]]

VARIABLES
  table,      \* committed rows of "transfer", None when there is none
  used,       \* ids already taken from the sequence
  tx,         \* open transaction of each writer
  clock,      \* latest timestamp taken
  jobs,       \* persistent job store: trigger of each transfer's job
  pc,         \* where the scheduler's main loop is
  watermark,  \* last_updated_at
  batch,      \* fetched transfers not yet turned into jobs
  mark,       \* latest updated_at of the fetched transfers
  late,       \* history: rows that became visible behind the scheduler's poll
  crashes     \* scheduler crashes so far

apiVars == <<table, used, tx, clock>>
loopVars == <<pc, watermark, batch, mark>>
historyVars == <<late, crashes>>
vars == <<apiVars, jobs, loopVars, historyVars>>

Row == [is_scheduled : BOOLEAN, schedule : Crons, updated_at : Nat]
Tx  == [id : Transfers, create : BOOLEAN, row : Row]

Init ==
  /\ table = [t \in Transfers |-> None]
  /\ used = {}
  /\ tx = [w \in Writers |-> None]
  /\ clock = 0
  /\ jobs = [t \in Transfers |-> None]
  /\ pc = "sweep"
  /\ watermark = 0
  /\ batch = {}
  /\ mark = 0
  /\ late = {}
  /\ crashes = 0

-----------------------------------------------------------------------------
(* The REST server.  A transaction takes the timestamp of its row first    *)
(* (INSERT: now() is the start of the transaction; UPDATE: datetime.now()  *)
(* when the statement is compiled) and becomes visible when it commits.    *)

Open(w, t, create, sch, cron) ==
  /\ tx[w] = None
  /\ clock < MaxClock
  /\ clock' = clock + 1
  /\ tx' = [tx EXCEPT ![w] =
       [id |-> t, create |-> create,
        row |-> [is_scheduled |-> sch, schedule |-> cron, updated_at |-> clock + 1]]]

CreateTransfer(w, t, sch, cron) ==
  /\ t \notin used
  /\ used' = used \cup {t}
  /\ Open(w, t, TRUE, sch, cron)
  /\ UNCHANGED <<table, jobs, loopVars, historyVars>>

UpdateTransfer(w, t, sch, cron) ==
  /\ table[t] # None
  /\ Open(w, t, FALSE, sch, cron)
  /\ UNCHANGED <<table, used, jobs, loopVars, historyVars>>

\* A row of transfer t with this updated_at becomes visible: the next poll finds
\* it unless the scheduler has already polled past that time.
Appears(t, updated_at) ==
  late' = IF updated_at <= mark THEN late \cup {t} ELSE late \ {t}

\* The unit of work commits; an UPDATE whose row was deleted meanwhile raises
\* EntityNotFoundError and is rolled back.
Commit(w) ==
  /\ tx[w] # None
  /\ table' = IF tx[w].create \/ table[tx[w].id] # None
                THEN [table EXCEPT ![tx[w].id] = tx[w].row] ELSE table
  /\ tx' = [tx EXCEPT ![w] = None]
  /\ Appears(tx[w].id, tx[w].row.updated_at)
  /\ UNCHANGED <<used, clock, jobs, loopVars, crashes>>

\* delete_transfer, and every cascade that removes the transfer.
DeleteTransfer(t) ==
  /\ table[t] # None
  /\ table' = [table EXCEPT ![t] = None]
  /\ UNCHANGED <<used, tx, clock, jobs, loopVars, historyVars>>

\* copy_transfer: Repository._copy inserts every column of the original but
\* its id, updated_at included; remove_source deletes the original in the same
\* transaction.
CopyTransfer(t, new, remove) ==
  /\ table[t] # None
  /\ new \notin used
  /\ used' = used \cup {new}
  /\ table' = [table EXCEPT ![new] = table[t], ![t] = IF remove THEN None ELSE @]
  /\ Appears(new, table[t].updated_at)
  /\ UNCHANGED <<tx, clock, jobs, loopVars, crashes>>

-----------------------------------------------------------------------------
(* The scheduler's main loop.                                              *)

\* Mutant: leave the jobs of deleted transfers alone.
KeepOrphanJobs ==
  /\ pc = "sweep"
  /\ pc' = "fetch"
  /\ UNCHANGED <<apiVars, jobs, watermark, batch, mark, historyVars>>

\* remove_orphan_jobs: the jobs whose transfer is not in the table.
RemoveOrphanJobs ==
  /\ pc = "sweep"
  /\ jobs' = [t \in Transfers |-> IF table[t] = None THEN None ELSE jobs[t]]
  /\ pc' = "fetch"
  /\ UNCHANGED <<apiVars, watermark, batch, mark, historyVars>>

\* fetch_updated_jobs finds nothing: sleep, then start over.
FetchNothing ==
  /\ pc = "fetch"
  /\ \A t \in Transfers : table[t] # None => table[t].updated_at <= watermark
  /\ pc' = "sweep"
  /\ UNCHANGED <<apiVars, jobs, watermark, batch, mark, historyVars>>

\* fetch_updated_jobs returns a snapshot of the rows changed since the
\* watermark; mark is what main() will store when they are all processed.
FetchUpdatedJobs ==
  LET changed == {t \in Transfers : table[t] # None /\ table[t].updated_at > watermark} IN
  /\ pc = "fetch"
  /\ batch' = {[id |-> t, row |-> table[t]] : t \in changed}
  /\ \E t \in changed :
       /\ \A u \in changed : table[u].updated_at <= table[t].updated_at
       /\ mark' = table[t].updated_at
  /\ pc' = "apply"
  /\ UNCHANGED <<apiVars, jobs, watermark, historyVars>>

Wanted(row) == IF row.is_scheduled THEN row.schedule ELSE None

Valid(row) == row.is_scheduled => row.schedule \notin BadCrons

\* Mutant: never remove the job of a transfer that is no longer scheduled.
UpdateJobNeverRemoves(b) ==
  /\ pc = "apply"
  /\ b \in batch
  /\ Valid(b.row)
  /\ jobs' = [jobs EXCEPT ![b.id] = IF b.row.is_scheduled THEN b.row.schedule ELSE @]
  /\ batch' = batch \ {b}
  /\ UNCHANGED <<apiVars, pc, watermark, mark, historyVars>>

\* One iteration of update_jobs: remove, modify or add the job.
UpdateJob(b) ==
  /\ pc = "apply"
  /\ b \in batch
  /\ Valid(b.row)
  /\ jobs' = [jobs EXCEPT ![b.id] = Wanted(b.row)]
  /\ batch' = batch \ {b}
  /\ UNCHANGED <<apiVars, pc, watermark, mark, historyVars>>

\* The process starts with no watermark; the job store survives.
Restart ==
  /\ pc' = "sweep"
  /\ watermark' = 0
  /\ batch' = {}
  /\ mark' = 0
  /\ late' = {}

\* CronTrigger.from_crontab raises ValueError, which nothing catches: main()
\* ends and the process is started again.
UpdateJobRaises(b) ==
  /\ pc = "apply"
  /\ b \in batch
  /\ ~Valid(b.row)
  /\ Restart
  /\ UNCHANGED <<apiVars, jobs, crashes>>

\* Mutant: remember the time of the poll instead of the latest row seen.
AdvanceWatermarkToNow ==
  /\ pc = "apply"
  /\ batch = {}
  /\ watermark' = clock
  /\ pc' = "sweep"
  /\ UNCHANGED <<apiVars, jobs, batch, mark, historyVars>>

\* The batch is done: store the watermark, sleep.
AdvanceWatermark ==
  /\ pc = "apply"
  /\ batch = {}
  /\ watermark' = mark
  /\ pc' = "sweep"
  /\ UNCHANGED <<apiVars, jobs, batch, mark, historyVars>>

\* The scheduler process dies at any point and is started again.
Crash ==
  /\ crashes < MaxCrashes
  /\ crashes' = crashes + 1
  /\ Restart
  /\ UNCHANGED <<apiVars, jobs>>

-----------------------------------------------------------------------------
Api ==
  \/ \E w \in Writers, t \in Transfers, sch \in BOOLEAN, cron \in Crons :
       CreateTransfer(w, t, sch, cron) \/ UpdateTransfer(w, t, sch, cron)
  \/ \E t \in Transfers : DeleteTransfer(t)
  \/ \E t, new \in Transfers, remove \in BOOLEAN : CopyTransfer(t, new, remove)

Loop ==
  \/ RemoveOrphanJobs
  \/ FetchNothing
  \/ FetchUpdatedJobs
  \/ \E b \in batch : UpdateJob(b) \/ UpdateJobRaises(b)
  \/ AdvanceWatermark

Next == Api \/ (\E w \in Writers : Commit(w)) \/ Loop \/ Crash

Spec == Init /\ [][Next]_vars

\* The loop never stops polling, and an open transaction ends.
Fairness == WF_vars(Loop) /\ \A w \in Writers : WF_vars(Commit(w))

FairSpec == Spec /\ Fairness

-----------------------------------------------------------------------------
(* Properties.                                                             *)

\* Type invariant of the transfer table, the transactions and the scheduler.
TypeOK ==
  /\ table \in [Transfers -> Row \cup {None}]
  /\ used \subseteq Transfers
  /\ tx \in [Writers -> Tx \cup {None}]
  /\ clock \in 0 .. MaxClock
  /\ jobs \in [Transfers -> Crons \cup {None}]
  /\ pc \in {"sweep", "fetch", "apply"}
  /\ watermark \in Nat
  /\ batch \subseteq [id : Transfers, row : Row]
  /\ mark \in Nat
  /\ late \subseteq Transfers
  /\ crashes \in 0 .. MaxCrashes

\* The job store holds for t what its row asks for.
Synced(t) == jobs[t] = Wanted(table[t])

\* What the scheduler will not look at again is already right: a row whose
\* updated_at is not later than last_updated_at has exactly the job it asks
\* for (main(), __main__.py:36), unless it became visible too late for the poll
\* that passed it: by a slow commit, or by a copy that kept its updated_at.
WatermarkSound ==
  \A t \in Transfers \ late :
    table[t] # None /\ table[t].updated_at <= watermark => Synced(t)

AllValid == \A t \in Transfers : table[t] # None => Valid(table[t])

\* The jobs of the transfers in S are those their rows ask for.
InSync(S) == \A t \in S : IF table[t] = None THEN jobs[t] = None ELSE Synced(t)

\* Jobs follow the table: once users stop changing transfers, every transfer
\* has exactly the job its row asks for, for ever, and no deleted transfer has
\* one, but for the rows that appeared behind the scheduler's poll (until its
\* next start) and as long as no row ends the process with a schedule that is
\* no cron expression.
Converges == <>[](AllValid => InSync(Transfers \ late))

\* "It periodically checks scheduler Transfers in database, and creates
\* corresponding Runs": once users stop, every transfer has the job its row
\* asks for.
EveryTransferIsScheduled == <>[](AllValid => InSync(Transfers))

\* A deleted transfer does not go on being run: once users stop, no job is left
\* without its transfer (remove_orphan_jobs), even if the job was added from a
\* snapshot read before the deletion, commits come late, transfers are moved
\* and a schedule that is no cron expression keeps ending the process.
OrphanJobsGo == <>[](\A t \in Transfers : table[t] = None => jobs[t] = None)
=============================================================================
