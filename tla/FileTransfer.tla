---------------------------- MODULE FileTransfer ----------------------------
(***************************************************************************)
(* Runs that write files: TransferController.perform_transfer with a file  *)
(* target.  A run asks for the HWM store if its strategy is incremental,   *)
(* reads its source, writes the parts of the result to a                   *)
(* directory of its own, renames them by the transfer's template and moves *)
(* (s3, hdfs) or uploads (the other file types) them one by one to the     *)
(* target directory.  The directory of its own is removed at the end, also *)
(* after an exception.                                                     *)
(*                                                                         *)
(* Runs of the transfer, or of others like it, overlap and share the       *)
(* target directory.  A file whose name is taken there is neither          *)
(* overwritten nor reported: onETL's mover and uploader list it as failed  *)
(* in a result that write does not look at.  So they do with a file that   *)
(* the store fails to take.                                                *)
(***************************************************************************)
EXTENDS Transformations

CONSTANTS
  Transfers,   \* the transfers that clients ask for
  Columns,     \* columns of every source
  Runs,        \* run ids
  Parts,       \* bound: files of a run, numbered from 0
  MaxClock,    \* bound: seconds
  MaxFaults,   \* bound: failures of a store, and killed workers
  None         \* "no value"

ASSUME BoundsAssumption == Parts \in Nat \ {0} /\ MaxClock \in Nat \ {0} /\ MaxFaults \in Nat

\* The source is a connection of one of the types, and transformations are a
\* list.
ASSUME TransfersAssumption ==
  \A t \in Transfers :
    t.source \in ConnectionType /\ DOMAIN t.transformations = 1 .. Len(t.transformations)

VARIABLES
  transfer,  \* the stored transfer, or None
  run,       \* the runs
  tmp,       \* the files in each run's own directory
  dir,       \* the files in the target directory: name, run and part
  clock,     \* seconds
  faults,    \* failures so far
  hwmStore,  \* whether the settings of the HWM store have been given
  missed     \* history: run and part of the files that a store failed to take

vars == <<transfer, run, tmp, dir, clock, faults, hwmStore, missed>>

Indexes == 0 .. Parts - 1

\* pc of a run that a worker has in hand.
Active == {"created", "read", "written", "moving", "cleanup", "broken"}

Init ==
  /\ transfer = None
  /\ run = [r \in Runs |-> [pc |-> "none", at |-> 0, result |-> None]]
  /\ tmp = [r \in Runs |-> {}]
  /\ dir = {}
  /\ clock = 1
  /\ faults = 0
  /\ hwmStore \in BOOLEAN
  /\ missed = {}

\* create_transfer, as far as its schema.
create_transfer(t) ==
  /\ transfer = None
  /\ CreateTransferSchema(t)
  /\ transfer' = t
  /\ UNCHANGED <<run, tmp, dir, clock, faults, hwmStore, missed>>

\* start_run: created_at is a part of file names, in seconds.
start_run(r) ==
  /\ transfer # None
  /\ run[r].pc = "none"
  /\ run' = [run EXCEPT ![r] = [pc |-> "created", at |-> clock, result |-> None]]
  /\ UNCHANGED <<transfer, tmp, dir, clock, faults, hwmStore, missed>>

Tick ==
  /\ clock < MaxClock
  /\ clock' = clock + 1
  /\ UNCHANGED <<transfer, run, tmp, dir, faults, hwmStore, missed>>

--------------------------------------------------------------------------
(* perform_transfer.                                                       *)

Extension == _get_file_extension(_get_file_format(transfer.targetFormat))

\* An incremental transfer needs the store of high water marks.
HasStore == transfer.strategy.type = "incremental" => hwmStore

\* _get_hwm_store without a url: HorizonHWMStore does not accept its arguments.
_get_hwm_store_fails(r) ==
  /\ run[r].pc = "created"
  /\ ~HasStore
  /\ run' = [run EXCEPT ![r].pc = "broken", ![r].result = Failed]
  /\ UNCHANGED <<transfer, tmp, dir, clock, faults, hwmStore, missed>>

\* The result of a read that finds no file.
NothingFound == [failed |-> TRUE, found |-> {}]

\* source_handler.read of a directory where no file is found: there is none, the
\* file filters let none pass, or none is new since the mark.  No schema is
\* stored with a transfer, and FileDFReader has none to infer it from.
ReadNothing(r) ==
  /\ run[r].pc = "created"
  /\ HasStore
  /\ transfer.source \in FileTypes
  /\ run' = [run EXCEPT ![r].pc = "broken", ![r].result = NothingFound]
  /\ UNCHANGED <<transfer, tmp, dir, clock, faults, hwmStore, missed>>

\* source_handler.read of a table, or of a directory where files are found.
Read(r) ==
  LET result == read(transfer.source, transfer.transformations, Columns)
  IN  /\ run[r].pc = "created"
      /\ HasStore
      /\ run' = [run EXCEPT ![r].result = result,
                            ![r].pc = IF result.failed THEN "broken" ELSE "read"]
      /\ UNCHANGED <<transfer, tmp, dir, clock, faults, hwmStore, missed>>

\* FileDFWriter writes the parts, under names of Spark's.
Write(r) ==
  /\ run[r].pc = "read"
  /\ tmp' = [tmp EXCEPT ![r] = {[name |-> None, run |-> r, part |-> i] : i \in Indexes}]
  /\ run' = [run EXCEPT ![r].pc = "written"]
  /\ UNCHANGED <<transfer, dir, clock, faults, hwmStore, missed>>

\* _rename_files: by the order in which the directory is listed.
_rename_files(r) ==
  /\ run[r].pc = "written"
  /\ tmp' = [tmp EXCEPT ![r] =
       {[f EXCEPT !.name =
           _get_file_name(transfer.template, r, run[r].at, f.part, Extension)] : f \in @}]
  /\ run' = [run EXCEPT ![r].pc = "moving"]
  /\ UNCHANGED <<transfer, dir, clock, faults, hwmStore, missed>>

\* Mutant: the glob has the format's suffix only.
TakenByFormat(f) ==
  transfer.target \in RemoteTypes =>
    f.name.dotted /\ f.name.extension = <<FileFormatToFileSuffix[transfer.targetFormat.type]>>

\* FileMover takes what matches Glob("*.<extension>"), FileUploader everything.
Taken(f) ==
  transfer.target \in RemoteTypes => f.name.dotted /\ f.name.extension = Extension

\* Mutant: if_exists is "replace_file".
MoveReplaces(r) ==
  /\ run[r].pc = "moving"
  /\ \E f \in tmp[r] :
       /\ Taken(f)
       /\ tmp' = [tmp EXCEPT ![r] = @ \ {f}]
       /\ dir' = {g \in dir : g.name # f.name} \union {f}
  /\ UNCHANGED <<transfer, run, clock, faults, hwmStore, missed>>

\* mover.run and uploader.run, for one file; if_exists is "error".
Move(r) ==
  /\ run[r].pc = "moving"
  /\ \E f \in tmp[r] :
       /\ Taken(f)
       /\ tmp' = [tmp EXCEPT ![r] = @ \ {f}]
       /\ dir' = IF \E g \in dir : g.name = f.name THEN dir ELSE dir \union {f}
  /\ UNCHANGED <<transfer, run, clock, faults, hwmStore, missed>>

\* The store fails to take one file: that is listed in the result of mover.run
\* and uploader.run, and not raised.
MoveFails(r) ==
  /\ faults < MaxFaults
  /\ faults' = faults + 1
  /\ run[r].pc = "moving"
  /\ \E f \in tmp[r] :
       /\ Taken(f)
       /\ tmp' = [tmp EXCEPT ![r] = @ \ {f}]
       /\ missed' = missed \union {[run |-> r, part |-> f.part]}
  /\ UNCHANGED <<transfer, run, dir, clock, hwmStore>>

\* The end of mover.run and uploader.run, whatever became of the files.
MoveEnds(r) ==
  /\ run[r].pc = "moving"
  /\ \A f \in tmp[r] : ~Taken(f)
  /\ run' = [run EXCEPT ![r].pc = "cleanup"]
  /\ UNCHANGED <<transfer, tmp, dir, clock, faults, hwmStore, missed>>

\* Mutant: the directory is removed after success only.
CleanupOnSuccess(r) ==
  /\ run[r].pc \in {"cleanup", "broken"}
  /\ tmp' = IF run[r].pc = "cleanup" THEN [tmp EXCEPT ![r] = {}] ELSE tmp
  /\ run' = [run EXCEPT ![r].pc = IF @ = "cleanup" THEN "finished" ELSE "failed"]
  /\ UNCHANGED <<transfer, dir, clock, faults, hwmStore, missed>>

\* The finally clauses, then run_transfer's status.
Cleanup(r) ==
  /\ run[r].pc \in {"cleanup", "broken"}
  /\ tmp' = [tmp EXCEPT ![r] = {}]
  /\ run' = [run EXCEPT ![r].pc = IF @ = "cleanup" THEN "finished" ELSE "failed"]
  /\ UNCHANGED <<transfer, dir, clock, faults, hwmStore, missed>>

\* A store does not answer: the step raises (of a move, the listing of the files).
Fault(r) ==
  /\ faults < MaxFaults
  /\ faults' = faults + 1
  /\ run[r].pc \in Active \ {"cleanup", "broken"}
  /\ run' = [run EXCEPT ![r].pc = "broken", ![r].result = None]
  /\ UNCHANGED <<transfer, tmp, dir, clock, hwmStore, missed>>

\* The worker's process is killed: nothing is removed.
Kill(r) ==
  /\ faults < MaxFaults
  /\ faults' = faults + 1
  /\ run[r].pc \in Active
  /\ run' = [run EXCEPT ![r].pc = "killed"]
  /\ UNCHANGED <<transfer, tmp, dir, clock, hwmStore, missed>>

--------------------------------------------------------------------------
Perform(r) ==
  \/ _get_hwm_store_fails(r) \/ ReadNothing(r) \/ Read(r)
  \/ Write(r) \/ _rename_files(r) \/ Move(r) \/ MoveEnds(r)
  \/ Cleanup(r)

Next ==
  \/ \E t \in Transfers : create_transfer(t)
  \/ Tick
  \/ \E r \in Runs : start_run(r) \/ Perform(r) \/ MoveFails(r) \/ Fault(r) \/ Kill(r)

Spec == Init /\ [][Next]_vars

\* A worker that is alive goes on with its run.
FairSpec == Spec /\ \A r \in Runs : WF_vars(Perform(r))

--------------------------------------------------------------------------
(* Properties.                                                             *)

\* Names of run r's files are its own: the template has the run's id, or no
\* other run was created in the same second.
HasOwnNames(r) ==
  \/ "run_id" \in transfer.template.keys
  \/ \A q \in Runs \ {r} : run[q].pc # "none" => run[q].at # run[r].at

\* A part of a finished run is missing in the target directory only if the store
\* failed to take that very part, if the files' names are the run's own and, for
\* s3 and hdfs, the template ends in ".{extension}".  Neither is asked for by
\* _validate_file_name_template, and without either parts are dropped; the run is
\* FINISHED all the same in each case, as write does not look at what the mover
\* or uploader returns (RemoteDFFileHandler.write, LocalDFFileHandler.write).
FinishedIsDelivered ==
  \A r \in Runs :
    /\ run[r].pc = "finished"
    /\ HasOwnNames(r)
    /\ transfer.target \in RemoteTypes => transfer.template.dotted
    => \A i \in Indexes :
         \/ \E f \in dir : f.run = r /\ f.part = i
         \/ [run |-> r, part |-> i] \in missed

\* However runs overlap, no file in the target directory is replaced or
\* removed by a run, its own or another's.
DeliveredStays == [][dir \subseteq dir']_vars

\* A run that ended, with whatever status, has left nothing in a directory of
\* its own (the finally clauses of write and perform_transfer).
NothingIsLeftBehind ==
  \A r \in Runs : run[r].pc \in {"finished", "failed"} => tmp[r] = {}

\* A finished run applied every row filter with the meaning of its name, and
\* the first SQL query; file filters where the source's handler downloads
\* files.  The exception is regexp on mssql, which is LIKE there.
FinishedIsTransformed ==
  \A r \in Runs : run[r].pc = "finished" =>
    LET ts == transfer.transformations
        asked == {f.type : f \in FiltersOf(ts, "dataframe_rows_filter")}
        done == run[r].result
    IN  /\ \A f \in asked : Asked(f) \in done.rows \/ (transfer.source = "mssql" /\ f = "regexp")
        /\ SqlPositions(ts) # {} =>
             \E i \in SqlPositions(ts) : ts[i].query \in done.queries
        /\ transfer.source \in LocalTypes => done.files = FiltersOf(ts, "file_metadata_filter")

\* The stored transfer names no column that is missing when it is applied
\* (rows first, then columns, then SQL), does not ask for SQL on a source whose
\* files are downloaded, and is incremental only where there is an HWM store.
Runnable ==
  /\ transfer # None
  /\ ~Unresolved(transfer.transformations, Columns)
  /\ transfer.source \in LocalTypes => SqlPositions(transfer.transformations) = {}
  /\ HasStore

\* What the schemas accept can be run: such a transfer's runs finish unless a
\* store fails, a worker is killed or no file is found (CreateTransferSchema
\* against get_handler, read and write of every handler).
AcceptedRunsFinish ==
  \A r \in Runs :
    Runnable /\ run[r].pc = "created" ~>
      \/ run[r].pc = "finished"
      \/ run[r].pc \in {"failed", "killed"} /\ faults > 0
      \/ run[r].pc = "failed" /\ run[r].result = NothingFound
=============================================================================
