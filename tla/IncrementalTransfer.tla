------------------------- MODULE IncrementalTransfer -------------------------
(***************************************************************************)
(* What the worker does with the data of one transfer between databases:   *)
(* full and incremental runs, and the high-water mark (HWM) that tells an  *)
(* incremental run where the previous one ended.                           *)
(*                                                                         *)
(* The mark is kept in an external store (Horizon) under a name made of    *)
(* the transfer's id, the source's connection type and its table.  An      *)
(* incremental run asks for it twice: the controller decides by it whether *)
(* the target is replaced or appended to, the reader decides by it which   *)
(* rows to read.  The mark is stored when the run leaves onETL's           *)
(* IncrementalStrategy without an exception.  Nothing keeps two runs of a  *)
(* transfer apart, and the transfer can be edited at any time.             *)
(*                                                                         *)
(* Rows of a source are numbered from 1 in the order of increment_by and   *)
(* only ever added at its end; row i has the value FirstValue + i - 1.  A  *)
(* mark is the number of the row whose value is stored.                    *)
(***************************************************************************)
EXTENDS Integers, FiniteSets

CONSTANTS
  Sources,      \* source tables (connection and table name)
  Names,        \* names of marks
  NameOf,       \* NameOf[s]: _get_transfer_hwm_name; not the connection's id
  Targets,      \* target tables
  Workers,      \* worker processes
  FirstValue,   \* value of increment_by in the first row of every source
  MaxRow,       \* bound: rows of any source
  Limit,        \* bound: Limit[s]: rows of source s
  MaxFailures,  \* bound: runs that fail or are killed
  MaxCopies,    \* bound: copies of a row in a target that are told apart
  None          \* "no value"

Strategies == {"full", "incremental"}
Config == [strategy : Strategies, source : Sources, target : Targets]
Rows == Sources \X (1 .. MaxRow)

ASSUME ConstantsAssumption ==
  /\ FirstValue \in Int
  /\ MaxRow \in Nat
  /\ Limit \in [Sources -> 0 .. MaxRow]
  /\ MaxFailures \in Nat
  /\ MaxCopies \in Nat \ {0}
  /\ NameOf \in [Sources -> Names]
  /\ None \notin Config

VARIABLES
  rows,      \* number of rows of each source
  table,     \* how often each row is in each target
  mark,      \* the HWM store: 0 when there is no mark, or its value is None
  config,    \* strategy, source and target in the transfer's row
  store,     \* settings.hwm_store: "enabled", "disabled" (but with a url and
             \* credentials), or "missing" (the default: nothing is set)
  run,       \* what each worker executes
  failures,  \* failed runs so far
  alone,     \* history: the workers whose run has had no other beside it
  clean      \* history: since the last run that replaced the target and had no
             \* mark, no two runs overlapped, nobody changed the transfer's
             \* source or target, and no run strayed from the mark

vars == <<rows, table, mark, config, store, run, failures, alone, clean>>

Idle == [pc |-> "idle", config |-> None, seen |-> 0, from |-> 0, upto |-> 0]

\* A run that has read the transfer's row.
Loaded(c) == [pc |-> "loaded", config |-> c, seen |-> 0, from |-> 0, upto |-> 0]

Init ==
  /\ rows = [s \in Sources |-> 0]
  /\ table = [t \in Targets |-> [r \in Rows |-> 0]]
  /\ mark = [n \in Names |-> 0]
  /\ config \in Config
  /\ store \in {"enabled", "disabled", "missing"}
  /\ run = [w \in Workers |-> Idle]
  /\ failures = 0
  /\ alone = {}
  /\ clean = TRUE

-----------------------------------------------------------------------------
(* The world around the worker.                                            *)

\* Somebody adds a row to a source (external).
AddRow(s) ==
  /\ rows[s] < Limit[s]
  /\ rows' = [rows EXCEPT ![s] = @ + 1]
  /\ UNCHANGED <<table, mark, config, store, run, failures, alone, clean>>

\* update_transfer: strategy_params, source and target of the transfer.
UpdateTransfer(c) ==
  /\ c # config
  /\ config' = c
  /\ clean' = (clean /\ c.source = config.source /\ c.target = config.target)
  /\ UNCHANGED <<rows, table, mark, store, run, failures, alone>>

-----------------------------------------------------------------------------
(* A run.  "loaded" -> "marked" -> "read" -> "written" -> "idle".          *)

Name(w) == NameOf[run[w].config.source]

Busy == {w \in Workers : run[w].pc # "idle"}

\* run_transfer has loaded the transfer and built the controller.
Load(w) ==
  /\ run[w].pc = "idle"
  /\ run' = [run EXCEPT ![w] = Loaded(config)]
  /\ alone' = IF Busy = {} THEN {w} ELSE {}
  /\ clean' = (clean /\ Busy = {})
  /\ UNCHANGED <<rows, table, mark, config, store, failures>>

\* "if hwm and hwm.value": a mark whose value is 0 is taken for no mark.
IsTrue(m) == m > 0 /\ FirstValue + m - 1 # 0

\* _perform_incremental_transfer: the mark that both handlers are given, whether
\* or not the store is enabled.
GetHwm(w) ==
  /\ run[w].pc = "loaded"
  /\ run[w].config.strategy = "incremental"
  /\ store # "missing"
  /\ run' = [run EXCEPT ![w].pc = "marked", ![w].seen = mark[Name(w)]]
  /\ UNCHANGED <<rows, table, mark, config, store, failures, alone, clean>>

\* _get_hwm_store raises without a url: the run fails, and so does every next one.
NoHwmStore(w) ==
  /\ run[w].pc = "loaded"
  /\ run[w].config.strategy = "incremental"
  /\ store = "missing"
  /\ run' = [run EXCEPT ![w] = Idle]
  /\ alone' = alone \ {w}
  /\ UNCHANGED <<rows, table, mark, config, store, failures, clean>>

\* Mutant: a full run leaves the mark alone.
KeepTransferHwm(w) ==
  /\ run[w].pc = "loaded"
  /\ run[w].config.strategy = "full"
  /\ run' = [run EXCEPT ![w].pc = "marked"]
  /\ UNCHANGED <<rows, table, mark, config, store, failures, alone, clean>>

\* A full run, before anything is read or written: _reset_transfer_hwm, when the
\* store is enabled.
ResetTransferHwm(w) ==
  /\ run[w].pc = "loaded"
  /\ run[w].config.strategy = "full"
  /\ mark' = IF store = "enabled" /\ IsTrue(mark[Name(w)])
               THEN [mark EXCEPT ![Name(w)] = 0] ELSE mark
  /\ run' = [run EXCEPT ![w].pc = "marked"]
  /\ UNCHANGED <<rows, table, config, store, failures, alone, clean>>

\* DBHandler.read: the reader of an incremental run asks the store itself (by
\* the same name) and bounds what it will read by the greatest value there is
\* now; a full run reads everything.
Read(w) ==
  LET s == run[w].config.source IN
  /\ run[w].pc = "marked"
  /\ run' = [run EXCEPT ![w].pc = "read",
       ![w].from = IF run[w].config.strategy = "incremental" THEN mark[Name(w)] ELSE 0,
       ![w].upto = rows[s]]
  /\ UNCHANGED <<rows, table, mark, config, store, failures, alone, clean>>

\* The rows of w's data frame.
Frame(w) == {run[w].config.source} \X (run[w].from + 1 .. run[w].upto)

\* Mutant: if_exists defaults to "append".
AppendsAlways(w) == run[w].config # None

\* DBHandler.write: if_exists is "append" when the run is incremental and the
\* controller has seen a mark that is not 0, else "replace_entire_table" (DBTransferDTO; the
\* setdefault of the Hive and Iceberg DTOs comes after it and changes nothing).
Appends(w) == run[w].config.strategy = "incremental" /\ IsTrue(run[w].seen)

\* The target with the rows of f written to it.
Written(w, f) ==
  LET kept(r) == IF Appends(w) THEN table[run[w].config.target][r] ELSE 0 IN
  [r \in Rows |-> IF r \in f /\ kept(r) < MaxCopies THEN kept(r) + 1 ELSE kept(r)]

\* w replaces the target beside a mark that the code does not reset: a full run
\* while the store is not enabled, or any run when the value of the mark is 0.
Strays(w) ==
  LET m == mark[Name(w)] IN
  ~Appends(w) /\ m > 0 /\ (store # "enabled" \/ ~IsTrue(m))

Write(w) ==
  /\ run[w].pc = "read"
  /\ table' = [table EXCEPT ![run[w].config.target] = Written(w, Frame(w))]
  /\ run' = [run EXCEPT ![w].pc = "written"]
  /\ clean' = (clean /\ ~Strays(w))
  /\ UNCHANGED <<rows, mark, config, store, failures, alone>>

\* Mutant: the first value that was not read.
NextMark(w) == run[w].upto + 1

\* The mark after a run: a run that read nothing leaves it alone (external).
NewMark(w) == IF run[w].upto > run[w].from THEN run[w].upto ELSE run[w].from

\* w has replaced the target's content and does not stray from the mark, with no
\* other run or edit meanwhile.
Replaced(w) ==
  /\ ~Appends(w) /\ ~Strays(w)
  /\ w \in alone
  /\ run[w].config.source = config.source
  /\ run[w].config.target = config.target

\* perform_transfer returns: the strategy's context stores the mark (external).
Finish(w) ==
  /\ run[w].pc = "written"
  /\ mark' = IF run[w].config.strategy = "incremental"
               THEN [mark EXCEPT ![Name(w)] = NewMark(w)] ELSE mark
  /\ run' = [run EXCEPT ![w] = Idle]
  /\ alone' = alone \ {w}
  /\ clean' = (clean \/ Replaced(w))
  /\ UNCHANGED <<rows, table, config, store, failures>>

\* The mark of the strategy's context is stored although the run failed.
StoreMark(w) ==
  mark' = IF run[w].config.strategy = "incremental" /\ run[w].pc \in {"read", "written"}
            THEN [mark EXCEPT ![Name(w)] = NewMark(w)] ELSE mark

Failed(w) ==
  /\ failures < MaxFailures
  /\ failures' = failures + 1
  /\ run' = [run EXCEPT ![w] = Idle]
  /\ alone' = alone \ {w}

\* Mutant: the mark is stored in a finally block.
FailStoresMark(w) ==
  /\ run[w].pc # "idle"
  /\ Failed(w)
  /\ StoreMark(w)
  /\ UNCHANGED <<rows, table, config, store, clean>>

\* An exception, or the worker is killed, between two of these steps.
Fail(w) ==
  /\ run[w].pc # "idle"
  /\ Failed(w)
  /\ UNCHANGED <<rows, table, mark, config, store, clean>>

\* ... while it writes: some of the rows have been committed by Spark's tasks.
WriteFails(w) ==
  /\ run[w].pc = "read"
  /\ \E f \in SUBSET Frame(w) :
       table' = [table EXCEPT ![run[w].config.target] = Written(w, f)]
  /\ Failed(w)
  /\ clean' = (clean /\ ~Strays(w))
  /\ UNCHANGED <<rows, mark, config, store>>

-----------------------------------------------------------------------------
Step(w) ==
  \/ GetHwm(w)
  \/ NoHwmStore(w)
  \/ ResetTransferHwm(w)
  \/ Read(w)
  \/ Write(w)
  \/ Finish(w)

Next ==
  \/ \E s \in Sources : AddRow(s)
  \/ \E c \in Config : UpdateTransfer(c)
  \/ \E w \in Workers : Load(w) \/ Step(w) \/ Fail(w) \/ WriteFails(w)

Spec == Init /\ [][Next]_vars

\* The scheduler keeps starting runs, and a run that was loaded is executed.
Fairness ==
  /\ WF_vars(\E w \in Workers : Load(w))
  /\ \A w \in Workers : WF_vars(Step(w))

FairSpec == Spec /\ Fairness

-----------------------------------------------------------------------------
(* Properties.                                                             *)

RunRecord ==
  [pc : {"idle", "loaded", "marked", "read", "written"}, config : Config \cup {None},
   seen : 0 .. MaxRow, from : 0 .. MaxRow, upto : 0 .. MaxRow]

\* Type invariant of the tables, the store and the runs in progress.
TypeOK ==
  /\ rows \in [Sources -> 0 .. MaxRow]
  /\ table \in [Targets -> [Rows -> 0 .. MaxCopies]]
  /\ mark \in [Names -> 0 .. MaxRow]
  /\ config \in Config
  /\ store \in {"enabled", "disabled", "missing"}
  /\ run \in [Workers -> RunRecord]
  /\ failures \in 0 .. MaxFailures
  /\ alone \subseteq Workers
  /\ clean \in BOOLEAN

Current(i) == table[config.target][<<config.source, i>>]

\* An incremental run never passes over a row: every row at or below the stored
\* mark is in the target, whatever runs failed half-way and however the
\* strategy was switched, while runs of the transfer do not overlap, its source
\* and target are those of the last replacing run, and no run has replaced the
\* target while a mark was stored (a full run with the store disabled,
\* controller.py:234, or any run beside a mark whose value is 0, base.py:76).
MarkIsCovered ==
  clean => \A i \in 1 .. mark[NameOf[config.source]] : Current(i) > 0

\* A row is transferred again only because a run failed after it had begun to
\* write: at most once more for each failure, under the same conditions.
CopiesPerFailure ==
  clean => \A i \in 1 .. MaxRow : Current(i) <= 1 + failures

\* A full run, alone, leaves exactly the rows of the source as of its read,
\* each once, whatever earlier runs left in the target.
FullIsExact ==
  [][\A w \in Workers :
       /\ run[w].pc = "written" /\ run'[w].pc = "idle" /\ failures' = failures
       /\ run[w].config.strategy = "full" /\ w \in alone
       => \A r \in Rows : table[run[w].config.target][r]
                            = IF r \in Frame(w) THEN 1 ELSE 0]_vars

\* Every row of the source arrives: once the transfer keeps its source and its
\* target, with a strategy that the settings can serve, and its runs do not overlap
\* and follow the mark, the target has every row again and again (a replacing write
\* empties it for a moment).
RowsArrive ==
  \A s \in Sources, t \in Targets : \A i \in 1 .. Limit[s] :
    <>[](/\ clean /\ config.source = s /\ config.target = t /\ rows[s] >= i
         /\ store = "missing" => config.strategy = "full")
      => []<>(table[t][<<s, i>>] > 0)
=============================================================================
