---------------------- MODULE IncrementalTransferProofs ----------------------
(***************************************************************************)
(* Proofs about IncrementalTransfer, for any number of sources, targets,   *)
(* workers, rows and failures.                                             *)
(***************************************************************************)
EXTENDS IncrementalTransfer, TLAPS

Active(w) == run[w].pc # "idle"

\* A run that has been alone since it was loaded is the only one.
AloneIsOnly ==
  \A w, v \in Workers : Active(w) /\ w \in alone /\ v # w => ~Active(v)

\* While the history is clean a run in progress is alone and executes what
\* the transfer says.
CleanRuns ==
  clean => \A w \in Workers : Active(w) =>
    /\ w \in alone
    /\ run[w].config.source = config.source
    /\ run[w].config.target = config.target

\* Nobody moves the mark behind the back of a run that is alone.
Held(w) ==
  LET incremental == run[w].config.strategy = "incremental" IN
  /\ run[w].pc \in {"marked", "read", "written"} =>
       /\ incremental => mark[Name(w)] = run[w].seen
       /\ ~incremental /\ store = "enabled" => ~IsTrue(mark[Name(w)])
  /\ run[w].pc \in {"read", "written"} =>
       run[w].from = IF incremental THEN mark[Name(w)] ELSE 0

MarkIsHeld == \A w \in Workers : w \in alone => Held(w)

\* The target goes on from where the stored mark says, or starts anew without one.
FollowsMark(w) == Appends(w) \/ mark[Name(w)] = 0

\* While the history is clean, what was written goes with the mark.
CleanWrites == clean => \A w \in Workers : run[w].pc = "written" => FollowsMark(w)

\* A run that executes something has loaded it.
ActiveHasConfig == \A w \in Workers : Active(w) => run[w].config \in Config

\* What a run that is alone has written.
WrittenIsThere ==
  \A w \in Workers : run[w].pc = "written" /\ w \in alone =>
    /\ \A i \in run[w].from + 1 .. run[w].upto :
         table[run[w].config.target][<<run[w].config.source, i>>] > 0
    /\ ~Appends(w) => \A r \in Rows :
         table[run[w].config.target][r] = IF r \in Frame(w) THEN 1 ELSE 0

\* The inductive invariant of MarkIsCovered and FullIsExact.
IInv ==
  /\ TypeOK
  /\ ActiveHasConfig
  /\ AloneIsOnly
  /\ CleanRuns
  /\ CleanWrites
  /\ MarkIsHeld
  /\ WrittenIsThere
  /\ MarkIsCovered

\* Copies of the rows above the mark, which the next run will write again.
CopiesAboveMark ==
  clean => \A i \in 1 .. MaxRow :
    /\ Current(i) <= 1 + failures
    /\ (/\ mark[NameOf[config.source]] \in 1 .. i - 1
        /\ \A w \in Workers : run[w].pc = "written" => i > run[w].upto)
       => Current(i) <= failures

-----------------------------------------------------------------------------
(* Types.                                                                  *)

\* An active run has a configuration of its own.
TypeInv == TypeOK /\ ActiveHasConfig

\* Written gives a table.
LEMMA WrittenType ==
  ASSUME TypeOK, NEW w \in Workers, run[w].config \in Config, NEW f
  PROVE  Written(w, f) \in [Rows -> 0 .. MaxCopies]
BY ConstantsAssumption DEF TypeOK, Written, Config

\* Every action keeps the types.
LEMMA TypeStep == TypeInv /\ [Next]_vars => TypeInv'
<1> SUFFICES ASSUME TypeInv, [Next]_vars PROVE TypeInv'
  OBVIOUS
<1> USE ConstantsAssumption
<1>1. ASSUME NEW s \in Sources, AddRow(s) PROVE TypeInv'
  BY <1>1 DEF AddRow, TypeInv, TypeOK, ActiveHasConfig, Active
<1>2. ASSUME NEW c \in Config, UpdateTransfer(c) PROVE TypeInv'
  BY <1>2 DEF UpdateTransfer, TypeInv, TypeOK, ActiveHasConfig, Active
<1>3. ASSUME NEW w \in Workers, Load(w) PROVE TypeInv'
  <2>1. run' \in [Workers -> RunRecord]
    <3>1. Loaded(config) \in RunRecord
      BY DEF TypeInv, TypeOK, Loaded, RunRecord
    <3> QED BY <3>1, <1>3 DEF Load, TypeInv, TypeOK
  <2>2. ActiveHasConfig'
    BY <1>3 DEF Load, TypeInv, TypeOK, Loaded, ActiveHasConfig, Active
  <2> QED BY <2>1, <2>2, <1>3 DEF Load, TypeInv, TypeOK
<1>4. ASSUME NEW w \in Workers, GetHwm(w) PROVE TypeInv'
  <2>1. mark[Name(w)] \in 0 .. MaxRow
    BY <1>4 DEF GetHwm, TypeInv, TypeOK, ActiveHasConfig, Active, Name, Config
  <2>2. run' \in [Workers -> RunRecord] /\ ActiveHasConfig'
    BY <1>4, <2>1 DEF GetHwm, TypeInv, TypeOK, RunRecord, ActiveHasConfig, Active
  <2> QED BY <2>2, <1>4 DEF GetHwm, TypeInv, TypeOK
<1>5. ASSUME NEW w \in Workers, ResetTransferHwm(w) PROVE TypeInv'
  <2>1. run' \in [Workers -> RunRecord] /\ ActiveHasConfig'
    BY <1>5 DEF ResetTransferHwm, TypeInv, TypeOK, RunRecord, ActiveHasConfig, Active
  <2>2. mark' \in [Names -> 0 .. MaxRow]
    <3>1. 0 \in 0 .. MaxRow /\ mark \in [Names -> 0 .. MaxRow]
      BY DEF TypeInv, TypeOK
    <3>2. mark' = mark \/ mark' = [mark EXCEPT ![Name(w)] = 0]
      BY <1>5 DEF ResetTransferHwm
    <3> QED BY <3>1, <3>2
  <2> QED BY <2>1, <2>2, <1>5 DEF ResetTransferHwm, TypeInv, TypeOK
<1>6. ASSUME NEW w \in Workers, Read(w) PROVE TypeInv'
  <2>1. mark[Name(w)] \in 0 .. MaxRow /\ rows[run[w].config.source] \in 0 .. MaxRow
    BY <1>6 DEF Read, TypeInv, TypeOK, ActiveHasConfig, Active, Name, Config
  <2>2. run' \in [Workers -> RunRecord] /\ ActiveHasConfig'
    <3> DEFINE from == IF run[w].config.strategy = "incremental" THEN mark[Name(w)] ELSE 0
    <3>1. from \in 0 .. MaxRow
      BY <2>1
    <3>2. run' = [run EXCEPT ![w] = [@ EXCEPT !.pc = "read", !.from = from,
                                              !.upto = rows[run[w].config.source]]]
      BY <1>6 DEF Read
    <3> HIDE DEF from
    <3> QED BY <3>1, <3>2, <2>1, <1>6 DEF Read, TypeInv, TypeOK, RunRecord, ActiveHasConfig, Active
  <2> QED BY <2>2, <1>6 DEF Read, TypeInv, TypeOK
<1>7. ASSUME NEW w \in Workers, Write(w) PROVE TypeInv'
  <2>1. Written(w, Frame(w)) \in [Rows -> 0 .. MaxCopies]
    BY <1>7, WrittenType DEF Write, TypeInv, ActiveHasConfig, Active
  <2>2. run' \in [Workers -> RunRecord] /\ ActiveHasConfig'
    BY <1>7 DEF Write, TypeInv, TypeOK, RunRecord, ActiveHasConfig, Active
  <2> QED BY <2>1, <2>2, <1>7 DEF Write, TypeInv, TypeOK
<1>8. ASSUME NEW w \in Workers, Finish(w) PROVE TypeInv'
  <2>1. NewMark(w) \in 0 .. MaxRow
    BY DEF NewMark, TypeInv, TypeOK, RunRecord
  <2>2. run' \in [Workers -> RunRecord] /\ ActiveHasConfig'
    BY <1>8 DEF Finish, TypeInv, TypeOK, RunRecord, ActiveHasConfig, Active, Idle
  <2>3. clean' \in BOOLEAN
    BY <1>8 DEF Finish, TypeInv, TypeOK
  <2>4. mark' \in [Names -> 0 .. MaxRow]
    BY <1>8, <2>1 DEF Finish, TypeInv, TypeOK
  <2> QED BY <2>2, <2>3, <2>4, <1>8 DEF Finish, TypeInv, TypeOK
<1>9. ASSUME NEW w \in Workers, Fail(w) PROVE TypeInv'
  <2>1. run' \in [Workers -> RunRecord] /\ ActiveHasConfig'
    BY <1>9 DEF Fail, Failed, TypeInv, TypeOK, RunRecord, ActiveHasConfig, Active, Idle
  <2> QED BY <2>1, <1>9 DEF Fail, Failed, TypeInv, TypeOK
<1>10. ASSUME NEW w \in Workers, WriteFails(w) PROVE TypeInv'
  <2>1. PICK f \in SUBSET Frame(w) :
          table' = [table EXCEPT ![run[w].config.target] = Written(w, f)]
    BY <1>10 DEF WriteFails
  <2>2. Written(w, f) \in [Rows -> 0 .. MaxCopies]
    BY <1>10, WrittenType DEF WriteFails, TypeInv, ActiveHasConfig, Active
  <2>3. run' \in [Workers -> RunRecord] /\ ActiveHasConfig'
    BY <1>10 DEF WriteFails, Failed, TypeInv, TypeOK, RunRecord, ActiveHasConfig, Active, Idle
  <2>4. table' \in [Targets -> [Rows -> 0 .. MaxCopies]]
    BY <2>1, <2>2 DEF TypeInv, TypeOK
  <2>5. failures' \in 0 .. MaxFailures /\ alone' \subseteq Workers
    BY <1>10 DEF WriteFails, Failed, TypeInv, TypeOK
  <2> QED BY <2>3, <2>4, <2>5, <1>10 DEF WriteFails, TypeInv, TypeOK
<1>11. ASSUME NEW w \in Workers, NoHwmStore(w) PROVE TypeInv'
  <2>1. run' \in [Workers -> RunRecord] /\ ActiveHasConfig'
    BY <1>11 DEF NoHwmStore, TypeInv, TypeOK, RunRecord, ActiveHasConfig, Active, Idle
  <2> QED BY <2>1, <1>11 DEF NoHwmStore, TypeInv, TypeOK
<1>12. CASE UNCHANGED vars
  BY <1>12 DEF vars, TypeInv, TypeOK, ActiveHasConfig, Active
<1> QED
  BY <1>1, <1>2, <1>3, <1>4, <1>5, <1>6, <1>7, <1>8, <1>9, <1>10, <1>11, <1>12 DEF Next, Step

\* The initial states have the types.
LEMMA TypeInit == Init => TypeInv
BY ConstantsAssumption DEF Init, TypeInv, TypeOK, ActiveHasConfig, Active, Idle, RunRecord

\* TypeOK is an invariant of the runs of a transfer, for every number of
\* workers, sources, targets and rows.
THEOREM TypeCorrect == Spec => []TypeOK
<1>1. TypeInv => TypeOK
  BY DEF TypeInv
<1> QED BY <1>1, TypeInit, TypeStep, PTL DEF Spec

-----------------------------------------------------------------------------
(* Who runs beside whom.                                                   *)

\* Actions of a run that is in progress, and stays so.
Works(w) == GetHwm(w) \/ ResetTransferHwm(w) \/ Read(w) \/ Write(w)

\* Actions that end a run.
Ends(w) == Finish(w) \/ Fail(w) \/ WriteFails(w) \/ NoHwmStore(w)

\* Every step is one of five kinds.
LEMMA Kinds ==
  ASSUME [Next]_vars
  PROVE  \/ \E s \in Sources : AddRow(s)
         \/ \E c \in Config : UpdateTransfer(c)
         \/ \E w \in Workers : Load(w) \/ Works(w) \/ Ends(w)
         \/ UNCHANGED vars
BY DEF Next, Step, Works, Ends

\* What a run in progress leaves alone.
LEMMA WorksFrame ==
  ASSUME TypeInv, NEW w \in Workers, Works(w)
  PROVE  /\ UNCHANGED <<config, alone, failures, rows>>
         /\ clean' => clean
         /\ Active(w) /\ run'[w].pc # "idle"
         /\ run'[w].config = run[w].config
         /\ \A v \in Workers \ {w} : run'[v] = run[v]
<1> USE DEF TypeInv, TypeOK, RunRecord, Active
<1>1. CASE GetHwm(w)
  BY <1>1 DEF GetHwm
<1>2. CASE ResetTransferHwm(w)
  BY <1>2 DEF ResetTransferHwm
<1>3. CASE Read(w)
  BY <1>3 DEF Read
<1>4. CASE Write(w)
  BY <1>4 DEF Write
<1> QED BY <1>1, <1>2, <1>3, <1>4 DEF Works

\* What the end of a run leaves alone.
LEMMA EndsFrame ==
  ASSUME TypeInv, NEW w \in Workers, Ends(w)
  PROVE  /\ UNCHANGED <<config, rows>>
         /\ alone' = alone \ {w}
         /\ Active(w) /\ run'[w] = Idle /\ run'[w].pc = "idle"
         /\ \A v \in Workers \ {w} : run'[v] = run[v]
<1> USE DEF TypeInv, TypeOK, Active, Idle
<1>1. CASE Finish(w)
  BY <1>1 DEF Finish
<1>2. CASE Fail(w)
  BY <1>2 DEF Fail, Failed
<1>3. CASE WriteFails(w)
  BY <1>3 DEF WriteFails, Failed
<1>4. CASE NoHwmStore(w)
  BY <1>4 DEF NoHwmStore
<1> QED BY <1>1, <1>2, <1>3, <1>4 DEF Ends

\* What the start of a run changes.
LEMMA LoadFrame ==
  ASSUME TypeInv, NEW w \in Workers, Load(w)
  PROVE  /\ UNCHANGED <<rows, table, mark, config, failures>>
         /\ ~Active(w) /\ run'[w] = Loaded(config)
         /\ run'[w].pc = "loaded" /\ run'[w].config = config
         /\ \A v \in Workers \ {w} : run'[v] = run[v]
         /\ (\A v \in Workers : ~Active(v)) => alone' = {w} /\ clean' = clean
         /\ (\E v \in Workers : Active(v)) => alone' = {} /\ clean' = FALSE
BY DEF Load, Loaded, Busy, Active, TypeInv, TypeOK

\* AloneIsOnly is inductive.
LEMMA AloneStep == TypeInv /\ AloneIsOnly /\ [Next]_vars => AloneIsOnly'
<1> SUFFICES ASSUME TypeInv, AloneIsOnly, [Next]_vars PROVE AloneIsOnly'
  OBVIOUS
<1>1. ASSUME NEW s \in Sources, AddRow(s) PROVE AloneIsOnly'
  BY <1>1 DEF AddRow, AloneIsOnly, Active
<1>2. ASSUME NEW c \in Config, UpdateTransfer(c) PROVE AloneIsOnly'
  BY <1>2 DEF UpdateTransfer, AloneIsOnly, Active
<1>3. ASSUME NEW w \in Workers, Load(w) PROVE AloneIsOnly'
  <2>1. CASE \A v \in Workers : ~Active(v)
    <3>1. \A v \in Workers \ {w} : run'[v].pc = "idle"
      BY <2>1, <1>3, LoadFrame DEF Active
    <3>2. alone' = {w} /\ run'[w].config = config /\ config' = config
      BY <2>1, <1>3, LoadFrame
    <3> QED BY <3>1, <3>2 DEF AloneIsOnly, Active
  <2>2. CASE \E v \in Workers : Active(v)
    <3>1. alone' = {} /\ clean' = FALSE
      BY <2>2, <1>3, LoadFrame
    <3> QED BY <3>1 DEF AloneIsOnly, Active
  <2> QED BY <2>1, <2>2
<1>4. ASSUME NEW w \in Workers, Works(w) PROVE AloneIsOnly'
  BY <1>4, WorksFrame DEF AloneIsOnly, Active
<1>5. ASSUME NEW w \in Workers, Ends(w) PROVE AloneIsOnly'
  BY <1>5, EndsFrame DEF AloneIsOnly, Active
<1>6. CASE UNCHANGED vars
  BY <1>6 DEF vars, AloneIsOnly, Active
<1> QED BY <1>1, <1>2, <1>3, <1>4, <1>5, <1>6, Kinds

\* CleanRuns is inductive.
LEMMA CleanStep == TypeInv /\ AloneIsOnly /\ CleanRuns /\ [Next]_vars => CleanRuns'
<1> SUFFICES ASSUME TypeInv, AloneIsOnly, CleanRuns, [Next]_vars PROVE CleanRuns'
  OBVIOUS
<1>1. ASSUME NEW s \in Sources, AddRow(s) PROVE CleanRuns'
  BY <1>1 DEF AddRow, CleanRuns, Active
<1>2. ASSUME NEW c \in Config, UpdateTransfer(c) PROVE CleanRuns'
  BY <1>2 DEF UpdateTransfer, CleanRuns, Active
<1>3. ASSUME NEW w \in Workers, Load(w) PROVE CleanRuns'
  <2>1. CASE \A v \in Workers : ~Active(v)
    <3>1. \A v \in Workers \ {w} : run'[v].pc = "idle"
      BY <2>1, <1>3, LoadFrame DEF Active
    <3>2. alone' = {w} /\ run'[w].config = config /\ config' = config
      BY <2>1, <1>3, LoadFrame
    <3> QED BY <3>1, <3>2 DEF CleanRuns, Active
  <2>2. CASE \E v \in Workers : Active(v)
    <3>1. alone' = {} /\ clean' = FALSE
      BY <2>2, <1>3, LoadFrame
    <3> QED BY <3>1 DEF CleanRuns, Active
  <2> QED BY <2>1, <2>2
<1>4. ASSUME NEW w \in Workers, Works(w) PROVE CleanRuns'
  BY <1>4, WorksFrame DEF CleanRuns, Active
<1>5. ASSUME NEW w \in Workers, Ends(w) PROVE CleanRuns'
  <2>1. CASE clean
    BY <2>1, <1>5, EndsFrame DEF CleanRuns, Active
  <2>2. CASE ~clean /\ clean'
    <3>1. Finish(w) /\ w \in alone
      BY <2>2, <1>5 DEF Ends, Fail, WriteFails, NoHwmStore, Finish, Replaced
    <3> QED BY <3>1, <1>5, EndsFrame DEF CleanRuns, AloneIsOnly, Active
  <2> QED BY <2>1, <2>2 DEF CleanRuns
<1>6. CASE UNCHANGED vars
  BY <1>6 DEF vars, CleanRuns, Active
<1> QED BY <1>1, <1>2, <1>3, <1>4, <1>5, <1>6, Kinds

-----------------------------------------------------------------------------
(* The mark while a run is alone, and what the run has written.            *)

\* Beside a step of w nobody else who is alone is active.
LEMMA OthersIdle ==
  ASSUME TypeInv, AloneIsOnly, NEW w \in Workers, Works(w) \/ Ends(w),
         NEW v \in Workers, v # w, v \in alone'
  PROVE  run'[v].pc = "idle"
<1>1. Active(w) /\ run'[v] = run[v] /\ v \in alone
  BY WorksFrame, EndsFrame
<1> QED BY <1>1 DEF AloneIsOnly, Active

\* The fields of a run in progress.
LEMMA Fields ==
  ASSUME TypeInv, NEW w \in Workers, Active(w)
  PROVE  /\ run[w].config \in Config
         /\ run[w].config.source \in Sources /\ run[w].config.target \in Targets
         /\ run[w].config.strategy \in {"full", "incremental"}
         /\ Name(w) \in Names /\ mark[Name(w)] \in Nat
         /\ run[w].seen \in Nat /\ run[w].from \in Nat /\ run[w].upto \in Nat
         /\ run[w].upto <= MaxRow
BY ConstantsAssumption
   DEF TypeInv, TypeOK, ActiveHasConfig, RunRecord, Config, Strategies, Name

\* MarkIsHeld is inductive.
LEMMA HeldStep == TypeInv /\ AloneIsOnly /\ MarkIsHeld /\ [Next]_vars => MarkIsHeld'
<1> SUFFICES ASSUME TypeInv, AloneIsOnly, MarkIsHeld, [Next]_vars,
                    NEW v \in Workers, v \in alone'
             PROVE  Held(v)'
  BY DEF MarkIsHeld
<1>1. ASSUME NEW s \in Sources, AddRow(s) PROVE Held(v)'
  BY <1>1 DEF AddRow, MarkIsHeld, Held, IsTrue, Name
<1>2. ASSUME NEW c \in Config, UpdateTransfer(c) PROVE Held(v)'
  BY <1>2 DEF UpdateTransfer, MarkIsHeld, Held, IsTrue, Name
<1>3. ASSUME NEW w \in Workers, Load(w) PROVE Held(v)'
  <2>1. v = w
    BY <1>3 DEF Load
  <2> QED BY <2>1, <1>3, LoadFrame DEF Held
<1>4. ASSUME NEW w \in Workers, Works(w) PROVE Held(v)'
  <2>1. CASE v # w
    BY <2>1, <1>4, OthersIdle DEF Held
  <2>2. CASE v = w
    <3>1. w \in alone /\ Name(w)' = Name(w) /\ Active(w)
      BY <2>2, <1>4, WorksFrame DEF Name
    <3>2. Name(w) \in Names /\ run[w].config.strategy \in {"full", "incremental"}
      BY <3>1, Fields
    <3>3. CASE GetHwm(w)
      BY <2>2, <3>1, <3>3 DEF GetHwm, TypeInv, TypeOK, RunRecord, Held
    <3>4. CASE ResetTransferHwm(w)
      <4>1. run'[w].pc = "marked" /\ run'[w].config.strategy = "full"
        BY <3>4 DEF ResetTransferHwm, TypeInv, TypeOK, RunRecord
      <4>2. store' = store /\ (store = "enabled" => ~IsTrue(mark'[Name(w)]))
        BY <3>2, <3>4 DEF ResetTransferHwm, TypeInv, TypeOK, IsTrue
      <4> QED BY <2>2, <3>1, <4>1, <4>2 DEF Held, IsTrue
    <3>5. CASE Read(w)
      <4>1. /\ run[w].config.strategy = "incremental" => mark[Name(w)] = run[w].seen
            /\ run[w].config.strategy # "incremental" /\ store = "enabled" => ~IsTrue(mark[Name(w)])
        BY <3>1, <3>5 DEF Read, MarkIsHeld, Held
      <4>2. /\ run'[w].config = run[w].config /\ run'[w].seen = run[w].seen
            /\ run'[w].from = IF run[w].config.strategy = "incremental" THEN mark[Name(w)] ELSE 0
            /\ mark' = mark /\ store' = store
        BY <3>5 DEF Read, TypeInv, TypeOK, RunRecord
      <4> QED BY <2>2, <3>1, <4>1, <4>2 DEF Held, IsTrue
    <3>6. CASE Write(w)
      <4>1. /\ run'[w].config = run[w].config /\ run'[w].seen = run[w].seen
            /\ run'[w].from = run[w].from /\ mark' = mark /\ store' = store /\ run[w].pc = "read"
        BY <3>6 DEF Write, TypeInv, TypeOK, RunRecord
      <4> QED BY <2>2, <3>1, <4>1 DEF MarkIsHeld, Held, IsTrue
    <3> QED BY <1>4, <3>3, <3>4, <3>5, <3>6 DEF Works
  <2> QED BY <2>1, <2>2
<1>5. ASSUME NEW w \in Workers, Ends(w) PROVE Held(v)'
  <2>1. v # w
    BY <1>5, EndsFrame
  <2> QED BY <2>1, <1>5, OthersIdle DEF Held
<1>6. CASE UNCHANGED vars
  BY <1>6 DEF vars, MarkIsHeld, Held, IsTrue, Name
<1> QED BY <1>1, <1>2, <1>3, <1>4, <1>5, <1>6, Kinds

\* What a write puts into one row of the target.
LEMMA WrittenRow ==
  ASSUME TypeInv, NEW w \in Workers, Active(w), NEW f, NEW r \in Rows
  PROVE  LET old == table[run[w].config.target][r] IN
         /\ old \in 0 .. MaxCopies
         /\ Written(w, f)[r] \in 0 .. MaxCopies
         /\ r \in f => Written(w, f)[r] > 0
         /\ Appends(w) => /\ Written(w, f)[r] >= old
                          /\ Written(w, f)[r] <= old + 1
                          /\ r \notin f => Written(w, f)[r] = old
         /\ ~Appends(w) => Written(w, f)[r] = IF r \in f THEN 1 ELSE 0
<1>1. table[run[w].config.target][r] \in 0 .. MaxCopies
  BY Fields DEF TypeInv, TypeOK
<1> QED BY <1>1, ConstantsAssumption DEF Written

\* The rows of a data frame are rows.
LEMMA FrameRows ==
  ASSUME TypeInv, NEW w \in Workers, Active(w)
  PROVE  /\ Frame(w) \subseteq Rows
         /\ \A i \in run[w].from + 1 .. run[w].upto : <<run[w].config.source, i>> \in Frame(w)
         /\ \A i \in Nat : <<run[w].config.source, i>> \in Frame(w) =>
              i > run[w].from /\ i <= run[w].upto
BY Fields, ConstantsAssumption DEF Frame, Rows

\* WrittenIsThere is inductive.
LEMMA WrittenStep ==
  TypeInv /\ AloneIsOnly /\ WrittenIsThere /\ [Next]_vars => WrittenIsThere'
<1> SUFFICES ASSUME TypeInv, AloneIsOnly, WrittenIsThere, [Next]_vars PROVE WrittenIsThere'
  OBVIOUS
<1>1. ASSUME NEW s \in Sources, AddRow(s) PROVE WrittenIsThere'
  BY <1>1 DEF AddRow, WrittenIsThere, Appends, Frame
<1>2. ASSUME NEW c \in Config, UpdateTransfer(c) PROVE WrittenIsThere'
  BY <1>2 DEF UpdateTransfer, WrittenIsThere, Appends, Frame
<1>3. ASSUME NEW w \in Workers, Load(w) PROVE WrittenIsThere'
  <2>1. \A v \in Workers : v \in alone' => run'[v].pc = "loaded"
    BY <1>3, LoadFrame
  <2> QED BY <2>1 DEF WrittenIsThere
<1>4. ASSUME NEW w \in Workers, Works(w) PROVE WrittenIsThere'
  <2>1. \A v \in Workers : v \in alone' /\ v # w => run'[v].pc = "idle"
    BY <1>4, OthersIdle
  <2>2. CASE Write(w)
    <3>1. /\ Active(w) /\ run'[w].config = run[w].config /\ run'[w].seen = run[w].seen
          /\ run'[w].from = run[w].from /\ run'[w].upto = run[w].upto
      BY <2>2 DEF Write, TypeInv, TypeOK, RunRecord, Active
    <3>2. table'[run[w].config.target] = Written(w, Frame(w))
      BY <2>2, <3>1, Fields DEF Write, TypeInv, TypeOK
    <3>3. Appends(w)' = Appends(w) /\ Frame(w)' = Frame(w)
      BY <3>1 DEF Appends, Frame
    <3>4. \A i \in run[w].from + 1 .. run[w].upto :
            table'[run[w].config.target][<<run[w].config.source, i>>] > 0
      BY <3>1, <3>2, WrittenRow, FrameRows
    <3>5. ~Appends(w) => \A r \in Rows :
            table'[run[w].config.target][r] = IF r \in Frame(w) THEN 1 ELSE 0
      BY <3>1, <3>2, WrittenRow
    <3> QED BY <2>1, <3>1, <3>3, <3>4, <3>5 DEF WrittenIsThere
  <2>3. CASE GetHwm(w) \/ ResetTransferHwm(w) \/ Read(w)
    <3>1. run'[w].pc # "written"
      BY <2>3 DEF GetHwm, ResetTransferHwm, Read, TypeInv, TypeOK, RunRecord
    <3> QED BY <2>1, <3>1 DEF WrittenIsThere
  <2> QED BY <1>4, <2>2, <2>3 DEF Works
<1>5. ASSUME NEW w \in Workers, Ends(w) PROVE WrittenIsThere'
  <2>1. \A v \in Workers : v \in alone' => run'[v].pc = "idle"
    BY <1>5, OthersIdle, EndsFrame
  <2> QED BY <2>1 DEF WrittenIsThere
<1>6. CASE UNCHANGED vars
  BY <1>6 DEF vars, WrittenIsThere, Appends, Frame
<1> QED BY <1>1, <1>2, <1>3, <1>4, <1>5, <1>6, Kinds

-----------------------------------------------------------------------------
(* Rows at or below the mark.                                              *)

\* A run that is alone and does not stray goes with the mark: a full run has reset
\* it, an incremental one has seen it.
LEMMA NoStray ==
  ASSUME TypeInv, MarkIsHeld, NEW w \in Workers, w \in alone, ~Strays(w),
         run[w].pc \in {"read", "written"}
  PROVE  FollowsMark(w)
<1>1. Active(w)
  BY DEF Active
<1>2. mark[Name(w)] \in Nat /\ Held(w)
  BY <1>1, Fields DEF MarkIsHeld
<1> QED BY <1>2 DEF Held, Strays, Appends, FollowsMark

\* CleanWrites is inductive.
LEMMA CleanWritesStep ==
  TypeInv /\ AloneIsOnly /\ CleanRuns /\ MarkIsHeld /\ CleanWrites /\ [Next]_vars => CleanWrites'
<1> SUFFICES ASSUME TypeInv, AloneIsOnly, CleanRuns, MarkIsHeld, CleanWrites, [Next]_vars
             PROVE  CleanWrites'
  OBVIOUS
<1> USE DEF FollowsMark, Appends, Name
<1>1. ASSUME NEW s \in Sources, AddRow(s) PROVE CleanWrites'
  BY <1>1 DEF AddRow, CleanWrites
<1>2. ASSUME NEW c \in Config, UpdateTransfer(c) PROVE CleanWrites'
  BY <1>2 DEF UpdateTransfer, CleanWrites
<1>3. ASSUME NEW w \in Workers, Load(w) PROVE CleanWrites'
  <2>1. mark' = mark /\ (clean' => clean) /\ run'[w].pc = "loaded"
    BY <1>3, LoadFrame DEF Load
  <2> QED BY <2>1, <1>3, LoadFrame DEF CleanWrites
<1>4. ASSUME NEW w \in Workers, Works(w) PROVE CleanWrites'
  <2>1. clean' => clean /\ \A v \in Workers : v # w => run'[v].pc = "idle"
    BY <1>4, WorksFrame DEF CleanRuns, AloneIsOnly, Active
  <2>2. CASE Write(w)
    <3>1. /\ run'[w].config = run[w].config /\ run'[w].seen = run[w].seen /\ mark' = mark
      BY <2>2 DEF Write, TypeInv, TypeOK, RunRecord
    <3>2. clean' => FollowsMark(w)
      BY <2>1, <2>2, NoStray, WorksFrame, <1>4 DEF Write, CleanRuns
    <3> QED BY <2>1, <3>1, <3>2 DEF CleanWrites
  <2>3. CASE GetHwm(w) \/ ResetTransferHwm(w) \/ Read(w)
    <3>1. run'[w].pc # "written"
      BY <2>3 DEF GetHwm, ResetTransferHwm, Read, TypeInv, TypeOK, RunRecord
    <3> QED BY <2>1, <3>1 DEF CleanWrites
  <2> QED BY <1>4, <2>2, <2>3 DEF Works
<1>5. ASSUME NEW w \in Workers, Ends(w) PROVE CleanWrites'
  <2>1. clean' => w \in alone
    <3>1. CASE clean
      BY <3>1, <1>5, EndsFrame DEF CleanRuns
    <3>2. CASE ~clean
      BY <3>2, <1>5 DEF Ends, Fail, WriteFails, NoHwmStore, Finish, Replaced
    <3> QED BY <3>1, <3>2
  <2>2. clean' => \A v \in Workers : run'[v].pc = "idle"
    BY <2>1, <1>5, EndsFrame DEF AloneIsOnly, Active
  <2> QED BY <2>2 DEF CleanWrites
<1>6. CASE UNCHANGED vars
  BY <1>6 DEF vars, CleanWrites
<1> QED BY <1>1, <1>2, <1>3, <1>4, <1>5, <1>6, Kinds

\* While the history is clean, a run in progress works for the transfer's own
\* source and target, and what it writes goes with the mark: it appends to what the
\* mark stands for, or replaces the target and there is no mark.
LEMMA CleanRun ==
  ASSUME TypeInv, CleanRuns, MarkIsHeld, clean, NEW w \in Workers, Active(w)
  PROVE  /\ w \in alone
         /\ run[w].config.source = config.source /\ run[w].config.target = config.target
         /\ Name(w) = NameOf[config.source]
         /\ run[w].pc \in {"read", "written"} /\ FollowsMark(w) =>
              /\ run[w].from = mark[Name(w)]
              /\ Appends(w) => mark[Name(w)] > 0
              /\ ~Appends(w) => mark[Name(w)] = 0
<1>1. /\ w \in alone /\ run[w].config.source = config.source
      /\ run[w].config.target = config.target
  BY DEF CleanRuns
<1>2. Held(w) /\ run[w].seen \in Nat
  BY <1>1, Fields DEF MarkIsHeld
<1>3. Appends(w) => run[w].config.strategy = "incremental" /\ run[w].seen > 0
  BY DEF Appends, IsTrue
<1> QED BY <1>1, <1>2, <1>3 DEF Held, FollowsMark, Name

\* A row that the target has had at least once keeps a copy in a write of w.
LEMMA CoveredByWrite ==
  ASSUME IInv, clean, NEW w \in Workers, run[w].pc = "read", FollowsMark(w), NEW f,
         NEW i \in 1 .. mark[NameOf[config.source]]
  PROVE  Written(w, f)[<<config.source, i>>] > 0
<1>1. TypeInv /\ Active(w)
  BY DEF IInv, TypeInv, Active
<1>2. Name(w) = NameOf[config.source] /\ mark[Name(w)] \in Nat /\ mark[Name(w)] <= MaxRow
  BY <1>1, CleanRun, Fields, ConstantsAssumption DEF IInv, TypeInv, TypeOK
<1>3. Appends(w)
  BY <1>1, <1>2, CleanRun DEF IInv
<1>4. <<config.source, i>> \in Rows
  BY <1>2, ConstantsAssumption DEF Rows, IInv, TypeOK, Config
<1>5. table[run[w].config.target][<<config.source, i>>] > 0
  BY <1>1, CleanRun DEF IInv, MarkIsCovered, Current
<1> QED
  <2> DEFINE r == <<config.source, i>>
  <2>1. /\ table[run[w].config.target][r] \in 0 .. MaxCopies
        /\ Written(w, f)[r] \in 0 .. MaxCopies
        /\ Written(w, f)[r] >= table[run[w].config.target][r]
    BY <1>1, <1>3, <1>4, WrittenRow
  <2> QED BY <2>1, <1>5

\* MarkIsCovered is preserved.
LEMMA CoveredStep == IInv /\ [Next]_vars => MarkIsCovered'
<1> SUFFICES ASSUME IInv, [Next]_vars PROVE MarkIsCovered'
  OBVIOUS
<1>t. TypeInv /\ config \in Config
  BY DEF IInv, TypeInv, TypeOK
<1>1. ASSUME NEW s \in Sources, AddRow(s) PROVE MarkIsCovered'
  BY <1>1 DEF AddRow, IInv, MarkIsCovered, Current
<1>2. ASSUME NEW c \in Config, UpdateTransfer(c) PROVE MarkIsCovered'
  BY <1>2 DEF UpdateTransfer, IInv, MarkIsCovered, Current
<1>3. ASSUME NEW w \in Workers, Load(w) PROVE MarkIsCovered'
  BY <1>3 DEF Load, IInv, MarkIsCovered, Current
<1>4. ASSUME NEW w \in Workers, Works(w) PROVE MarkIsCovered'
  <2>1. CASE GetHwm(w) \/ Read(w)
    BY <2>1 DEF GetHwm, Read, IInv, MarkIsCovered, Current
  <2>2. CASE ResetTransferHwm(w)
    <3>1. CASE mark' = mark
      BY <2>2, <3>1 DEF ResetTransferHwm, IInv, MarkIsCovered, Current
    <3>2. CASE mark' # mark
      <4> SUFFICES ASSUME clean PROVE mark'[NameOf[config.source]] = 0
        BY <2>2 DEF ResetTransferHwm, MarkIsCovered, Current
      <4>1. Active(w)
        BY <2>2 DEF ResetTransferHwm, Active
      <4> QED BY <4>1, <2>2, <3>2, <1>t, CleanRun, Fields DEF IInv, ResetTransferHwm, TypeInv, TypeOK
    <3> QED BY <3>1, <3>2
  <2>3. CASE Write(w)
    <3> SUFFICES ASSUME clean, ~Strays(w), NEW i \in 1 .. mark[NameOf[config.source]]
                 PROVE  table'[config.target][<<config.source, i>>] > 0
      BY <2>3 DEF Write, MarkIsCovered, Current
    <3>0. Active(w) /\ run[w].pc = "read"
      BY <2>3 DEF Write, Active
    <3>1. Active(w) /\ run[w].pc = "read" /\ FollowsMark(w)
      BY <3>0, NoStray, CleanRun, <1>t DEF IInv
    <3>2. table'[config.target] = Written(w, Frame(w))
      BY <3>1, <2>3, <1>t, CleanRun, Fields DEF IInv, Write, TypeInv, TypeOK
    <3> QED BY <3>1, <3>2, CoveredByWrite
  <2> QED BY <1>4, <2>1, <2>2, <2>3 DEF Works
<1>5. ASSUME NEW w \in Workers, Finish(w) PROVE MarkIsCovered'
  <2> DEFINE n == NameOf[config.source]
  <2> SUFFICES ASSUME clean', NEW i \in 1 .. mark'[n]
               PROVE  table[config.target][<<config.source, i>>] > 0
    BY <1>5 DEF Finish, MarkIsCovered, Current
  <2>1. Active(w) /\ run[w].pc = "written"
    BY <1>5 DEF Finish, Active
  <2>2. /\ w \in alone /\ Name(w) = n
        /\ run[w].config.source = config.source /\ run[w].config.target = config.target
        /\ run[w].from = mark[n]
        /\ ~clean => ~Appends(w) /\ mark[n] = 0
    <3>1. CASE clean
      BY <3>1, <2>1, <1>t, CleanRun DEF IInv, CleanWrites
    <3>2. CASE ~clean
      <4>1. Replaced(w)
        BY <3>2, <1>5 DEF Finish
      <4>2. Held(w) /\ run[w].seen \in Nat
        BY <4>1, <2>1, <1>t, Fields DEF Replaced, IInv, MarkIsHeld
      <4>3. FollowsMark(w)
        BY <4>1, <2>1, <1>t, NoStray DEF Replaced, IInv
      <4> QED BY <4>1, <4>2, <4>3, <2>1 DEF Replaced, FollowsMark, Held, Appends, Name
    <3> QED BY <3>1, <3>2
  <2>3. /\ n \in Names /\ mark[n] \in Nat /\ run[w].from \in Nat /\ run[w].upto \in Nat
    BY <2>1, <2>2, <1>t, Fields
  <2>4. mark'[n] = mark[n] \/ mark'[n] = NewMark(w)
    BY <1>5, <2>2, <2>3, <1>t DEF Finish, TypeInv, TypeOK
  <2>5. i <= run[w].from \/ i \in run[w].from + 1 .. run[w].upto
    BY <2>2, <2>3, <2>4 DEF NewMark
  <2>6. CASE i <= run[w].from
    <3>1. clean /\ i \in 1 .. mark[n]
      BY <2>2, <2>3, <2>4, <2>6 DEF NewMark
    <3> QED BY <3>1 DEF IInv, MarkIsCovered, Current
  <2>7. CASE i \in run[w].from + 1 .. run[w].upto
    BY <2>1, <2>2, <2>7 DEF IInv, WrittenIsThere
  <2> QED BY <2>5, <2>6, <2>7
<1>6. ASSUME NEW w \in Workers, Fail(w) PROVE MarkIsCovered'
  BY <1>6 DEF Fail, IInv, MarkIsCovered, Current
<1>7. ASSUME NEW w \in Workers, WriteFails(w) PROVE MarkIsCovered'
  <2> SUFFICES ASSUME clean, ~Strays(w), NEW i \in 1 .. mark[NameOf[config.source]]
               PROVE  table'[config.target][<<config.source, i>>] > 0
    BY <1>7 DEF WriteFails, MarkIsCovered, Current
  <2>0. Active(w) /\ run[w].pc = "read"
    BY <1>7 DEF WriteFails, Active
  <2>1. Active(w) /\ run[w].pc = "read" /\ FollowsMark(w)
    BY <2>0, NoStray, CleanRun, <1>t DEF IInv
  <2>2. PICK f \in SUBSET Frame(w) :
          table' = [table EXCEPT ![run[w].config.target] = Written(w, f)]
    BY <1>7 DEF WriteFails
  <2>3. table'[config.target] = Written(w, f)
    BY <2>1, <2>2, <1>t, CleanRun, Fields DEF IInv, TypeInv, TypeOK
  <2> QED BY <2>1, <2>3, CoveredByWrite
<1>8. ASSUME NEW w \in Workers, NoHwmStore(w) PROVE MarkIsCovered'
  BY <1>8 DEF NoHwmStore, IInv, MarkIsCovered, Current
<1>9. CASE UNCHANGED vars
  BY <1>9 DEF vars, IInv, MarkIsCovered, Current
<1> QED BY <1>1, <1>2, <1>3, <1>4, <1>5, <1>6, <1>7, <1>8, <1>9, Kinds DEF Ends

\* IInv is an inductive invariant.
LEMMA IInvHolds == Spec => []IInv
<1>1. Init => IInv
  <2> SUFFICES ASSUME Init PROVE IInv
    OBVIOUS
  <2>1. TypeInv
    BY TypeInit
  <2>2. \A w \in Workers : run[w].pc = "idle"
    BY DEF Init, Idle
  <2>3. mark[NameOf[config.source]] = 0
    BY <2>1, ConstantsAssumption DEF Init, TypeInv, TypeOK, Config
  <2>4. AloneIsOnly /\ CleanRuns /\ CleanWrites /\ MarkIsHeld /\ WrittenIsThere
    BY <2>2 DEF Init, AloneIsOnly, CleanRuns, CleanWrites, MarkIsHeld, WrittenIsThere, Active
  <2> QED BY <2>1, <2>3, <2>4 DEF IInv, TypeInv, MarkIsCovered
<1>2. IInv /\ [Next]_vars => IInv'
  <2>1. IInv /\ [Next]_vars => TypeInv'
    BY TypeStep DEF IInv, TypeInv
  <2> QED BY <2>1, AloneStep, CleanStep, CleanWritesStep, HeldStep, WrittenStep, CoveredStep DEF IInv, TypeInv
<1> QED BY <1>1, <1>2, PTL DEF Spec

\* No incremental run passes over a row: whatever fails and however the
\* strategy is switched, the rows at or below the stored mark are in the target
\* while the transfer's runs do not overlap, nobody moves its source or target and
\* no run replaces the target beside a mark (store disabled, or a mark of value 0).
THEOREM NoRowIsSkipped == Spec => []MarkIsCovered
<1>1. IInv => MarkIsCovered
  BY DEF IInv
<1> QED BY <1>1, IInvHolds, PTL

\* A full run that had no other beside it leaves exactly the rows it read.
THEOREM FullRunIsExact == Spec => FullIsExact
<1> DEFINE A == \A w \in Workers :
       /\ run[w].pc = "written" /\ run'[w].pc = "idle" /\ failures' = failures
       /\ run[w].config.strategy = "full" /\ w \in alone
       => \A r \in Rows : table[run[w].config.target][r] = IF r \in Frame(w) THEN 1 ELSE 0
<1>1. IInv => A
  BY DEF IInv, WrittenIsThere, Appends
<1>2. IInv /\ [Next]_vars => [A]_vars
  BY <1>1
<1> QED BY <1>2, IInvHolds, PTL DEF Spec, FullIsExact

\* When a run of a clean history finishes, with either strategy, everything that
\* was in the source when it read is in the target.
FinishDelivers ==
  \A w \in Workers : Finish(w) /\ clean' =>
    \A i \in 1 .. run[w].upto : table'[config.target][<<config.source, i>>] > 0

\* A FINISHED run has delivered all rows that the source had at its read: those
\* it wrote itself and, for an incremental run, those of the runs before it.
THEOREM FinishDeliversHolds == Spec => [][FinishDelivers]_vars
<1>1. IInv => FinishDelivers
  <2> SUFFICES ASSUME IInv, NEW w \in Workers, Finish(w), clean', NEW i \in 1 .. run[w].upto
               PROVE  table'[config.target][<<config.source, i>>] > 0
    BY DEF FinishDelivers
  <2> DEFINE n == NameOf[config.source]
  <2>1. TypeInv /\ Active(w) /\ run[w].pc = "written" /\ table' = table
    BY DEF Finish, Active, IInv, TypeInv
  <2>2. /\ w \in alone
        /\ run[w].config.source = config.source /\ run[w].config.target = config.target
        /\ run[w].from = mark[n]
        /\ ~clean => mark[n] = 0
    <3>1. CASE clean
      BY <3>1, <2>1, CleanRun DEF IInv, CleanWrites
    <3>2. CASE ~clean
      <4>1. Replaced(w)
        BY <3>2 DEF Finish
      <4>2. Held(w) /\ run[w].seen \in Nat
        BY <4>1, <2>1, Fields DEF Replaced, IInv, MarkIsHeld
      <4>3. FollowsMark(w)
        BY <4>1, <2>1, NoStray DEF Replaced, IInv
      <4> QED BY <4>1, <4>2, <4>3, <2>1 DEF Replaced, FollowsMark, Held, Appends, Name
    <3> QED BY <3>1, <3>2
  <2>3. n \in Names /\ mark[n] \in Nat /\ run[w].from \in Nat /\ run[w].upto \in Nat
    BY <2>1, <2>2, Fields DEF Name
  <2>4. CASE i <= run[w].from
    <3>1. clean /\ i \in 1 .. mark[n]
      BY <2>2, <2>3, <2>4
    <3> QED BY <2>1, <3>1 DEF IInv, MarkIsCovered, Current
  <2>5. CASE i > run[w].from
    <3>1. i \in run[w].from + 1 .. run[w].upto
      BY <2>3, <2>5
    <3> QED BY <2>1, <2>2, <3>1 DEF IInv, WrittenIsThere
  <2> QED BY <2>3, <2>4, <2>5
<1> QED BY <1>1, IInvHolds, PTL DEF Spec

-----------------------------------------------------------------------------
(* Copies of a row.                                                        *)

\* The row numbers whose copies a written run has not yet put below the mark.
Above(i) ==
  /\ mark[NameOf[config.source]] \in 1 .. i - 1
  /\ \A w \in Workers : run[w].pc = "written" => i > run[w].upto

\* One write of w, whole or in part, adds at most one copy, and only to a row
\* above the mark.
LEMMA CopiesOfWrite ==
  ASSUME IInv, CopiesAboveMark, clean, NEW w \in Workers, run[w].pc = "read", FollowsMark(w),
         NEW f \in SUBSET Frame(w), NEW i \in 1 .. MaxRow
  PROVE  /\ Written(w, f)[<<config.source, i>>] \in Nat
         /\ Written(w, f)[<<config.source, i>>] <= 1 + failures
         /\ (mark[NameOf[config.source]] \in 1 .. i - 1 /\ i > run[w].upto)
            => Written(w, f)[<<config.source, i>>] <= failures
<1> DEFINE r == <<config.source, i>>
           n == NameOf[config.source]
<1>1. TypeInv /\ Active(w) /\ failures \in Nat
  BY ConstantsAssumption DEF IInv, TypeInv, TypeOK, Active
<1>2. /\ w \in alone /\ run[w].config.source = config.source
      /\ run[w].config.target = config.target /\ Name(w) = n
      /\ run[w].from = mark[n]
      /\ Appends(w) => mark[n] > 0
      /\ ~Appends(w) => mark[n] = 0
  BY <1>1, CleanRun DEF IInv
<1>3. /\ run[w].from \in Nat /\ run[w].upto \in Nat
      /\ config.source \in Sources
  BY <1>1, Fields, <1>2
<1>4. r \in Rows
  BY <1>3 DEF Rows
<1>5. r \in f => i > run[w].from /\ i <= run[w].upto
  BY <1>1, <1>2, FrameRows
<1>6. \A v \in Workers : run[v].pc # "written"
  BY <1>1, <1>2 DEF IInv, AloneIsOnly, Active
<1>7. /\ Current(i) <= 1 + failures
      /\ mark[n] \in 1 .. i - 1 => Current(i) <= failures
  BY <1>6 DEF CopiesAboveMark
<1>8. /\ table[run[w].config.target][r] \in 0 .. MaxCopies
      /\ Written(w, f)[r] \in 0 .. MaxCopies
      /\ Appends(w) => /\ Written(w, f)[r] <= table[run[w].config.target][r] + 1
                       /\ r \notin f => Written(w, f)[r] = table[run[w].config.target][r]
      /\ ~Appends(w) => Written(w, f)[r] = IF r \in f THEN 1 ELSE 0
  BY <1>1, <1>4, WrittenRow
<1>9. table[run[w].config.target][r] = Current(i)
  BY <1>2 DEF Current
<1> HIDE DEF r, n
<1>10. Written(w, f)[r] \in Nat
  BY <1>8, ConstantsAssumption
<1>11. CASE Appends(w)
  <2>1. mark[n] > 0 /\ run[w].from = mark[n]
    BY <1>2, <1>11
  <2>2. CASE r \in f
    <3>1. mark[n] \in 1 .. i - 1 /\ i <= run[w].upto
      BY <2>1, <2>2, <1>3, <1>5
    <3> QED BY <3>1, <1>1, <1>3, <1>7, <1>8, <1>9, <1>10, <1>11, ConstantsAssumption DEF r, n
  <2>3. CASE r \notin f
    BY <2>3, <1>7, <1>8, <1>9, <1>10, <1>11 DEF r, n
  <2> QED BY <2>2, <2>3
<1>12. CASE ~Appends(w)
  BY <1>1, <1>2, <1>8, <1>10, <1>12 DEF r, n
<1> QED BY <1>11, <1>12

\* CopiesAboveMark is preserved.
LEMMA CopiesStep == IInv /\ CopiesAboveMark /\ [Next]_vars => CopiesAboveMark'
<1> SUFFICES ASSUME IInv, CopiesAboveMark, [Next]_vars, clean', NEW i \in 1 .. MaxRow
             PROVE  /\ Current(i)' <= 1 + failures'
                    /\ Above(i)' => Current(i)' <= failures'
  BY DEF CopiesAboveMark, Above
<1>t. TypeInv /\ config \in Config /\ failures \in Nat /\ 1 + failures \in Nat
  BY ConstantsAssumption DEF IInv, TypeInv, TypeOK
<1>n. Current(i) \in Nat
  BY <1>t, ConstantsAssumption DEF Current, TypeInv, TypeOK, Config, Rows
<1>i. clean => /\ Current(i) <= 1 + failures
               /\ Above(i) => Current(i) <= failures
  BY DEF CopiesAboveMark, Above
<1> DEFINE Goal == /\ Current(i)' <= 1 + failures'
                   /\ Above(i)' => Current(i)' <= failures'
<1>1. ASSUME NEW s \in Sources, AddRow(s) PROVE Goal
  BY <1>1, <1>i DEF AddRow, Current, Above
<1>2. ASSUME NEW c \in Config, UpdateTransfer(c) PROVE Goal
  BY <1>2, <1>i DEF UpdateTransfer, Current, Above
<1>3. ASSUME NEW w \in Workers, Load(w) PROVE Goal
  <2>1. /\ clean /\ UNCHANGED <<table, mark, config, failures>>
    BY <1>3 DEF Load
  <2>2. \A v \in Workers : run[v].pc = "written" => run'[v] = run[v]
    BY <1>3, <1>t, LoadFrame DEF Active
  <2>3. Current(i)' = Current(i) /\ (Above(i)' => Above(i))
    BY <2>1, <2>2 DEF Current, Above
  <2> QED BY <2>1, <2>3, <1>i
<1>4. ASSUME NEW w \in Workers, Works(w) PROVE Goal
  <2>f. /\ clean /\ UNCHANGED <<config, failures>> /\ Active(w)
        /\ \A v \in Workers \ {w} : run'[v] = run[v]
    BY <1>4, <1>t, WorksFrame
  <2>1. CASE GetHwm(w) \/ Read(w)
    <3>1. UNCHANGED <<table, mark>> /\ run[w].pc # "written"
      BY <2>1 DEF GetHwm, Read
    <3>2. \A v \in Workers : run[v].pc = "written" => run'[v] = run[v]
      BY <3>1, <2>f
    <3>3. Current(i)' = Current(i) /\ (Above(i)' => Above(i))
      BY <3>1, <3>2, <2>f DEF Current, Above
    <3> QED BY <3>3, <2>f, <1>i
  <2>2. CASE ResetTransferHwm(w)
    <3>1. mark' = mark \/ mark'[NameOf[config.source]] = 0
      BY <2>2, <2>f, <1>t, CleanRun, Fields DEF IInv, ResetTransferHwm, TypeInv, TypeOK
    <3>2. run[w].pc # "written"
      BY <2>2 DEF ResetTransferHwm
    <3>3. \A v \in Workers : run[v].pc = "written" => run'[v] = run[v]
      BY <3>2, <2>f
    <3>4. (Above(i)' => Above(i)) /\ Current(i)' = Current(i)
      BY <3>1, <3>3, <2>2, <2>f DEF ResetTransferHwm, Above, Current
    <3> QED BY <3>4, <2>f, <1>i
  <2>3. CASE Write(w)
    <3>0. run[w].pc = "read" /\ ~Strays(w)
      BY <2>3 DEF Write
    <3>1. run[w].pc = "read" /\ mark' = mark /\ FollowsMark(w)
      BY <3>0, <2>3, <2>f, <1>t, NoStray, CleanRun DEF IInv, Write
    <3>2. table'[config.target] = Written(w, Frame(w))
      BY <2>3, <2>f, <1>t, CleanRun, Fields DEF IInv, Write, TypeInv, TypeOK
    <3>3. run'[w].pc = "written" /\ run'[w].upto = run[w].upto
      BY <2>3, <1>t DEF Write, TypeInv, TypeOK, RunRecord
    <3>4. Current(i)' = Written(w, Frame(w))[<<config.source, i>>]
      BY <3>2, <2>f DEF Current
    <3>5. Above(i)' => mark[NameOf[config.source]] \in 1 .. i - 1 /\ i > run[w].upto
      BY <3>1, <3>3, <2>f DEF Above
    <3>6. /\ Written(w, Frame(w))[<<config.source, i>>] <= 1 + failures
          /\ (mark[NameOf[config.source]] \in 1 .. i - 1 /\ i > run[w].upto)
             => Written(w, Frame(w))[<<config.source, i>>] <= failures
      BY <3>1, <2>f, CopiesOfWrite
    <3> QED BY <3>4, <3>5, <3>6, <2>f
  <2> QED BY <1>4, <2>1, <2>2, <2>3 DEF Works
<1>5. ASSUME NEW w \in Workers, Finish(w) PROVE Goal
  <2> DEFINE n == NameOf[config.source]
  <2>1. /\ Active(w) /\ run[w].pc = "written"
        /\ UNCHANGED <<table, config, failures>> /\ Current(i)' = Current(i)
    BY <1>5 DEF Finish, Active, Current
  <2>2. /\ w \in alone /\ Name(w) = n
        /\ run[w].config.source = config.source /\ run[w].config.target = config.target
        /\ run[w].from = mark[n]
        /\ ~Appends(w) <=> mark[n] = 0
        /\ ~clean => ~Appends(w)
    <3>1. CASE clean
      BY <3>1, <2>1, <1>t, CleanRun DEF IInv, CleanWrites
    <3>2. CASE ~clean
      <4>1. Replaced(w)
        BY <3>2, <1>5 DEF Finish
      <4>2. Held(w) /\ run[w].seen \in Nat
        BY <4>1, <2>1, <1>t, Fields DEF Replaced, IInv, MarkIsHeld
      <4>3. FollowsMark(w)
        BY <4>1, <2>1, <1>t, NoStray DEF Replaced, IInv
      <4> QED BY <4>1, <4>2, <4>3, <2>1 DEF Replaced, FollowsMark, Held, Appends, Name
    <3> QED BY <3>1, <3>2
  <2>3. /\ n \in Names /\ mark[n] \in Nat /\ run[w].from \in Nat /\ run[w].upto \in Nat
    BY <2>1, <2>2, <1>t, Fields
  <2>4. mark'[n] = mark[n] \/ mark'[n] = NewMark(w)
    BY <1>5, <2>2, <2>3, <1>t DEF Finish, TypeInv, TypeOK
  <2>5. ~Appends(w) => Current(i) = IF <<config.source, i>> \in Frame(w) THEN 1 ELSE 0
    BY <2>1, <2>2, <1>t DEF IInv, WrittenIsThere, Current, Rows, Config
  <2>6. <<config.source, i>> \in Frame(w) => i <= run[w].upto
    BY <2>1, <2>2, <1>t, FrameRows
  <2>7. CASE Appends(w)
    <3>1. mark[n] > 0 /\ clean
      BY <2>2, <2>3, <2>7
    <3>2. Above(i)' => mark'[n] < i /\ mark'[n] \in Nat
      BY <2>1, <2>3, <2>4 DEF Above, NewMark
    <3>3. mark'[n] = NewMark(w)
      BY <1>5, <2>2, <2>3, <2>7, <1>t DEF Finish, TypeInv, TypeOK, Appends
    <3>4. Above(i)' => mark[n] \in 1 .. i - 1 /\ i > run[w].upto
      BY <2>2, <2>3, <3>1, <3>2, <3>3 DEF NewMark
    <3>5. \A v \in Workers : run[v].pc = "written" => v = w
      BY <2>1, <2>2 DEF IInv, AloneIsOnly, Active
    <3>6. Above(i)' => Above(i)
      BY <3>4, <3>5 DEF Above
    <3> QED BY <3>1, <3>6, <2>1, <1>i
  <2>8. CASE ~Appends(w)
    <3>1. Current(i) <= 1
      BY <2>5, <2>8
    <3>2. mark[n] = 0
      BY <2>2, <2>8
    <3>3. Above(i)' => mark'[n] \in 1 .. i - 1
      BY <2>1 DEF Above
    <3>4. Above(i)' => i > run[w].upto
      BY <3>2, <3>3, <2>2, <2>3, <2>4 DEF NewMark
    <3>5. Above(i)' => Current(i) = 0
      BY <3>4, <2>3, <2>5, <2>6, <2>8
    <3> QED BY <3>1, <3>5, <2>1, <1>t, <1>n
  <2> QED BY <2>7, <2>8
<1>6. ASSUME NEW w \in Workers, Fail(w) PROVE Goal
  <2>1. clean /\ failures' = failures + 1 /\ Current(i)' = Current(i)
    BY <1>6 DEF Fail, Failed, Current
  <2> QED BY <2>1, <1>i, <1>n, <1>t
<1>7. ASSUME NEW w \in Workers, WriteFails(w) PROVE Goal
  <2>0. Active(w) /\ run[w].pc = "read" /\ clean /\ ~Strays(w)
    BY <1>7 DEF WriteFails, Active
  <2>1. /\ Active(w) /\ run[w].pc = "read" /\ clean /\ FollowsMark(w) /\ failures' = failures + 1
        /\ config' = config
    BY <2>0, <1>7, <1>t, NoStray, CleanRun DEF IInv, WriteFails, Failed
  <2>2. PICK f \in SUBSET Frame(w) :
          table' = [table EXCEPT ![run[w].config.target] = Written(w, f)]
    BY <1>7 DEF WriteFails
  <2>3. table'[config.target] = Written(w, f)
    BY <2>1, <2>2, <1>t, CleanRun, Fields DEF IInv, TypeInv, TypeOK
  <2>4. Current(i)' = Written(w, f)[<<config.source, i>>]
    BY <2>1, <2>3 DEF Current
  <2>5. Current(i)' \in Nat /\ Current(i)' <= 1 + failures
    BY <2>1, <2>4, CopiesOfWrite
  <2> QED BY <2>1, <2>5, <1>t
<1>8. ASSUME NEW w \in Workers, NoHwmStore(w) PROVE Goal
  <2>1. clean /\ UNCHANGED <<table, mark, config, failures>> /\ run[w].pc = "loaded"
    BY <1>8 DEF NoHwmStore
  <2>2. \A v \in Workers : run[v].pc = "written" => run'[v] = run[v]
    BY <2>1, <1>8, <1>t, EndsFrame DEF Ends
  <2>3. Current(i)' = Current(i) /\ (Above(i)' => Above(i))
    BY <2>1, <2>2 DEF Current, Above
  <2> QED BY <2>1, <2>3, <1>i
<1>9. CASE UNCHANGED vars
  BY <1>9, <1>i DEF vars, Current, Above
<1> QED BY <1>1, <1>2, <1>3, <1>4, <1>5, <1>6, <1>7, <1>8, <1>9, Kinds DEF Ends

\* A row is copied to the target again only because a run failed: at most once
\* more for each failure, while runs of the transfer do not overlap and no run
\* replaces the target beside a mark.
THEOREM AtMostOneCopyPerFailure == Spec => []CopiesPerFailure
<1>1. Init => CopiesAboveMark
  <2> SUFFICES ASSUME Init, NEW i \in 1 .. MaxRow PROVE Current(i) = 0 /\ failures = 0
    BY DEF CopiesAboveMark
  <2> QED BY ConstantsAssumption DEF Init, Current, Rows, Config
<1>2. CopiesAboveMark => CopiesPerFailure
  BY DEF CopiesAboveMark, CopiesPerFailure
<1> QED BY <1>1, <1>2, IInvHolds, CopiesStep, PTL DEF Spec
=============================================================================
