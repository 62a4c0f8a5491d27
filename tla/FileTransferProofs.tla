------------------------ MODULE FileTransferProofs ------------------------
(***************************************************************************)
(* What a finished run with a file target has done, for any transfers,     *)
(* number of overlapping runs, parts, failures of stores and killed        *)
(* workers.                                                                *)
(***************************************************************************)
EXTENDS FileTransfer, WellFoundedInduction, TLAPS

\* Where a run can be.
Pcs == Active \cup {"none", "finished", "failed", "killed"}

\* What reading can yield.
Results == {None, Failed, NothingFound} \cup {read(t.source, t.transformations, Columns) : t \in Transfers}

\* Types: a run has a transfer that the schema has accepted.
TypeOK ==
  /\ transfer # None => transfer \in Transfers /\ CreateTransferSchema(transfer)
  /\ run \in [Runs -> [pc : Pcs, at : Nat, result : Results]]
  /\ DOMAIN tmp = Runs
  /\ clock \in Nat
  /\ \A r \in Runs : run[r].pc # "none" => transfer # None

\* The step of a run changes that run only, and its time of creation is never
\* changed.
LEMMA TypesStep ==
  ASSUME TypeOK, [Next]_vars
  PROVE  TypeOK'
<1>1. ASSUME NEW t \in Transfers, create_transfer(t) PROVE TypeOK'
  BY <1>1 DEF create_transfer, TypeOK
<1>2. ASSUME NEW r \in Runs, start_run(r) PROVE TypeOK'
  BY <1>2 DEF start_run, TypeOK, Pcs, Active, Results
<1>3. ASSUME NEW r \in Runs, Read(r) PROVE TypeOK'
  <2>1. transfer \in Transfers
    BY <1>3 DEF Read, TypeOK
  <2>2. read(transfer.source, transfer.transformations, Columns) \in Results
    BY <2>1 DEF Results
  <2>3. QED
    BY <1>3, <2>2 DEF Read, TypeOK, Pcs, Active
<1>4. ASSUME NEW r \in Runs, Write(r) \/ _rename_files(r) \/ MoveEnds(r) \/ Move(r) \/ MoveFails(r)
                             \/ Cleanup(r) \/ Kill(r)
      PROVE  TypeOK'
  BY <1>4 DEF Write, _rename_files, Move, MoveFails, MoveEnds, Cleanup, Kill, TypeOK, Pcs, Active
<1>5. ASSUME NEW r \in Runs, Fault(r) \/ _get_hwm_store_fails(r) \/ ReadNothing(r) PROVE TypeOK'
  <2>1. {None, Failed, NothingFound} \subseteq Results
    BY DEF Results
  <2>2. QED
    BY <1>5, <2>1 DEF Fault, _get_hwm_store_fails, ReadNothing, TypeOK, Pcs, Active
<1>6. CASE Tick
  BY <1>6 DEF Tick, TypeOK
<1>7. CASE UNCHANGED vars
  BY <1>7 DEF vars, TypeOK
<1>8. QED
  BY <1>1, <1>2, <1>3, <1>4, <1>5, <1>6, <1>7 DEF Next, Perform

\* The types.
LEMMA Types == Spec => []TypeOK
<1>1. Init => TypeOK
  <2> SUFFICES ASSUME Init PROVE TypeOK
    OBVIOUS
  <2>1. run = [r \in Runs |-> [pc |-> "none", at |-> 0, result |-> None]]
    BY DEF Init
  <2>2. "none" \in Pcs /\ None \in Results
    BY DEF Pcs, Results
  <2>3. run \in [Runs -> [pc : Pcs, at : Nat, result : Results]]
    BY <2>1, <2>2
  <2>4. transfer = None /\ tmp = [r \in Runs |-> {}] /\ clock = 1
    BY DEF Init
  <2>5. \A r \in Runs : run[r].pc = "none"
    BY <2>1
  <2>6. QED
    BY <2>3, <2>4, <2>5 DEF TypeOK
<1>2. TypeOK /\ [Next]_vars => TypeOK'
  BY TypesStep
<1>3. QED
  BY <1>1, <1>2, PTL DEF Spec

\* However runs overlap, no step of one removes or replaces a file in the target
\* directory.
THEOREM DeliveredStaysHolds == Spec => DeliveredStays
<1>1. [Next]_vars => [dir \subseteq dir']_vars
  BY DEF Next, create_transfer, Tick, start_run, Perform, _get_hwm_store_fails, ReadNothing, Read, Write,
         _rename_files, Move, MoveFails, MoveEnds, Cleanup, Fault, Kill, vars
<1>2. QED
  BY <1>1, PTL DEF Spec, DeliveredStays

\* A run that ended has left nothing in a directory of its own, for any number of
\* parts and whichever step failed.
THEOREM NothingIsLeftBehindHolds == Spec => []NothingIsLeftBehind
<1>1. Init => NothingIsLeftBehind
  BY DEF Init, NothingIsLeftBehind
<1>2. TypeOK /\ NothingIsLeftBehind /\ [Next]_vars => NothingIsLeftBehind'
  <2> SUFFICES ASSUME TypeOK, NothingIsLeftBehind, [Next]_vars PROVE NothingIsLeftBehind'
    OBVIOUS
  <2>1. ASSUME NEW r \in Runs, start_run(r) \/ _get_hwm_store_fails(r) \/ ReadNothing(r) \/ Read(r)
                               \/ Write(r) \/ _rename_files(r) \/ MoveEnds(r) \/ Fault(r) \/ Kill(r)
        PROVE  NothingIsLeftBehind'
    <3>1. run'[r].pc \notin {"finished", "failed"}
      BY <2>1 DEF TypeOK, start_run, _get_hwm_store_fails, ReadNothing, Read, Write, _rename_files, MoveEnds,
                  Fault, Kill
    <3>2. \A q \in Runs \ {r} : run'[q] = run[q] /\ tmp'[q] = tmp[q]
      BY <2>1 DEF TypeOK, start_run, _get_hwm_store_fails, ReadNothing, Read, Write, _rename_files, MoveEnds,
                  Fault, Kill
    <3>3. QED
      BY <3>1, <3>2 DEF NothingIsLeftBehind
  <2>2. ASSUME NEW r \in Runs, Move(r) \/ MoveFails(r) PROVE NothingIsLeftBehind'
    BY <2>2 DEF Move, MoveFails, TypeOK, NothingIsLeftBehind
  <2>3. ASSUME NEW r \in Runs, Cleanup(r) PROVE NothingIsLeftBehind'
    BY <2>3 DEF Cleanup, TypeOK, NothingIsLeftBehind
  <2>4. ASSUME UNCHANGED <<run, tmp>> PROVE NothingIsLeftBehind'
    BY <2>4 DEF NothingIsLeftBehind
  <2>5. QED
    BY <2>1, <2>2, <2>3, <2>4 DEF Next, Perform, create_transfer, Tick, vars
<1>3. QED
  BY <1>1, <1>2, Types, PTL DEF Spec

-----------------------------------------------------------------------------
(* Files.                                                                  *)

\* Part i of run r, under its name.
FileOf(r, i) ==
  [name |-> _get_file_name(transfer.template, r, run[r].at, i, Extension), run |-> r, part |-> i]

\* For s3 and hdfs, the template ends in ".{extension}".
Matched == transfer.target \in RemoteTypes => transfer.template.dotted

\* Each file in the target directory is a part of a run.
InDir == \A g \in dir :
  /\ g.run \in Runs /\ g.part \in Indexes
  /\ run[g.run].pc # "none"
  /\ g = FileOf(g.run, g.part)

\* The store failed to take part i of run r.
Missed(r, i) == [run |-> r, part |-> i] \in missed

\* A run's own directory holds its parts, and none has been dropped: each is still
\* there, has arrived or was not taken by the store, if its name is the run's own.
OnItsWay(r) ==
  /\ run[r].pc = "written" => tmp[r] = {[name |-> None, run |-> r, part |-> i] : i \in Indexes}
  /\ run[r].pc = "moving" => tmp[r] \subseteq {FileOf(r, i) : i \in Indexes}
  /\ run[r].pc = "moving" /\ HasOwnNames(r) =>
       \A i \in Indexes : FileOf(r, i) \in tmp[r] \/ FileOf(r, i) \in dir \/ Missed(r, i)
  /\ run[r].pc \in {"cleanup", "finished"} /\ HasOwnNames(r) /\ Matched =>
       \A i \in Indexes : FileOf(r, i) \in dir \/ Missed(r, i)

\* The inductive invariant of files.
FilesInv == InDir /\ \A r \in Runs : OnItsWay(r)

\* Files keep their names, and names that are not a run's own never become so.
LEMMA NamesStay ==
  ASSUME TypeOK, [Next]_vars, NEW r \in Runs, run[r].pc # "none"
  PROVE  /\ transfer' = transfer
         /\ run'[r].pc # "none" /\ run'[r].at = run[r].at
         /\ \A i : FileOf(r, i)' = FileOf(r, i)
         /\ HasOwnNames(r)' => HasOwnNames(r)
         /\ missed \subseteq missed'
<1>1. transfer' = transfer
  BY DEF TypeOK, Next, create_transfer, Tick, start_run, Perform, _get_hwm_store_fails, ReadNothing, Read,
         Write, _rename_files, Move, MoveFails, MoveEnds, Cleanup, Fault, Kill, vars
<1>2. \A q \in Runs : run[q].pc # "none" => run'[q].pc # "none" /\ run'[q].at = run[q].at
  <2>1. ASSUME NEW p \in Runs, start_run(p) \/ _get_hwm_store_fails(p) \/ ReadNothing(p) \/ Read(p)
                               \/ Write(p) \/ _rename_files(p) \/ MoveEnds(p) \/ Fault(p) \/ Kill(p)
                               \/ Cleanup(p)
        PROVE  \A q \in Runs : run[q].pc # "none" => run'[q].pc # "none" /\ run'[q].at = run[q].at
    BY <2>1 DEF TypeOK, start_run, _get_hwm_store_fails, ReadNothing, Read, Write, _rename_files, MoveEnds,
                Fault, Kill, Cleanup
  <2>2. QED
    BY <2>1 DEF Next, Perform, create_transfer, Tick, Move, MoveFails, vars
<1>3. \A i : FileOf(r, i)' = FileOf(r, i)
  BY <1>1, <1>2 DEF FileOf, Extension
<1>4. HasOwnNames(r)' => HasOwnNames(r)
  BY <1>1, <1>2 DEF HasOwnNames
<1>5. missed \subseteq missed'
  BY DEF Next, create_transfer, Tick, start_run, Perform, _get_hwm_store_fails, ReadNothing, Read, Write,
         _rename_files, Move, MoveFails, MoveEnds, Cleanup, Fault, Kill, vars
<1>6. QED
  BY <1>1, <1>2, <1>3, <1>4, <1>5

\* If the file's name is the run's own and is taken, the file has arrived already.
LEMMA OwnName ==
  ASSUME TypeOK, InDir, NEW r \in Runs, run[r].pc # "none", HasOwnNames(r), NEW i \in Indexes,
         NEW g \in dir, g.name = FileOf(r, i).name
  PROVE  g = FileOf(r, i)
<1>1. g = FileOf(g.run, g.part) /\ g.run \in Runs /\ run[g.run].pc # "none"
  BY DEF InDir
<1>2. g.part = i
  <2>1. g.name.index = g.part
    BY <1>1 DEF FileOf, _get_file_name
  <2>2. QED
    BY <2>1 DEF FileOf, _get_file_name
<1>3. g.run = r
  <2>1. CASE "run_id" \in transfer.template.keys
    BY <1>1, <2>1 DEF FileOf, _get_file_name
  <2>2. CASE "run_id" \notin transfer.template.keys
    <3>1. "run_created_at" \in transfer.template.keys
      BY <2>2 DEF TypeOK, CreateTransferSchema, _validate_file_name_template
    <3>2. run[g.run].at = run[r].at
      BY <1>1, <3>1 DEF FileOf, _get_file_name
    <3>3. QED
      BY <1>1, <2>2, <3>2 DEF HasOwnNames
  <2>3. QED
    BY <2>1, <2>2
<1>4. QED
  BY <1>1, <1>2, <1>3

\* The mover takes every file whose name ends in the extension.
LEMMA AllTaken ==
  ASSUME Matched, NEW r \in Runs, NEW i \in Indexes
  PROVE  Taken(FileOf(r, i))
<1>1. FileOf(r, i).name.dotted = transfer.template.dotted
  BY DEF FileOf, _get_file_name
<1>2. FileOf(r, i).name.extension = Extension
  BY DEF FileOf, _get_file_name
<1>3. QED
  BY <1>1, <1>2 DEF Taken, Matched

\* A step in which no file arrives.
LEMMA NothingArrives ==
  ASSUME TypeOK, InDir, [Next]_vars, dir' = dir
  PROVE  InDir'
<1> SUFFICES ASSUME NEW g \in dir
             PROVE  /\ g.run \in Runs /\ g.part \in Indexes /\ run'[g.run].pc # "none"
                    /\ g = FileOf(g.run, g.part)'
  BY DEF InDir
<1>1. g.run \in Runs /\ g.part \in Indexes /\ run[g.run].pc # "none" /\ g = FileOf(g.run, g.part)
  BY DEF InDir
<1>2. PICK r \in Runs : r = g.run
  BY <1>1
<1>3. run'[r].pc # "none" /\ FileOf(r, g.part)' = FileOf(r, g.part)
  BY <1>1, <1>2, NamesStay
<1>4. QED
  BY <1>1, <1>2, <1>3

\* A step that leaves a run and its own directory alone.
LEMMA OtherRun ==
  ASSUME TypeOK, [Next]_vars, NEW r \in Runs, OnItsWay(r), run'[r] = run[r], tmp'[r] = tmp[r],
         dir \subseteq dir'
  PROVE  OnItsWay(r)'
<1>1. CASE run[r].pc = "none"
  BY <1>1 DEF OnItsWay
<1>2. CASE run[r].pc # "none"
  <2>1. /\ transfer' = transfer
        /\ \A i : FileOf(r, i)' = FileOf(r, i)
        /\ HasOwnNames(r)' => HasOwnNames(r)
        /\ missed \subseteq missed'
    BY <1>2, NamesStay
  <2>2. Matched' => Matched
    BY <2>1 DEF Matched
  <2>3. \A i : Missed(r, i) => Missed(r, i)'
    BY <2>1 DEF Missed
  <2>4. QED
    BY <2>1, <2>2, <2>3 DEF OnItsWay
<1>3. QED
  BY <1>1, <1>2

\* Files are written, renamed, moved and found to have been moved.
LEMMA FilesStep ==
  ASSUME TypeOK, FilesInv, [Next]_vars
  PROVE  FilesInv'
<1>1. InDir /\ \A r \in Runs : OnItsWay(r)
  BY DEF FilesInv
<1>2. ASSUME NEW r \in Runs, dir' = dir, OnItsWay(r)',
             \A q \in Runs \ {r} : run'[q] = run[q] /\ tmp'[q] = tmp[q]
      PROVE  FilesInv'
  BY <1>1, <1>2, NothingArrives, OtherRun DEF FilesInv
<1>3. ASSUME NEW r \in Runs, start_run(r) \/ _get_hwm_store_fails(r) \/ ReadNothing(r) \/ Read(r)
                             \/ Fault(r) \/ Kill(r)
      PROVE  FilesInv'
  <2>1. run'[r].pc \notin {"written", "moving", "cleanup", "finished"} /\ dir' = dir
    BY <1>3 DEF TypeOK, start_run, _get_hwm_store_fails, ReadNothing, Read, Fault, Kill
  <2>2. \A q \in Runs \ {r} : run'[q] = run[q] /\ tmp'[q] = tmp[q]
    BY <1>3 DEF TypeOK, start_run, _get_hwm_store_fails, ReadNothing, Read, Fault, Kill
  <2>3. OnItsWay(r)'
    BY <2>1 DEF OnItsWay
  <2>4. QED
    BY <1>2, <2>1, <2>2, <2>3
<1>4. ASSUME NEW r \in Runs, Write(r) PROVE FilesInv'
  <2>1. run'[r].pc = "written" /\ dir' = dir
        /\ tmp'[r] = {[name |-> None, run |-> r, part |-> i] : i \in Indexes}
    BY <1>4 DEF Write, TypeOK
  <2>2. \A q \in Runs \ {r} : run'[q] = run[q] /\ tmp'[q] = tmp[q]
    BY <1>4 DEF Write, TypeOK
  <2>3. OnItsWay(r)'
    BY <2>1 DEF OnItsWay
  <2>4. QED
    BY <1>2, <2>1, <2>2, <2>3
<1>5. ASSUME NEW r \in Runs, _rename_files(r) PROVE FilesInv'
  <2>1. run[r].pc = "written" /\ run'[r].pc = "moving" /\ dir' = dir
    BY <1>5 DEF _rename_files, TypeOK
  <2>2. \A q \in Runs \ {r} : run'[q] = run[q] /\ tmp'[q] = tmp[q]
    BY <1>5 DEF _rename_files, TypeOK
  <2> DEFINE Renamed(f) ==
               [f EXCEPT !.name = _get_file_name(transfer.template, r, run[r].at, f.part, Extension)]
             Spark(i) == [name |-> None, run |-> r, part |-> i]
  <2>3. tmp'[r] = {Renamed(f) : f \in tmp[r]}
    BY <1>5 DEF _rename_files, TypeOK
  <2>4. tmp[r] = {Spark(i) : i \in Indexes}
    BY <1>1, <2>1 DEF OnItsWay
  <2>5. \A i \in Indexes : Renamed(Spark(i)) = FileOf(r, i)
    BY DEF FileOf
  <2> HIDE DEF Renamed, Spark
  <2>6. tmp'[r] = {FileOf(r, i) : i \in Indexes}
    <3>1. \A f : f \in tmp'[r] <=> \E i \in Indexes : f = FileOf(r, i)
      BY <2>3, <2>4, <2>5
    <3>2. QED
      BY <3>1
  <2>7. \A i : FileOf(r, i)' = FileOf(r, i)
    BY <2>1, NamesStay
  <2>8. OnItsWay(r)'
    BY <2>1, <2>6, <2>7 DEF OnItsWay
  <2>9. QED
    BY <1>2, <2>1, <2>2, <2>8
<1>6. ASSUME NEW r \in Runs, Move(r) PROVE FilesInv'
  <2>1. PICK f \in tmp[r] :
          /\ tmp' = [tmp EXCEPT ![r] = @ \ {f}]
          /\ dir' = IF \E g \in dir : g.name = f.name THEN dir ELSE dir \union {f}
    BY <1>6 DEF Move
  <2>2. run' = run /\ run[r].pc = "moving" /\ transfer' = transfer /\ missed' = missed
    BY <1>6 DEF Move
  <2>3. PICK k \in Indexes : f = FileOf(r, k)
    BY <1>1, <2>1, <2>2 DEF OnItsWay
  <2>4. \A q \in Runs : \A i : FileOf(q, i)' = FileOf(q, i)
    BY <2>2 DEF FileOf, Extension
  <2>5. InDir'
    <3>1. FileOf(r, k).run = r /\ FileOf(r, k).part = k
      BY DEF FileOf
    <3>2. \A g \in dir' : g \in dir \/ g = FileOf(r, k)
      BY <2>1, <2>3
    <3>3. QED
      BY <1>1, <2>2, <2>4, <3>1, <3>2 DEF InDir
  <2>6. \A q \in Runs \ {r} : OnItsWay(q)'
    BY <1>1, <2>1, <2>2, OtherRun DEF TypeOK
  <2>7. OnItsWay(r)'
    <3>1. tmp'[r] = tmp[r] \ {f} /\ dir \subseteq dir'
      BY <2>1 DEF TypeOK
    <3>2. tmp'[r] \subseteq {FileOf(r, i)' : i \in Indexes}
      BY <1>1, <2>2, <2>4, <3>1 DEF OnItsWay
    <3>3. ASSUME HasOwnNames(r)', NEW i \in Indexes
          PROVE  FileOf(r, i) \in tmp'[r] \/ FileOf(r, i) \in dir' \/ Missed(r, i)
      <4>1. HasOwnNames(r)
        BY <2>2, <3>3 DEF HasOwnNames
      <4>2. CASE FileOf(r, i) # f
        BY <1>1, <2>2, <3>1, <4>1, <4>2 DEF OnItsWay
      <4>3. CASE FileOf(r, i) = f
        <5>1. CASE \E g \in dir : g.name = f.name
          BY <1>1, <2>2, <3>1, <4>1, <4>3, <5>1, OwnName
        <5>2. CASE ~ \E g \in dir : g.name = f.name
          BY <2>1, <4>3, <5>2
        <5>3. QED
          BY <5>1, <5>2
      <4>4. QED
        BY <4>2, <4>3
    <3>4. \A i : Missed(r, i)' <=> Missed(r, i)
      BY <2>2 DEF Missed
    <3>5. QED
      BY <2>2, <2>4, <3>2, <3>3, <3>4 DEF OnItsWay
  <2>8. QED
    BY <2>5, <2>6, <2>7 DEF FilesInv
<1>7. ASSUME NEW r \in Runs, MoveEnds(r) PROVE FilesInv'
  <2>1. run[r].pc = "moving" /\ run'[r].pc = "cleanup" /\ dir' = dir /\ tmp' = tmp /\ missed' = missed
        /\ \A f \in tmp[r] : ~Taken(f)
    BY <1>7 DEF MoveEnds, TypeOK
  <2>2. \A q \in Runs \ {r} : run'[q] = run[q] /\ tmp'[q] = tmp[q]
    BY <1>7 DEF MoveEnds, TypeOK
  <2>3. transfer' = transfer /\ (\A i : FileOf(r, i)' = FileOf(r, i)) /\ (HasOwnNames(r)' => HasOwnNames(r))
    BY <2>1, NamesStay
  <2>4. Matched' => Matched
    BY <2>3 DEF Matched
  <2>5. Matched => \A i \in Indexes : FileOf(r, i) \notin tmp[r]
    BY <2>1, AllTaken
  <2>6. OnItsWay(r)'
    BY <1>1, <2>1, <2>3, <2>4, <2>5 DEF OnItsWay, Missed
  <2>7. QED
    BY <1>2, <2>1, <2>2, <2>6
<1>8. ASSUME NEW r \in Runs, Cleanup(r) PROVE FilesInv'
  <2>1. run[r].pc \in {"cleanup", "broken"} /\ dir' = dir /\ missed' = missed
        /\ run'[r].pc = IF run[r].pc = "cleanup" THEN "finished" ELSE "failed"
    BY <1>8 DEF Cleanup, TypeOK
  <2>2. \A q \in Runs \ {r} : run'[q] = run[q] /\ tmp'[q] = tmp[q]
    BY <1>8 DEF Cleanup, TypeOK
  <2>3. transfer' = transfer /\ (\A i : FileOf(r, i)' = FileOf(r, i)) /\ (HasOwnNames(r)' => HasOwnNames(r))
    BY <2>1, NamesStay
  <2>4. Matched' => Matched
    BY <2>3 DEF Matched
  <2>5. OnItsWay(r)'
    BY <1>1, <2>1, <2>3, <2>4 DEF OnItsWay, Missed
  <2>6. QED
    BY <1>2, <2>1, <2>2, <2>5
<1>9. ASSUME UNCHANGED <<run, tmp, dir, missed>> PROVE FilesInv'
  BY <1>1, <1>9, NothingArrives, OtherRun DEF FilesInv
<1>10. ASSUME NEW r \in Runs, MoveFails(r) PROVE FilesInv'
  <2>1. PICK f \in tmp[r] :
          /\ tmp' = [tmp EXCEPT ![r] = @ \ {f}]
          /\ missed' = missed \union {[run |-> r, part |-> f.part]}
    BY <1>10 DEF MoveFails
  <2>2. run' = run /\ run[r].pc = "moving" /\ dir' = dir
    BY <1>10 DEF MoveFails
  <2>3. /\ \A i : FileOf(r, i)' = FileOf(r, i)
        /\ HasOwnNames(r)' => HasOwnNames(r)
    BY <2>2, NamesStay
  <2>4. PICK k \in Indexes : f = FileOf(r, k)
    BY <1>1, <2>1, <2>2 DEF OnItsWay
  <2>5. tmp'[r] = tmp[r] \ {f} /\ \A q \in Runs \ {r} : run'[q] = run[q] /\ tmp'[q] = tmp[q]
    BY <2>1, <2>2 DEF TypeOK
  <2>6. Missed(r, k)' /\ \A i : Missed(r, i) => Missed(r, i)'
    <3>1. f.part = k
      BY <2>4 DEF FileOf
    <3>2. QED
      BY <2>1, <3>1 DEF Missed
  <2>7. OnItsWay(r)'
    <3>1. tmp'[r] \subseteq {FileOf(r, i)' : i \in Indexes}
      BY <1>1, <2>2, <2>3, <2>5 DEF OnItsWay
    <3>2. ASSUME HasOwnNames(r)', NEW i \in Indexes
          PROVE  FileOf(r, i) \in tmp'[r] \/ FileOf(r, i) \in dir \/ Missed(r, i)'
      <4>1. FileOf(r, i) \in tmp[r] \/ FileOf(r, i) \in dir \/ Missed(r, i)
        BY <1>1, <2>2, <2>3, <3>2 DEF OnItsWay
      <4>2. FileOf(r, i).part = i /\ f.part = k
        BY <2>4 DEF FileOf
      <4>3. FileOf(r, i) = f => i = k
        BY <4>2
      <4>4. QED
        BY <2>5, <2>6, <4>1, <4>3
    <3>3. QED
      BY <2>2, <2>3, <3>1, <3>2 DEF OnItsWay
  <2>8. QED
    BY <1>2, <2>2, <2>5, <2>7
<1>11. QED
  BY <1>3, <1>4, <1>5, <1>6, <1>7, <1>8, <1>9, <1>10 DEF Next, Perform, create_transfer, Tick, vars

\* Every part of a finished run has arrived, except for those that the store
\* failed to take, if their names are its own and the mover finds them, for any
\* number of overlapping runs, parts and failures.
THEOREM FinishedIsDeliveredHolds == Spec => []FinishedIsDelivered
<1>1. Init => FilesInv
  BY DEF Init, FilesInv, InDir, OnItsWay
<1>2. TypeOK /\ FilesInv /\ [Next]_vars => FilesInv'
  BY FilesStep
<1>3. FilesInv => FinishedIsDelivered
  <2> SUFFICES ASSUME FilesInv, NEW r \in Runs, run[r].pc = "finished", HasOwnNames(r),
                      transfer.target \in RemoteTypes => transfer.template.dotted, NEW i \in Indexes
               PROVE  (\E f \in dir : f.run = r /\ f.part = i) \/ [run |-> r, part |-> i] \in missed
    BY DEF FinishedIsDelivered
  <2>1. FileOf(r, i) \in dir \/ Missed(r, i)
    BY DEF FilesInv, OnItsWay, Matched
  <2>2. FileOf(r, i).run = r /\ FileOf(r, i).part = i
    BY DEF FileOf
  <2>3. QED
    BY <2>1, <2>2 DEF Missed
<1>4. QED
  BY <1>1, <1>2, <1>3, Types, PTL DEF Spec

-----------------------------------------------------------------------------
(* Transformations.                                                        *)

\* The operators of all databases.
LEMMA DBOperatorIs ==
  /\ DOMAIN DBOperators = RowsFilter \ {"regexp"}
  /\ DBOperators["like"] = "LIKE" /\ DBOperators["ilike"] = "ILIKE"
  /\ DBOperators["not_like"] = "NOT LIKE" /\ DBOperators["not_ilike"] = "NOT ILIKE"
  /\ \A f \in RowsFilter \ {"like", "ilike", "not_like", "not_ilike", "regexp"} :
       DBOperators[f] \in {"IS NULL", "IS NOT NULL", "=", "!=", ">", ">=", "<", "<="}
<1>1. DOMAIN DBOperators = RowsFilter \ {"regexp"}
  BY DEF DBOperators, RowsFilter
<1>2. DBOperators["like"] = "LIKE" /\ DBOperators["ilike"] = "ILIKE"
      /\ DBOperators["not_like"] = "NOT LIKE" /\ DBOperators["not_ilike"] = "NOT ILIKE"
  BY DEF DBOperators
<1>3. /\ DBOperators["is_null"] = "IS NULL" /\ DBOperators["is_not_null"] = "IS NOT NULL"
      /\ DBOperators["equal"] = "=" /\ DBOperators["not_equal"] = "!="
      /\ DBOperators["greater_than"] = ">" /\ DBOperators["greater_or_equal"] = ">="
      /\ DBOperators["less_than"] = "<" /\ DBOperators["less_or_equal"] = "<="
  BY DEF DBOperators
<1>4. QED
  BY <1>1, <1>2, <1>3 DEF RowsFilter

\* A handler has them, and one of its own for regexp.
LEMMA OperatorIs ==
  ASSUME NEW x, NEW f \in RowsFilter
  PROVE  Operators(x)[f] = IF f = "regexp" THEN x ELSE DBOperators[f]
  BY DBOperatorIs DEF Operators

\* An expression means what the filter's name asks for, if its operator and the
\* change of letters to lower case are those of the name.
Fits(e, f) ==
  /\ f = "regexp" => e.op \in {"REGEXP", "~", "RLIKE", "REGEXP_LIKE"} /\ ~e.lower
  /\ f \in {"like", "not_like"} => e.op = DBOperators[f] /\ ~e.lower
  /\ f = "ilike" => (e.op = "ILIKE" /\ ~e.lower) \/ (e.op = "LIKE" /\ e.lower)
  /\ f = "not_ilike" => (e.op = "NOT ILIKE" /\ ~e.lower) \/ (e.op = "NOT LIKE" /\ e.lower)
  /\ f \notin {"like", "ilike", "not_like", "not_ilike", "regexp"} =>
       e.op = DBOperators[f] /\ ~e.lower

\* Such an expression has the meaning that is asked for.
LEMMA FitsMeans ==
  ASSUME NEW e, NEW f \in RowsFilter, Fits(e, f)
  PROVE  Meaning(e) = Asked(f)
<1> DEFINE test == CASE e.op \in {"LIKE", "NOT LIKE", "ILIKE", "NOT ILIKE"} -> "pattern"
                     [] e.op \in {"REGEXP", "~", "RLIKE", "REGEXP_LIKE"} -> "regexp"
                     [] OTHER -> e.op
           negated == e.op \in {"NOT LIKE", "NOT ILIKE"}
           anyCase == e.lower \/ e.op \in {"ILIKE", "NOT ILIKE"}
           askedTest == CASE f \in {"like", "ilike", "not_like", "not_ilike"} -> "pattern"
                          [] f = "regexp" -> "regexp"
                          [] OTHER -> DBOperators[f]
           askedNegated == f \in {"not_like", "not_ilike"}
           askedAnyCase == f \in {"ilike", "not_ilike"}
<1>1. test = askedTest
  BY DBOperatorIs DEF Fits
<1>2. (negated <=> askedNegated) /\ (anyCase <=> askedAnyCase)
  BY DBOperatorIs DEF Fits
<1>3. negated \in BOOLEAN /\ askedNegated \in BOOLEAN /\ anyCase \in BOOLEAN /\ askedAnyCase \in BOOLEAN
  OBVIOUS
<1>4. Meaning(e) = [test |-> test, negated |-> negated, anyCase |-> anyCase]
  BY DEF Meaning
<1>5. Asked(f) = [test |-> askedTest, negated |-> askedNegated, anyCase |-> askedAnyCase]
  BY DEF Asked
<1> HIDE DEF test, negated, anyCase, askedTest, askedNegated, askedAnyCase
<1>6. negated = askedNegated /\ anyCase = askedAnyCase
  BY <1>2, <1>3
<1>7. QED
  BY <1>1, <1>4, <1>5, <1>6

\* Each handler's expression for a filter fits the filter's name, except for
\* regexp on mssql.
LEMMA ExpressionFits ==
  ASSUME NEW type \in ConnectionType, NEW f \in RowsFilter, ~(type = "mssql" /\ f = "regexp")
  PROVE  Fits(_make_rows_filter_expression(type, f), f)
<1>1. ASSUME NEW x \in {"REGEXP", "~", "RLIKE"} PROVE Fits(Plain(Operators(x)[f]), f)
  <2>1. PICK op : op = Operators(x)[f] /\ op = IF f = "regexp" THEN x ELSE DBOperators[f]
    BY OperatorIs
  <2>2. Plain(op).op = op /\ Plain(op).lower = FALSE
    BY DEF Plain
  <2>3. Fits(Plain(op), f)
    BY <1>1, <2>1, <2>2, DBOperatorIs DEF Fits
  <2>4. QED
    BY <2>1, <2>3
<1>2. ASSUME NEW x, x \in {"RLIKE", "REGEXP_LIKE"} \/ f # "regexp" PROVE Fits(Lowered(Operators(x)[f]), f)
  <2>1. PICK op : op = Operators(x)[f] /\ op = IF f = "regexp" THEN x ELSE DBOperators[f]
    BY OperatorIs
  <2>2. ASSUME op \notin {"ILIKE", "NOT ILIKE"} PROVE Lowered(op).op = op /\ Lowered(op).lower = FALSE
    BY <2>2 DEF Lowered, Plain
  <2>3. /\ Lowered("ILIKE").op = "LIKE" /\ Lowered("ILIKE").lower
        /\ Lowered("NOT ILIKE").op = "NOT LIKE" /\ Lowered("NOT ILIKE").lower
    BY DEF Lowered
  <2>4. Fits(Lowered(op), f)
    BY <1>2, <2>1, <2>2, <2>3, DBOperatorIs DEF Fits
  <2>5. QED
    BY <2>1, <2>4
<1> HIDE DEF Fits
<1>3. CASE type \in {"clickhouse", "postgres"}
  BY <1>1, <1>3 DEF _make_rows_filter_expression, ClickhouseFilter, PostgresFilter, FileTypes
<1>4. CASE type \in {"hive", "iceberg", "mysql", "mssql", "oracle"}
  BY <1>2, <1>4 DEF _make_rows_filter_expression, HiveFilter, IcebergFilter, MySQLFilter, MSSQLFilter,
                    OracleFilter, FileTypes
<1>5. CASE type \in FileTypes
  BY <1>1, <1>5 DEF _make_rows_filter_expression, FileFilter, FileOperators, FileTypes
<1>6. QED
  BY <1>3, <1>4, <1>5 DEF ConnectionType, DBTypes

\* The least element of a set of numbers.
LEMMA Least ==
  ASSUME NEW S, S \subseteq Nat, S # {}
  PROVE  \E i \in S : \A j \in S : i <= j
<1> DEFINE R == {ss \in Nat \X Nat : ss[1] < ss[2]}
<1>1. IsWellFoundedOn(R, Nat)
  BY NatLessThanWellFounded, Zenon DEF OpToRel
<1>2. PICK i \in S : \A j \in S : ~(<<j, i>> \in R)
  BY <1>1, WFMin
<1>3. \A j \in S : <<j, i>> \in Nat \X Nat /\ <<j, i>>[1] = j /\ <<j, i>>[2] = i
  OBVIOUS
<1>4. \A j \in S : ~(j < i)
  BY <1>2, <1>3
<1>5. QED
  BY <1>4

\* The SQL query that is applied is one of the list.
LEMMA QueryIsAsked ==
  ASSUME NEW t \in Transfers, SqlPositions(t.transformations) # {}
  PROVE  \E i \in SqlPositions(t.transformations) :
           _get_sql_query(t.transformations) = t.transformations[i].query
<1> DEFINE S == SqlPositions(t.transformations)
<1>1. DOMAIN t.transformations = 1 .. Len(t.transformations)
  BY TransfersAssumption
<1>2. S \subseteq Nat
  BY <1>1 DEF SqlPositions
<1>3. \E i \in S : \A j \in S : i <= j
  BY <1>2, Least
<1>4. (CHOOSE i \in S : \A j \in S : i <= j) \in S
  BY <1>3
<1>5. QED
  BY <1>4 DEF _get_sql_query

\* A read that does not fail has applied what the transfer asks for.
LEMMA ReadIsAsked ==
  ASSUME NEW t \in Transfers, CreateTransferSchema(t),
         ~read(t.source, t.transformations, Columns).failed
  PROVE  LET ts == t.transformations
             asked == {f.type : f \in FiltersOf(ts, "dataframe_rows_filter")}
             done == read(t.source, ts, Columns)
         IN  /\ \A f \in asked : Asked(f) \in done.rows \/ (t.source = "mssql" /\ f = "regexp")
             /\ SqlPositions(ts) # {} =>
                  \E i \in SqlPositions(ts) : ts[i].query \in done.queries
             /\ t.source \in LocalTypes => done.files = FiltersOf(ts, "file_metadata_filter")
<1> DEFINE ts == t.transformations
           done == read(t.source, ts, Columns)
<1>1. t.source \in ConnectionType
  BY TransfersAssumption
<1>2. PICK files : /\ done = Applied(t.source, ts, files)
                   /\ t.source \in LocalTypes => files = FiltersOf(ts, "file_metadata_filter")
  <2>1. Failed.failed
    BY DEF Failed
  <2>2. done # Failed
    BY <2>1
  <2>3. CASE t.source \in LocalTypes
    <3>1. done = LocalRead(t.source, ts, Columns)
      BY <2>3 DEF read, LocalTypes, RemoteTypes, DBTypes
    <3>2. QED
      BY <2>2, <3>1 DEF LocalRead, _get_file_metadata_filters
  <2>4. CASE t.source \in RemoteTypes
    <3>1. done = RemoteRead(t.source, ts, Columns) /\ t.source \notin LocalTypes
      BY <2>4 DEF read, LocalTypes, RemoteTypes, DBTypes
    <3>2. QED
      BY <2>2, <3>1 DEF RemoteRead
  <2>5. CASE t.source \in DBTypes
    <3>1. done = DBRead(t.source, ts, Columns) /\ t.source \notin LocalTypes
      BY <2>5 DEF read, LocalTypes, RemoteTypes, DBTypes
    <3>2. QED
      BY <2>2, <3>1 DEF DBRead
  <2>6. QED
    BY <1>1, <2>3, <2>4, <2>5 DEF ConnectionType, FileTypes, LocalTypes, RemoteTypes
<1>3. /\ done.rows = {Meaning(_make_rows_filter_expression(t.source, f.type)) :
                        f \in FiltersOf(ts, "dataframe_rows_filter")}
      /\ done.files = files
      /\ done.queries = IF SqlPositions(ts) = {} THEN {} ELSE {_get_sql_query(ts)}
  BY <1>2 DEF Applied
<1>4. ASSUME NEW f \in FiltersOf(ts, "dataframe_rows_filter")
      PROVE  f.type \in RowsFilter
  <2>1. PICK i \in DOMAIN ts : ts[i].type = "dataframe_rows_filter" /\ f \in ts[i].filters
    BY <1>4 DEF FiltersOf
  <2>2. TransformationSchema(ts[i])
    BY <2>1 DEF CreateTransferSchema
  <2>3. \A g \in ts[i].filters : g.type \in RowsFilter
    BY <2>1, <2>2 DEF TransformationSchema
  <2>4. QED
    BY <2>1, <2>3
<1>5. ASSUME NEW f \in FiltersOf(ts, "dataframe_rows_filter")
      PROVE  Asked(f.type) \in done.rows \/ (t.source = "mssql" /\ f.type = "regexp")
  <2> SUFFICES ASSUME ~(t.source = "mssql" /\ f.type = "regexp")
               PROVE  Asked(f.type) \in done.rows
    OBVIOUS
  <2>1. PICK op \in RowsFilter : op = f.type
    BY <1>4, <1>5
  <2>2. Fits(_make_rows_filter_expression(t.source, op), op)
    BY <1>1, <2>1, ExpressionFits
  <2>3. Meaning(_make_rows_filter_expression(t.source, op)) = Asked(op)
    BY <2>2, FitsMeans
  <2>4. QED
    BY <1>3, <1>5, <2>1, <2>3
<1>6. SqlPositions(ts) # {} => \E i \in SqlPositions(ts) : ts[i].query \in done.queries
  BY <1>3, QueryIsAsked
<1>7. QED
  BY <1>2, <1>3, <1>5, <1>6

\* A run that has read had the store it needs, and holds what the read of its
\* transfer yielded.
ResultInv ==
  \A r \in Runs : run[r].pc \in {"read", "written", "moving", "cleanup", "finished"} =>
    /\ transfer \in Transfers /\ CreateTransferSchema(transfer)
    /\ run[r].result = read(transfer.source, transfer.transformations, Columns)
    /\ ~run[r].result.failed
    /\ HasStore

\* The result is not touched after it was read, except by a failure.
LEMMA ResultStep ==
  ASSUME TypeOK, ResultInv, [Next]_vars
  PROVE  ResultInv'
<1>1. \A r \in Runs : run[r].pc # "none" => transfer \in Transfers /\ CreateTransferSchema(transfer)
  BY DEF TypeOK
<1>2. ASSUME NEW t \in Transfers, create_transfer(t) PROVE ResultInv'
  BY <1>2 DEF create_transfer, TypeOK, ResultInv
<1>3. ASSUME NEW r \in Runs, Read(r) PROVE ResultInv'
  <2> DEFINE result == read(transfer.source, transfer.transformations, Columns)
  <2>1. run' = [run EXCEPT ![r].result = result, ![r].pc = IF result.failed THEN "broken" ELSE "read"]
        /\ transfer' = transfer /\ run[r].pc = "created" /\ HasStore /\ hwmStore' = hwmStore
    BY <1>3 DEF Read
  <2> HIDE DEF result
  <2>2. run'[r].result = result /\ (run'[r].pc # "broken" => ~result.failed)
    BY <2>1 DEF TypeOK
  <2>3. \A q \in Runs \ {r} : run'[q] = run[q]
    BY <2>1 DEF TypeOK
  <2>4. QED
    BY <1>1, <2>1, <2>2, <2>3 DEF ResultInv, HasStore, result
<1>4. ASSUME NEW r \in Runs, start_run(r) \/ _get_hwm_store_fails(r) \/ ReadNothing(r) \/ Fault(r) \/ Kill(r)
      PROVE  ResultInv'
  <2>1. run'[r].pc \in {"created", "broken", "killed"} /\ transfer' = transfer /\ hwmStore' = hwmStore
    BY <1>4 DEF start_run, _get_hwm_store_fails, ReadNothing, Fault, Kill, TypeOK
  <2>2. \A q \in Runs \ {r} : run'[q] = run[q]
    BY <1>4 DEF start_run, _get_hwm_store_fails, ReadNothing, Fault, Kill, TypeOK
  <2>3. QED
    BY <2>1, <2>2 DEF ResultInv, HasStore
<1>5. ASSUME NEW r \in Runs, Write(r) \/ _rename_files(r) \/ MoveEnds(r) \/ Cleanup(r) PROVE ResultInv'
  <2>1. run'[r].result = run[r].result /\ transfer' = transfer /\ hwmStore' = hwmStore
    BY <1>5 DEF Write, _rename_files, MoveEnds, Cleanup, TypeOK
  <2>2. \A q \in Runs \ {r} : run'[q] = run[q]
    BY <1>5 DEF Write, _rename_files, MoveEnds, Cleanup, TypeOK
  <2>3. run[r].pc \in {"read", "written", "moving", "cleanup"} \/ run'[r].pc = "failed"
    BY <1>5 DEF Write, _rename_files, MoveEnds, Cleanup, TypeOK
  <2>4. QED
    BY <2>1, <2>2, <2>3 DEF ResultInv, HasStore
<1>6. ASSUME UNCHANGED <<transfer, run, hwmStore>> PROVE ResultInv'
  BY <1>6 DEF ResultInv, HasStore
<1>7. QED
  BY <1>2, <1>3, <1>4, <1>5, <1>6 DEF Next, Perform, Tick, Move, MoveFails, vars

\* A finished run applied the row filters, a SQL query and the file filters that
\* its transfer asks for, for any transfer that the schemas accept.
THEOREM FinishedIsTransformedHolds == Spec => []FinishedIsTransformed
<1>1. Init => ResultInv
  BY DEF Init, ResultInv
<1>2. TypeOK /\ ResultInv /\ [Next]_vars => ResultInv'
  BY ResultStep
<1>3. ResultInv => FinishedIsTransformed
  <2> SUFFICES ASSUME ResultInv, NEW r \in Runs, run[r].pc = "finished"
               PROVE  LET ts == transfer.transformations
                          asked == {f.type : f \in FiltersOf(ts, "dataframe_rows_filter")}
                          done == run[r].result
                      IN  /\ \A f \in asked : Asked(f) \in done.rows \/ (transfer.source = "mssql" /\ f = "regexp")
                          /\ SqlPositions(ts) # {} =>
                               \E i \in SqlPositions(ts) : ts[i].query \in done.queries
                          /\ transfer.source \in LocalTypes => done.files = FiltersOf(ts, "file_metadata_filter")
    BY DEF FinishedIsTransformed
  <2>1. /\ transfer \in Transfers /\ CreateTransferSchema(transfer)
        /\ run[r].result = read(transfer.source, transfer.transformations, Columns)
        /\ ~run[r].result.failed
    BY DEF ResultInv
  <2>2. PICK t \in Transfers : t = transfer
    BY <2>1
  <2>3. QED
    BY <2>1, <2>2, ReadIsAsked
<1>4. QED
  BY <1>1, <1>2, <1>3, Types, PTL DEF Spec

-----------------------------------------------------------------------------
(* Which runs fail.                                                        *)

\* A run of a runnable transfer fails or is killed only after a fault or if its
\* read found no file, and only a runnable transfer has runs that finish.
FailsWithCause ==
  /\ faults \in Nat
  /\ \A r \in Runs :
       /\ Runnable /\ run[r].pc \in {"broken", "failed", "killed"} =>
            faults > 0 \/ run[r].result = NothingFound
       /\ run[r].pc = "finished" => Runnable

\* A source where something is found can be read exactly when the transfer is
\* runnable.
LEMMA ReadsRunnable ==
  ASSUME NEW t \in Transfers, t = transfer, t # None, HasStore
  PROVE  read(t.source, t.transformations, Columns).failed <=> ~Runnable
<1>1. PICK ts : ts = t.transformations
  OBVIOUS
<1>2. t.source \in LocalTypes \cup RemoteTypes \cup DBTypes
  BY TransfersAssumption DEF ConnectionType, FileTypes, LocalTypes, RemoteTypes
<1>3. LocalTypes \cap (RemoteTypes \cup DBTypes) = {} /\ RemoteTypes \cap DBTypes = {}
  BY DEF LocalTypes, RemoteTypes, DBTypes
<1>4. \A files : ~Applied(t.source, ts, files).failed
  BY DEF Applied
<1>5. Failed.failed
  BY DEF Failed
<1>6. Runnable <=> ~Unresolved(ts, Columns) /\ (t.source \in LocalTypes => SqlPositions(ts) = {})
  BY <1>1 DEF Runnable
<1>7. CASE t.source \in LocalTypes
  <2>1. read(t.source, ts, Columns) = LocalRead(t.source, ts, Columns)
    BY <1>3, <1>7 DEF read
  <2>2. QED
    BY <1>1, <1>4, <1>5, <1>6, <1>7, <2>1 DEF LocalRead
<1>8. CASE t.source \in RemoteTypes
  <2>1. read(t.source, ts, Columns) = RemoteRead(t.source, ts, Columns) /\ t.source \notin LocalTypes
    BY <1>3, <1>8 DEF read
  <2>2. QED
    BY <1>1, <1>4, <1>5, <1>6, <2>1 DEF RemoteRead
<1>9. CASE t.source \in DBTypes
  <2>1. read(t.source, ts, Columns) = DBRead(t.source, ts, Columns) /\ t.source \notin LocalTypes
    BY <1>3, <1>9 DEF read
  <2>2. QED
    BY <1>1, <1>4, <1>5, <1>6, <2>1 DEF DBRead
<1>10. QED
  BY <1>2, <1>7, <1>8, <1>9

\* Every step keeps it so.
LEMMA CauseStep ==
  ASSUME TypeOK, ResultInv, FailsWithCause, [Next]_vars
  PROVE  FailsWithCause'
<1>1. ASSUME UNCHANGED <<transfer, run, hwmStore>>, faults' \in Nat, faults' >= faults PROVE FailsWithCause'
  <2>1. Runnable' <=> Runnable
    BY <1>1 DEF Runnable, HasStore
  <2>2. QED
    BY <1>1, <2>1 DEF FailsWithCause
<1>2. ASSUME NEW t \in Transfers, create_transfer(t) PROVE FailsWithCause'
  <2>1. \A r \in Runs : run'[r].pc = "none"
    BY <1>2 DEF create_transfer, TypeOK
  <2>2. QED
    BY <1>2, <2>1 DEF create_transfer, FailsWithCause
<1>3. ASSUME NEW r \in Runs, transfer' = transfer, hwmStore' = hwmStore, faults' \in Nat, faults' >= faults,
             \A q \in Runs \ {r} : run'[q] = run[q],
             Runnable /\ run'[r].pc \in {"broken", "failed", "killed"} =>
               faults' > 0 \/ run'[r].result = NothingFound,
             run'[r].pc = "finished" => Runnable
      PROVE  FailsWithCause'
  <2>1. Runnable' <=> Runnable
    BY <1>3 DEF Runnable, HasStore
  <2>2. QED
    BY <1>3, <2>1 DEF FailsWithCause
<1>4. ASSUME NEW r \in Runs, Read(r) PROVE FailsWithCause'
  <2>1. PICK t \in Transfers : t = transfer /\ t # None
    BY <1>4 DEF Read, TypeOK
  <2>2. PICK result : result = read(t.source, t.transformations, Columns)
    OBVIOUS
  <2>3. result.failed <=> ~Runnable
    BY <1>4, <2>1, <2>2, ReadsRunnable DEF Read
  <2>4. run' = [run EXCEPT ![r].result = result, ![r].pc = IF result.failed THEN "broken" ELSE "read"]
        /\ transfer' = transfer /\ hwmStore' = hwmStore /\ faults' = faults
    BY <1>4, <2>1, <2>2 DEF Read
  <2>5. run'[r].pc = (IF result.failed THEN "broken" ELSE "read") /\ \A q \in Runs \ {r} : run'[q] = run[q]
    BY <2>4 DEF TypeOK
  <2>6. /\ run'[r].pc \in {"broken", "read"} /\ (run'[r].pc = "broken" => result.failed)
        /\ faults' \in Nat /\ faults' >= faults
    BY <2>4, <2>5 DEF FailsWithCause
  <2>7. Runnable => run'[r].pc = "read"
    BY <2>3, <2>6
  <2>8. QED
    BY <1>3, <2>4, <2>5, <2>6, <2>7
<1>5. ASSUME NEW r \in Runs, Fault(r) \/ Kill(r) PROVE FailsWithCause'
  <2>1. transfer' = transfer /\ hwmStore' = hwmStore /\ faults' = faults + 1 /\ run'[r].pc \in {"broken", "killed"}
        /\ \A q \in Runs \ {r} : run'[q] = run[q]
    BY <1>5 DEF Fault, Kill, TypeOK
  <2>2. faults' \in Nat /\ faults' >= faults /\ faults' > 0
    BY <2>1 DEF FailsWithCause
  <2>3. QED
    BY <1>3, <2>1, <2>2
<1>6. ASSUME NEW r \in Runs, start_run(r) \/ Write(r) \/ _rename_files(r) \/ MoveEnds(r) PROVE FailsWithCause'
  <2>1. transfer' = transfer /\ hwmStore' = hwmStore /\ faults' = faults
    BY <1>6 DEF start_run, Write, _rename_files, MoveEnds
  <2>2. run'[r].pc \in {"created", "written", "moving", "cleanup"} /\ \A q \in Runs \ {r} : run'[q] = run[q]
    BY <1>6 DEF start_run, Write, _rename_files, MoveEnds, TypeOK
  <2>3. QED
    BY <1>3, <2>1, <2>2 DEF FailsWithCause
<1>7. ASSUME NEW r \in Runs, Cleanup(r) PROVE FailsWithCause'
  <2>1. transfer' = transfer /\ hwmStore' = hwmStore /\ faults' = faults /\ run[r].pc \in {"cleanup", "broken"}
    BY <1>7 DEF Cleanup
  <2>2. run'[r].pc = (IF run[r].pc = "cleanup" THEN "finished" ELSE "failed")
        /\ run'[r].result = run[r].result
        /\ \A q \in Runs \ {r} : run'[q] = run[q]
    BY <1>7 DEF Cleanup, TypeOK
  <2>3. ASSUME run[r].pc = "cleanup" PROVE Runnable
    <3>1. PICK t \in Transfers : t = transfer /\ t # None
      BY <2>3 DEF TypeOK
    <3>2. ~read(t.source, t.transformations, Columns).failed /\ HasStore
      BY <2>3, <3>1 DEF ResultInv
    <3>3. QED
      BY <3>1, <3>2, ReadsRunnable
  <2>4. Runnable /\ run[r].pc = "broken" => faults > 0 \/ run[r].result = NothingFound
    BY DEF FailsWithCause
  <2>5. QED
    BY <1>3, <2>1, <2>2, <2>3, <2>4 DEF FailsWithCause
<1>8. ASSUME NEW r \in Runs, _get_hwm_store_fails(r) \/ ReadNothing(r) PROVE FailsWithCause'
  <2>1. transfer' = transfer /\ hwmStore' = hwmStore /\ faults' = faults
    BY <1>8 DEF _get_hwm_store_fails, ReadNothing
  <2>2. run'[r].pc = "broken" /\ \A q \in Runs \ {r} : run'[q] = run[q]
    BY <1>8 DEF _get_hwm_store_fails, ReadNothing, TypeOK
  <2>3. Runnable => run'[r].result = NothingFound
    BY <1>8 DEF _get_hwm_store_fails, ReadNothing, Runnable, TypeOK
  <2>4. QED
    BY <1>3, <2>1, <2>2, <2>3 DEF FailsWithCause
<1>9. ASSUME Tick \/ (UNCHANGED vars) \/ \E r \in Runs : Move(r) \/ MoveFails(r) PROVE FailsWithCause'
  <2>1. UNCHANGED <<transfer, run, hwmStore>> /\ (faults' = faults \/ faults' = faults + 1)
    BY <1>9 DEF Tick, Move, MoveFails, vars
  <2>2. faults' \in Nat /\ faults' >= faults
    BY <2>1 DEF FailsWithCause
  <2>3. QED
    BY <1>1, <2>1, <2>2
<1>10. QED
  BY <1>2, <1>4, <1>5, <1>6, <1>7, <1>8, <1>9 DEF Next, Perform

\* A transfer that the schemas accept fails only for a reason: its transformations
\* cannot be applied to the source, it is incremental and there is no HWM store, no
\* file was found, or a store failed or a worker was killed.
\* That the run ends at all is AcceptedRunsFinish.
THEOREM FailsWithCauseHolds == Spec => []FailsWithCause
<1>1. Init => ResultInv /\ FailsWithCause
  BY DEF Init, ResultInv, FailsWithCause
<1>2. TypeOK /\ ResultInv /\ [Next]_vars => ResultInv'
  BY ResultStep
<1>3. TypeOK /\ ResultInv /\ FailsWithCause /\ [Next]_vars => FailsWithCause'
  BY CauseStep
<1>4. QED
  BY <1>1, <1>2, <1>3, Types, PTL DEF Spec
=============================================================================
