--------------------------- MODULE InnerBatchProofs ---------------------------
(***************************************************************************)
(* Proofs about InnerBatch and the source record it works under: the copy  *)
(* and its manifest, for any files and any number of edits; and the rows   *)
(* and result files of a batch, for any tasks, scores and evaluators.      *)
(***************************************************************************)
EXTENDS InnerBatch, TLAPS

ProvenanceSpec == ProvenanceInit /\ [][ProvenanceNext]_provenanceVars

-------------------------------------------------------------------------------
(* What a running command has established: it began without a manifest,    *)
(* what it is about to publish is whole, and what it is about to record    *)
(* is in place unless somebody edited it there.                            *)
SnapInv ==
  snap # None =>
    /\ manifest = None
    /\ snap = [at |-> snap.at, rows |-> snap.rows, staged |-> snap.staged]
    /\ snap.at \in {"compare", "staging", "publish", "manifest"} => Whole(snap.rows)
    /\ snap.at = "publish" => Whole(snap.staged)
    /\ snap.at = "manifest" => copy = snap.rows \/ patched

RepoInv == repo = [f \in Files |-> repo[f]] /\ patched \in BOOLEAN

SnapshotInv == RepoInv /\ SnapInv /\ SnapshotIsWhole

(* Reading or staging one more file adds it and no other.                  *)
LEMMA WithDomain ==
  ASSUME NEW x, NEW f, NEW v
  PROVE  DOMAIN With(x, f, v) = DOMAIN x \cup {f}
  BY DEF With

(* Nothing is copied or recorded at first.                                 *)
LEMMA SnapshotInit == ProvenanceInit => SnapshotInv
  BY DEF ProvenanceInit, SnapshotInv, RepoInv, SnapInv, SnapshotIsWhole

(* Every edit, every step of the command and its death preserve it.        *)
LEMMA SnapshotNext == SnapshotInv /\ [ProvenanceNext]_provenanceVars => SnapshotInv'
<1> SUFFICES ASSUME SnapshotInv, [ProvenanceNext]_provenanceVars PROVE SnapshotInv'
  OBVIOUS
<1> USE DEF SnapshotInv, RepoInv, SnapInv, SnapshotIsWhole, Whole, SnapAt
<1>1. ASSUME NEW f \in Files, EditRepo(f) PROVE SnapshotInv'
  BY <1>1 DEF EditRepo
<1>2. ASSUME NEW f \in Files, HotPatch(f) PROVE SnapshotInv'
  BY <1>2 DEF HotPatch
<1>3. ASSUME NEW f \in Files, ReadFile(f) PROVE SnapshotInv'
  BY <1>3, WithDomain DEF ReadFile
<1>4. ASSUME NEW f \in Files, StageFile(f) PROVE SnapshotInv'
  BY <1>4, WithDomain DEF StageFile
<1>5. CASE StartSnapshot
  BY <1>5 DEF StartSnapshot
<1>6. CASE CompareCopy
  BY <1>6 DEF CompareCopy
<1>7. CASE PublishCopy
  BY <1>7 DEF PublishCopy
<1>8. CASE WriteManifest
  BY <1>8 DEF WriteManifest
<1>9. CASE KillSnapshot
  BY <1>9 DEF KillSnapshot
<1>10. CASE UNCHANGED provenanceVars
  BY <1>10 DEF provenanceVars
<1> QED
  BY <1>1, <1>2, <1>3, <1>4, <1>5, <1>6, <1>7, <1>8, <1>9, <1>10 DEF ProvenanceNext

-------------------------------------------------------------------------------
(* A recorded copy that nobody patched is the copy of the record, for any  *)
(* files, whatever was edited meanwhile and wherever the command died.     *)
THEOREM SnapshotStaysWhole == ProvenanceSpec => []SnapshotIsWhole
<1>1. ProvenanceSpec => []SnapshotInv
  BY SnapshotInit, SnapshotNext, PTL DEF ProvenanceSpec
<1>2. SnapshotInv => SnapshotIsWhole
  BY DEF SnapshotInv
<1> QED
  BY <1>1, <1>2, PTL

-------------------------------------------------------------------------------
(* What a read says is a score, a validity and an error, and one that is   *)
(* valid broke no rule.                                                    *)
Outs == [score : Nat, validity : {0, 1}, error : {None, "empty", "text"}]

(* The facts about the constants that the steps use.                       *)
LEMMA Given ==
  /\ Scores \subseteq Nat /\ EvalRepeats \in {1, 2} /\ 0 # None /\ "text" # None
  /\ Tasks \in Seq(TaskSet) /\ \A i, j \in DOMAIN Tasks : Tasks[i] = Tasks[j] => i = j
  BY BatchAssumption, TasksAssumption

(* Whatever the evaluator of a task returned, the worker and the parent of *)
(* it leave three fields, and what they leave as valid broke no rule.      *)
LEMMA OutIsSound ==
  ASSUME NEW t, NEW r \in Returned
  PROVE  /\ EvaluateProgram(t, r) \in Outs
         /\ Valid(EvaluateProgram(t, r)) => Lawful(t, r)
<1> USE Given DEF Outs, Valid, Lawful, Failed
<1>1. CASE r.end # "returns"
  <2>1. r.end \in Ends_ /\ r.error = None
    BY <1>1 DEF Returned, Ends_
  <2> QED
    BY <2>1 DEF EvaluateProgram, WorkerResult, SemanticGuard, EvaluateTxn, Normalize, Ends_
<1>2. CASE r.end = "returns"
  <2>1. /\ r.score \in Nat /\ r.validity \in {0, 1, None} /\ r.breaks \in BOOLEAN
        /\ r.error \in {None, "empty", "text"}
    BY <1>2 DEF Returned, Ends_
  <2>2. EvaluateProgram(t, r) =
          SemanticGuard(t, r, IF t \in TxnTasks THEN EvaluateTxn(r) ELSE Normalize(r))
    BY <1>2 DEF EvaluateProgram, WorkerResult
  <2>3. CASE t \in TxnTasks
    BY <2>1, <2>2, <2>3, <1>2, BatchAssumption DEF SemanticGuard, EvaluateTxn
  <2>4. CASE t \notin TxnTasks
    BY <2>1, <2>2, <2>4, <1>2 DEF SemanticGuard, Normalize
  <2> QED
    BY <2>3, <2>4
<1> QED
  BY <1>1, <1>2

(* The same of the reads of a task.                                        *)
LEMMA ReadIsSound ==
  ASSUME NEW t \in TaskSet, NEW a \in Reads[t]
  PROVE  a.out \in Outs /\ (Valid(a.out) => a.lawful)
  BY OutIsSound DEF Reads

(* A mean that is valid is of valid reads.                                 *)
LEMMA RepeatedIsSound ==
  ASSUME NEW x \in Outs, NEW y \in Outs
  PROVE  /\ Repeated(x, y) \in Outs
         /\ Valid(Repeated(x, y)) =>
              Valid(x) /\ (EvalRepeats = 2 /\ y.error = None => Valid(y))
  BY Given DEF Outs, Repeated, Valid

(* A task's session: it is the next task's, and until an evaluation is     *)
(* valid its best program is the one it began with and nothing is earned;  *)
(* from then on the best program has earned the score on record.           *)
Earns(s, inherited) ==
  /\ DOMAIN s = {"program", "best", "valid", "earned", "bestProgram", "evals", "edits",
                 "package"}
  /\ s.best \in Nat /\ s.valid \in BOOLEAN /\ s.evals \in Nat
  /\ s.evals = 0 => ~s.valid
  /\ s.valid => [program |-> s.bestProgram.lines, score |-> s.best] \in s.earned
  /\ ~s.valid => s.bestProgram = inherited /\ s.earned = {}

SessionInv ==
  session # NoSession =>
    /\ phase = "running" /\ mode = "agent" /\ Left
    /\ Earns(session, Inherited(NextTask)) /\ session.evals > 0

(* The process: it has no rows between rounds, a summary only at its end   *)
(* and then of all tasks, and a result file of every task that ended.      *)
Stops == {"seed_only", "error", "completed", "harness_error", "h2_package_mutated",
          "trajectory_missing"}
Rows == [stop : Stops, best : Nat \cup {None}, ok : BOOLEAN]

ProcessInv ==
  /\ rows \in Seq(Rows) /\ Len(rows) <= Len(Tasks)
  /\ phase = "idle" => rows = <<>>
  /\ phase \in {"idle", "running", "crashed"} => summary = NoSummary
  /\ summary # NoSummary => summary = rows /\ Len(rows) = Len(Tasks)
  /\ \A i \in DOMAIN rows : Tasks[i] \in DOMAIN results

(* The checkpoints: of the tasks that ended and the one at work, and none  *)
(* of them says more than the task's record.                               *)
SavedInv ==
  /\ phase = "idle" => DOMAIN checkpoints = {}
  /\ phase = "running" =>
       \A t \in DOMAIN checkpoints :
         (\E i \in DOMAIN rows : t = Tasks[i]) \/ (session # NoSession /\ t = NextTask)
  /\ session # NoSession /\ NextTask \in DOMAIN checkpoints =>
       session.valid /\ checkpoints[NextTask] \in Nat /\ checkpoints[NextTask] <= session.best
  /\ \A i \in DOMAIN rows :
       Tasks[i] \in DOMAIN checkpoints /\ results[Tasks[i]].eligible =>
         checkpoints[Tasks[i]] \in Nat /\ checkpoints[Tasks[i]] <= results[Tasks[i]].best

(* What a row and its result file say.                                     *)
RowIsEarned(row, file, t) ==
  mode = "agent" =>
    /\ file.best # None =>
         \/ [program |-> file.program.lines, score |-> file.best] \in file.earned
         \/ file.program = Inherited(t) /\ file.earned = {}
    /\ row.best # None => row.stop = "completed" /\ row.ok /\ row.best = file.best

RowsInv == \A i \in DOMAIN rows : RowIsEarned(rows[i], results[Tasks[i]], Tasks[i])

BatchInv == ProcessInv /\ SessionInv /\ SavedInv /\ RowsInv

(* One more evaluation of a session.                                       *)
LEMMA ScoredEarns ==
  ASSUME NEW t \in TaskSet, NEW a \in Reads[t], NEW b \in Reads[t],
         NEW s, NEW inherited, Earns(s, inherited)
  PROVE  Earns(Scored(s, a, b), inherited) /\ Scored(s, a, b).evals > 0
<1> DEFINE out == Repeated(a.out, b.out)
           best == Valid(out) /\ (s.valid => out.score > s.best)
           clean == a.lawful /\ (EvalRepeats = 2 /\ b.out.error = None => b.lawful)
           claim == [program |-> s.program.lines, score |-> out.score]
<1>1. out \in Outs /\ (best => clean)
  BY ReadIsSound, RepeatedIsSound
<1>2. Scored(s, a, b) =
        [s EXCEPT !.best = IF best \/ s.evals = 0 THEN out.score ELSE @,
                  !.valid = @ \/ best,
                  !.bestProgram = IF best THEN s.program ELSE @,
                  !.evals = @ + 1,
                  !.earned = IF best THEN IF clean THEN {claim} ELSE {} ELSE @]
  BY DEF Scored
<1>3. out.score \in Nat /\ best \in BOOLEAN
  BY <1>1 DEF Outs
<1> HIDE DEF out, best, clean
<1>4. CASE best
  <2>1. /\ DOMAIN Scored(s, a, b) = DOMAIN s
        /\ Scored(s, a, b).best = out.score /\ Scored(s, a, b).valid = TRUE
        /\ Scored(s, a, b).bestProgram = s.program
        /\ Scored(s, a, b).evals = s.evals + 1 /\ Scored(s, a, b).earned = {claim}
    BY <1>1, <1>2, <1>4 DEF Earns
  <2> DEFINE z == Scored(s, a, b)
  <2>2. [program |-> z.bestProgram.lines, score |-> z.best] \in z.earned
    BY <2>1
  <2>3. z.best \in Nat /\ z.valid
    BY <1>3, <2>1
  <2>5. z.valid \in BOOLEAN
    BY <2>1, Zenon
  <2>6. z.evals \in Nat /\ z.evals > 0
    BY <2>1 DEF Earns
  <2>4. DOMAIN z = DOMAIN s
    BY <2>1
  <2> HIDE DEF z
  <2>7. Earns(z, inherited)
    BY <2>2, <2>3, <2>4, <2>5, <2>6 DEF Earns
  <2> QED
    BY <2>6, <2>7 DEF z
<1>5. CASE ~best
  BY <1>1, <1>2, <1>3, <1>5 DEF Earns
<1> QED
  BY <1>4, <1>5

(* What is valid stays so, and only a better score takes its place.        *)
LEMMA ScoredKeeps ==
  ASSUME NEW t \in TaskSet, NEW a \in Reads[t], NEW b \in Reads[t],
         NEW s, NEW inherited, Earns(s, inherited), s.valid
  PROVE  Scored(s, a, b).valid /\ s.best <= Scored(s, a, b).best
<1> DEFINE out == Repeated(a.out, b.out)
           best == Valid(out) /\ (s.valid => out.score > s.best)
<1>1. out.score \in Nat
  BY ReadIsSound, RepeatedIsSound DEF Outs
<1>2. {"best", "valid"} \subseteq DOMAIN s /\ s.best \in Nat /\ s.evals # 0
  BY DEF Earns
<1>3. Scored(s, a, b).best = IF best THEN out.score ELSE s.best
  BY <1>2 DEF Scored
<1>4. Scored(s, a, b).valid
  BY <1>2 DEF Scored
<1>5. best => s.best <= out.score
  BY <1>1, <1>2
<1> QED
  BY <1>2, <1>3, <1>4, <1>5

(* The next task is one of the tasks, and none that has ended.             *)
LEMMA NextIsNew ==
  ASSUME ProcessInv, Left
  PROVE  /\ NextTask \in TaskSet /\ Len(rows) + 1 \in DOMAIN Tasks
         /\ DOMAIN rows = 1 .. Len(rows) /\ Len(rows) \in Nat
         /\ \A i \in DOMAIN rows : i \in DOMAIN Tasks /\ Tasks[i] # NextTask
<1>1. rows \in Seq(Rows) /\ Len(rows) < Len(Tasks)
  BY DEF ProcessInv, Left
<1>2. Len(rows) + 1 \in DOMAIN Tasks /\ DOMAIN rows = 1 .. Len(rows) /\ Len(rows) \in Nat
  BY <1>1, Given
<1>3. \A i \in DOMAIN rows : i \in DOMAIN Tasks /\ i # Len(rows) + 1
  BY <1>1, <1>2, Given
<1> QED
  BY <1>2, <1>3, Given DEF NextTask

(* The end of a task, whichever way: the rows of the others and their      *)
(* files are as they were.                                                 *)
LEMMA EndTaskKeeps ==
  ASSUME BatchInv, phase = "running", Left, NEW row \in Rows, NEW file,
         EndTask(row, file), RowIsEarned(row, file, NextTask),
         NextTask \in DOMAIN checkpoints /\ file.eligible =>
           checkpoints[NextTask] \in Nat /\ checkpoints[NextTask] <= file.best
  PROVE  BatchInv'
<1> USE DEF BatchInv
<1>1. /\ rows' = Append(rows, row) /\ results' = With(results, NextTask, file)
      /\ session' = NoSession
      /\ UNCHANGED <<provenanceVars, round, registry, package, phase, mode, checkpoints, summary>>
  BY DEF EndTask
<1>2. rows \in Seq(Rows)
  BY DEF ProcessInv
<1>3. /\ rows' \in Seq(Rows) /\ Len(rows') = Len(rows) + 1 /\ Len(rows') <= Len(Tasks)
      /\ DOMAIN rows' = DOMAIN rows \cup {Len(rows) + 1} /\ rows'[Len(rows) + 1] = row
      /\ \A i \in DOMAIN rows : rows'[i] = rows[i]
  BY <1>1, <1>2, NextIsNew, Given DEF Left
<1>4. /\ DOMAIN results' = DOMAIN results \cup {NextTask} /\ results'[NextTask] = file
      /\ \A u \in DOMAIN results : u # NextTask => results'[u] = results[u]
  BY <1>1 DEF With
<1>5. ProcessInv'
  BY <1>1, <1>3, <1>4 DEF ProcessInv, NextTask
<1>6. SessionInv'
  BY <1>1 DEF SessionInv
<1>7. ASSUME NEW i \in DOMAIN rows
      PROVE  Tasks[i] # NextTask /\ results'[Tasks[i]] = results[Tasks[i]]
  BY <1>4, NextIsNew DEF ProcessInv
<1>8. RowsInv'
  <2>1. \A t : Inherited(t)' = Inherited(t)
    BY <1>1 DEF Inherited, Initial, Program
  <2>2. ASSUME NEW i \in DOMAIN rows'
        PROVE  RowIsEarned(rows[i], results[Tasks[i]], Tasks[i])'
    <3>1. CASE i = Len(rows) + 1
      BY <1>1, <1>3, <1>4, <2>1, <3>1 DEF RowIsEarned, NextTask
    <3>2. CASE i \in DOMAIN rows
      <4>1. RowIsEarned(rows[i], results[Tasks[i]], Tasks[i])
        BY <3>2 DEF RowsInv
      <4> QED
        BY <1>1, <1>3, <1>7, <2>1, <3>2, <4>1 DEF RowIsEarned
    <3> QED
      BY <1>3, <3>1, <3>2
  <2> QED
    BY <2>2 DEF RowsInv
<1>9. SavedInv'
  <2>1. ASSUME NEW t \in DOMAIN checkpoints PROVE \E i \in DOMAIN rows' : t = Tasks[i]
    <3>1. (\E i \in DOMAIN rows : t = Tasks[i]) \/ t = NextTask
      BY DEF SavedInv
    <3> QED
      BY <1>3, <3>1 DEF NextTask
  <2>2. ASSUME NEW i \in DOMAIN rows', Tasks[i] \in DOMAIN checkpoints,
               results'[Tasks[i]].eligible
        PROVE  /\ checkpoints[Tasks[i]] \in Nat
               /\ checkpoints[Tasks[i]] <= results'[Tasks[i]].best
    <3>1. CASE i = Len(rows) + 1
      BY <1>4, <2>2, <3>1 DEF NextTask
    <3>2. CASE i \in DOMAIN rows
      BY <1>7, <2>2, <3>2 DEF SavedInv
    <3> QED
      BY <1>3, <3>1, <3>2
  <2> QED
    BY <1>1, <2>1, <2>2 DEF SavedInv
<1> QED
  BY <1>5, <1>6, <1>8, <1>9

(* What a step does that begins or ends no task, and no round.             *)
LEMMA SameBatch ==
  ASSUME BatchInv, UNCHANGED <<registry, phase, mode, rows, results, summary>>,
         SessionInv', SavedInv'
  PROVE  BatchInv'
<1>1. \A t : Inherited(t)' = Inherited(t)
  BY DEF Inherited, Initial, Program
<1>2. ProcessInv'
  BY DEF BatchInv, ProcessInv
<1>3. RowsInv'
  BY <1>1 DEF BatchInv, RowsInv, RowIsEarned
<1> QED
  BY <1>2, <1>3 DEF BatchInv

(* And one that saves nothing, with a session that scored nothing.         *)
LEMMA SavedStays ==
  ASSUME SavedInv, UNCHANGED <<phase, rows, checkpoints, results>>,
         UNCHANGED session \/ /\ session # NoSession /\ session' # NoSession
                              /\ session'.valid = session.valid /\ session'.best = session.best
  PROVE  SavedInv'
  BY DEF SavedInv, NextTask

(* Between rounds there is nothing to say of rows, files and summary.      *)
LEMMA NoRows ==
  ASSUME rows = <<>>, session = NoSession, summary = NoSummary, DOMAIN checkpoints = {}
  PROVE  BatchInv
<1>1. Len(<<>>) = 0 /\ DOMAIN rows = {} /\ rows \in Seq(Rows) /\ Len(Tasks) \in Nat
  BY Given
<1> QED
  BY <1>1 DEF BatchInv, ProcessInv, SessionInv, SavedInv, RowsInv

(* The same after a step.                                                  *)
LEMMA NoRowsNext ==
  ASSUME (rows = <<>> /\ session = NoSession /\ summary = NoSummary /\ DOMAIN checkpoints = {})'
  PROVE  BatchInv'
<1>1. Len(<<>>) = 0 /\ DOMAIN rows' = {} /\ rows' \in Seq(Rows) /\ Len(Tasks) \in Nat
  BY Given
<1> QED
  BY <1>1 DEF BatchInv, ProcessInv, SessionInv, SavedInv, RowsInv, NoSummary

(* A session in which the agent edits, evaluates or begins.                *)
LEMMA SessionKeeps ==
  ASSUME BatchInv, UNCHANGED <<registry, phase, mode, rows>>,
         phase = "running", mode = "agent", Left,
         Earns(session', Inherited(NextTask)), session'.evals > 0
  PROVE  SessionInv'
<1>1. Inherited(NextTask)' = Inherited(NextTask)
  BY DEF Inherited, Initial, Program, NextTask
<1>2. Left'
  BY DEF Left
<1> QED
  BY <1>1, <1>2 DEF SessionInv, Earns

(* A process that has not begun has no rows.                               *)
LEMMA BatchInit == Init => BatchInv
  BY NoRows DEF Init, Nothing

(* An evaluation: the checkpoint is of its score, or it is an earlier one  *)
(* of this session, or there is none.                                      *)
LEMMA SaveKeeps ==
  ASSUME BatchInv, phase = "running", mode = "agent", Left, NEW s, NEW inherited,
         Earns(s, inherited), inherited = Inherited(NextTask), s.evals > 0,
         session # NoSession /\ session.valid => s.valid /\ session.best <= s.best,
         session # NoSession => session.best \in Nat,
         Save(s)
  PROVE  BatchInv'
<1>0. s # NoSession
  BY DEF Earns, NoSession
<1>1. /\ session' = s /\ UNCHANGED <<registry, phase, mode, rows, results, summary>>
      /\ \/ checkpoints' = checkpoints
         \/ s.valid /\ checkpoints' = With(checkpoints, NextTask, s.best)
  BY DEF Save
<1>2. SessionInv'
  BY <1>1, SessionKeeps
<1>3. NextTask' = NextTask
  BY <1>1 DEF NextTask
<1>4. s.best \in Nat
  BY DEF Earns
<1>5. \A i \in DOMAIN rows : Tasks[i] # NextTask
  BY NextIsNew DEF BatchInv
<1>6. CASE checkpoints' = checkpoints
  <2>1. ASSUME session = NoSession PROVE SavedInv'
    <3>1. NextTask \notin DOMAIN checkpoints
      BY <1>5, <2>1 DEF BatchInv, SavedInv
    <3> QED
      BY <1>0, <1>1, <1>3, <1>6, <2>1, <3>1 DEF BatchInv, SavedInv
  <2>2. ASSUME session # NoSession PROVE SavedInv'
    <3>1. ASSUME NextTask \in DOMAIN checkpoints
          PROVE  s.valid /\ checkpoints[NextTask] \in Nat /\ checkpoints[NextTask] <= s.best
      <4>1. session.valid /\ checkpoints[NextTask] \in Nat
            /\ checkpoints[NextTask] <= session.best
        BY <2>2, <3>1 DEF BatchInv, SavedInv
      <4>2. s.valid /\ session.best <= s.best /\ session.best \in Nat
        BY <2>2, <4>1
      <4> QED
        BY <1>4, <4>1, <4>2
    <3> QED
      BY <1>0, <1>1, <1>3, <1>6, <2>2, <3>1 DEF BatchInv, SavedInv
  <2>3. SavedInv'
    BY <2>1, <2>2
  <2> QED
    BY <1>1, <1>2, <2>3, SameBatch
<1>7. CASE s.valid /\ checkpoints' = With(checkpoints, NextTask, s.best)
  <2>1. /\ DOMAIN checkpoints' = DOMAIN checkpoints \cup {NextTask}
        /\ checkpoints'[NextTask] = s.best
        /\ \A u \in DOMAIN checkpoints : u # NextTask => checkpoints'[u] = checkpoints[u]
    BY <1>7 DEF With
  <2>2. ASSUME NEW i \in DOMAIN rows', Tasks[i] \in DOMAIN checkpoints',
               results'[Tasks[i]].eligible
        PROVE  /\ checkpoints'[Tasks[i]] \in Nat
               /\ checkpoints'[Tasks[i]] <= results'[Tasks[i]].best
    BY <1>1, <1>5, <2>1, <2>2 DEF BatchInv, SavedInv
  <2>3. SavedInv'
    BY <1>0, <1>1, <1>3, <1>4, <1>7, <2>1, <2>2 DEF BatchInv, SavedInv
  <2> QED
    BY <1>1, <1>2, <2>3, SameBatch
<1> QED
  BY <1>1, <1>6, <1>7

(* Every step preserves it.                                                *)
LEMMA BatchNext == BatchInv /\ [Next]_vars => BatchInv'
<1> SUFFICES ASSUME BatchInv, [Next]_vars PROVE BatchInv'
  OBVIOUS
<1> USE DEF BatchInv
<1>1. CASE Source
  <2>1. SessionInv'
    BY <1>1 DEF Source, batchVars, SessionInv
  <2>2. SavedInv'
    BY <1>1, SavedStays DEF Source, batchVars
  <2> QED
    BY <1>1, <2>1, <2>2, SameBatch DEF Source, batchVars
<1>2. CASE EditPackage
  <2>1. SessionInv'
    BY <1>2, SessionKeeps DEF EditPackage, SessionInv
  <2>2. SavedInv'
    BY <1>2, SavedStays DEF EditPackage
  <2> QED
    BY <1>2, <2>1, <2>2, SameBatch DEF EditPackage
<1>3. CASE SpoilRegistry
  <2>1. rows = <<>> /\ session = NoSession /\ summary = NoSummary /\ DOMAIN checkpoints = {}
    BY <1>3 DEF SpoilRegistry, ProcessInv, SessionInv, SavedInv
  <2>2. (rows = <<>> /\ session = NoSession /\ summary = NoSummary /\ DOMAIN checkpoints = {})'
    BY <1>3, <2>1 DEF SpoilRegistry
  <2> QED
    BY <2>2, NoRowsNext
<1>4. CASE SeedOnly
  <2>1. /\ phase = "running" /\ Left /\ mode = "seed_only" /\ NextTask \in TaskSet
        /\ session = NoSession
    BY <1>4, NextIsNew DEF SeedOnly
  <2>2. PICK a \in Reads[NextTask] :
          EndTask(Row("seed_only", a.out.score, TRUE),
                  File(a.out.score, Inherited(NextTask), {}, TRUE))
    BY <1>4 DEF SeedOnly
  <2>3. Row("seed_only", a.out.score, TRUE) \in Rows
    BY <2>1, ReadIsSound DEF Row, Rows, Stops, Outs
  <2>4. NextTask \notin DOMAIN checkpoints
    BY <2>1, NextIsNew DEF SavedInv
  <2>5. RowIsEarned(Row("seed_only", a.out.score, TRUE),
                    File(a.out.score, Inherited(NextTask), {}, TRUE), NextTask)
    BY <2>1 DEF RowIsEarned
  <2> QED
    BY <2>1, <2>2, <2>3, <2>4, <2>5, EndTaskKeeps
<1>5. CASE TaskRaises
  <2>1. /\ phase = "running" /\ Left
        /\ EndTask(Row("error", None, FALSE), File(None, None, {}, FALSE))
    BY <1>5 DEF TaskRaises
  <2>2. Row("error", None, FALSE) \in Rows /\ Row("error", None, FALSE).best = None
    BY DEF Row, Rows, Stops
  <2>3. File(None, None, {}, FALSE).best = None /\ ~File(None, None, {}, FALSE).eligible
    BY DEF File
  <2>4. RowIsEarned(Row("error", None, FALSE), File(None, None, {}, FALSE), NextTask)
    BY <2>2, <2>3 DEF RowIsEarned
  <2> QED
    BY <2>1, <2>2, <2>3, <2>4, EndTaskKeeps
<1>6. CASE BeginTask
  <2>1. /\ phase = "running" /\ Left /\ mode = "agent" /\ NextTask \in TaskSet
        /\ session = NoSession
    BY <1>6, NextIsNew DEF BeginTask
  <2>2. PICK a \in Reads[NextTask], b \in Reads[NextTask] :
          Save(Scored(Fresh(NextTask), a, b))
    BY <1>6 DEF BeginTask, Evaluated
  <2>3. Earns(Fresh(NextTask), Inherited(NextTask))
    BY DEF Fresh, Earns
  <2>4. /\ Earns(Scored(Fresh(NextTask), a, b), Inherited(NextTask))
        /\ Scored(Fresh(NextTask), a, b).evals > 0
    BY <2>1, <2>3, ScoredEarns
  <2> QED
    BY <2>1, <2>2, <2>4, SaveKeeps
<1>7. CASE EvaluateSolution
  <2>1. /\ phase = "running" /\ Left /\ mode = "agent" /\ NextTask \in TaskSet
        /\ Earns(session, Inherited(NextTask)) /\ session # NoSession
    BY <1>7, NextIsNew DEF EvaluateSolution, Working, SessionInv
  <2>2. PICK a \in Reads[NextTask], b \in Reads[NextTask] : Save(Scored(session, a, b))
    BY <1>7 DEF EvaluateSolution, Evaluated
  <2>3. /\ Earns(Scored(session, a, b), Inherited(NextTask))
        /\ Scored(session, a, b).evals > 0
    BY <2>1, ScoredEarns
  <2>4. session.valid => Scored(session, a, b).valid /\ session.best <= Scored(session, a, b).best
    BY <2>1, ScoredKeeps
  <2> QED
    BY <2>1, <2>2, <2>3, <2>4, SaveKeeps DEF Earns
<1>8. CASE WriteSummary
  <2>1. /\ phase = "running" /\ ~Left /\ summary' = rows /\ session' = NoSession
        /\ phase' \in {"exit0", "exit2"}
        /\ UNCHANGED <<registry, mode, rows, checkpoints, results>>
    BY <1>8 DEF WriteSummary, Exit
  <2>2. Len(rows) = Len(Tasks)
    BY <2>1, Given DEF ProcessInv, Left
  <2>3. \A t : Inherited(t)' = Inherited(t)
    BY <2>1 DEF Inherited, Initial, Program
  <2>4. ProcessInv'
    BY <2>1, <2>2 DEF ProcessInv
  <2>5. SessionInv'
    BY <2>1 DEF SessionInv
  <2>6. RowsInv'
    BY <2>1, <2>3 DEF RowsInv, RowIsEarned
  <2>7. SavedInv'
    BY <2>1 DEF SavedInv
  <2> QED
    BY <2>4, <2>5, <2>6, <2>7
<1>9. CASE Kill
  <2>1. /\ phase = "running" /\ session' = NoSession /\ phase' = "killed"
        /\ UNCHANGED <<registry, mode, rows, checkpoints, results, summary>>
    BY <1>9 DEF Kill, Exit
  <2>2. \A t : Inherited(t)' = Inherited(t)
    BY <2>1 DEF Inherited, Initial, Program
  <2>3. ProcessInv'
    BY <2>1 DEF ProcessInv
  <2>4. SessionInv'
    BY <2>1 DEF SessionInv
  <2>5. RowsInv'
    BY <2>1, <2>2 DEF RowsInv, RowIsEarned
  <2>6. SavedInv'
    BY <2>1 DEF SavedInv
  <2> QED
    BY <2>3, <2>4, <2>5, <2>6
<1>10. CASE Collect \/ Abandon
  <2>1. session = NoSession
    BY <1>10 DEF Collect, Abandon, Ended, SessionInv
  <2>2. (rows = <<>> /\ session = NoSession /\ summary = NoSummary /\ DOMAIN checkpoints = {})'
    BY <1>10, <2>1 DEF Collect, Abandon, Leave, Nothing, NoSummary
  <2> QED
    BY <2>2, NoRowsNext
<1>11. ASSUME NEW m \in {"agent", "seed_only"}, BeginRound(m) PROVE BatchInv'
  <2>1. rows = <<>> /\ session = NoSession /\ summary = NoSummary /\ DOMAIN checkpoints = {}
    BY <1>11 DEF BeginRound, ProcessInv, SessionInv, SavedInv
  <2>2. (rows = <<>> /\ session = NoSession /\ summary = NoSummary /\ DOMAIN checkpoints = {})'
    BY <1>11, <2>1 DEF BeginRound
  <2> QED
    BY <2>2, NoRowsNext
<1>12. ASSUME NEW program, Working, Edit(program) PROVE BatchInv'
  <2>1. /\ phase = "running" /\ Left /\ mode = "agent" /\ session.evals > 0
        /\ Earns(session, Inherited(NextTask)) /\ session # NoSession
        /\ UNCHANGED <<registry, phase, mode, rows, checkpoints, results, summary>>
        /\ session' = [session EXCEPT !.program = program, !.edits = @ + 1]
    BY <1>12 DEF Edit, Working, SessionInv
  <2>2. Earns(session', Inherited(NextTask)) /\ session'.evals > 0
    BY <2>1 DEF Earns
  <2>3. SessionInv'
    BY <2>1, <2>2, SessionKeeps
  <2>4. /\ session'.valid = session.valid /\ session'.best = session.best
        /\ session' # NoSession
    BY <2>1, <2>2 DEF Earns, NoSession
  <2>5. SavedInv'
    BY <2>1, <2>4, SavedStays
  <2> QED
    BY <2>1, <2>3, <2>5, SameBatch
<1>13. ASSUME NEW stop \in {"completed", "harness_error"}, NEW trajectory \in BOOLEAN,
              EndRollout(stop, trajectory)
       PROVE  BatchInv'
  <2> DEFINE mutated == package # session.package
             eligible == stop = "completed" /\ ~mutated /\ trajectory
             end == IF mutated THEN "h2_package_mutated"
                    ELSE IF ~trajectory /\ stop = "completed" THEN "trajectory_missing"
                    ELSE stop
             row == Row(end, IF eligible THEN session.best ELSE None, trajectory)
             file == File(session.best, session.bestProgram, session.earned, eligible)
  <2>1. /\ phase = "running" /\ Left /\ Earns(session, Inherited(NextTask)) /\ session # NoSession
        /\ EndTask(row, file)
    BY <1>13 DEF EndRollout, Working, SessionInv
  <2>2. end \in Stops /\ (eligible => end = "completed" /\ trajectory)
    BY DEF Stops
  <2>3. row \in Rows
    BY <2>1, <2>2 DEF Row, Rows, Earns
  <2>4. RowIsEarned(row, file, NextTask)
    BY <2>1, <2>2, Given DEF RowIsEarned, Row, File, Earns
  <2>5. NextTask \in DOMAIN checkpoints /\ file.eligible =>
          checkpoints[NextTask] \in Nat /\ checkpoints[NextTask] <= file.best
    BY <2>1 DEF SavedInv, File
  <2> QED
    BY <2>1, <2>3, <2>4, <2>5, EndTaskKeeps
<1>14. CASE UNCHANGED vars
  <2>1. SessionInv'
    BY <1>14 DEF vars, batchVars, SessionInv, Earns, Left, NextTask, Inherited, Initial,
                 Program
  <2>2. SavedInv'
    BY <1>14, SavedStays DEF vars, batchVars
  <2> QED
    BY <1>14, <2>1, <2>2, SameBatch DEF vars, batchVars
<1> QED
  BY <1>1, <1>2, <1>3, <1>4, <1>5, <1>6, <1>7, <1>8, <1>9, <1>10, <1>11, <1>12, <1>13, <1>14
     DEF Next, EditRewrite, EditDiff

(* The summary's row of a task is the row of its place.                    *)
LEMMA CreditIsTheRow ==
  ASSUME NEW i \in DOMAIN Tasks, summary # NoSummary
  PROVE  Credited(Tasks[i]) = summary[i].best
<1> DEFINE I == {j \in 1 .. Len(Tasks) : Tasks[j] = Tasks[i]}
<1>1. I = {i} /\ i \in Int
  BY Given
<1>2. Min(I) = i
  BY <1>1 DEF Min
<1> QED
  BY <1>1, <1>2 DEF Credited, SelectInSeq

(* So nothing is credited that the result file does not say.               *)
LEMMA BatchIsEarned == BatchInv => PublishedIsEarned
<1> SUFFICES ASSUME BatchInv PROVE PublishedIsEarned
  OBVIOUS
<1> USE DEF BatchInv
<1>1. ASSUME NEW i \in DOMAIN rows, mode = "agent", results[Tasks[i]].eligible,
             Credited(Tasks[i]) # None
      PROVE  Credited(Tasks[i]) <= results[Tasks[i]].best
  <2>1. RowIsEarned(rows[i], results[Tasks[i]], Tasks[i]) /\ rows[i] \in Rows
        /\ i \in DOMAIN Tasks
    BY Given DEF RowsInv, ProcessInv
  <2>2. CASE summary # NoSummary
    <3>1. Credited(Tasks[i]) = rows[i].best
      BY <2>1, <2>2, CreditIsTheRow DEF ProcessInv
    <3>2. rows[i].best \in Nat /\ rows[i].best = results[Tasks[i]].best
      BY <1>1, <2>1, <3>1 DEF RowIsEarned, Rows
    <3> QED
      BY <3>1, <3>2
  <2>3. CASE summary = NoSummary
    BY <1>1, <2>1, <2>3 DEF Credited, SavedInv, RowIsEarned
  <2> QED
    BY <2>2, <2>3
<1>2. summary # NoSummary => summary = rows /\ Len(rows) = Len(Tasks)
  BY DEF ProcessInv
<1> QED
  BY <1>1, <1>2 DEF PublishedIsEarned, RowsInv, RowIsEarned

-------------------------------------------------------------------------------
(* A score in the summary was earned by the program of the result file, or *)
(* is the score of the program the task began with, and what a collect     *)
(* takes over is no more, for any tasks, scores, evaluators, edits, kills  *)
(* and number of rounds, one evaluation or two to a read.                  *)
THEOREM EarningsArePublished == Spec => []PublishedIsEarned
  BY BatchInit, BatchNext, BatchIsEarned, PTL DEF Spec

(* Batches leave the source record to its own steps: whatever holds of the *)
(* copy and its manifest, whenever they are taken, holds of every round.   *)
THEOREM BatchKeepsTheRecord == Spec => ProvenanceSpec
<1>1. Init => ProvenanceInit
  BY DEF Init
<1>2. [Next]_vars => [ProvenanceNext]_provenanceVars
  <2> SUFFICES ASSUME [Next]_vars PROVE [ProvenanceNext]_provenanceVars
    OBVIOUS
  <2>1. CASE Source
    BY <2>1 DEF Source
  <2>2. CASE ~Source
    BY <2>2 DEF Next, EditPackage, SpoilRegistry, SeedOnly, TaskRaises, BeginTask,
                EvaluateSolution, Save, WriteSummary, Kill, Collect, Abandon, Leave, BeginRound,
                EditRewrite, EditDiff, Edit, EndRollout, EndTask, Exit, vars
  <2> QED
    BY <2>1, <2>2
<1> QED
  BY <1>1, <1>2, PTL DEF Spec, ProvenanceSpec

(* So a round begins from a copy that is the one on record.                *)
THEOREM BatchSnapshotIsWhole == Spec => []SnapshotIsWhole
  BY BatchKeepsTheRecord, SnapshotStaysWhole, PTL

===============================================================================
