------------------------------ MODULE InnerBatch ------------------------------
(***************************************************************************)
(* run_baseline.py: one process works through the tasks of a round, each   *)
(* from the program it inherits, and leaves a result per task and a        *)
(* summary.  With it the evaluator subprocess (eval_runner.py,             *)
(* _eval_worker.py), the repeated evaluation of session.py, and the check  *)
(* of the recorded source every round begins with, and the registry of     *)
(* programs a collect leaves for the next (program_ratchet.py, legacy_qd). *)
(* The agent's turn is one edit and evaluation after another: InnerRollout *)
(* has its threads.                                                        *)
(***************************************************************************)
EXTENDS ProgramEdit, Provenance

CONSTANTS
  Manifest,          \* the task records of the dataset, a sequence
  Ids, Tiers, Limit, \* --ids, --tiers, --limit
  InitialLines,      \* their initial programs
  Guarded,           \* tasks whose evaluator the worker guards
  TxnTasks,          \* guarded tasks whose score the worker recomputes
  Codes, Diffs,      \* what the agent may send, by task
  Scores,
  EvalRepeats,       \* EVAL_REPEATS, 1 or 2
  MaxEvals,          \* --max-evals: names a bound
  MaxEdits,          \* edits of one turn: a bound
  MaxRounds          \* a bound

ASSUME BatchAssumption ==
  /\ Scores \subseteq Nat /\ 0 \in Scores /\ EvalRepeats \in {1, 2}
  /\ MaxEvals \in Nat /\ MaxEdits \in Nat /\ MaxRounds \in Nat
  /\ TxnTasks \subseteq Guarded

VARIABLES
  round,
  registry,   \* the inherited programs, by task; None if unreadable
  package,    \* versions of the candidate's H2 package
  phase,      \* the run_baseline process
  mode,       \* "agent" or "seed_only"
  session,    \* the task at work, or NoSession
  rows,       \* of the tasks that ended
  checkpoints,\* the checkpoint files, by task: the score
  results,    \* the result files, by task
  summary     \* summary.json, or None

batchVars ==
  <<round, registry, package, phase, mode, session, rows, checkpoints, results, summary>>
vars == <<provenanceVars, batchVars>>

(* A record is loaded if its files are there; ADRS and cross-referenced    *)
(* records follow the others and a missing scorable means yes.             *)
Loadable(r) ==
  {"dir", "program", "evaluator"} \cup (IF r.source = "simpletes" THEN {"text"} ELSE {}) \subseteq r.files

LoadTasks(tiers) ==
  SelectSeq(Manifest, LAMBDA r : /\ r.source = "eft" => r.scorable
                                 /\ Loadable(r) /\ (tiers # {} => r.tier \in tiers))

(* --ids takes from all tiers, whatever --tiers and --limit say.           *)
Select ==
  IF Ids # <<>> THEN [i \in DOMAIN Ids |-> SelectSeq(LoadTasks({}), LAMBDA r : r.id = Ids[i])[1]]
  ELSE LET all == LoadTasks(Tiers)
       IN IF Limit = 0 THEN all ELSE SubSeq(all, 1, Min({Limit, Len(all)}))

Tasks == [i \in DOMAIN Select |-> Select[i].id]
TaskSet == ToSet(Tasks)

(* What is selected is a list; the ids of the dataset, and those a caller  *)
(* names, occur once: a result file is named after its task.               *)
ASSUME TasksAssumption ==
  /\ Tasks \in Seq(TaskSet) /\ \A i, j \in DOMAIN Tasks : Tasks[i] = Tasks[j] => i = j
  /\ None \notin {0, "text"}

-----------------------------------------------------------------------------
(* The evaluator subprocess.  A read is what the evaluator returned and    *)
(* whether the program broke the rule its task is guarded by.              *)

Ends_ == {"odd", "raises", "hangs", "crashes", "garbles"}
Returned ==
  [end : {"returns"}, score : Scores, validity : {0, 1, None},
   error : {None, "empty", "text"}, breaks : BOOLEAN]
  \cup [end : Ends_, score : {0}, validity : {0}, error : {None}, breaks : {FALSE}]

Failed == [score |-> 0, validity |-> 0, error |-> "text"]

(* Whatever the evaluator returned, the worker writes three fields.        *)
Normalize(r) ==
  IF r.end = "odd" THEN Failed
  ELSE [score |-> r.score, error |-> r.error,
        validity |-> IF r.validity # None THEN r.validity
                     ELSE IF r.error = "text" THEN 0 ELSE 1]

(* The transaction guard replaces the evaluator's verdict and score.       *)
EvaluateTxn(r) ==
  IF r.end = "odd" \/ r.breaks THEN Failed ELSE [score |-> r.score, validity |-> 1, error |-> None]

(* Variant for mutation: a broken rule costs the score only.               *)
SemanticGuard_ScoreOnly(t, r, out) ==
  IF t \in Guarded /\ r.breaks /\ out.validity >= 1 /\ out.error # "text"
  THEN [out EXCEPT !.score = 0] ELSE out

(* The topology and success guards look at what passed as valid.           *)
SemanticGuard(t, r, out) ==
  IF t \in Guarded /\ r.breaks /\ out.validity >= 1 /\ out.error # "text"
  THEN Failed ELSE out

WorkerResult(t, r) ==
  IF r.end = "raises" THEN Failed
  ELSE SemanticGuard(t, r, IF t \in TxnTasks THEN EvaluateTxn(r) ELSE Normalize(r))

(* evaluate_program: a timeout, a missing and an unreadable result fail.   *)
EvaluateProgram(t, r) ==
  IF r.end \in {"hangs", "crashes", "garbles"} THEN Failed ELSE WorkerResult(t, r)

(* What the task itself says of a read: history only.                      *)
Lawful(t, r) ==
  /\ r.end = "returns" /\ ~(t \in Guarded /\ r.breaks)
  /\ t \in TxnTasks \/ (r.error = None /\ r.validity # 0)

Reads == [t \in TaskSet |-> {[out |-> EvaluateProgram(t, r), lawful |-> Lawful(t, r)] : r \in Returned}]

Valid(out) == out.error = None /\ out.validity >= 1

(* Repeated evaluation: after a first read without error, the mean of the  *)
(* reads without error.                                                    *)
Repeated(first, second) ==
  IF EvalRepeats = 1 \/ first.error # None \/ second.error # None THEN first
  ELSE [score |-> (first.score + second.score) \div 2, error |-> None,
        validity |-> (first.validity + second.validity) \div 2]

-----------------------------------------------------------------------------
Program(lines) == [lines |-> lines, touched |-> FALSE, ends |-> 0]
Initial(t) == Program(InitialLines[t])

NoSummary == None
NoSession == [evals |-> 0]
NoText == [score |-> 0, program |-> None, elites |-> <<>>]
Init ==
  /\ ProvenanceInit
  /\ round = 0 /\ registry = [t \in TaskSet |-> None] /\ package = 0
  /\ phase = "idle" /\ mode = "agent" /\ session = NoSession /\ rows = <<>>
  /\ checkpoints = Nothing /\ results = Nothing /\ summary = NoSummary

(* The source, the package and the registry live outside the process.  The *)
(* source is only looked at between rounds.                                *)
Source ==
  /\ phase = "idle" /\ ProvenanceNext
  /\ UNCHANGED batchVars

EditPackage ==
  /\ package < 1 /\ phase = "running" /\ package' = package + 1
  /\ UNCHANGED <<provenanceVars, round, registry, phase, mode, session, rows, checkpoints, results,
                 summary>>

SpoilRegistry == \* a torn file, or an entry that has no program text
  /\ phase = "idle" /\ round > 0 /\ registry # None
  /\ registry' \in {None} \cup {[registry EXCEPT ![t] = NoText] : t \in TaskSet}
  /\ UNCHANGED <<provenanceVars, round, package, phase, mode, session, rows, checkpoints, results,
                 summary>>

(* A registry that is missing or cannot be read means no inheritance; an   *)
(* entry without a program ends the process before any task.               *)
Inherited(t) ==
  IF registry = None THEN Initial(t)
  ELSE IF registry[t] = None THEN Initial(t) ELSE registry[t].program

BeginRound(m) ==
  /\ phase = "idle" /\ snap = None /\ round < MaxRounds /\ Verified
  /\ round' = round + 1 /\ mode' = m /\ package' = 0
  /\ phase' = IF registry # None /\ \E t \in TaskSet : registry[t] = NoText
              THEN "crashed" ELSE "running"
  /\ UNCHANGED <<provenanceVars, registry, session, rows, checkpoints, results, summary>>

NextTask == Tasks[Len(rows) + 1]
Left == Len(rows) < Len(Tasks)

(* The row of a task and its result file, which keeps the raw best.        *)
EndTask(row, file) ==
  /\ rows' = Append(rows, row)
  /\ results' = With(results, NextTask, file)
  /\ session' = NoSession
  /\ UNCHANGED <<provenanceVars, round, registry, package, phase, mode, checkpoints, summary>>

Row(stop, best, ok) == [stop |-> stop, best |-> best, ok |-> ok]
File(best, program, earned, eligible) ==
  [best |-> best, program |-> program, earned |-> earned, eligible |-> eligible]

SeedOnly == \* publishes the seed's score whatever its validity
  /\ phase = "running" /\ Left /\ session = NoSession /\ mode = "seed_only"
  /\ \E a \in Reads[NextTask] :
       EndTask(Row("seed_only", a.out.score, TRUE),
               File(a.out.score, Inherited(NextTask), {}, TRUE))

TaskRaises == \* at any point of a task; the rest of the batch goes on
  /\ phase = "running" /\ Left
  /\ EndTask(Row("error", None, FALSE), File(None, None, {}, FALSE))

(* InnerSession.evaluate and the seed's baseline: until an evaluation is   *)
(* valid the score on record is the seed's, and it does not count.         *)
Scored(s, a, b) ==
  LET out == Repeated(a.out, b.out)
      best == Valid(out) /\ (s.valid => out.score > s.best)
      clean == a.lawful /\ (EvalRepeats = 2 /\ b.out.error = None => b.lawful)
      claim == [program |-> s.program.lines, score |-> out.score]
  IN [s EXCEPT !.best = IF best \/ s.evals = 0 THEN out.score ELSE @,
               !.valid = @ \/ best,
               !.bestProgram = IF best THEN s.program ELSE @,
               !.evals = @ + 1,
               !.earned = IF best THEN IF clean THEN {claim} ELSE {} ELSE @]

Fresh(t) == [program |-> Inherited(t), best |-> 0, valid |-> FALSE, earned |-> {},
             bestProgram |-> Inherited(t), evals |-> 0, edits |-> 0, package |-> package]

Evaluated(s) == {Scored(s, a, b) : a, b \in Reads[NextTask]}

(* A better program is saved with its score; that the file cannot be       *)
(* written is passed over.                                                 *)
Save(s) ==
  /\ session' = s
  /\ checkpoints' \in
       {checkpoints} \cup (IF s.valid THEN {With(checkpoints, NextTask, s.best)} ELSE {})
  /\ UNCHANGED <<provenanceVars, round, registry, package, phase, mode, rows, results, summary>>

BeginTask ==
  /\ phase = "running" /\ Left /\ session = NoSession /\ mode = "agent"
  /\ \E s \in Evaluated(Fresh(NextTask)) : Save(s)

Working == phase = "running" /\ session # NoSession

Edit(program) ==
  /\ session.edits < MaxEdits /\ session.evals <= MaxEvals
  /\ session' = [session EXCEPT !.program = program, !.edits = @ + 1]
  /\ UNCHANGED <<provenanceVars, round, registry, package, phase, mode, rows, checkpoints,
                 results, summary>>

EditRewrite(code) ==
  Edit([session.program EXCEPT !.lines = Rewrite(@, code),
                               !.ends = IF HasMarkers(code) THEN 0 ELSE Ends(code)])

EditDiff(diffs) ==
  /\ ApplyDiff(session.program.lines, diffs) # session.program.lines
  /\ Edit([session.program EXCEPT !.lines = ApplyDiff(@, diffs), !.touched = TRUE])

EvaluateSolution ==
  /\ Working /\ session.evals <= MaxEvals
  /\ \E s \in Evaluated(session) : Save(s)

(* The audits of _agent_run: the package must hash as before and a missing *)
(* conversation is not scored.  The result keeps the score they withhold;  *)
(* without any valid evaluation that is the seed's.  "harness_error" also  *)
(* stands for a component that did not participate.                        *)
EndRollout(stop, trajectory) ==
  /\ Working
  /\ LET mutated == package # session.package
         eligible == stop = "completed" /\ ~mutated /\ trajectory
         end == IF mutated THEN "h2_package_mutated"
                ELSE IF ~trajectory /\ stop = "completed" THEN "trajectory_missing" ELSE stop
     IN EndTask(Row(end, IF eligible THEN session.best ELSE None, trajectory),
                File(session.best, session.bestProgram, session.earned, eligible))

Exit(code) ==
  /\ phase' = code /\ session' = NoSession
  /\ UNCHANGED <<provenanceVars, round, registry, package, mode, rows, checkpoints, results>>

WriteSummary == \* and then the exit status
  /\ phase = "running" /\ ~Left /\ session = NoSession /\ summary' = rows
  /\ Exit(IF mode = "agent" /\ \E i \in DOMAIN rows : ~rows[i].ok THEN "exit2" ELSE "exit0")

Kill == \* the wall limit of the worker
  /\ phase = "running" /\ UNCHANGED summary /\ Exit("killed")

(* update_legacy_qd.  A published score above the registered one replaces  *)
(* the entry; any program of a result file that comes near the incumbent   *)
(* and is unlike it joins the elites, or replaces the elite it is like.    *)
Similar(p, q) ==
  20 * Cardinality(ToSet(p.lines) \cap ToSet(q.lines)) >= 7 * (Len(p.lines) + Len(q.lines))

Elites(entry, file) ==
  LET e == [score |-> file.best, program |-> file.program]
      like == {i \in DOMAIN entry.elites : Similar(file.program, entry.elites[i].program)}
      fits == /\ 100 * file.best >= 85 * entry.score /\ file.program.lines # entry.program.lines
              /\ ~Similar(file.program, entry.program)
      pool == IF like = {} THEN Append(entry.elites, e)
              ELSE IF file.best > entry.elites[Min(like)].score
                   THEN [entry.elites EXCEPT ![Min(like)] = e] ELSE entry.elites
      sorted == SortSeq(pool, LAMBDA x, y : x.score > y.score)
  IN IF ~fits THEN entry.elites ELSE SubSeq(sorted, 1, Min({3, Len(sorted)}))

(* What a round is credited with for a task: what the summary says of it,  *)
(* and where the process left none the checkpoint.                         *)
Credited(t) ==
  IF summary # NoSummary THEN summary[SelectInSeq(Tasks, LAMBDA u : u = t)].best
  ELSE IF t \in DOMAIN checkpoints THEN checkpoints[t] ELSE None

UpdateLegacyQD(prior, score, file) ==
  LET promoted == /\ file.eligible /\ score # None
                  /\ prior = None \/ prior.score < score
      entry == IF promoted THEN [score |-> score, program |-> file.program, elites |-> <<>>]
               ELSE prior
  IN IF entry = None \/ file.best = None THEN entry
     ELSE [entry EXCEPT !.elites = Elites(entry, file)]

Ended == {"exit0", "exit2", "killed", "crashed"}

(* The next round has a directory of its own.                              *)
Leave ==
  /\ phase' = "idle" /\ rows' = <<>> /\ checkpoints' = Nothing /\ results' = Nothing
  /\ summary' = NoSummary
  /\ UNCHANGED <<provenanceVars, round, package, mode, session>>

(* The worker collects a round whose processes all succeeded, the driver   *)
(* whatever the worker refused or a dead one left.                         *)
Collect ==
  /\ phase \in Ended /\ mode = "agent" /\ Leave
  /\ registry' =
       IF DOMAIN results = {} THEN registry
       ELSE [t \in TaskSet |->
               LET prior == IF registry = None THEN None ELSE registry[t]
               IN IF t \notin DOMAIN results THEN prior
                  ELSE UpdateLegacyQD(prior, Credited(t), results[t])]

(* A round nobody collects; a run of seeds only never is.                  *)
Abandon ==
  /\ phase \in Ended /\ (phase = "exit0" => mode = "seed_only")
  /\ Leave /\ UNCHANGED registry

Next ==
  \/ Source \/ EditPackage \/ SpoilRegistry \/ SeedOnly \/ TaskRaises \/ BeginTask
  \/ EvaluateSolution \/ WriteSummary \/ Kill \/ Collect \/ Abandon
  \/ \E m \in {"agent", "seed_only"} : BeginRound(m)
  \/ Working /\ \E c \in Codes[NextTask] : EditRewrite(c)
  \/ Working /\ \E d \in Diffs[NextTask] : EditDiff(d)
  \/ \E stop \in {"completed", "harness_error"}, trajectory \in BOOLEAN :
       EndRollout(stop, trajectory)

Spec == Init /\ [][Next]_vars

-----------------------------------------------------------------------------
(* What holds *)

(* However a task's program was rewritten, inherited and rewritten again,  *)
(* with a marker sent astray or a whole program sent in its place, its     *)
(* fixed code is all there and the block ends once, or once more for every *)
(* end the last rewrite sent.  A diff reaches the whole program, so this   *)
(* is about programs no diff has touched.                                  *)
FixedCodeSurvives ==
  session # NoSession /\ ~session.program.touched =>
    LET initial == InitialLines[NextTask] IN
    /\ KeepsFixed(session.program.lines, initial)
    /\ HasMarkers(initial) => Ends(session.program.lines) <= 1 + session.program.ends

(* The score of a result file was given to its program by an evaluation in *)
(* which every read that counted broke no rule, or it is the score of the  *)
(* program the task began with.  A row publishes that score and no other,  *)
(* and none of a task whose package changed, whose agent left no           *)
(* conversation or that raised.  A summary is of all tasks, whatever       *)
(* happened to one.  So what a collect takes over into the registry, of a  *)
(* round that succeeded, was refused or was killed, at any point and with  *)
(* any checkpoint lost, is no more than its program has been seen to give. *)
PublishedIsEarned ==
  /\ \A i \in DOMAIN rows :
       LET file == results[Tasks[i]]
           row == rows[i]
       IN mode = "agent" =>
            /\ file.best # None =>
                 \/ [program |-> file.program.lines, score |-> file.best] \in file.earned
                 \/ file.program = Inherited(Tasks[i]) /\ file.earned = {}
            /\ row.best # None =>
                 row.stop = "completed" /\ row.ok /\ row.best = file.best
            /\ file.eligible /\ Credited(Tasks[i]) # None => Credited(Tasks[i]) <= file.best
  /\ summary # NoSummary => summary = rows /\ Len(rows) = Len(Tasks)

(* BROKEN by the code: what a task is credited with is None if its result  *)
(* file says that its score does not count.  A process killed after that   *)
(* file and before the summary has a checkpoint and no row: the score      *)
(* counts for the candidate, though not for the registry.                  *)
IneligibleHasNoCredit ==
  phase \in Ended => \A t \in DOMAIN results : ~results[t].eligible => Credited(t) = None
=============================================================================
