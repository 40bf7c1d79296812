------------------------------- MODULE Campaign --------------------------------
(***************************************************************************)
(* A single-task campaign in strict_single mode: scripts/fresh_campaign.sh *)
(* submits one Slurm job per round, waits, collects what the job did not,  *)
(* inherits and trains; the job (_outer_round_worker.sh) proposes, rolls   *)
(* out and collects (outer_round.py cmd_collect with program_ratchet.py).  *)
(*                                                                         *)
(* The two meet only in files.  best_programs.json is written in place, so *)
(* a killed collect may leave it torn; of the files of a round only the    *)
(* commit record is read before it is known to be whole, and each of those *)
(* is one step.  A program or a package is the round and slot it came from.*)
(* Grafted components, beams and the proposer's feedback are left out.     *)
(***************************************************************************)
EXTENDS Naturals, FiniteSets

CONSTANTS
  LastRound,      \* NSTEPS: a bound
  Slots,          \* K candidate slots, a set of Nat
  Scores,         \* best_score values of a rollout
  BaseScore,      \* the score in the bases file of the first round
  PlateauRounds,  \* PLATEAU_ROUNDS
  None, Torn

ASSUME CampaignAssumption ==
  /\ LastRound \in Nat
  /\ Slots \subseteq Nat
  /\ Scores \subseteq Nat
  /\ BaseScore \in Nat
  /\ PlateauRounds \in Nat \ {0}

Rounds == 1..LastRound
Actors == {"worker", "driver"}

VARIABLES
  step,       \* the driver's round
  driver,     \* where the driver is
  bases,      \* the bases file it passes to the next round
  workspace,  \* $WS/best_programs.json, which seeds the next round
  stall,      \* consecutive rounds that did not improve
  phi,        \* rounds whose batch the proposer was trained on
  worker,     \* where the job is
  input,      \* round.json: the base and the seed program of the round
  rows,       \* what each slot's rollout left on disk
  failed,     \* slots whose rollout process failed (rc=1)
  refused,    \* history: rounds whose worker refused to collect
  collector,  \* the collect processes of the job and of the driver
  registry,   \* $OUT/best_programs.json
  batch, next_bases, summary   \* files of each round

driverVars == <<step, driver, bases, workspace, stall, phi>>
workerVars == <<worker, input, rows, failed, refused>>
fileVars == <<registry, batch, next_bases, summary>>
vars == <<driverVars, workerVars, collector, fileVars>>

Origin == Rounds \X Slots

(* score 0 stands for the -infinity of a missing incumbent: it is only     *)
(* compared after the maximum with a base score.                           *)
Entry == [program : Origin \cup {None}, score : Nat]
NoEntry == [program |-> None, score |-> 0]
Base == [package : Origin \cup {None}, score : Nat]
FirstBase == [package |-> None, score |-> BaseScore]

(* bound: a terminal row whose program is new, beats its own seed, and     *)
(* carries intact package and seed provenance.  A score that is not bound  *)
(* may be a mere checkpoint.                                               *)
Outcome == [score : Scores, bound : BOOLEAN]

Idle == [at |-> "idle", next |-> FirstBase, entry |-> NoEntry,
         improved |-> FALSE, credited |-> FALSE]

ASSUME NoneAssumption ==
  /\ None \notin Origin /\ None \notin Base
  /\ None \notin [base : Base, seed : Entry] /\ Torn \notin Entry

JobOver == worker \in {"none", "done", "refused", "dead"}

Init ==
  /\ step = 1
  /\ driver = "starting"
  /\ bases = FirstBase
  /\ workspace = NoEntry
  /\ stall = 0
  /\ phi = {}
  /\ worker = "none"
  /\ input = None
  /\ rows = [k \in Slots |-> None]
  /\ failed = {}
  /\ refused = {}
  /\ collector = [a \in Actors |-> Idle]
  /\ registry = NoEntry
  /\ batch = [r \in Rounds |-> "absent"]
  /\ next_bases = [r \in Rounds |-> None]
  /\ summary = [r \in Rounds |-> "absent"]

-----------------------------------------------------------------------------
(* The job.                                                                *)

(* propose snapshots the base and the seed registry into the round.        *)
Propose ==
  /\ worker = "proposing"
  /\ input' = [base |-> bases, seed |-> workspace]
  /\ worker' = "rolling"
  /\ UNCHANGED <<driverVars, rows, failed, refused, collector, fileVars>>

(* A rollout leaves a scored row, a row without a score, or nothing.       *)
RolloutEnds(k, out) ==
  /\ worker = "rolling"
  /\ rows[k] = None /\ k \notin failed
  /\ rows' = [rows EXCEPT ![k] = out]
  /\ UNCHANGED <<driverVars, worker, input, failed, refused, collector, fileVars>>

(* A wall timeout, a crash or a missing trajectory: the pool records rc=1; *)
(* a checkpoint may hold a score.                                          *)
RolloutFails(k) ==
  /\ worker = "rolling"
  /\ rows[k] = None /\ k \notin failed
  /\ \E s \in Scores \cup {None} :
       rows' = [rows EXCEPT ![k] = IF s = None THEN None
                                   ELSE [score |-> s, bound |-> FALSE]]
  /\ failed' = failed \cup {k}
  /\ UNCHANGED <<driverVars, worker, input, refused, collector, fileVars>>

(* The pool is drained.  A slot may have left no score and not failed: its *)
(* candidate is invalid, or the row is not eligible.                       *)
RolloutsFinish ==
  /\ worker = "rolling"
  /\ IF failed = {}
       THEN worker' = "collecting" /\ UNCHANGED refused
       ELSE worker' = "refused" /\ refused' = refused \cup {step}
  /\ UNCHANGED <<driverVars, input, rows, failed, collector, fileVars>>

(* Cancelled, preempted, out of memory or out of its wall time; the files  *)
(* stay as they are.  A canonical propose that cannot read the workspace's *)
(* registry, or does not find it, raises and ends the job like this.       *)
JobKilled ==
  /\ ~JobOver
  /\ worker' = "dead"
  /\ collector' = [collector EXCEPT !["worker"] = Idle]
  /\ UNCHANGED <<driverVars, input, rows, failed, refused, fileVars>>

-----------------------------------------------------------------------------
(* cmd_collect, run by the job or by the driver.                           *)

Runs(a) == IF a = "worker" THEN worker = "collecting" ELSE driver = "collecting"

At(a, where) == Runs(a) /\ collector[a].at = where

Leave(a) ==
  /\ collector' = [collector EXCEPT ![a] = Idle]
  /\ IF a = "worker" THEN worker' = "done" /\ UNCHANGED driver
     ELSE driver' = "checking" /\ UNCHANGED worker

Goto(a, where) ==
  /\ collector' = [collector EXCEPT ![a].at = where]
  /\ UNCHANGED <<worker, driver>>

unchangedByCollect == <<step, bases, workspace, stall, phi, input, rows, failed,
                        refused>>

Scored == {k \in Slots : rows[k] # None}

(* compute_task_group: the first slot among those with the highest score.  *)
IsBest(k) ==
  /\ k \in Scored
  /\ \A j \in Scored : /\ rows[j].score <= rows[k].score
                       /\ rows[j].score = rows[k].score => k <= j

Improves(k) == IsBest(k) /\ rows[k].score > input.base.score

(* Variant for mutation: a program counts whatever it started from.        *)
Promotes_AnySeed(k, prior) ==
  /\ Improves(k)
  /\ rows[k].bound
  /\ rows[k].score > prior.score

(* update_strict_single: the program that earned the score starts from the *)
(* incumbent it is to replace and beats it and the incoming base.          *)
Promotes(k, prior) ==
  /\ Improves(k)
  /\ rows[k].bound
  /\ input.seed.program = prior.program
  /\ rows[k].score > prior.score

Candidate(k) == <<step, k>>

(* Inherit the best candidate iff it improved; in strict mode revert that  *)
(* unless its program was promoted too.                                    *)
NextBase(prior) ==
  IF \E k \in Slots : Promotes(k, prior)
    THEN LET k == CHOOSE j \in Slots : Promotes(j, prior) IN
         [package |-> Candidate(k), score |-> rows[k].score]
    ELSE input.base

NextEntry(prior) ==
  IF \E k \in Slots : Promotes(k, prior)
    THEN LET k == CHOOSE j \in Slots : Promotes(j, prior) IN
         [program |-> Candidate(k), score |-> rows[k].score]
    ELSE prior

(* suppress_task_training: an improvement without program credit trains    *)
(* nobody.                                                                 *)
Credited(prior) ==
  (\E k \in Slots : Improves(k)) => \E k \in Slots : Promotes(k, prior)

(* Variant for mutation: an unreadable registry counts as empty, as in     *)
(* legacy_qd mode.                                                         *)
Readable_AsEmpty == [known |-> TRUE, prior |-> IF registry = Torn THEN NoEntry
                                                ELSE registry]

Readable == [known |-> registry # Torn, prior |-> IF registry = Torn THEN NoEntry
                                                  ELSE registry]

(* Groups, bases and ratchet, from the rollout files and the registry; an  *)
(* unreadable registry raises.                                             *)
Judge(a) ==
  /\ At(a, "idle")
  /\ LET prior == Readable.prior IN
     IF ~Readable.known THEN Leave(a)
     ELSE /\ collector' = [collector EXCEPT ![a] =
               [at |-> "judged", next |-> NextBase(prior), entry |-> NextEntry(prior),
                improved |-> \E k \in Slots : Improves(k),
                credited |-> Credited(prior)]]
          /\ UNCHANGED <<worker, driver>>
  /\ UNCHANGED <<unchangedByCollect, fileVars>>

OpenRegistry(a) ==
  /\ At(a, "judged")
  /\ registry' = Torn
  /\ Goto(a, "writing")
  /\ UNCHANGED <<unchangedByCollect, batch, next_bases, summary>>

WriteRegistry(a) ==
  /\ At(a, "writing")
  /\ registry' = collector[a].entry
  /\ Goto(a, "recorded")
  /\ UNCHANGED <<unchangedByCollect, batch, next_bases, summary>>

WriteBatch(a) ==
  /\ At(a, "recorded")
  /\ batch' = [batch EXCEPT ![step] =
                 IF collector[a].credited THEN "credited" ELSE "suppressed"]
  /\ Goto(a, "batched")
  /\ UNCHANGED <<unchangedByCollect, registry, next_bases, summary>>

(* Variant for mutation: the commit record is due before the bases.        *)
WriteNextBases_Late(a) ==
  /\ At(a, "batched")
  /\ Goto(a, "based")
  /\ UNCHANGED <<unchangedByCollect, registry, batch, next_bases, summary>>

WriteNextBases(a) ==
  /\ At(a, "batched")
  /\ next_bases' = [next_bases EXCEPT ![step] = collector[a].next]
  /\ Goto(a, "based")
  /\ UNCHANGED <<unchangedByCollect, registry, batch, summary>>

(* The commit record.                                                      *)
WriteSummary(a) ==
  /\ At(a, "based")
  /\ summary' = [summary EXCEPT ![step] =
                   IF collector[a].improved THEN "improved" ELSE "flat"]
  /\ Leave(a)
  /\ UNCHANGED <<unchangedByCollect, registry, batch, next_bases>>

-----------------------------------------------------------------------------
(* The driver.                                                             *)

Submit ==
  /\ driver = "starting"
  /\ step \in Rounds
  /\ driver' = "waiting"
  /\ worker' = "proposing"
  /\ input' = None
  /\ rows' = [k \in Slots |-> None]
  /\ failed' = {}
  /\ UNCHANGED <<step, bases, workspace, stall, phi, refused, collector, fileVars>>

(* All rounds run, a STOP file, or a submission that keeps failing.        *)
EndCampaign ==
  /\ driver = "starting"
  /\ driver' = "over"
  /\ UNCHANGED <<step, bases, workspace, stall, phi, workerVars, collector, fileVars>>

AfterJob ==
  IF batch[step] = "absent" /\ input # None THEN "collecting" ELSE "checking"

(* Variant for mutation: an empty squeue answer is taken for the end.      *)
WaitJob_Blip ==
  /\ driver = "waiting"
  /\ driver' = AfterJob
  /\ UNCHANGED <<step, bases, workspace, stall, phi, workerVars, collector, fileVars>>

(* Variant for mutation: only a completed job counts as over.              *)
WaitJob_NeedsSuccess ==
  /\ driver = "waiting"
  /\ worker = "done"
  /\ driver' = AfterJob
  /\ UNCHANGED <<step, bases, workspace, stall, phi, workerVars, collector, fileVars>>

(* wait_job confirms with sacct.  A round without a batch is collected.    *)
WaitJob ==
  /\ driver = "waiting"
  /\ JobOver
  /\ driver' = AfterJob
  /\ UNCHANGED <<step, bases, workspace, stall, phi, workerVars, collector, fileVars>>

NoSummary ==
  /\ driver = "checking"
  /\ summary[step] = "absent"
  /\ driver' = "over"
  /\ UNCHANGED <<step, bases, workspace, stall, phi, workerVars, collector, fileVars>>

(* sanitize_grpo_batch.py: rows of rollouts that never reached the model   *)
(* are dropped, and if two remain the advantages are compared anew from    *)
(* their rewards, those that the ratchet had suppressed too.               *)
SanitizedBatch ==
  {batch} \cup {[batch EXCEPT ![step] = "restored"] :
                 k \in {j \in Slots : /\ batch[step] = "suppressed" /\ rows[j] = None
                                      /\ Cardinality(Slots \ {j}) >= 2}}

(* What the next round finds in the workspace: a copy of the registry.  A  *)
(* failed cp is passed over, so it may be the older copy; one cut short is *)
(* unreadable and counts as none, and NO_INHERIT deletes it every round.   *)
Handed == {registry, workspace, NoEntry}

(* The committed bases become the next round's, whatever became of the     *)
(* copy.                                                                   *)
Inherit ==
  /\ driver = "checking"
  /\ summary[step] # "absent"
  /\ batch' \in SanitizedBatch
  /\ workspace' \in Handed
  /\ bases' = next_bases[step]
  /\ stall' = IF summary[step] = "improved" THEN 0 ELSE stall + 1
  /\ driver' = "training"
  /\ UNCHANGED <<step, phi, workerVars, collector, registry, next_bases, summary>>

(* Variant for mutation: the gate opens one stalled round early.           *)
PlateauGate_Early == summary[step] = "improved" \/ stall + 1 >= PlateauRounds

PlateauGate == summary[step] = "improved" \/ stall >= PlateauRounds

(* Enough rows with an advantage: none of a suppressed batch has one,      *)
(* unless the sanitation gave it back.  The merged weights may fail to     *)
(* appear; the stall counter is reset anyway.                              *)
Train(merged) ==
  /\ driver = "training"
  /\ PlateauGate
  /\ batch[step] \in {"credited", "restored"}
  /\ stall' = 0
  /\ phi' = IF merged THEN phi \cup {step} ELSE phi
  /\ step' = step + 1
  /\ driver' = "starting"
  /\ UNCHANGED <<bases, workspace, workerVars, collector, fileVars>>

(* The gate is closed, or the batch has too few rows with an advantage.    *)
SkipTraining ==
  /\ driver = "training"
  /\ step' = step + 1
  /\ driver' = "starting"
  /\ UNCHANGED <<bases, workspace, stall, phi, workerVars, collector, fileVars>>

-----------------------------------------------------------------------------
Job ==
  \/ Propose
  \/ \E k \in Slots, out \in Outcome : RolloutEnds(k, out)
  \/ \E k \in Slots : RolloutFails(k)
  \/ RolloutsFinish

Collect(a) ==
  \/ Judge(a)
  \/ OpenRegistry(a)
  \/ WriteRegistry(a)
  \/ WriteBatch(a)
  \/ WriteNextBases(a)
  \/ WriteSummary(a)

Driver ==
  \/ Submit
  \/ EndCampaign
  \/ WaitJob
  \/ NoSummary
  \/ Inherit
  \/ \E merged \in BOOLEAN : Train(merged)
  \/ SkipTraining

Next ==
  \/ Job
  \/ JobKilled
  \/ \E a \in Actors : Collect(a)
  \/ Driver

(* A job ends at its wall time if not before, and the driver, its own      *)
(* collect included, is a program that goes on to its next command.        *)
Fairness ==
  /\ WF_vars(JobKilled)
  /\ WF_vars(Driver)
  /\ WF_vars(Collect("driver"))

Spec == Init /\ [][Next]_vars
FairSpec == Spec /\ Fairness

-----------------------------------------------------------------------------
TypeOK ==
  /\ step \in 1..(LastRound + 1)
  /\ driver \in {"starting", "waiting", "collecting", "checking", "training", "over"}
  /\ bases \in Base
  /\ workspace \in Entry
  /\ stall \in Nat
  /\ phi \in SUBSET Rounds
  /\ worker \in {"none", "proposing", "rolling", "collecting", "done", "refused", "dead"}
  /\ input \in [base : Base, seed : Entry] \cup {None}
  /\ rows \in [Slots -> Outcome \cup {None}]
  /\ failed \in SUBSET Slots
  /\ refused \in SUBSET Rounds
  /\ collector \in [Actors -> [at : {"idle", "judged", "writing", "recorded",
                                     "batched", "based"},
                               next : Base, entry : Entry,
                               improved : BOOLEAN, credited : BOOLEAN]]
  /\ registry \in Entry \cup {Torn}
  /\ batch \in [Rounds -> {"absent", "credited", "suppressed", "restored"}]
  /\ next_bases \in [Rounds -> Base \cup {None}]
  /\ summary \in [Rounds -> {"absent", "improved", "flat"}]

(***************************************************************************)
(* Properties.                                                             *)
(***************************************************************************)

Committed(r) == summary[r] # "absent"
Advanced(r) == next_bases[r] # None /\ next_bases[r].package \in {r} \X Slots

(* Whoever sees the commit record finds the bases and the batch of the     *)
(* same collect, whatever was killed or collected a second time before     *)
(* (cmd_collect: "must never observe it without the corresponding          *)
(* next_bases registry").                                                  *)
CommitIsComplete ==
  \A r \in Rounds : Committed(r) =>
    /\ next_bases[r] # None
    /\ batch[r] # "absent"
    /\ Advanced(r) => batch[r] = "credited" /\ summary[r] = "improved"

(* A base and a program: the base is no candidate of the campaign, or the  *)
(* program is that candidate's with its score, or a later, better one.     *)
BoundTo(base, entry) ==
  base.package # None =>
    \/ entry.program = base.package /\ entry.score = base.score
    \/ entry.program # None /\ entry.score > base.score

(* The harness a campaign inherits never outruns the program it was scored *)
(* with, whether or not the program reached the workspace: the registry    *)
(* has it, and a round that was seeded with an older program, because a    *)
(* copy failed or was deleted, advances nothing (strict_single: "a raw     *)
(* score cannot advance H2 when it cannot be bound to a newly improved     *)
(* program").                                                              *)
BaseIsBoundToProgram ==
  /\ driver \in {"training", "starting", "waiting"} /\ registry # Torn =>
       BoundTo(bases, registry)
  /\ driver = "checking" /\ Committed(step) /\ Advanced(step) =>
       BoundTo(bases, input.seed)

(* What a committed round hands on is never worse than what its proposer   *)
(* was given, and is what the new base is bound to: no crash in the middle *)
(* of a write, no second collect and no earlier failed copy loses the      *)
(* incumbent or replaces it by anything but a better one.                  *)
IncumbentOnlyImproves ==
  [][driver' = "training" =>
       /\ registry # Torn
       /\ workspace.program # None => registry.program # None
       /\ registry.program # workspace.program => registry.score > workspace.score
       /\ BoundTo(bases', registry)]_driver

(* Two collects never write one round at a time, and none judges a round   *)
(* whose rollouts still run (wait_job: "must NOT look like completion").   *)
CollectsAlone == driver = "collecting" => JobOver

(* The proposer is trained only on committed rounds; on a gain only if it  *)
(* advanced the base, or if the sanitation gave its advantages back; and   *)
(* without a gain only after PlateauRounds stalled rounds in a row, none   *)
(* of which trained it.                                                    *)
TrainingIsEarned ==
  \A r \in phi :
    /\ Committed(r)
    /\ summary[r] = "improved" => Advanced(r) \/ batch[r] = "restored"
    /\ summary[r] = "flat" =>
         /\ r >= PlateauRounds
         /\ \A q \in (r - PlateauRounds + 1)..(r - 1) :
              summary[q] = "flat" /\ q \notin phi

(* Neither a killed job nor a failed collect keeps the campaign waiting.   *)
CampaignEnds == <>(driver = "over")

(* What the job announces when a rollout failed: it refuses to collect.    *)
(* The code breaks it: the driver finds no batch and collects the round.   *)
RefusedIsNotCommitted == \A r \in refused : ~Committed(r)

(* "Zero all task advantages when its apparent gain lacks program credit": *)
(* then no such gain trains the proposer.  The code breaks it: a row of    *)
(* the round is dropped and the others are compared anew.                  *)
TrainingIsCredited == \A r \in phi : summary[r] = "improved" => Advanced(r)

(* The joint H2/program transition: a committed round advances both or     *)
(* neither.  The code breaks it: a collect killed after it wrote the       *)
(* registry is run again by the driver, and its program no longer starts   *)
(* from the incumbent, which is now itself.                                *)
AdvancesTogether ==
  driver = "training" /\ registry # Torn =>
    (registry.program \in {step} \X Slots <=> bases.package \in {step} \X Slots)
=============================================================================
