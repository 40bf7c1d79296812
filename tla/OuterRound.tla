------------------------------ MODULE OuterRound ------------------------------
(***************************************************************************)
(* One task's outer rounds as the worker runs them: K proposal slots in    *)
(* parallel (outer_round.py cmd_propose), duplicates dropped, packages     *)
(* written, the proposal gate, the rollout plan (trajectory_budget.py),    *)
(* candidate rollouts and paired controls (_outer_round_worker.sh), and    *)
(* the paired collect that publishes the next beam.  The job may be killed *)
(* anywhere and the round submitted again over the same directory, until   *)
(* its summary exists; the driver may also collect what a dead job left.   *)
(*                                                                         *)
(* A package is its genome; a genome is known by the tools it carries and  *)
(* by the score an executor reaches with it.  Scores are sums over the     *)
(* repeats of a slot.  What happens inside a slot is ProposeSlot's, inside *)
(* a rollout InnerRollout's; repair and the ceiling are Credit's.          *)
(***************************************************************************)
EXTENDS SlotRoles, FiniteSets, FiniteSetsExt, SequencesExt

CONSTANTS
  Repeats,              \* rollouts of a slot
  GateMin,              \* valid slots the proposal gate asks for, 0 is off
  Fixed,                \* SAH_FIXED_INFERENCE_SLOTS
  BeamWidth, Tolerance, \* CURVE_INHERIT_BEAM, CURVE_BEAM_TOL
  MinStride,            \* the 16 of the decode seed stride
  Genomes, FirstBase, ToolsOf, Worth,
  LastRound, MaxAttempts, \* bounds; the attempts are those of all rounds
  None, Pending

Groups == {"rollouts", "paired_controls"}

ASSUME RoundAssumption ==
  /\ Repeats \in Nat \ {0} /\ MinStride \in Nat \ {0}
  /\ GateMin \in 0 .. K /\ BeamWidth \in {1, 2}
  /\ Fixed \in BOOLEAN /\ Tolerance \in Nat
  /\ FirstBase \in Genomes /\ Worth \in [Genomes -> Nat]
  /\ {None, Pending} \cap Genomes = {} /\ None # Pending
  /\ LastRound \in Nat /\ MaxAttempts \in Nat \ {0}

-------------------------------------------------------------------------------
(* Exploration slots descend from the second beam entry when there is one. *)
ParentOf(k, parents) ==
  IF Len(parents) > 1 /\ (ComponentOnly(k) \/ Epsilon(k))
  THEN parents[2] ELSE parents[1]

Added(g, parent) == ToolsOf[g] \ ToolsOf[parent]

(* What a slot can hand in: nothing valid, or a change of its parent; a    *)
(* component-only slot changes components, a forced one must add a tool.   *)
Proposals(k, parent) ==
  {None} \cup {g \in Genomes \ {parent} :
    /\ ComponentOnly(k) => ToolsOf[g] # ToolsOf[parent]
    /\ k \in Forced => Added(g, parent) # {}}

(* Variant for mutation: the base is not among the seen.                   *)
Deduped_AgainstSlots(recs, head) == [k \in Slots |->
  IF \E j \in Slots : j < k /\ recs[j] = recs[k] THEN None ELSE recs[k]]

Deduped(recs, head) == [k \in Slots |->
  IF recs[k] = head \/ \E j \in Slots : j < k /\ recs[j] = recs[k]
  THEN None ELSE recs[k]]

(* Variant for mutation: rounds are one smallest stride apart.             *)
Stride_Smallest == MinStride

Stride == Max({MinStride, K * Repeats})

Seed(r, repeat, k) == r * Stride + repeat * K + k

-------------------------------------------------------------------------------
VARIABLES
  round, attempt, phase,
  beam,      \* the inherited packages with their scores, the head first
  drafts,    \* per slot: Pending, or what its session handed in
  written,   \* slots whose package is on disk in this attempt
  cand,      \* tasks/<task>/candNN on disk, from any attempt
  evidence,  \* the attempt whose trajectories.json is on disk
  archives,  \* proposal_gate_failures/attempt_NN
  refused,   \* history: the attempts the gate refused
  meta,      \* round.json: <<>>, or what it records
  plan,      \* h2_slot_plan.json: <<>>, or the mode of each slot
  todo, layer, rc, \* slots left to run in a layer, and any failure
  runs,      \* the results in the round's directories, of all attempts
  spent,     \* history: the rollouts of earlier rounds, by their seeds
  winner     \* the promoted slot, or None

vars == <<round, attempt, phase, beam, drafts, written, cand, evidence, archives,
          refused, meta, plan, todo, layer, rc, runs, spent, winner>>
inherited == <<round, attempt, beam, spent, winner>>
proposal == <<drafts, written, cand, evidence, archives, refused>>
execution == <<plan, todo, layer, rc, runs>>

Working == {"propose", "write", "gate", "plan", "rollouts", "controls", "collect"}
Phases == Working \cup {"dead", "adopt"}

NoDrafts == [k \in Slots |-> Pending]
NoPackages == [k \in Slots |-> None]

Init ==
  /\ round = 0 /\ attempt = 1 /\ phase = "propose"
  /\ beam = <<[package |-> FirstBase, score |-> 0]>>
  /\ drafts = NoDrafts /\ written = 0 /\ cand = NoPackages
  /\ evidence = 0 /\ archives = <<>> /\ refused = {}
  /\ meta = <<>> /\ plan = <<>> /\ todo = {} /\ layer = 0 /\ rc = 0
  /\ runs = {} /\ spent = {} /\ winner = None

(* cmd_propose: the slots end in any order.                                *)
Propose(k) ==
  /\ phase = "propose" /\ drafts[k] = Pending
  /\ \E g \in Proposals(k, ParentOf(k, beam).package) :
       drafts' = [drafts EXCEPT ![k] = g]
  /\ UNCHANGED <<inherited, phase, written, cand, evidence, archives, refused,
                 meta, execution>>

(* dedup_group, once every slot has ended.                                 *)
Dedup ==
  /\ phase = "propose" /\ \A k \in Slots : drafts[k] # Pending
  /\ drafts' = Deduped(drafts, beam[1].package)
  /\ phase' = "write"
  /\ UNCHANGED <<inherited, written, cand, evidence, archives, refused, meta, execution>>

(* Variant for mutation: a directory that exists is taken as written.      *)
Materialize_IfMissing ==
  /\ phase = "write" /\ written < K /\ written' = written + 1
  /\ cand' = IF drafts[written] = None \/ cand[written] # None THEN cand
             ELSE [cand EXCEPT ![written] = drafts[written]]
  /\ UNCHANGED <<inherited, phase, drafts, evidence, archives, refused, meta, execution>>

(* A valid slot's package replaces its directory; the directory an earlier *)
(* attempt left for an invalid slot stays.                                 *)
Materialize ==
  /\ phase = "write" /\ written < K /\ written' = written + 1
  /\ cand' = IF drafts[written] = None THEN cand
             ELSE [cand EXCEPT ![written] = drafts[written]]
  /\ UNCHANGED <<inherited, phase, drafts, evidence, archives, refused, meta, execution>>

ValidSlots == {k \in Slots : drafts[k] # None}

GatePasses == Cardinality(ValidSlots) >= GateMin

(* The gate fails the attempt after its evidence is written and archived.  *)
GateRefuses ==
  /\ phase = "write" /\ written = K /\ ~GatePasses
  /\ evidence' = attempt /\ archives' = Append(archives, attempt)
  /\ refused' = refused \cup {attempt} /\ phase' = "dead"
  /\ UNCHANGED <<inherited, drafts, written, cand, meta, execution>>

WriteRoundJson ==
  /\ phase = "write" /\ written = K /\ GatePasses
  /\ meta' = <<[attempt |-> attempt, base |-> beam[1].package, accepted |-> drafts,
                genome |-> [k \in Slots |-> IF drafts[k] = None THEN None ELSE cand[k]],
                parent |-> [k \in Slots |-> ParentOf(k, beam).package]]>>
  /\ phase' = "gate"
  /\ UNCHANGED <<inherited, proposal, execution>>

WriteTrajectories ==
  /\ phase = "gate" /\ evidence' = attempt /\ phase' = "plan"
  /\ UNCHANGED <<inherited, drafts, written, cand, archives, refused, meta, execution>>

(* build_h2_slot_plan: under fixed slots an invalid proposal still runs,   *)
(* on the incumbent, unless the gate asked for every slot.                 *)
SlotMode(k) ==
  CASE meta[1].genome[k] # None -> "candidate"
    [] meta[1].genome[k] = None /\ Fixed -> "fallback"
    [] OTHER -> "omitted"

Planned == {k \in Slots : plan[k] # "omitted"}

BuildPlan ==
  /\ phase = "plan" /\ phase' = "rollouts"
  /\ plan' = [k \in Slots |-> SlotMode(k)]
  /\ todo' = {k \in Slots : SlotMode(k) # "omitted"} /\ layer' = 0
  /\ UNCHANGED <<inherited, proposal, meta, rc, runs>>

(* One process of the pool: a terminal row that counts or does not, or a   *)
(* process that fails.                                                     *)
Rollout(k, group, package) ==
  /\ \E ended \in {"eligible", "ineligible", "failed"} :
       /\ rc' = IF ended = "failed" THEN 1 ELSE rc
       /\ runs' = runs \cup (IF ended = "failed" THEN {} ELSE
            {[attempt |-> attempt, group |-> group, k |-> k, repeat |-> layer,
              seed |-> Seed(round, layer, k),
              package |-> package, eligible |-> ended = "eligible"]})
  /\ todo' = todo \ {k}
  /\ UNCHANGED <<inherited, proposal, phase, meta, plan, layer>>

RunCandidate(k) ==
  /\ phase = "rollouts" /\ k \in todo
  /\ Rollout(k, "rollouts", IF plan[k] = "fallback" THEN meta[1].base ELSE cand[k])

(* The next layer of repeats, or the controls, once a layer is all right.  *)
NextLayer ==
  /\ phase = "rollouts" /\ todo = {} /\ rc = 0 /\ todo' = Planned
  /\ IF layer < Repeats - 1 THEN layer' = layer + 1 /\ UNCHANGED phase
     ELSE layer' = 0 /\ phase' = "controls"
  /\ UNCHANGED <<inherited, proposal, meta, plan, rc, runs>>

(* Controls of every slot roll out the head package of the task.           *)
RunControl(k) ==
  /\ phase = "controls" /\ k \in todo
  /\ Rollout(k, "paired_controls", meta[1].base)

NextControls ==
  /\ phase = "controls" /\ todo = {}
  /\ IF layer < Repeats - 1 THEN layer' = layer + 1 /\ todo' = Planned /\ UNCHANGED phase
     ELSE rc = 0 /\ phase' = "collect" /\ UNCHANGED <<layer, todo>>
  /\ UNCHANGED <<inherited, proposal, meta, plan, rc, runs>>

(* A failed process ends the job; it may also be killed anywhere.          *)
JobDies ==
  /\ phase \in Working /\ phase' = "dead"
  /\ UNCHANGED <<inherited, proposal, meta, execution>>

-------------------------------------------------------------------------------
(* compute_task_group_paired over what lies in the round's directories.    *)

Results(group, k) ==
  {x \in runs : x.group = group /\ x.k = k /\ x.eligible}

Seeds(results) == {x.seed : x \in results}

Complete(k) == Cardinality(Results("rollouts", k)) = Repeats

(* Variant for mutation: the packages of a pair are not compared.          *)
PairContract_BySeed(k) ==
  LET c == Results("rollouts", k)
      p == Results("paired_controls", k)
  IN /\ Cardinality(Seeds(c)) = Cardinality(c) /\ Cardinality(Seeds(p)) = Cardinality(p)
     /\ Seeds(c) = Seeds(p)

(* Each pair shares its seed and ran the declared candidate and parent.    *)
PairContract(k) ==
  LET c == Results("rollouts", k)
      p == Results("paired_controls", k)
  IN /\ Cardinality(Seeds(c)) = Cardinality(c) /\ Cardinality(Seeds(p)) = Cardinality(p)
     /\ Seeds(c) = Seeds(p)
     /\ \A x \in c : x.package = meta[1].genome[k]
     /\ \A y \in p : y.package = meta[1].parent[k]

Collectable(k) ==
  meta[1].genome[k] # None =>
    /\ Cardinality(Results("paired_controls", k)) = Repeats
    /\ Cardinality(Results("rollouts", k)) <= Repeats
    /\ Complete(k) => PairContract(k)

Credited == {k \in Slots : meta[1].genome[k] # None /\ Complete(k)}

ScoreOf(results) == MapThenSumSet(LAMBDA x : Worth[x.package], results)
Score(k) == ScoreOf(Results("rollouts", k))
Delta(k) == Score(k) - ScoreOf(Results("paired_controls", k))

(* The first of the slots with the largest effect, then score.             *)
IsCausalBest(k) ==
  /\ k \in Credited
  /\ \A j \in Credited \ {k} :
       \/ Delta(j) < Delta(k)
       \/ Delta(j) = Delta(k) /\ Score(j) < Score(k)
       \/ Delta(j) = Delta(k) /\ Score(j) = Score(k) /\ k < j

Improves(k) == IsCausalBest(k) /\ Delta(k) > 0 /\ Score(k) > beam[1].score

(* The beam: the head, then the best candidate that changed a component    *)
(* and is near the head, else the best candidate.                          *)
InPool(k, won) == k \in Credited /\ k # won
HasComponent(k) == ToolsOf[meta[1].genome[k]] # ToolsOf[meta[1].parent[k]]
FirstByScore(S) == CHOOSE k \in S : \A j \in S :
                     Score(j) < Score(k) \/ (Score(j) = Score(k) /\ k <= j)

Second(head, won) ==
  LET pool == {k \in Slots : InPool(k, won)}
      near == {k \in pool : HasComponent(k) /\ head.score - Score(k) <= Tolerance}
  IN IF BeamWidth = 1 \/ pool = {} THEN <<>>
     ELSE LET k == FirstByScore(IF near # {} THEN near ELSE pool)
          IN <<[package |-> cand[k], score |-> Score(k)]>>

Publish(won) ==
  LET head == IF won = None THEN beam[1]
              ELSE [package |-> cand[won], score |-> Score(won)]
  IN beam' = <<head>> \o Second(head, won) /\ winner' = won

(* The worker's collect, or the driver's after a job that left round.json. *)
Collect ==
  /\ phase \in {"collect", "dead"} /\ meta # <<>>
  /\ \A k \in Slots : Collectable(k)
  /\ LET won == {k \in Slots : Improves(k)}
     IN Publish(IF won = {} THEN None ELSE CHOOSE k \in won : TRUE)
  /\ phase' = "adopt"
  /\ UNCHANGED <<round, attempt, spent, proposal, meta, execution>>

CollectRaises ==
  /\ phase = "collect" /\ \E k \in Slots : ~Collectable(k) /\ phase' = "dead"
  /\ UNCHANGED <<inherited, proposal, meta, execution>>

(* The rollouts of the round, by slot and layer: a pair is one of them.    *)
Rollouts ==
  {[round |-> round, k |-> x.k, repeat |-> x.repeat, seed |-> x.seed] : x \in runs}

(* The round is submitted again: no summary exists yet.                    *)
Proposing ==
  /\ phase' = "propose" /\ drafts' = NoDrafts /\ written' = 0
  /\ todo' = {} /\ layer' = 0 /\ rc' = 0

Resubmit ==
  /\ phase = "dead" /\ attempt < MaxAttempts /\ attempt' = attempt + 1
  /\ Proposing
  /\ UNCHANGED <<round, beam, spent, winner, cand, evidence, archives, refused, meta,
                 plan, runs>>

NextRound ==
  /\ phase = "adopt" /\ round < LastRound /\ round' = round + 1
  /\ Proposing
  /\ winner' = None /\ cand' = NoPackages /\ evidence' = 0 /\ archives' = <<>>
  /\ refused' = {} /\ meta' = <<>> /\ plan' = <<>>
  /\ runs' = {} /\ spent' = spent \cup Rollouts
  /\ UNCHANGED <<attempt, beam>>

(* The last round is adopted, or the driver stops without a summary.       *)
Stop ==
  /\ phase = "dead" \/ (phase = "adopt" /\ round = LastRound)
  /\ UNCHANGED vars

Next ==
  \/ \E k \in Slots : Propose(k) \/ RunCandidate(k) \/ RunControl(k)
  \/ Dedup \/ Materialize \/ GateRefuses \/ WriteRoundJson \/ WriteTrajectories
  \/ BuildPlan \/ NextLayer \/ NextControls \/ JobDies
  \/ Collect \/ CollectRaises \/ Resubmit \/ NextRound \/ Stop

Spec == Init /\ [][Next]_vars

-------------------------------------------------------------------------------
(* The variables have their types; a round never charges two slots for one *)
(* genome, nor one for the incumbent's.                                    *)
TypeOK ==
  /\ round \in 0 .. LastRound /\ attempt \in 1 .. MaxAttempts /\ phase \in Phases
  /\ Len(beam) \in 1 .. BeamWidth
  /\ drafts \in [Slots -> Genomes \cup {None, Pending}] /\ written \in 0 .. K
  /\ cand \in [Slots -> Genomes \cup {None}]
  /\ evidence \in 0 .. MaxAttempts /\ refused \subseteq 1 .. MaxAttempts
  /\ todo \subseteq Slots /\ layer \in 0 .. Repeats - 1 /\ rc \in {0, 1}
  /\ winner \in Slots \cup {None}
  /\ \A m \in Range(meta) : \A k \in Slots : m.genome[k] # None =>
       /\ m.genome[k] # m.base
       /\ \A j \in Slots \ {k} : m.genome[j] # m.genome[k]

(* Every rollout of the attempt that round.json records ran the genome its *)
(* slot handed in, or the incumbent when that was invalid, whatever        *)
(* earlier attempts left in the directories.                               *)
LaunchedAsRecorded ==
  \A m \in Range(meta) : \A x \in runs :
    x.attempt = m.attempt =>
      x.package = IF x.group = "paired_controls" \/ m.accepted[x.k] = None
                  THEN m.base ELSE m.accepted[x.k]

(* A decode seed names one slot of one layer of one round: a candidate and *)
(* its control share it, and no other two rollouts of the campaign do.     *)
SeedsTellRollouts ==
  \A x, y \in spent \cup Rollouts :
    x.seed = y.seed <=> x.round = y.round /\ x.k = y.k /\ x.repeat = y.repeat

(* Unless a later attempt followed the one round.json records, the beam a  *)
(* collect publishes is what was measured: a package it enters carries the *)
(* score of that very package over all repeats, whatever other attempts    *)
(* left beside its results, and one that is promoted outdoes the package   *)
(* it replaces.                                                            *)
PublishedIsMeasured ==
  phase = "adopt" /\ meta[1].attempt = attempt =>
    /\ \A i \in DOMAIN beam :
         i > 1 \/ winner # None => beam[i].score = Repeats * Worth[beam[i].package]
    /\ winner # None => Worth[meta[1].base] < Worth[beam[1].package]

(* docs: a retry re-proposes cleanly, so the package a collect promotes is *)
(* the one its rollouts measured.  The code breaks it: what the first      *)
(* attempt ran may lie in the directory of a slot the second rewrote.      *)
PromotedIsMeasured ==
  winner # None =>
    \A x \in Results("rollouts", winner) : x.package = beam[1].package

(* docs: a slot's paired control rolls out that slot's parent.  The code   *)
(* breaks it: the worker rolls out the head of the beam for every slot.    *)
ControlIsOfParent ==
  \A m \in Range(meta) : \A x \in runs :
    x.attempt = m.attempt /\ x.group = "paired_controls" =>
      x.package = m.parent[x.k]
=============================================================================
