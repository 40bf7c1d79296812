-------------------------------- MODULE Credit --------------------------------
(***************************************************************************)
(* What a proposer is taught: the rewards and advantages of a round        *)
(* (rewards.py, in each SAH_ADV mode), their suppression by the strict     *)
(* ratchet, the batch's sanitation (sanitize_grpo_batch.py), its           *)
(* conversion into a replay (grpo_to_replay.py) and the archive an update  *)
(* is mixed with (train_mphi_step.sh).                                     *)
(*                                                                         *)
(* Rewards are integers, Unit to one; tanh and exp are an increasing       *)
(* bounded and a decreasing positive map.  An advantage is known up to a   *)
(* positive factor common to its group, and by whether it exceeds 0.3.     *)
(***************************************************************************)
EXTENDS Integers, FiniteSets, FiniteSetsExt

CONSTANTS
  K, Tasks, Modes, \* slots, tasks, values of SAH_ADV
  Outcomes,        \* what can become of a slot, see OutcomeType
  Scores, FirstBase, Ceiling, \* Ceiling 0: the task has none
  Unit, TieRange,  \* a reward of one; zero_range_eps
  MinTrainable, BatchSize, Mix, \* MIN_TRAINABLE_ROWS, GBS, ARCHIVE_MIX
  LastRound,       \* a bound
  None

Slots == 0 .. K - 1

(* A run directory holds a terminal row that counts, that does not, or of  *)
(* a harness that never reached the model; or only a checkpoint.  The      *)
(* score is the row's, or else that of the checkpoint beside it.           *)
RunType == [kind : {"eligible", "ineligible", "dead", "checkpoint"}, score : Scores]

OutcomeType ==
  [valid : BOOLEAN, repaired : BOOLEAN, said : BOOLEAN,
   runs : SUBSET RunType, control : Scores]

ASSUME CreditAssumption ==
  /\ K \in Nat \ {0, 1} /\ Scores \subseteq Nat /\ FirstBase \in [Tasks -> Scores]
  /\ Ceiling \in Nat /\ Unit \in Nat \ {0} /\ TieRange \in Nat \ {0}
  /\ Modes \subseteq {"legacy", "v2", "v3", "paired", "anchored"}
  /\ Outcomes \subseteq OutcomeType /\ None \notin Scores
  /\ \A o \in Outcomes : o.repaired => o.valid
  /\ MinTrainable \in Nat \ {0} /\ BatchSize \in Nat /\ Mix \in Nat /\ LastRound \in Nat

VARIABLES
  mode, round, task, phase,
  base,       \* the incumbent's score, per task
  slots,      \* the outcome of each slot
  rows,       \* the reward and the advantage of each slot
  batch,      \* the slots with a row in grpo_batch.jsonl
  suppressed, \* the ratchet took the round's training back
  archive,    \* replay_archive.jsonl
  update      \* the optimizer's input of this round, or None

vars == <<mode, round, task, phase, base, slots, rows, batch, suppressed, archive, update>>

-------------------------------------------------------------------------------
(* Scores of a slot.                                                       *)

BestOf(runs) == IF runs = {} THEN None ELSE Max({x.score : x \in runs})
Eligible(o) == {x \in o.runs : x.kind = "eligible"}

(* Variant for mutation: a checkpoint counts whatever row lies beside it.  *)
LoadScore_Checkpoint(o) == BestOf(o.runs)

(* A checkpoint counts only when no run wrote a terminal row.              *)
LoadScore(o) ==
  IF \E x \in o.runs : x.kind # "checkpoint" THEN BestOf(Eligible(o)) ELSE BestOf(o.runs)

Score(k) ==
  CASE ~slots[k].valid -> None
    [] slots[k].valid /\ mode # "paired" -> LoadScore(slots[k])
    [] OTHER -> IF Cardinality(Eligible(slots[k])) = 1 THEN BestOf(Eligible(slots[k])) ELSE None

(* The worker's audit before the controls: each rollout left a row with a  *)
(* model turn.                                                             *)
Audited(o) == \A x \in o.runs : x.kind \in {"eligible", "ineligible"}

Poisoned(o) == \E x \in o.runs : x.kind = "dead"

-------------------------------------------------------------------------------
(* Rewards.                                                                *)

OrZero(score) == IF score = None THEN 0 ELSE score
AtMost(x, most) == IF x < most THEN x ELSE most
AtLeast(x, least) == IF x > least THEN x ELSE least

(* task_reward: the gain relative to the base, clipped to -1 and 5.        *)
Relative(s, b) ==
  IF b = 0 THEN (IF s = 0 THEN 0 ELSE 5 * Unit)
  ELSE AtMost(AtLeast((Unit * (s - b)) \div b, -Unit), 5 * Unit)

SoftCap(r) == (3 * Unit * r) \div (r + 3 * Unit)

(* task_reward_v2: the part of the gap to the ceiling that was closed.     *)
GapClosed(s, b) ==
  IF b >= Ceiling THEN Relative(s, b)
  ELSE LET r == (Unit * (s - b)) \div (Ceiling - b)
       IN IF r > 0 THEN SoftCap(r) ELSE AtLeast(r, -Unit)

KnowsRepair == mode \in {"v2", "v3", "paired"}
Repaired(k) == KnowsRepair /\ slots[k].repaired

(* The rows that enter the range: scored pairs, or all valid ones.         *)
Measured == {k \in Slots : slots[k].valid /\ (mode = "paired" => Score(k) # None)}

RawReward(k) ==
  IF k \notin Measured \/ Repaired(k) THEN -Unit
  ELSE IF mode = "legacy" THEN Relative(OrZero(Score(k)), base[task])
  ELSE GapClosed(OrZero(Score(k)), IF mode = "paired" THEN slots[k].control ELSE base[task])

RangeOf(S, r) == IF S = {} THEN 0 ELSE Max({r[k] : k \in S}) - Min({r[k] : k \in S})
Total(S, r) == MapThenSumSet(LAMBDA k : r[k], S)

Tied(raw) == RangeOf(Measured, raw) < TieRange
NoSignal(raw) == Measured = Slots /\ Tied(raw)

(* Variant for mutation: the collapse has the last word on repaired slots. *)
Settled_CollapseLast(raw) ==
  [k \in Slots |->
    IF Measured # {} /\ Measured # Slots /\ Tied(raw) /\ k \in Measured
    THEN Total(Measured, raw) \div Cardinality(Measured)
    ELSE raw[k]]

(* Tied slots beside failed ones get their mean; a repaired slot gets the  *)
(* minimum whatever the collapse did.                                      *)
Settled(raw) ==
  [k \in Slots |->
    IF Repaired(k) THEN -Unit
    ELSE IF Measured # {} /\ Measured # Slots /\ Tied(raw) /\ k \in Measured
    THEN Total(Measured, raw) \div Cardinality(Measured)
    ELSE raw[k]]

-------------------------------------------------------------------------------
(* Advantages of a group S with rewards r.                                 *)

(* How far each is ahead of the mean, times the size of the group.         *)
Leads(S, r) ==
  LET total == Total(S, r) IN [k \in S |-> Cardinality(S) * r[k] - total]

Row(reward, adv, strong) == [reward |-> reward, adv |-> adv, strong |-> strong]

(* Values over the root mean square of their group; which exceed 0.3.      *)
Normalized(S, r, v) ==
  LET squares == Total(S, [k \in S |-> v[k] * v[k]])
  IN [k \in S |-> Row(r[k], v[k],
        v[k] > 0 /\ 100 * Cardinality(S) * v[k] * v[k] > 9 * squares)]

(* (r - mean) / std                                                        *)
ZScores(S, r) == Normalized(S, r, Leads(S, r))

(* 0.7 leave-one-out lead + 0.3 share of the weight of the best.           *)
Sharpened(r, range) ==
  LET best == Max({r[k] : k \in Slots})
      w == [k \in Slots |-> (100 * (range + 1)) \div (range + 1 + 4 * (best - r[k]))]
      z == Total(Slots, w)
      lead == Leads(Slots, r)
      adv == [k \in Slots |-> 7 * K * z * lead[k]
                              + 3 * (K - 1) * Unit * (K * w[k] - z)]
      scale == 10 * K * (K - 1) * Unit * z
  IN [k \in Slots |-> Row(r[k], adv[k], 10 * adv[k] > 3 * scale)]

Flat(r) == [k \in Slots |-> Row(r[k], 0, FALSE)]

(* v3: a tied group off the frontier is nudged as one.                     *)
Rescued(r) ==
  LET vm == Total(Slots, r) \div K
      nudge == IF vm > 0 THEN SoftCap(vm) ELSE -SoftCap(-vm)
  IN IF vm < TieRange /\ -vm < TieRange THEN Flat(r)
     ELSE [k \in Slots |-> Row(r[k], nudge, nudge > Unit)]

(* anchored: anchor, rank and record bonus with locked signs.              *)
Saturate(x, h) == IF x >= 0 THEN (10 * x) \div (x + h) ELSE -((10 * (-x)) \div (h - x))

Anchored ==
  LET b == base[task]
      scored == {k \in Slots : Score(k) # None}
      delta(k) == IF b < Ceiling THEN (Unit * (Score(k) - b)) \div (Ceiling - b)
                  ELSE (Unit * (Score(k) - b)) \div AtLeast(b, 1)
      below(k) == Cardinality({j \in scored : Score(j) < Score(k)})
      rank(k) == IF Cardinality(scored) = 1 THEN 0
                 ELSE (20 * below(k)) \div (Cardinality(scored) - 1) - 10
      record(k) == Score(k) > b /\ \A j \in scored : Score(j) <= Score(k)
      value(k) == 70 * Saturate(delta(k), Unit \div 4) + 20 * rank(k)
                  + (IF record(k) THEN 30 * Saturate(delta(k), Unit \div 20) ELSE 0)
      locked(k) == CASE Score(k) = b -> 0
                     [] Score(k) > b -> AtLeast(value(k), 50)
                     [] Score(k) < b -> AtMost(value(k), -50)
      v == [k \in Slots |-> IF k \in scored THEN locked(k) ELSE -1000]
  IN Normalized(Slots, [k \in Slots |-> IF k \in scored THEN delta(k) ELSE -Unit], v)

(* cmd_collect: the group function of the mode.                            *)
Group ==
  LET raw == [k \in Slots |-> RawReward(k)]
      r == Settled(raw)
  IN CASE mode = "anchored" -> Anchored
       [] mode = "legacy" -> ZScores(Slots, raw)
       [] mode = "v3" /\ NoSignal(raw) -> Rescued(r)
       [] mode \in {"v2", "paired"} /\ NoSignal(raw) -> Flat(r)
       [] OTHER -> Sharpened(r, RangeOf(Measured, raw))

(* The slot a round would promote: the best score, or the best effect.     *)
Winners ==
  LET scored == {k \in Slots : Score(k) # None}
      r == Settled([k \in Slots |-> RawReward(k)])
      delta(k) == Score(k) - slots[k].control
      beats(j, k) ==
        IF mode # "paired" THEN Score(j) > Score(k)
        ELSE \/ r[j] > r[k]
             \/ r[j] = r[k] /\ delta(j) > delta(k)
             \/ r[j] = r[k] /\ delta(j) = delta(k) /\ Score(j) > Score(k)
  IN {k \in scored : /\ \A j \in scored : ~beats(j, k)
                     /\ Score(k) > base[task]
                     /\ mode = "paired" => delta(k) > 0}

-------------------------------------------------------------------------------
Init ==
  /\ mode \in Modes /\ round = 0 /\ task \in Tasks /\ phase = "rollouts"
  /\ base = FirstBase /\ slots = <<>> /\ rows = <<>> /\ batch = {}
  /\ suppressed = FALSE /\ archive = {} /\ update = None

Rollouts ==
  /\ phase = "rollouts" /\ phase' = "collect"
  /\ slots' \in [Slots -> Outcomes]
  /\ UNCHANGED <<mode, round, task, base, rows, batch, suppressed, archive, update>>

Collectable ==
  mode = "paired" => \A k \in Slots :
    Audited(slots[k]) /\ (slots[k].valid => Cardinality(Eligible(slots[k])) <= 1)

(* cmd_collect with the strict ratchet: an improvement that cannot be      *)
(* bound to a program keeps the base and takes the training back.          *)
Collect ==
  /\ phase = "collect" /\ Collectable
  /\ LET group == Group
         won == Winners
     IN \E bound \in BOOLEAN :
       /\ suppressed' = (won # {} /\ ~bound)
       /\ base' = IF won # {} /\ bound
                  THEN [base EXCEPT ![task] = Score(Min(won))] ELSE base
       /\ rows' = IF suppressed' THEN Flat([k \in Slots |-> group[k].reward]) ELSE group
  /\ batch' = Slots /\ phase' = "sanitize"
  /\ UNCHANGED <<mode, round, task, slots, archive, update>>

(* Without its controls a paired round is never collected.                 *)
CollectRaises ==
  /\ phase = "collect" /\ ~Collectable /\ phase' = "stopped"
  /\ UNCHANGED <<mode, round, task, base, slots, rows, batch, suppressed, archive, update>>

Clean == {k \in batch : ~Poisoned(slots[k])}

Rewards == [k \in batch |-> rows[k].reward]

(* Variant for mutation: the poisoned rows are dropped and nothing else.   *)
Sanitize_OnlyDrops ==
  /\ phase = "sanitize" /\ phase' = "train"
  /\ batch' = IF Cardinality(Clean) < 2 THEN batch ELSE Clean
  /\ UNCHANGED <<mode, round, task, base, slots, rows, suppressed, archive, update>>

(* Poisoned rows are dropped and the others compared anew, by z-score.     *)
Sanitize ==
  /\ phase = "sanitize" /\ phase' = "train"
  /\ IF Clean = batch \/ Cardinality(Clean) < 2 THEN UNCHANGED <<rows, batch>>
     ELSE /\ batch' = Clean
          /\ LET z == ZScores(Clean, Rewards)
             IN rows' = [k \in Slots |-> IF k \in Clean THEN z[k] ELSE rows[k]]
  /\ UNCHANGED <<mode, round, task, base, slots, suppressed, archive, update>>

(* grpo_to_replay: rows with something said and an advantage.              *)
Trainable == {k \in batch : slots[k].said /\ rows[k].adv # 0}

Replay ==
  {[task |-> task, round |-> round, k |-> k,
    strong |-> rows[k].strong, repaired |-> Repaired(k)] : k \in Trainable}

(* Up to Mix archived rows of other tasks, the freshest first.             *)
Mixes ==
  LET pool == {a \in archive \cup {r \in Replay : r.strong} : a.task # task}
  IN {S \in SUBSET pool :
       /\ Cardinality(S) = AtMost(Cardinality(pool), Mix)
       /\ \A a \in S, b \in pool \ S : a.round >= b.round}

(* train_mphi_step: winners are banked, others' winners mixed in, and the  *)
(* batch is filled with copies whose advantage is zero.                    *)
Train ==
  /\ phase = "train" /\ Cardinality(Replay) >= MinTrainable
  /\ archive' = archive \cup {r \in Replay : r.strong}
  /\ \E mixed \in Mixes :
       update' = [rows |-> Replay \cup mixed,
                  fillers |-> AtLeast(BatchSize - Cardinality(Replay \cup mixed), 0)]
  /\ phase' = "next"
  /\ UNCHANGED <<mode, round, task, base, slots, rows, batch, suppressed>>

(* Too few rows, or one of the driver's gates.                             *)
SkipTraining ==
  /\ phase = "train" /\ phase' = "next"
  /\ UNCHANGED <<mode, round, task, base, slots, rows, batch, suppressed, archive, update>>

NextRound ==
  /\ phase = "next" /\ round < LastRound /\ round' = round + 1
  /\ task' \in Tasks /\ phase' = "rollouts"
  /\ slots' = <<>> /\ rows' = <<>> /\ batch' = {} /\ suppressed' = FALSE /\ update' = None
  /\ UNCHANGED <<mode, base, archive>>

Next == Rollouts \/ Collect \/ CollectRaises \/ Sanitize \/ Train \/ SkipTraining \/ NextRound

Spec == Init /\ [][Next]_vars

-------------------------------------------------------------------------------
Credited == phase \in {"sanitize", "train", "next"}

(* The variables have their types, and credit is relative: but for the     *)
(* modes that push a group as one, the advantages of a batch add up to     *)
(* nothing, before and after its sanitation.                               *)
TypeOK ==
  /\ mode \in Modes /\ round \in 0 .. LastRound /\ task \in Tasks
  /\ phase \in {"rollouts", "collect", "sanitize", "train", "next", "stopped"}
  /\ base \in [Tasks -> Scores] /\ batch \subseteq Slots /\ suppressed \in BOOLEAN
  /\ Credited /\ mode \in {"legacy", "v2", "paired"} =>
       Total(batch, [k \in batch |-> rows[k].adv]) = 0
  /\ update # None => /\ Cardinality(update.rows) + update.fillers >= BatchSize
                      /\ \E r \in update.rows : r.task = task

(* REPAIR-001: where repairs are known, phi is never praised for a slot    *)
(* the frozen model repaired: its row has the least advantage of its batch *)
(* through collapse, rescue and sanitation, and none is ever banked.       *)
RepairedIsLowest ==
  /\ Credited => \A k \in batch : Repaired(k) =>
       rows[k].adv <= 0 /\ \A j \in batch : rows[k].adv <= rows[j].adv
  /\ \A a \in archive : ~a.repaired

(* What a slot has to show: nothing valid, no score that counts, a score.  *)
Shown(k) ==
  IF ~slots[k].valid THEN -2
  ELSE IF Eligible(slots[k]) # {} THEN Max({x.score : x \in Eligible(slots[k])})
  ELSE IF mode # "paired" /\ \A x \in slots[k].runs : x.kind = "checkpoint"
  THEN Max({x.score : x \in slots[k].runs} \cup {-1})
  ELSE -1

(* Who shows more is never taught less: failed harnesses rank below scored *)
(* ones and invalid slots below both, ties, rescues and sanitation         *)
(* included.  Pairs compare when their controls agree; anchored rewards    *)
(* have no lower bound, so there only scored slots do.                     *)
BetterNeverLess ==
  Credited => \A i, j \in batch :
    (/\ Shown(i) <= Shown(j) /\ ~Repaired(i) /\ ~Repaired(j)
     /\ mode = "paired" => slots[i].control = slots[j].control
     /\ mode = "anchored" => Shown(i) >= 0)
    => rows[i].adv <= rows[j].adv
=============================================================================
