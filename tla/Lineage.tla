-------------------------------- MODULE Lineage --------------------------------
(***************************************************************************)
(* The harness lineage of one task in paired mode: what a round's collect  *)
(* makes of its measurements (rewards.py compute_task_group_paired, the    *)
(* per-task part of outer_round.py cmd_collect, component_ratchet.py).     *)
(*                                                                         *)
(* A package is its generated components and its operating point.  All its *)
(* prose is abstracted to whether a candidate left it alone, touched only  *)
(* the persona, or more.  Scores are integers: two scores closer than the  *)
(* code's tolerances are one score here, so ties are exact and the soft    *)
(* cap of the reward, which keeps the order, is left out.  The inheritance *)
(* beam has its default width of 1.                                        *)
(***************************************************************************)
EXTENDS Integers, FiniteSets

CONSTANTS
  Slots,          \* K candidate slots, a set of Nat
  Components,     \* names of generated tools, skills and middlewares
  Kinds, KindOf,  \* the kind of each component
  Cap,            \* _TYPE_CAPS, per kind
  Params, Values, \* operating-point fields and their values
  FirstBase,      \* the package of the first round
  Menu,           \* proposals a round may contain, as changes of the base
  Scores, Ceiling,
  MinEffect,      \* SAH_MIN_PAIRED_EFFECT
  MinDelta,       \* CURVE_COMPONENT_RATCHET_MIN_DELTA
  RefreshSamples, \* controls that outweigh a promotion-time score: 4
  LastRound,      \* a bound
  None

Package == [parts : SUBSET Components, params : [Params -> Values]]

CountOf(parts, kind) == Cardinality({c \in parts : KindOf[c] = kind})
WithinCaps(parts) == \A kind \in Kinds : CountOf(parts, kind) <= Cap[kind]

(* What the proposer changes, and in which kind of slot: isolated is the   *)
(* slot's component_only label, repaired that the frozen model submitted.  *)
Proposal == [add : SUBSET Components, drop : SUBSET Components,
             set : [Params -> Values \cup {None}],
             prose : {"same", "persona", "more"},
             isolated : BOOLEAN, repaired : BOOLEAN]

ASSUME LineageAssumption ==
  /\ Slots \subseteq Nat /\ IsFiniteSet(Slots)
  /\ IsFiniteSet(Components)
  /\ Components \cap Params = {}
  /\ KindOf \in [Components -> Kinds]
  /\ Cap \in [Kinds -> Nat]
  /\ FirstBase \in Package /\ WithinCaps(FirstBase.parts)
  /\ Menu \subseteq Proposal
  /\ Scores \subseteq Nat
  /\ Ceiling \in Nat /\ \A s \in Scores : s < Ceiling
  /\ MinEffect \in Nat /\ MinDelta \in Nat \ {0}
  /\ RefreshSamples \in Nat \ {0} /\ LastRound \in Nat
  /\ None \notin Nat \cup Values

VARIABLES
  round, phase,
  base,     \* the incoming base: package and score
  slot,     \* candidates and what was measured of them
  verdict,  \* best_k and improved of the group
  next,     \* next_bases[tid]
  merged,   \* the ratchet's copy of the outgoing package
  todo,     \* admissible items not yet considered
  record    \* what the ratchet appends to the component ledger

vars == <<round, phase, base, slot, verdict, next, merged, todo, record>>

Phases == {"measuring", "judged", "grafting", "collected", "over"}

Candidate ==
  [package : Package, prose : {"same", "persona", "more"}, isolated : BOOLEAN,
   repaired : BOOLEAN, valid : BOOLEAN, score : Scores \cup {None},
   control : Scores \cup {None}]

NoVerdict == [best |-> None, improved |-> FALSE]

Init ==
  /\ round = 1
  /\ phase = "measuring"
  /\ \E s \in Scores : base = [package |-> FirstBase, score |-> s]
  /\ slot = [k \in Slots |-> None]
  /\ verdict = NoVerdict
  /\ next = [package |-> base.package, score |-> base.score, from |-> None]
  /\ merged = base.package
  /\ todo = {}
  /\ record = {}

-----------------------------------------------------------------------------
(* Proposals and rollouts.                                                 *)

(* Variant for mutation: the change is not merged with the base.           *)
Applied_Unmerged(m) ==
  [parts |-> (base.package.parts \cup m.add) \ m.drop, params |-> m.set]

Applied(m) ==
  [parts |-> (base.package.parts \cup m.add) \ m.drop,
   params |-> [p \in Params |-> IF m.set[p] = None THEN base.package.params[p]
                                ELSE m.set[p]]]

(* The genome's caps, and something changed.                               *)
IsValid(m) ==
  /\ WithinCaps(Applied(m).parts)
  /\ Applied(m) # base.package \/ m.prose # "same"

Propose(k, m) ==
  /\ phase = "measuring"
  /\ slot[k] = None
  /\ slot' = [slot EXCEPT ![k] =
       [package |-> Applied(m), prose |-> m.prose, isolated |-> m.isolated,
        repaired |-> m.repaired, valid |-> IsValid(m), score |-> None,
        control |-> None]]
  /\ UNCHANGED <<round, phase, base, verdict, next, merged, todo, record>>

(* A valid candidate and its parent are rolled out with the same seeds; a  *)
(* candidate may end without an eligible score, its control may not        *)
(* (collect raises, and the round is not collected).                       *)
Measure(k, score, control) ==
  /\ phase = "measuring"
  /\ slot[k] # None /\ slot[k].valid /\ slot[k].control = None
  /\ slot' = [slot EXCEPT ![k].score = score, ![k].control = control]
  /\ UNCHANGED <<round, phase, base, verdict, next, merged, todo, record>>

Measured == \A k \in Slots : slot[k] # None /\ (slot[k].valid => slot[k].control # None)

-----------------------------------------------------------------------------
(* compute_task_group_paired                                               *)

Attributed(k) == slot[k].valid /\ slot[k].score # None
Delta(k) == slot[k].score - slot[k].control

(* A fraction of the gap to the ceiling, as numerator and denominator; the *)
(* minimum for work phi did not do.                                        *)
Reward(k) ==
  IF slot[k].repaired \/ -Delta(k) > Ceiling - slot[k].control THEN <<-1, 1>>
  ELSE <<Delta(k), Ceiling - slot[k].control>>

LessReward(j, k) == Reward(j)[1] * Reward(k)[2] < Reward(k)[1] * Reward(j)[2]

(* max over (reward, causal_delta, score): the first of the maximal rows.  *)
Worse(j, k) ==
  \/ LessReward(j, k)
  \/ /\ ~LessReward(k, j)
     /\ \/ Delta(j) < Delta(k)
        \/ Delta(j) = Delta(k) /\ slot[j].score < slot[k].score

IsCausalBest(k) ==
  /\ Attributed(k)
  /\ \A j \in Slots \ {k} : Attributed(j) =>
       ~Worse(k, j) /\ (Worse(j, k) \/ k < j)

Improves(k) == Delta(k) > MinEffect /\ slot[k].score > base.score

(* Enough rollouts of a retained base correct its score: their mean, here  *)
(* any score between the least and the greatest.                           *)
Controls == {k \in Slots : slot[k].control # None}

Refreshed ==
  IF Cardinality(Controls) < RefreshSamples THEN {base.score}
  ELSE {s \in Scores : /\ \E k \in Controls : slot[k].control <= s
                       /\ \E k \in Controls : s <= slot[k].control}

Retained(score) == [package |-> base.package, score |-> score, from |-> None]

Judge ==
  /\ phase = "measuring"
  /\ Measured
  /\ \/ \E k \in Slots :
          /\ IsCausalBest(k)
          /\ verdict' = [best |-> k, improved |-> Improves(k)]
          /\ IF Improves(k)
               THEN next' = [package |-> slot[k].package, score |-> slot[k].score,
                             from |-> k]
               ELSE \E s \in Refreshed : next' = Retained(s)
     \/ /\ \A k \in Slots : ~Attributed(k)
        /\ verdict' = NoVerdict
        /\ \E s \in Refreshed : next' = Retained(s)
  /\ phase' = "judged"
  /\ UNCHANGED <<round, base, slot, merged, todo, record>>

-----------------------------------------------------------------------------
(* The strict revert, and which slots the component ratchet considers.     *)

Added(k) == slot[k].package.parts \ base.package.parts
Removed(k) == base.package.parts \ slot[k].package.parts
Moved(k) == {p \in Params : slot[k].package.params[p] # base.package.params[p]}

Considered(k) == slot[k].valid /\ Added(k) \cup Removed(k) \cup Moved(k) # {}
InPromoted(k) == verdict.improved /\ k = verdict.best

(* Variant for mutation: the label is taken at its word (before the        *)
(* confounder test was added).                                             *)
Admissible_TrustsLabel(k) ==
  /\ Considered(k) /\ ~InPromoted(k) /\ slot[k].isolated
  /\ Attributed(k) /\ Delta(k) >= MinDelta

(* An isolated slot whose delta was measured and is positive; a change of  *)
(* the persona alone is no confounder.                                     *)
Admissible(k) ==
  /\ Considered(k) /\ ~InPromoted(k) /\ slot[k].isolated
  /\ slot[k].prose # "more"
  /\ Attributed(k) /\ Delta(k) >= MinDelta

Items(k) ==
  {[k |-> k, name |-> c, value |-> None] : c \in Added(k)} \cup
  {[k |-> k, name |-> p, value |-> slot[k].package.params[p]] : p \in Moved(k)}

Entry(k, name, value, event) == [k |-> k, name |-> name, value |-> value, event |-> event]

Passed ==
  {Entry(k, None, None, IF InPromoted(k) THEN "already_in_promoted"
                        ELSE "not_admissible") :
     k \in {j \in Slots : Considered(j) /\ ~Admissible(j)}}

(* A base that improved by a score its program cannot be bound to is       *)
(* reverted; the verdict stays, and the ratchet is called with it.         *)
Ratchet(accepted) ==
  /\ phase = "judged"
  /\ next' = IF verdict.improved /\ ~accepted THEN Retained(base.score) ELSE next
  /\ merged' = next'.package
  /\ todo' = UNION {Items(k) : k \in {j \in Slots : Admissible(j)}}
  /\ record' = Passed
  /\ phase' = "grafting"
  /\ UNCHANGED <<round, base, slot, verdict>>

-----------------------------------------------------------------------------
(* The graft loop, one item at a time: larger deltas first, then the order *)
(* of the slots, then components before parameters.                        *)

Precedes(i, j) ==
  \/ Delta(i.k) > Delta(j.k)
  \/ /\ Delta(i.k) = Delta(j.k)
     /\ i.k < j.k \/ (i.k = j.k /\ i.name \in Components /\ j.name \in Params)

IsFirst(i) == i \in todo /\ \A j \in todo : ~Precedes(j, i)

AdmittedParams == {e.name : e \in {r \in record : r.event = "admitted"}} \cap Params

Consider(i, event) ==
  /\ todo' = todo \ {i}
  /\ record' = record \cup {Entry(i.k, i.name, i.value, event)}
  /\ UNCHANGED <<round, phase, base, slot, verdict, next>>

(* Variant for mutation: a full kind makes room by evicting a component.   *)
GraftPart_Evicts(i) ==
  /\ phase = "grafting" /\ IsFirst(i)
  /\ i.name \in Components \ merged.parts
  /\ LET kind == KindOf[i.name]
         old == IF CountOf(merged.parts, kind) < Cap[kind] THEN {}
                ELSE {c \in merged.parts : KindOf[c] = kind}
     IN merged' = [merged EXCEPT !.parts = (@ \ old) \cup {i.name}]
  /\ Consider(i, "admitted")

(* Variant for mutation: the cap admits one component too many.            *)
GraftPart_OverCap(i) ==
  /\ phase = "grafting" /\ IsFirst(i)
  /\ i.name \in Components \ merged.parts
  /\ CountOf(merged.parts, KindOf[i.name]) <= Cap[KindOf[i.name]]
  /\ merged' = [merged EXCEPT !.parts = @ \cup {i.name}]
  /\ Consider(i, "admitted")

GraftPart(i) ==
  /\ phase = "grafting" /\ IsFirst(i)
  /\ i.name \in Components \ merged.parts
  /\ CountOf(merged.parts, KindOf[i.name]) < Cap[KindOf[i.name]]
  /\ merged' = [merged EXCEPT !.parts = @ \cup {i.name}]
  /\ Consider(i, "admitted")

(* The name is taken, the kind is full, or the prompt has no room for the  *)
(* declaration of a component.                                             *)
SkipPart(i) ==
  /\ phase = "grafting" /\ IsFirst(i)
  /\ i.name \in Components
  /\ UNCHANGED merged
  /\ Consider(i, IF i.name \in merged.parts THEN "name_already_in_base"
                 ELSE IF CountOf(merged.parts, KindOf[i.name]) >= Cap[KindOf[i.name]]
                   THEN "capacity_full" ELSE "prompt_cap")

(* Variant for mutation: last write wins.                                  *)
GraftParam_LastWins(i) ==
  /\ phase = "grafting" /\ IsFirst(i)
  /\ i.name \in Params
  /\ merged.params[i.name] # i.value
  /\ merged' = [merged EXCEPT !.params[i.name] = i.value]
  /\ Consider(i, "admitted")

GraftParam(i) ==
  /\ phase = "grafting" /\ IsFirst(i)
  /\ i.name \in Params \ AdmittedParams
  /\ merged.params[i.name] # i.value
  /\ merged' = [merged EXCEPT !.params[i.name] = i.value]
  /\ Consider(i, "admitted")

SkipParam(i) ==
  /\ phase = "grafting" /\ IsFirst(i)
  /\ i.name \in Params
  /\ i.name \in AdmittedParams \/ merged.params[i.name] = i.value
  /\ UNCHANGED merged
  /\ Consider(i, IF i.name \in AdmittedParams THEN "param_contested_lower_delta"
                 ELSE "param_already_set")

(* The grafted package is materialized and inherited; the append to the    *)
(* ledger comes last and may still fail.                                   *)
Install ==
  /\ phase = "grafting" /\ todo = {}
  /\ next' = [next EXCEPT !.package = merged]
  /\ record' \in {record, {}}
  /\ phase' = "collected"
  /\ UNCHANGED <<round, base, slot, verdict, merged, todo>>

(* Anything that raises in the loop or in materialize is swallowed: the    *)
(* base stays as the revert left it, and the ledger is not written.        *)
GraftFails ==
  /\ phase = "grafting"
  /\ todo' = {}
  /\ record' = {}
  /\ merged' = next.package
  /\ phase' = "collected"
  /\ UNCHANGED <<round, base, slot, verdict, next>>

NextRound ==
  /\ phase = "collected"
  /\ IF round < LastRound
       THEN /\ round' = round + 1
            /\ phase' = "measuring"
            /\ base' = [package |-> next.package, score |-> next.score]
            /\ slot' = [k \in Slots |-> None]
            /\ verdict' = NoVerdict
            /\ next' = [next EXCEPT !.from = None]
            /\ merged' = next.package
            /\ todo' = {}
            /\ record' = {}
       ELSE /\ phase' = "over"
            /\ UNCHANGED <<round, base, slot, verdict, next, merged, todo, record>>

-----------------------------------------------------------------------------
Round ==
  \/ \E k \in Slots, m \in Menu : Propose(k, m)
  \/ \E k \in Slots, score \in Scores \cup {None}, control \in Scores :
       Measure(k, score, control)
  \/ Judge
  \/ \E accepted \in BOOLEAN : Ratchet(accepted)

Graft ==
  \/ \E i \in todo : GraftPart(i)
  \/ \E i \in todo : SkipPart(i)
  \/ \E i \in todo : GraftParam(i)
  \/ \E i \in todo : SkipParam(i)
  \/ Install
  \/ GraftFails

Next == Round \/ Graft \/ NextRound

Spec == Init /\ [][Next]_vars

-----------------------------------------------------------------------------
Item == [k : Slots, name : Components \cup Params, value : Values \cup {None}]

Events == {"admitted", "already_in_promoted", "not_admissible",
           "name_already_in_base", "capacity_full", "prompt_cap",
           "param_contested_lower_delta", "param_already_set"}

TypeOK ==
  /\ round \in Nat
  /\ phase \in Phases
  /\ base \in [package : Package, score : Scores]
  /\ slot \in [Slots -> Candidate \cup {None}]
  /\ verdict \in [best : Slots \cup {None}, improved : BOOLEAN]
  /\ next \in [package : Package, score : Scores, from : Slots \cup {None}]
  /\ merged \in Package
  /\ todo \in SUBSET Item
  /\ record \in SUBSET [k : Slots, name : Components \cup Params \cup {None},
                        value : Values \cup {None}, event : Events]

(***************************************************************************)
(* Properties.                                                             *)
(***************************************************************************)

Inherited == phase \in {"collected", "over"}

(* The package the grafts of a round land on.                              *)
Trunk == IF next.from = None THEN base.package ELSE slot[next.from].package

(* A slot with matched controls that measured a gain from a change not     *)
(* known to be mixed with another one.                                     *)
ShowsGain(k) ==
  /\ slot[k].isolated /\ slot[k].prose # "more"
  /\ Attributed(k) /\ Delta(k) >= MinDelta

(* Whatever a round adds to the heritable harness was measured against its *)
(* parent: it came with a winner that beat its control and the base, or    *)
(* from an isolated slot that beat its control, never from a label or a    *)
(* historical score (component_ratchet.py, admission contract).            *)
EveryChangeIsEarned ==
  Inherited =>
    /\ next.from # None =>
         Delta(next.from) > MinEffect /\ slot[next.from].score > base.score
    /\ \A c \in next.package.parts \ Trunk.parts :
         \E k \in Slots : c \in Added(k) /\ ShowsGain(k)
    /\ \A p \in Params : next.package.params[p] # Trunk.params[p] =>
         \E k \in Slots : /\ p \in Moved(k) /\ ShowsGain(k)
                          /\ slot[k].package.params[p] = next.package.params[p]

(* Grafting never evicts: what the retained or promoted package carried is *)
(* still there ("incumbent-carried components are never evicted").         *)
NothingIsEvicted == Inherited => Trunk.parts \subseteq next.package.parts

(* The ledger's evidence chain is true of the base that is inherited: what *)
(* it calls admitted is there, with the admitted value, whatever the       *)
(* revert did before and other items did after (outer_round.py: a revert   *)
(* "silently discarded a graft the ledger had already recorded").          *)
LedgerIsInherited ==
  Inherited => \A e \in record : e.event = "admitted" =>
    IF e.value = None THEN e.name \in next.package.parts
    ELSE next.package.params[e.name] = e.value

(* No sequence of rounds, grafts and promotions outgrows the genome.       *)
LibraryWithinCaps ==
  WithinCaps(base.package.parts) /\ WithinCaps(next.package.parts)

(* "Components are admitted on their own merit, independently of who won": *)
(* one that is passed over as part of the promoted package is part of it.  *)
(* The code breaks it: the strict revert takes the package back and leaves *)
(* the verdict.                                                            *)
PromotedIsInherited ==
  Inherited => \A e \in record : e.event = "already_in_promoted" =>
    Added(e.k) \subseteq next.package.parts

(* What is grafted is what was measured (ISOLATION-002: the change set     *)
(* contains "NOTHING but the admitted items").  The code breaks it: a      *)
(* removal of a component, or an item that finds no place, stays behind    *)
(* while the rest of what was measured is admitted.                        *)
DeltaIsOfWhatIsGrafted ==
  Inherited => \A e \in record : e.event = "admitted" =>
    /\ Added(e.k) \subseteq next.package.parts
    /\ Removed(e.k) \cap next.package.parts = {}
    /\ \A p \in Moved(e.k) : next.package.params[p] = slot[e.k].package.params[p]
=============================================================================
