------------------------------- MODULE SlotRoles -------------------------------
(***************************************************************************)
(* How the K proposal slots of a task are dealt their mandates             *)
(* (proposer_io.py, outer_round.py _msg_for): the first ForceCount must    *)
(* add a tool; with SAH_H1_DIVERSITY the free ones take the roles in their *)
(* order, and the last free slot that is not held to a component samples   *)
(* from the frozen base.  A directive is the set of the sections that the  *)
(* slot's message gains; their wording is left out.                        *)
(***************************************************************************)
EXTENDS Integers, Sequences

CONSTANTS
  K,           \* slots of a task
  ForceCount,  \* round(K * FORCE_TOOL_FRAC)
  Diversity    \* SAH_H1_DIVERSITY

ASSUME SlotAssumption ==
  /\ K \in Nat \ {0}
  /\ ForceCount \in 0 .. K
  /\ Diversity \in BOOLEAN

RoleOrder == <<"tool", "skill", "middleware", "params", "rewrite", "rewrite", "">>
ComponentRoles == {"tool", "skill", "middleware", "params"}
DefaultSlots == 8

Below(total) == 0 .. total - 1
Slots == Below(K)
Forced == Below(ForceCount)

(* The free slots are those after the forced ones, so the place of a free  *)
(* slot among them is its distance from the last forced one.               *)
Free(total) == Below(total) \ Forced

RoleOf(k, total) ==
  IF Diversity /\ k \in Free(total) /\ k - ForceCount + 1 \in DOMAIN RoleOrder
  THEN RoleOrder[k - ForceCount + 1] ELSE ""

HeldOf(k, total) == RoleOf(k, total) \in ComponentRoles

(* The last free slot that is not component-only.                          *)
EpsilonOf(k, total) ==
  /\ Diversity /\ k \in Free(total) /\ ~HeldOf(k, total)
  /\ \A j \in Free(total) : ~HeldOf(j, total) => j <= k

Role(k) == RoleOf(k, K)
ComponentOnly(k) == HeldOf(k, K)
Epsilon(k) == EpsilonOf(k, K)

(* The sections; the one of the parameters lists the bounds that the       *)
(* validator enforces, so that no mandate asks for what it would refuse.   *)
RoleText == [name \in {"tool", "skill", "middleware", "rewrite"} |-> {name}]
ParamsText == {"params"}
ToolApi == {"tool_api"}
MiddlewareApi == {"loop", "middleware_api"}
BudgetNote == {"budget"}

RoleSections(k) ==
  CASE Role(k) = "tool"       -> RoleText["tool"] \cup BudgetNote \cup ToolApi
    [] Role(k) = "skill"      -> RoleText["skill"] \cup BudgetNote
    [] Role(k) = "middleware" -> RoleText["middleware"] \cup BudgetNote \cup MiddlewareApi
    [] Role(k) = "params"     -> ParamsText
    [] Role(k) = "rewrite"    -> RoleText["rewrite"]
    [] OTHER                  -> {}

(* slot_role asks for the exploration sample without its k_total.          *)
ToldToExplore(k) == Role(k) # "params" /\ EpsilonOf(k, DefaultSlots)

(* A forced slot is told of its starter tool and nothing else.             *)
Directive(k) ==
  IF k \in Forced THEN {"required_tool"}
  ELSE RoleSections(k) \cup (IF ToldToExplore(k) THEN {"explore"} ELSE {})

(* The endpoints a batch is dealt over, and which of them a slot samples   *)
(* from.  Repairs go to the last one, and so does the exploration sample   *)
(* when repairs are on; under split serving the first serves the trained   *)
(* proposer and the others the frozen base.                                *)
Replicas(n) == IF n <= 0 THEN 1 ELSE n
RepairReplica(n) == Replicas(n) - 1
ServedBy(k, n, repair) == IF Epsilon(k) /\ repair THEN RepairReplica(n) ELSE k % Replicas(n)
BehaviorPolicy(k, repair) == IF Epsilon(k) /\ repair THEN "frozen_base" ELSE "trained_phi"
SplitModel(replica) == IF replica = 0 THEN "trained_phi" ELSE "frozen_base"
===============================================================================
