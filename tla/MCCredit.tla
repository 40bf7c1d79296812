------------------------------- MODULE MCCredit -------------------------------
(***************************************************************************)
(* Slots that are invalid, repaired, scored, interrupted, ineligible after *)
(* a good checkpoint, or dead.                                             *)
(***************************************************************************)
EXTENDS Credit, Sequences

MCRun(kind, score) == [kind |-> kind, score |-> score]
MCSlot(valid, repaired, runs, control) ==
  [valid |-> valid, repaired |-> repaired, said |-> TRUE, runs |-> runs, control |-> control]

MCOutcomes ==
  { [MCSlot(FALSE, FALSE, {}, 1) EXCEPT !.said = FALSE],
    MCSlot(TRUE, TRUE, {MCRun("eligible", 3)}, 1),
    MCSlot(TRUE, FALSE, {MCRun("eligible", 1)}, 1),
    MCSlot(TRUE, FALSE, {MCRun("eligible", 3)}, 2),
    MCSlot(TRUE, FALSE, {MCRun("ineligible", 3)}, 1),
    MCSlot(TRUE, FALSE, {MCRun("checkpoint", 2)}, 1),
    MCSlot(TRUE, FALSE, {MCRun("dead", 2)}, 1) }

MCTasks == {"t1", "t2"}
MCFirstBase == [t \in MCTasks |-> IF t = "t1" THEN 1 ELSE 2]

-------------------------------------------------------------------------------
(* Trajectories of up to three messages, what grpo_to_replay makes of them *)
(* and of batches of them, and self-training sets of three rollouts.       *)
R == INSTANCE Replay

Block(type) == [type |-> type, id |-> "call", sound |-> TRUE]
MCMessages ==
  {[role |-> "system", blocks |-> <<Block("text")>>],
   [role |-> "framework", blocks |-> <<Block("text")>>],
   [role |-> "assistant", blocks |-> <<>>],
   [role |-> "assistant", blocks |-> <<Block("text"), Block("tool_use"), [Block("tool_use") EXCEPT !.id = "other"]>>],
   [role |-> "tool", blocks |-> <<Block("tool_result")>>],
   [role |-> "tool", blocks |-> <<[Block("tool_result") EXCEPT !.sound = FALSE]>>]}

(* A system turn can only lead a trajectory.                               *)
MCTrajectories ==
  {t \in UNION {[1 .. n -> MCMessages] : n \in 0 .. 3} : \A i \in DOMAIN t : t[i].role = "system" => i = 1}

MCRow(t, adv) ==
  [trajectory |-> t, said |-> FALSE, advantage |-> adv, round |-> 0, task |-> "t1", k |-> 0]

ASSUME ReplayIsTrainable ==
  /\ \A t \in MCTrajectories :
       R!EveryTurnCounts(MCRow(t, 1)) /\ R!AnswersFindTheirCalls(MCRow(t, 1))
  /\ \A t \in MCTrajectories : \A adv \in {0, 1} :
       LET two == <<MCRow(<<[role |-> "tool", blocks |-> <<>>]>>, 1), MCRow(t, adv)>>
           out == R!Convert(two, TRUE)
           trains == t # <<>> /\ adv # 0
       IN /\ out.failed <=> trains /\ R!Raises(two[2], TRUE)
          /\ Len(out.file) = IF trains /\ ~out.failed THEN 2 ELSE 1

MCRollouts == [round : {1, 2}, score : 0 .. 2, program : {"p", None}]

ASSUME SelfTrainingIsSound ==
  \A rollouts \in [1 .. 3 -> MCRollouts] : \A cap \in {2, 3} :
    R!SelfTrainingIsRelative(rollouts, cap)
=============================================================================
