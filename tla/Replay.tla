-------------------------------- MODULE Replay --------------------------------
(***************************************************************************)
(* The conversations an optimizer reads: a proposer's trajectory converted *)
(* into a replay row (grpo_to_replay.py), and an executor's own solutions  *)
(* made into a self-training set (build_ttt_selftrain.py).                 *)
(*                                                                         *)
(* A message is [role, blocks]; a block is [type, id, sound]: a text, a    *)
(* tool_use, a tool_result or something else, whose payload decodes if it  *)
(* is sound.  A string is one text block.                                  *)
(***************************************************************************)
EXTENDS Integers, Sequences, SequencesExt, FiniteSetsExt, TLC

CONSTANT None

IdsOf(m, type) ==
  LET blocks == SelectSeq(m.blocks, LAMBDA b : b.type = type)
  IN [i \in DOMAIN blocks |-> blocks[i].id]

(* What _tool_content_blocks_to_openai raises on.                          *)
Sound(m) ==
  \A i \in DOMAIN m.blocks :
    LET b == m.blocks[i]
    IN \/ b.type = "text"
       \/ b.type = "tool_use" /\ m.role = "assistant" /\ b.sound
       \/ b.type = "tool_result" /\ m.role = "tool" /\ b.sound

(* Calls become calls of the message; of several results the last is named. *)
Flattened(m) ==
  LET results == IdsOf(m, "tool_result")
  IN [role |-> m.role, calls |-> IdsOf(m, "tool_use"),
      answers |-> IF results = <<>> THEN None ELSE Last(results)]

(* Weave's normalizer writes the calls of a message into its text.         *)
Normalized(msgs) == [i \in DOMAIN msgs |-> msgs[i] @@ [rendered |-> TRUE]]

Plain(role) == [role |-> role, calls |-> <<>>, answers |-> None]

RoleMap ==
  [system |-> "system", user |-> "user", assistant |-> "assistant", tool |-> "tool",
   framework |-> "user"]

SanitizedRoles(msgs) ==
  LET known == SelectSeq(msgs, LAMBDA m : m.role \in DOMAIN RoleMap)
  IN [i \in DOMAIN known |-> [known[i] EXCEPT !.role = RoleMap[@]]]

(* The loss mask counts an assistant turn that a later one closes.         *)
Closed(msgs) == IF Last(msgs).role = "assistant" THEN Append(msgs, Plain("user")) ELSE msgs

(* Without a trajectory or a normalizer: the raw submission as one turn.   *)
Conversation(row, normalizes) ==
  IF row.trajectory = <<>> \/ ~normalizes
  THEN <<Plain("system"), Plain("user"), Plain("assistant")>>
  ELSE LET msgs == Normalized([i \in DOMAIN row.trajectory |-> Flattened(row.trajectory[i])])
       IN IF msgs[1].role = "system" THEN msgs ELSE <<Plain("system")>> \o msgs

ConvertRow(row, normalizes) ==
  [messages |-> Closed(SanitizedRoles(Conversation(row, normalizes))),
   advantage |-> row.advantage, group |-> <<row.round, row.task>>, k |-> row.k]

Raises(row, normalizes) ==
  normalizes /\ \E i \in DOMAIN row.trajectory : ~Sound(row.trajectory[i])

(* Rows with something to train on, until one raises: the file then holds  *)
(* those before it and the exit status is not zero.                        *)
Convert(rows, normalizes) ==
  LET kept == SelectSeq(rows, LAMBDA row : (row.trajectory # <<>> \/ row.said) /\ row.advantage # 0)
      bad == {i \in DOMAIN kept : Raises(kept[i], normalizes)}
      n == IF bad = {} THEN Len(kept) ELSE Min(bad) - 1
  IN [file |-> [i \in 1 .. n |-> ConvertRow(kept[i], normalizes)], failed |-> bad # {}]

-------------------------------------------------------------------------------
(* The executor's self-training set.  A rollout is [round, score, program]. *)

(* Its own solved rollouts, the oldest first, as they were found.          *)
Solved(rollouts) ==
  LET good == SelectSeq(rollouts, LAMBDA r : r.program # None /\ r.score > 0)
      before(i, j) == good[i].round < good[j].round \/ (good[i].round = good[j].round /\ i < j)
      order == SetToSortSeq(DOMAIN good, before)
  IN [i \in DOMAIN order |-> good[order[i]]]

(* The advantage over the mean of the others, times their number.          *)
LeaveOneOut(rows, i) ==
  LET total == FoldSeq(LAMBDA r, n : n + r.score, 0, rows)
  IN (Len(rows) - 1) * rows[i].score - (total - rows[i].score)

SelfTraining(rollouts, cap) ==
  LET solved == Solved(rollouts)
      rows == SubSeq(solved, 1, Min({cap, Len(solved)}))
  IN [i \in DOMAIN rows |->
        [round |-> rows[i].round, reward |-> rows[i].score, advantage |-> LeaveOneOut(rows, i),
         messages |-> <<Plain("system"), Plain("user"), Plain("assistant"), Plain("tool")>>]]

-------------------------------------------------------------------------------
(* Properties.                                                             *)

Turns(msgs) == SelectSeq(msgs, LAMBDA m : m.role = "assistant")

(* Every turn of the policy reaches the optimizer, with its calls in their *)
(* order, behind a system turn, and none is left outside the loss mask.    *)
EveryTurnCounts(row) ==
  ~Raises(row, TRUE) /\ row.trajectory # <<>> =>
    LET msgs == ConvertRow(row, TRUE).messages
        said == Turns(row.trajectory)
        kept == Turns(msgs)
    IN /\ Head(msgs).role = "system" /\ Len(kept) = Len(said)
       /\ \A i \in DOMAIN said : kept[i].calls = IdsOf(said[i], "tool_use")
       /\ \A i \in DOMAIN msgs : msgs[i].role = "assistant" =>
            \E j \in i + 1 .. Len(msgs) : msgs[j].role \in {"user", "tool"}

(* A call keeps its answer, as long as a message holds one result.         *)
AnswersFindTheirCalls(row) ==
  (/\ ~Raises(row, TRUE)
   /\ \A i \in DOMAIN row.trajectory : Len(IdsOf(row.trajectory[i], "tool_result")) <= 1)
  => LET msgs == ConvertRow(row, TRUE).messages
         answers == SelectSeq(msgs, LAMBDA m : m.answers # None)
     IN [i \in DOMAIN answers |-> answers[i].answers]
          = FlattenSeq([i \in DOMAIN row.trajectory |-> IdsOf(row.trajectory[i], "tool_result")])

(* Self-training is relative: its advantages add up to nothing, and a      *)
(* prefix of the file is a prefix of the rollouts in time.                 *)
SelfTrainingIsRelative(rollouts, cap) ==
  LET rows == SelfTraining(rollouts, cap)
  IN /\ FoldSeq(LAMBDA r, n : n + r.advantage, 0, rows) = 0
     /\ \A i, j \in DOMAIN rows : /\ i < j => rows[i].round <= rows[j].round
                                  /\ rows[i].reward <= rows[j].reward =>
                                       rows[i].advantage <= rows[j].advantage
=============================================================================
