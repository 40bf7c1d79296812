----------------------------- MODULE InnerSession -----------------------------
(***************************************************************************)
(* The state one inner rollout's tools read and change, and the budget     *)
(* ledger kept beside it (src/inner/runtime/session.py, with the guards of *)
(* src/inner/harness/tools/discovery.py).                                  *)
(*                                                                         *)
(* A program is a member of Programs, an evaluation outcome is a score and *)
(* a validity flag.  The evaluator is noisy, so one program may score      *)
(* differently each time.  -infinity is NegInf, the empty string NoProgram.*)
(* The tool gate is left out: nothing in the repository requests one.      *)
(***************************************************************************)
EXTENDS Integers

CONSTANTS
  Programs,          \* candidate programs
  InitialProgram,    \* task.initial_program
  NoProgram,         \* the empty best_program
  Scores,            \* combined_score values
  NegInf,            \* best_score before any valid evaluation
  MaxEvaluatorCalls, \* BudgetLedger.max_evaluator_calls
  MaxProbeCalls      \* BudgetLedger.max_probe_calls

ASSUME ProgramsAssumption ==
  /\ InitialProgram \in Programs
  /\ NoProgram \notin Programs

ASSUME ScoresAssumption ==
  /\ Scores \subseteq Int
  /\ NegInf \in Int
  /\ \A s \in Scores : NegInf < s

ASSUME BudgetAssumption ==
  /\ MaxEvaluatorCalls \in Nat
  /\ MaxProbeCalls \in Nat

VARIABLES
  current_program, \* the staged candidate
  best_score,      \* best valid score so far, or NegInf
  best_program,    \* the program that earned it, or NoProgram
  checkpoint,      \* content of the checkpoint file, or NoCheckpoint
  evaluator_calls, \* charged evaluations
  probe_calls,     \* charged probes
  validated        \* every <<program, score>> the evaluator found valid;
                   \* the valid rows of session.history, order left out

sessionVars == <<current_program, best_score, best_program, checkpoint,
                 evaluator_calls, probe_calls, validated>>

Outcome == [score : Scores, valid : BOOLEAN]

Pair(p, s) == [program |-> p, score |-> s]
PairSet == [program : Programs, score : Scores]
PartialPairSet == [program : Programs \cup {NoProgram}, score : Scores \cup {NegInf}]
NoCheckpoint == Pair(NoProgram, NegInf)

-----------------------------------------------------------------------------
(* BudgetLedger *)

EvaluatorExhausted == evaluator_calls >= MaxEvaluatorCalls
ProbesExhausted == probe_calls >= MaxProbeCalls

(* Variant for mutation: the anti-reward-hacking conjunct is lost. *)
IsBest_AnyOutcome(out) == out.score > best_score

(* The comparison that lets an outcome replace the best so far. *)
IsBest(out) == out.valid /\ out.score > best_score

-----------------------------------------------------------------------------
(* Tool effects.  Each is one critical section of the bridge, or, for an   *)
(* evaluation, the consecutive writes of one.                              *)

SessionInit ==
  /\ current_program = InitialProgram
  /\ best_score = NegInf
  /\ best_program = NoProgram
  /\ checkpoint = NoCheckpoint
  /\ evaluator_calls = 0
  /\ probe_calls = 0
  /\ validated = {}

(* seed_baseline: one uncharged evaluation of the seed.  Writing the       *)
(* checkpoint may fail; the exception is swallowed.                        *)
SeedBaseline(out) ==
  /\ IF IsBest(out)
       THEN /\ best_score' = out.score
            /\ best_program' = current_program
            /\ checkpoint' \in {checkpoint, Pair(current_program, out.score)}
            /\ validated' = validated \cup {Pair(current_program, out.score)}
       ELSE UNCHANGED <<best_score, best_program, checkpoint, validated>>
  /\ UNCHANGED <<current_program, evaluator_calls, probe_calls>>

(* edit_solution: refused once the budget is spent, since the program      *)
(* could not be scored any more.  A diff that matches nothing changes      *)
(* nothing, which p = current_program covers; edits are not budgeted.      *)
EditSolution(p) ==
  /\ IF EvaluatorExhausted
       THEN UNCHANGED current_program
       ELSE current_program' = p
  /\ UNCHANGED <<best_score, best_program, checkpoint, evaluator_calls,
                 probe_calls, validated>>

(* Variant for mutation: a refused probe is refunded. *)
ProbeSolution_Refunds ==
  /\ probe_calls' = IF EvaluatorExhausted \/ ProbesExhausted
                      THEN probe_calls - 1 ELSE probe_calls + 1
  /\ UNCHANGED <<current_program, best_score, best_program, checkpoint,
                 evaluator_calls, validated>>

(* probe_solution: refused when either budget is spent; never moves best.  *)
ProbeSolution ==
  /\ IF EvaluatorExhausted \/ ProbesExhausted
       THEN UNCHANGED probe_calls
       ELSE probe_calls' = probe_calls + 1
  /\ UNCHANGED <<current_program, best_score, best_program, checkpoint,
                 evaluator_calls, validated>>

(* Variant for mutation: the checkpoint is written with the new score as   *)
(* soon as it is known, before best_program is assigned.                   *)
ChargeAndScore_EarlyCheckpoint(out) ==
  /\ evaluator_calls' = evaluator_calls + 1
  /\ best_score' = IF IsBest(out) THEN out.score ELSE best_score
  /\ checkpoint' = IF IsBest(out) THEN Pair(best_program, out.score)
                    ELSE checkpoint
  /\ validated' = IF out.valid
                    THEN validated \cup {Pair(current_program, out.score)}
                    ELSE validated
  /\ UNCHANGED <<current_program, best_program, probe_calls>>

(* evaluate, first write: the outcome arrives, the ledger is charged and   *)
(* the score moves if the outcome is a new best.                           *)
ChargeAndScore(out) ==
  /\ evaluator_calls' = evaluator_calls + 1
  /\ best_score' = IF IsBest(out) THEN out.score ELSE best_score
  /\ validated' = IF out.valid
                    THEN validated \cup {Pair(current_program, out.score)}
                    ELSE validated
  /\ UNCHANGED <<current_program, best_program, checkpoint, probe_calls>>

(* evaluate, second write: the program that earned the new best.           *)
AdoptProgram ==
  /\ best_program' = current_program
  /\ UNCHANGED <<current_program, best_score, checkpoint, evaluator_calls,
                 probe_calls, validated>>

(* _write_checkpoint: temporary file plus rename, so the file holds the    *)
(* old pair or the new one; a failed write leaves the old.                 *)
WriteCheckpoint ==
  /\ checkpoint' \in {checkpoint, Pair(best_program, best_score)}
  /\ UNCHANGED <<current_program, best_score, best_program, evaluator_calls,
                 probe_calls, validated>>

SessionTypeOK ==
  /\ current_program \in Programs
  /\ best_score \in Scores \cup {NegInf}
  /\ best_program \in Programs \cup {NoProgram}
  /\ checkpoint \in PartialPairSet
  /\ evaluator_calls \in Nat
  /\ probe_calls \in Nat
  /\ validated \in SUBSET PairSet
=============================================================================
