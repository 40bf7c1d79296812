-------------------------- MODULE InnerRolloutProofs --------------------------
(***************************************************************************)
(* Theorems about InnerRollout, for every set of programs, scores, calls   *)
(* and every budget.                                                       *)
(***************************************************************************)
EXTENDS InnerRollout, TLAPS

-----------------------------------------------------------------------------
(* The inductive invariant, in named parts. *)

(* The dispatch lock is held by exactly the call inside a critical section.*)
LockInv == \A c \in Calls : call[c] \in InLock <=> dispatch_lock = c

(* Before the seed is scored nothing has happened. *)
SeedingInv ==
  phase = "seeding" =>
    /\ \A c \in Calls : call[c] = "unsent"
    /\ best_score = NegInf
    /\ best_program = NoProgram
    /\ validated = {}

(* What best_score says about the valid outcomes seen. *)
ScoreInv ==
  /\ best_score = NegInf => validated = {} /\ best_program = NoProgram
  /\ NoBetter(best_score)

(* The program that earned best_score: the staged one until it is adopted. *)
AdoptInv ==
  best_score # NegInf =>
    IF Settled THEN BestPair \in validated
    ELSE Pair(current_program, best_score) \in validated

SavingInv == (\E c \in Calls : call[c] \in {"adopting", "saving"}) => best_score # NegInf

LedgerInv ==
  /\ BudgetHolds
  /\ \A c \in Calls : call[c] = "evaluating" => evaluator_calls < MaxEvaluatorCalls

(* A call the agent no longer waits for has settled, unless the run is over.*)
AwaitInv ==
  phase = "agent" =>
    \A c \in Calls : call[c] \in {"unsent", "settled"} \/ c \in awaited

AuditInv == \A c \in Calls : call[c] = "settled" <=> c \in audit

(* The calls a completed turn leaves behind. *)
Quiescent == \A c \in Calls : call[c] \in {"unsent", "settled"}

CompletedReasons == {"completed", "component_participation_failed"}

CompletedInv ==
  /\ phase \in {"seeding", "agent"} => stop_reason = "none" /\ ~score_eligible
  /\ phase = "returned" => stop_reason \in {"completed", "harness_error"}
  /\ stop_reason \in CompletedReasons =>
       Quiescent /\ bridge_audit = {c \in Calls : call[c] # "unsent"}
  /\ score_eligible => Quiescent

ReadInv ==
  /\ phase \in {"scored", "read"} /\ score_eligible =>
       result.score = IF best_score # NegInf THEN best_score ELSE seed_score
  /\ phase = "read" /\ score_eligible =>
       result.program = IF best_program # NoProgram THEN best_program
                        ELSE InitialProgram

RowInv ==
  /\ row.eligible => phase = "published" /\ score_eligible
  /\ EligibleRowIsCoherent

IInv ==
  /\ TypeOK
  /\ LockInv
  /\ SeedingInv
  /\ ScoreInv
  /\ AdoptInv
  /\ SavingInv
  /\ LedgerInv
  /\ CheckpointWasEarned
  /\ AwaitInv
  /\ AuditInv
  /\ CompletedInv
  /\ ReadInv
  /\ RowInv

-----------------------------------------------------------------------------
(* Facts about the constants, and the definitions every step looks through.*)

USE ProgramsAssumption, ScoresAssumption, BudgetAssumption, CallsAssumption

(* The initial state is well typed. *)
LEMMA TypeInit == Init => TypeOK
<1> SUFFICES ASSUME Init PROVE TypeOK
  OBVIOUS
<1>1. NoCheckpoint \in PartialPairSet
  BY DEF NoCheckpoint, Pair, PartialPairSet
<1>2. SessionTypeOK
  BY <1>1 DEF Init, SessionInit, SessionTypeOK
<1>3. row \in [eligible : BOOLEAN, best : PartialPairSet, written : BOOLEAN]
  BY <1>1 DEF Init, NoRow
<1> QED
  BY <1>1, <1>2, <1>3 DEF Init, TypeOK, CallStates, Phases, StopReasons

(* Every step keeps every variable in its type. *)
LEMMA TypeStep == TypeOK /\ [Next]_vars => TypeOK'
<1> SUFFICES ASSUME TypeOK, [Next]_vars PROVE TypeOK'
  OBVIOUS
<1> USE DEF TypeOK, SessionTypeOK, CallStates, InLock, Phases, StopReasons, PartialPairSet
<1>1. ASSUME NEW out \in Outcome, Seed(out) PROVE TypeOK'
  BY <1>1 DEF Seed, SeedBaseline, IsBest, Outcome, Pair, PairSet, NoCheckpoint,
              bridgeVars
<1>2. ASSUME NEW c \in Calls, Send(c) PROVE TypeOK'
  BY <1>2 DEF Send, sessionVars, mainVars
<1>3. ASSUME NEW c \in Calls, Reply(c) PROVE TypeOK'
  BY <1>3 DEF Reply, sessionVars, mainVars
<1>4. CASE TurnCompletes
  BY <1>4 DEF TurnCompletes, sessionVars, bridgeVars
<1>5. CASE CordisTimeout
  BY <1>5 DEF CordisTimeout, sessionVars
<1>6. ASSUME NEW c \in Calls, NEW p \in Programs, Edit(c, p) PROVE TypeOK'
  BY <1>6 DEF Edit, Acquire, Move, EditSolution, mainVars
<1>7. ASSUME NEW c \in Calls, Probe(c) PROVE TypeOK'
  BY <1>7 DEF Probe, Acquire, Move, ProbeSolution, mainVars
<1>8. ASSUME NEW c \in Calls, Finish(c) PROVE TypeOK'
  BY <1>8 DEF Finish, Acquire, Move, sessionVars, mainVars
<1>9. ASSUME NEW c \in Calls, RefuseEvaluation(c) PROVE TypeOK'
  BY <1>9 DEF RefuseEvaluation, Acquire, Move, sessionVars, mainVars
<1>10. ASSUME NEW c \in Calls, StartEvaluation(c) PROVE TypeOK'
  BY <1>10 DEF StartEvaluation, Acquire, Move, sessionVars, mainVars
<1>11. ASSUME NEW c \in Calls, NEW out \in Outcome, Score(c, out) PROVE TypeOK'
  BY <1>11 DEF Score, ChargeAndScore, IsBest, Move, Outcome, Pair, PairSet, mainVars
<1>12. ASSUME NEW c \in Calls, Adopt(c) PROVE TypeOK'
  BY <1>12 DEF Adopt, AdoptProgram, Move, mainVars
<1>13. ASSUME NEW c \in Calls, SaveBest(c) PROVE TypeOK'
  BY <1>13 DEF SaveBest, WriteCheckpoint, Move, Pair, mainVars
<1>14. ASSUME NEW c \in Calls, Audit(c) PROVE TypeOK'
  BY <1>14 DEF Audit, Move, sessionVars, mainVars
<1>15. ASSUME NEW issues \in BOOLEAN, Judge(issues) PROVE TypeOK'
  BY <1>15 DEF Judge, IsScoreEligible, sessionVars, bridgeVars
<1>16. CASE ReadScore
  BY <1>16 DEF ReadScore, sessionVars, bridgeVars
<1>17. CASE ReadProgram
  BY <1>17 DEF ReadProgram, sessionVars, bridgeVars
<1>18. ASSUME NEW mutated \in BOOLEAN, NEW trajectory_ok \in BOOLEAN,
              AuditRollout(mutated, trajectory_ok)
       PROVE TypeOK'
  BY <1>18 DEF AuditRollout, Row, NoCheckpoint, Pair, sessionVars, bridgeVars
<1>19. CASE WorkerKilled
  BY <1>19 DEF WorkerKilled, sessionVars, bridgeVars
<1>20. CASE SeedRaises
  BY <1>20 DEF SeedRaises, Row, NoCheckpoint, Pair, sessionVars, bridgeVars
<1>21. ASSUME NEW c \in Calls, EvaluationRaises(c) PROVE TypeOK'
  BY <1>21 DEF EvaluationRaises, Move, sessionVars, mainVars
<1>22. CASE UNCHANGED vars
  BY <1>22 DEF vars, sessionVars, bridgeVars, mainVars
<1> QED
  BY <1>1, <1>2, <1>3, <1>4, <1>5, <1>6, <1>7, <1>8, <1>9, <1>10, <1>11, <1>12,
     <1>13, <1>14, <1>15, <1>16, <1>17, <1>18, <1>19, <1>20, <1>21, <1>22
     DEF Next, Agent, Handler, Main

-----------------------------------------------------------------------------
(* The inductive invariant. *)

(* The invariant holds before the seed is scored. *)
LEMMA InvInit == Init => IInv
<1> SUFFICES ASSUME Init PROVE IInv
  OBVIOUS
<1> USE DEF Init, SessionInit
<1>1. TypeOK
  BY TypeInit
<1>2. LockInv /\ SeedingInv /\ AwaitInv /\ AuditInv /\ SavingInv
  BY DEF LockInv, SeedingInv, AwaitInv, AuditInv, SavingInv, InLock
<1>3. ScoreInv /\ AdoptInv /\ LedgerInv /\ CheckpointWasEarned
  BY DEF ScoreInv, NoBetter, AdoptInv, LedgerInv, BudgetHolds, CheckpointWasEarned
<1>4. CompletedInv /\ ReadInv /\ RowInv
  BY DEF CompletedInv, CompletedReasons, ReadInv, RowInv, NoRow,
         EligibleRowIsCoherent
<1> QED
  BY <1>1, <1>2, <1>3, <1>4 DEF IInv

(* The parts that only look at calls, lock, audit and phase. *)
BridgeInv == LockInv /\ AwaitInv /\ AuditInv /\ CompletedInv

(* The parts about scores, programs and budgets. *)
BestInv == ScoreInv /\ AdoptInv /\ SavingInv /\ LedgerInv /\ CheckpointWasEarned

(* Lock, audit and awaited replies stay consistent with where calls are. *)
LEMMA BridgeStep == IInv /\ [Next]_vars => BridgeInv' /\ SeedingInv'
<1> SUFFICES ASSUME IInv, [Next]_vars PROVE BridgeInv' /\ SeedingInv'
  OBVIOUS
<1> USE DEF IInv, BridgeInv, LockInv, AwaitInv, AuditInv, CompletedInv,
            CompletedReasons, Quiescent, SeedingInv, TypeOK, InLock, CallStates
<1>1. ASSUME NEW out \in Outcome, Seed(out) PROVE BridgeInv' /\ SeedingInv'
  BY <1>1 DEF Seed, bridgeVars
<1>2. ASSUME NEW c \in Calls, Send(c) PROVE BridgeInv' /\ SeedingInv'
  BY <1>2 DEF Send, mainVars
<1>3. ASSUME NEW c \in Calls, Reply(c) PROVE BridgeInv' /\ SeedingInv'
  BY <1>3 DEF Reply, sessionVars, mainVars
<1>4. CASE TurnCompletes
  BY <1>4 DEF TurnCompletes, sessionVars, bridgeVars
<1>5. CASE CordisTimeout
  BY <1>5 DEF CordisTimeout, sessionVars
<1>6. ASSUME NEW c \in Calls, NEW p \in Programs, Edit(c, p)
      PROVE  BridgeInv' /\ SeedingInv'
  BY <1>6 DEF Edit, Acquire, Move, mainVars
<1>7. ASSUME NEW c \in Calls, Probe(c) PROVE BridgeInv' /\ SeedingInv'
  BY <1>7 DEF Probe, Acquire, Move, mainVars
<1>8. ASSUME NEW c \in Calls, Finish(c) PROVE BridgeInv' /\ SeedingInv'
  BY <1>8 DEF Finish, Acquire, Move, mainVars
<1>9. ASSUME NEW c \in Calls, RefuseEvaluation(c) PROVE BridgeInv' /\ SeedingInv'
  BY <1>9 DEF RefuseEvaluation, Acquire, Move, mainVars
<1>10. ASSUME NEW c \in Calls, StartEvaluation(c) PROVE BridgeInv' /\ SeedingInv'
  BY <1>10 DEF StartEvaluation, Acquire, Move, mainVars
<1>11. ASSUME NEW c \in Calls, NEW out \in Outcome, Score(c, out)
       PROVE  BridgeInv' /\ SeedingInv'
  BY <1>11 DEF Score, Move, mainVars
<1>12. ASSUME NEW c \in Calls, Adopt(c) PROVE BridgeInv' /\ SeedingInv'
  BY <1>12 DEF Adopt, Move, mainVars
<1>13. ASSUME NEW c \in Calls, SaveBest(c) PROVE BridgeInv' /\ SeedingInv'
  BY <1>13 DEF SaveBest, Move, mainVars
<1>14. ASSUME NEW c \in Calls, Audit(c) PROVE BridgeInv' /\ SeedingInv'
  BY <1>14 DEF Audit, Move, mainVars
<1>15. ASSUME NEW issues \in BOOLEAN, Judge(issues) PROVE BridgeInv' /\ SeedingInv'
  BY <1>15 DEF Judge, IsScoreEligible, sessionVars, bridgeVars
<1>16. CASE ReadScore
  BY <1>16 DEF ReadScore, sessionVars, bridgeVars
<1>17. CASE ReadProgram
  BY <1>17 DEF ReadProgram, sessionVars, bridgeVars
<1>18. ASSUME NEW mutated \in BOOLEAN, NEW trajectory_ok \in BOOLEAN,
              AuditRollout(mutated, trajectory_ok)
       PROVE BridgeInv' /\ SeedingInv'
  BY <1>18 DEF AuditRollout, sessionVars, bridgeVars
<1>19. CASE WorkerKilled
  BY <1>19 DEF WorkerKilled, sessionVars, bridgeVars
<1>20. CASE SeedRaises
  BY <1>20 DEF SeedRaises, sessionVars, bridgeVars
<1>21. ASSUME NEW c \in Calls, EvaluationRaises(c) PROVE BridgeInv' /\ SeedingInv'
  BY <1>21 DEF EvaluationRaises, Move, mainVars
<1>22. CASE UNCHANGED vars
  BY <1>22 DEF vars, sessionVars, bridgeVars, mainVars
<1> QED
  BY <1>1, <1>2, <1>3, <1>4, <1>5, <1>6, <1>7, <1>8, <1>9, <1>10, <1>11, <1>12,
     <1>13, <1>14, <1>15, <1>16, <1>17, <1>18, <1>19, <1>20, <1>21, <1>22
     DEF Next, Agent, Handler, Main

(* An evaluation in progress is the only writer of best_score. *)
LEMMA BestStep == IInv /\ [Next]_vars => BestInv'
<1> SUFFICES ASSUME IInv, [Next]_vars PROVE BestInv'
  OBVIOUS
<1> USE DEF IInv, BestInv, ScoreInv, NoBetter, AdoptInv, SavingInv, LedgerInv,
            BudgetHolds, CheckpointWasEarned, Settled, BestPair, LockInv, InLock,
            TypeOK, SessionTypeOK, CallStates
<1>1. ASSUME NEW out \in Outcome, Seed(out) PROVE BestInv'
  BY <1>1 DEF Seed, SeedBaseline, IsBest, Outcome, Pair, SeedingInv, bridgeVars
<1>2. ASSUME NEW c \in Calls, Send(c) PROVE BestInv'
  BY <1>2 DEF Send, sessionVars
<1>3. ASSUME NEW c \in Calls, Reply(c) PROVE BestInv'
  BY <1>3 DEF Reply, sessionVars
<1>4. CASE TurnCompletes
  BY <1>4 DEF TurnCompletes, sessionVars, bridgeVars
<1>5. CASE CordisTimeout
  BY <1>5 DEF CordisTimeout, sessionVars
<1>6. ASSUME NEW c \in Calls, NEW p \in Programs, Edit(c, p) PROVE BestInv'
  BY <1>6 DEF Edit, Acquire, Move, EditSolution, Pair
<1>7. ASSUME NEW c \in Calls, Probe(c) PROVE BestInv'
  BY <1>7 DEF Probe, Acquire, Move, ProbeSolution, ProbesExhausted
<1>8. ASSUME NEW c \in Calls, Finish(c) PROVE BestInv'
  BY <1>8 DEF Finish, Acquire, Move, sessionVars
<1>9. ASSUME NEW c \in Calls, RefuseEvaluation(c) PROVE BestInv'
  BY <1>9 DEF RefuseEvaluation, Acquire, Move, sessionVars
<1>10. ASSUME NEW c \in Calls, StartEvaluation(c) PROVE BestInv'
  BY <1>10 DEF StartEvaluation, Acquire, Move, sessionVars, EvaluatorExhausted
<1>11. ASSUME NEW c \in Calls, NEW out \in Outcome, Score(c, out) PROVE BestInv'
  <2> USE <1>11 DEF Score, ChargeAndScore, IsBest, Move, Outcome
  <2>1. out.score \in Int /\ out.score > NegInf /\ best_score \in Int
    BY DEF PairSet
  <2>2. \A pr \in validated : pr.score \in Int
    BY DEF PairSet
  <2>3. \A d \in Calls : call[d] \in InLock => d = c
    OBVIOUS
  <2>4. ScoreInv' /\ SavingInv'
    BY <2>1, <2>2, <2>3 DEF Pair
  <2>5. LedgerInv' /\ CheckpointWasEarned'
    BY <2>1, <2>3
  <2>6. AdoptInv'
    BY <2>1, <2>2, <2>3 DEF Pair
  <2> QED
    BY <2>4, <2>5, <2>6
<1>12. ASSUME NEW c \in Calls, Adopt(c) PROVE BestInv'
  BY <1>12 DEF Adopt, AdoptProgram, Move, Pair
<1>13. ASSUME NEW c \in Calls, SaveBest(c) PROVE BestInv'
  BY <1>13 DEF SaveBest, WriteCheckpoint, Move, Pair
<1>14. ASSUME NEW c \in Calls, Audit(c) PROVE BestInv'
  BY <1>14 DEF Audit, Move, sessionVars
<1>15. ASSUME NEW issues \in BOOLEAN, Judge(issues) PROVE BestInv'
  BY <1>15 DEF Judge, sessionVars, bridgeVars
<1>16. CASE ReadScore
  BY <1>16 DEF ReadScore, sessionVars, bridgeVars
<1>17. CASE ReadProgram
  BY <1>17 DEF ReadProgram, sessionVars, bridgeVars
<1>18. ASSUME NEW mutated \in BOOLEAN, NEW trajectory_ok \in BOOLEAN,
              AuditRollout(mutated, trajectory_ok)
       PROVE BestInv'
  BY <1>18 DEF AuditRollout, sessionVars, bridgeVars
<1>19. CASE WorkerKilled
  BY <1>19 DEF WorkerKilled, sessionVars, bridgeVars
<1>20. CASE SeedRaises
  BY <1>20 DEF SeedRaises, sessionVars, bridgeVars
<1>21. ASSUME NEW c \in Calls, EvaluationRaises(c) PROVE BestInv'
  BY <1>21 DEF EvaluationRaises, Move, sessionVars
<1>22. CASE UNCHANGED vars
  BY <1>22 DEF vars, sessionVars, bridgeVars
<1> QED
  BY <1>1, <1>2, <1>3, <1>4, <1>5, <1>6, <1>7, <1>8, <1>9, <1>10, <1>11, <1>12,
     <1>13, <1>14, <1>15, <1>16, <1>17, <1>18, <1>19, <1>20, <1>21, <1>22
     DEF Next, Agent, Handler, Main

(* Once the row can count, no call is left to change what it reports. *)
LEMMA QuiescentKeepsBest ==
  ASSUME IInv, [Next]_vars, score_eligible
  PROVE  UNCHANGED <<best_score, best_program, validated, seed_score>>
<1> USE DEF IInv, CompletedInv, Quiescent, TypeOK
<1>1. phase \notin {"seeding", "agent"}
  OBVIOUS
<1>2. ASSUME NEW c \in Calls, Handler(c)
      PROVE  UNCHANGED <<best_score, best_program, validated, seed_score>>
  BY <1>2 DEF Handler, Acquire, Edit, Probe, Finish, RefuseEvaluation,
     StartEvaluation, Score, EvaluationRaises, Adopt, SaveBest, Audit,
     sessionVars, mainVars
<1>3. CASE Agent
  BY <1>1, <1>3 DEF Agent, Send, Reply, TurnCompletes
<1>4. CASE Main
  BY <1>1, <1>4 DEF Main, Seed, SeedRaises, CordisTimeout, Judge, ReadScore, ReadProgram,
     AuditRollout, sessionVars
<1>5. CASE WorkerKilled
  BY <1>5 DEF WorkerKilled, sessionVars
<1>6. CASE UNCHANGED vars
  BY <1>6 DEF vars, sessionVars, mainVars
<1> QED
  BY <1>2, <1>3, <1>4, <1>5, <1>6 DEF Next

(* A row that is to count is built from one pair. *)
LEMMA ReadPairIsCoherent ==
  ASSUME IInv, phase = "read", score_eligible
  PROVE  \/ result \in validated /\ NoBetter(result.score)
         \/ validated = {} /\ result = Pair(InitialProgram, seed_score)
<1> USE DEF IInv, ReadInv, CompletedInv, Quiescent, TypeOK, SessionTypeOK
<1>1. result = Pair(result.program, result.score)
  BY DEF PartialPairSet, Pair
<1>2. CASE best_score = NegInf
  BY <1>1, <1>2 DEF ScoreInv
<1>3. CASE best_score # NegInf
  <2>1. BestPair \in validated
    BY <1>3 DEF AdoptInv, Settled
  <2>2. best_program \in Programs
    BY <2>1 DEF BestPair, Pair, PairSet
  <2>3. result = BestPair
    BY <1>1, <1>3, <2>2 DEF BestPair
  <2>4. result.score = best_score
    BY <1>3
  <2> QED
    BY <2>1, <2>3, <2>4 DEF ScoreInv
<1> QED
  BY <1>2, <1>3

(* What the main thread has read, and the row, stay in step with the session.*)
LEMMA RowStep == IInv /\ [Next]_vars => ReadInv' /\ RowInv'
<1> SUFFICES ASSUME IInv, [Next]_vars PROVE ReadInv' /\ RowInv'
  OBVIOUS
<1>1. ASSUME score_eligible
      PROVE  UNCHANGED <<best_score, best_program, validated, seed_score>>
  BY <1>1, QuiescentKeepsBest
<1> USE DEF IInv, ReadInv, RowInv, EligibleRowIsCoherent, NoBetter, CompletedInv
<1>2. ASSUME NEW out \in Outcome, Seed(out) PROVE ReadInv' /\ RowInv'
  BY <1>2 DEF Seed
<1>3. CASE Agent
  BY <1>3 DEF Agent, Send, Reply, TurnCompletes, mainVars
<1>4. ASSUME NEW c \in Calls, Handler(c) PROVE ReadInv' /\ RowInv'
  <2>1. UNCHANGED mainVars
    BY <1>4 DEF Handler, Edit, Probe, Finish, RefuseEvaluation, StartEvaluation,
                Score, EvaluationRaises, Adopt, SaveBest, Audit
  <2> QED
    BY <1>1, <2>1 DEF mainVars
<1>5. CASE CordisTimeout
  BY <1>5 DEF CordisTimeout
<1>6. ASSUME NEW issues \in BOOLEAN, Judge(issues) PROVE ReadInv' /\ RowInv'
  BY <1>6 DEF Judge
<1>7. CASE ReadScore
  BY <1>1, <1>7 DEF ReadScore, sessionVars, TypeOK, PartialPairSet
<1>8. CASE ReadProgram
  BY <1>1, <1>8 DEF ReadProgram, sessionVars, TypeOK, PartialPairSet
<1>9. ASSUME NEW mutated \in BOOLEAN, NEW trajectory_ok \in BOOLEAN,
             AuditRollout(mutated, trajectory_ok)
      PROVE  ReadInv' /\ RowInv'
  <2> USE <1>9 DEF AuditRollout, Row, sessionVars
  <2>1. CASE score_eligible'
    <3>1. score_eligible /\ row'.best = result
      BY <2>1
    <3>2. \/ result \in validated /\ NoBetter(result.score)
          \/ validated = {} /\ result = Pair(InitialProgram, seed_score)
      BY <3>1, ReadPairIsCoherent
    <3> QED
      BY <2>1, <3>1, <3>2
  <2>2. CASE ~score_eligible'
    BY <2>2
  <2> QED
    BY <2>1, <2>2
<1>10. CASE WorkerKilled
  BY <1>10 DEF WorkerKilled, sessionVars
<1>11. CASE SeedRaises
  BY <1>11 DEF SeedRaises, Row
<1>12. CASE UNCHANGED vars
  BY <1>12 DEF vars, sessionVars, mainVars
<1> QED
  BY <1>2, <1>3, <1>4, <1>5, <1>6, <1>7, <1>8, <1>9, <1>10, <1>11, <1>12
     DEF Next, Main

-----------------------------------------------------------------------------
(* The theorems. *)

(* IInv holds in every reachable state. *)
LEMMA Invariance == Spec => []IInv
<1>1. IInv /\ [Next]_vars => IInv'
  <2> SUFFICES ASSUME IInv, [Next]_vars PROVE IInv'
    OBVIOUS
  <2>1. TypeOK'
    BY TypeStep DEF IInv
  <2>2. BridgeInv' /\ SeedingInv' /\ BestInv' /\ ReadInv' /\ RowInv'
    BY BridgeStep, BestStep, RowStep
  <2> QED
    BY <2>1, <2>2 DEF IInv, BridgeInv, BestInv
<1> QED
  BY <1>1, InvInit, PTL DEF Spec

(* Every variable of a rollout keeps its type. *)
THEOREM TypeCorrect == Spec => []TypeOK
<1>1. IInv => TypeOK
  BY DEF IInv
<1> QED
  BY <1>1, Invariance, PTL

(* Dispatched tools exclude one another, also after the server is closed.  *)
THEOREM DispatchIsSerial ==
  Spec => [](\A c, d \in Calls : call[c] \in InLock /\ call[d] \in InLock => c = d)
<1>1. IInv => \A c, d \in Calls : call[c] \in InLock /\ call[d] \in InLock => c = d
  BY DEF IInv, LockInv
<1> QED
  BY <1>1, Invariance, PTL

(* The best pair is the highest valid score with the program that earned it.*)
THEOREM BestIsHonest == Spec => []BestIsHighestValid
<1>1. IInv => BestIsHighestValid
  BY DEF IInv, ScoreInv, AdoptInv, BestIsHighestValid, NothingFound
<1> QED
  BY <1>1, Invariance, PTL

(* A kill at any moment leaves a checkpoint that was earned. *)
THEOREM CheckpointIsHonest == Spec => []CheckpointWasEarned
<1>1. IInv => CheckpointWasEarned
  BY DEF IInv
<1> QED
  BY <1>1, Invariance, PTL

(* No interleaving of calls overdraws a budget. *)
THEOREM BudgetIsRespected == Spec => []BudgetHolds
<1>1. IInv => BudgetHolds
  BY DEF IInv, LedgerInv
<1> QED
  BY <1>1, Invariance, PTL

(* A published score that counts belongs to the published program. *)
THEOREM RowsAreCoherent == Spec => []EligibleRowIsCoherent
<1>1. IInv => EligibleRowIsCoherent
  BY DEF IInv, RowInv
<1> QED
  BY <1>1, Invariance, PTL

(* The bridge audit of a completed turn misses no call. *)
THEOREM AuditIsComplete == Spec => []AuditCoversTurn
<1>1. IInv => AuditCoversTurn
  BY DEF IInv, CompletedInv, CompletedReasons, AuditCoversTurn
<1> QED
  BY <1>1, Invariance, PTL

-----------------------------------------------------------------------------
(* The refinement of BestSoFar. *)

(* The seed is not charged, and there is no row before the last step.      *)
OutsetInv ==
  /\ phase = "seeding" => evaluator_calls = 0
  /\ row.written => phase = "published"

(* Nothing but the seed's step and the row's step disturbs it.             *)
LEMMA OutsetStep == IInv /\ OutsetInv /\ [Next]_vars => OutsetInv'
<1> SUFFICES ASSUME IInv, OutsetInv, [Next]_vars PROVE OutsetInv'
  OBVIOUS
<1> USE DEF IInv, OutsetInv, SeedingInv
<1>1. ASSUME NEW c \in Calls, Handler(c) PROVE OutsetInv'
  BY <1>1 DEF Handler, Acquire, Edit, Probe, Finish, RefuseEvaluation,
     StartEvaluation, Score, EvaluationRaises, Adopt, SaveBest, Audit, mainVars
<1>2. CASE Agent
  BY <1>2 DEF Agent, Send, Reply, TurnCompletes, mainVars
<1>3. CASE Main
  BY <1>3 DEF Main, Seed, SeedRaises, CordisTimeout, Judge, ReadScore,
     ReadProgram, AuditRollout
<1>4. CASE WorkerKilled
  BY <1>4 DEF WorkerKilled
<1>5. CASE UNCHANGED vars
  BY <1>5 DEF vars, mainVars, sessionVars
<1> QED
  BY <1>1, <1>2, <1>3, <1>4, <1>5 DEF Next

(* A report that was made stays, although handlers may outlive the turn.   *)
LEMMA ReportStays ==
  ASSUME IInv, [Next]_vars, UNCHANGED row
  PROVE  UNCHANGED AbstractReport
<1>1. row.eligible => score_eligible
  BY DEF IInv, RowInv
<1>2. row.eligible => UNCHANGED best_score
  BY <1>1, QuiescentKeepsBest
<1> QED
  BY <1>2 DEF AbstractReport

(* Whoever is inside the critical section is alone there.                  *)
LEMMA OneInside ==
  ASSUME IInv, NEW c \in Calls, call[c] \in InLock, NEW d \in Calls, call[d] \in InLock
  PROVE  c = d
  BY DEF IInv, LockInv

(* The committed best is empty exactly until something valid was found.    *)
LEMMA NothingCommitted ==
  ASSUME IInv
  PROVE  CommittedBest = NoCheckpoint <=> best_score = NegInf
<1> USE DEF IInv, SavingInv, ScoreInv, Settled
<1>1. best_score = NegInf => CommittedBest = NoCheckpoint
  BY DEF CommittedBest, BestPair, NoCheckpoint, Pair
<1>2. CommittedBest.score = best_score /\ NoCheckpoint.score = NegInf
  BY DEF CommittedBest, BestPair, NoCheckpoint, Pair
<1> QED
  BY <1>1, <1>2

(* A step that moves neither the best, the file, the ledger nor the row,   *)
(* and no call into or out of adopting, is a stutter of the promise.       *)
LEMMA Stutter ==
  ASSUME IInv, [Next]_vars, UNCHANGED row,
         UNCHANGED <<best_score, best_program, checkpoint, evaluator_calls>>,
         Settled' <=> Settled, Settled \/ UNCHANGED current_program
  PROVE  UNCHANGED Promise!vars
<1>1. UNCHANGED AbstractReport
  BY ReportStays
<1>2. UNCHANGED CommittedBest
  BY DEF CommittedBest, BestPair, Pair
<1> QED
  BY <1>1, <1>2 DEF Promise!vars

(* Every step of a handler thread is a step of the promise or a stutter.   *)
LEMMA HandlerRefines ==
  ASSUME IInv, NEW c \in Calls, Handler(c)
  PROVE  [Promise!Next]_Promise!vars
<1> USE DEF IInv, TypeOK, SessionTypeOK, Acquire, Move, InLock, CallStates
<1>1. [Next]_vars /\ UNCHANGED row
  BY DEF Next, Handler, Edit, Probe, Finish, RefuseEvaluation, StartEvaluation,
     Score, EvaluationRaises, Adopt, SaveBest, Audit, mainVars
<1>2. UNCHANGED AbstractReport
  BY <1>1, ReportStays
<1>3. CASE \/ \E p \in Programs : Edit(c, p)
           \/ Probe(c) \/ Finish(c) \/ RefuseEvaluation(c) \/ StartEvaluation(c)
  <2>1. dispatch_lock = None /\ call[c] = "queued"
    BY <1>3 DEF Edit, Probe, Finish, RefuseEvaluation, StartEvaluation
  <2>2. Settled
    BY <2>1 DEF LockInv, Settled
  <2>3. Settled' /\ UNCHANGED <<best_score, best_program, checkpoint, evaluator_calls>>
    BY <1>3, <2>2 DEF Settled, Edit, EditSolution, Probe, ProbeSolution, Finish,
       RefuseEvaluation, StartEvaluation, sessionVars
  <2> QED
    BY <1>1, <2>2, <2>3, Stutter
<1>4. CASE EvaluationRaises(c) \/ Audit(c)
  <2>1. Settled' <=> Settled
    BY <1>4 DEF EvaluationRaises, Audit, Settled
  <2>2. UNCHANGED <<current_program, best_score, best_program, checkpoint, evaluator_calls>>
    BY <1>4 DEF EvaluationRaises, Audit, sessionVars
  <2> QED
    BY <1>1, <2>1, <2>2, Stutter
<1>5. ASSUME NEW out \in Outcome, Score(c, out) PROVE Promise!Next
  <2> USE <1>5 DEF Score, ChargeAndScore
  <2>1. Settled /\ call[c] = "evaluating"
    BY OneInside DEF Settled
  <2>2. evaluator_calls < MaxEvaluatorCalls
    BY <2>1 DEF LedgerInv
  <2>3. CASE ~IsBest(out)
    <3>1. Settled'
      BY <2>1, <2>3 DEF Settled
    <3>2. UNCHANGED CommittedBest
      BY <2>1, <2>3, <3>1 DEF CommittedBest, BestPair, Pair
    <3> QED
      BY <1>2, <2>2, <3>2 DEF Promise!Next, Promise!Evaluate
  <2>4. CASE IsBest(out)
    <3>1. ~Settled'
      BY <2>4 DEF Settled
    <3>2. CommittedBest' = Pair(current_program, out.score)
      BY <2>4, <3>1 DEF CommittedBest
    <3>3. Pair(current_program, out.score) \in PairSet
      BY DEF Pair, PairSet, Outcome
    <3>4. CommittedBest.score = best_score /\ out.score > best_score
      BY <2>1, <2>4 DEF CommittedBest, BestPair, Pair, IsBest
    <3>5. Promise!Improves(Pair(current_program, out.score))
      BY <3>4 DEF Promise!Improves, Pair
    <3> QED
      BY <1>2, <2>2, <3>2, <3>3, <3>5 DEF Promise!Next, Promise!Evaluate
  <2> QED
    BY <2>3, <2>4
<1>6. CASE Adopt(c)
  <2>1. ~Settled /\ Settled'
    BY <1>6, OneInside DEF Adopt, Settled
  <2>2. UNCHANGED CommittedBest
    BY <1>6, <2>1 DEF CommittedBest, BestPair, Pair, Adopt, AdoptProgram
  <2> QED
    BY <1>2, <1>6, <2>2 DEF Promise!vars, Adopt, AdoptProgram
<1>7. CASE SaveBest(c)
  <2>1. Settled /\ Settled'
    BY <1>7, OneInside DEF SaveBest, Settled
  <2>2. UNCHANGED CommittedBest /\ CommittedBest = BestPair
    BY <1>7, <2>1 DEF CommittedBest, BestPair, Pair, SaveBest, WriteCheckpoint
  <2>3. checkpoint' \in {checkpoint, CommittedBest} /\ UNCHANGED evaluator_calls
    BY <1>7, <2>2 DEF SaveBest, WriteCheckpoint, BestPair
  <2> QED
    BY <1>2, <2>2, <2>3 DEF Promise!Next, Promise!Save, Promise!vars
<1> QED
  BY <1>3, <1>4, <1>5, <1>6, <1>7 DEF Handler

(* The seed's step is the baseline of the promise, or a stutter.           *)
LEMMA SeedRefines ==
  ASSUME IInv, OutsetInv, NEW out \in Outcome, Seed(out)
  PROVE  [Promise!Next]_Promise!vars
<1> USE DEF IInv, TypeOK, SessionTypeOK, Seed, SeedBaseline
<1>1. [Next]_vars /\ UNCHANGED row /\ UNCHANGED call
  BY DEF Next, Main, bridgeVars
<1>2. Settled /\ Settled'
  BY <1>1 DEF SeedingInv, Settled
<1>3. UNCHANGED AbstractReport
  BY <1>1, ReportStays
<1>4. CASE ~IsBest(out)
  BY <1>1, <1>2, <1>4, Stutter
<1>5. CASE IsBest(out)
  <2>1. CommittedBest = NoCheckpoint /\ evaluator_calls = 0
    BY NothingCommitted DEF SeedingInv, OutsetInv
  <2>2. CommittedBest' = Pair(current_program, out.score)
    BY <1>2, <1>5 DEF CommittedBest, BestPair
  <2>3. Pair(current_program, out.score) \in PairSet
    BY DEF Pair, PairSet, Outcome
  <2> QED
    BY <1>3, <1>5, <2>1, <2>2, <2>3 DEF Promise!Next, Promise!Baseline
<1> QED
  BY <1>4, <1>5

(* Publishing is the one report of the promise.                            *)
LEMMA AuditRefines ==
  ASSUME IInv, OutsetInv, NEW mutated \in BOOLEAN, NEW trajectory_ok \in BOOLEAN,
         AuditRollout(mutated, trajectory_ok)
  PROVE  Promise!Next
<1> USE DEF IInv, TypeOK, SessionTypeOK, AuditRollout, OutsetInv
<1>1. ~row.written /\ row' = Row(score_eligible', IF score_eligible' THEN result ELSE NoCheckpoint)
  OBVIOUS
<1>2. AbstractReport = Promise!Open
  BY <1>1 DEF AbstractReport, Promise!Open
<1>3. UNCHANGED <<CommittedBest, checkpoint, evaluator_calls, best_score>>
  BY DEF CommittedBest, BestPair, Pair, Settled, sessionVars, bridgeVars
<1>4. CASE ~score_eligible'
  <2>1. AbstractReport' = Promise!Withheld
    BY <1>1, <1>4 DEF AbstractReport, Promise!Withheld, Row
  <2> QED
    BY <1>2, <1>3, <2>1 DEF Promise!Next, Promise!Report
<1>5. CASE score_eligible'
  <2>1. score_eligible /\ row' = Row(TRUE, result)
    BY <1>1, <1>5
  <2>2. Settled
    BY <2>1 DEF CompletedInv, Quiescent, Settled
  <2>3. CASE best_score = NegInf
    <3>1. CommittedBest = NoCheckpoint
      BY <2>3, NothingCommitted
    <3>2. AbstractReport' = Promise!Unchanged
      BY <1>3, <2>1, <2>3 DEF AbstractReport, Promise!Unchanged, Row
    <3> QED
      BY <1>2, <1>3, <3>1, <3>2 DEF Promise!Next, Promise!Report
  <2>4. CASE best_score # NegInf
    <3>1. CommittedBest # NoCheckpoint /\ CommittedBest = BestPair
      BY <2>2, <2>4, NothingCommitted DEF CommittedBest
    <3>2. best_program # NoProgram
      BY <2>2, <2>4 DEF AdoptInv, PairSet, BestPair, Pair
    <3>3. result = BestPair
      BY <2>1, <2>4, <3>2 DEF ReadInv, BestPair, Pair, PartialPairSet
    <3>4. AbstractReport' = Promise!Found(CommittedBest)
      BY <1>3, <2>1, <2>4, <3>1, <3>3 DEF AbstractReport, Promise!Found, Row
    <3> QED
      BY <1>2, <1>3, <3>1, <3>4 DEF Promise!Next, Promise!Report
  <2> QED
    BY <2>3, <2>4
<1> QED
  BY <1>4, <1>5

(* Every step of a rollout is a step of the promise or a stutter.          *)
LEMMA StepRefines == IInv /\ OutsetInv /\ [Next]_vars => [Promise!Next]_Promise!vars
<1> SUFFICES ASSUME IInv, OutsetInv, [Next]_vars PROVE [Promise!Next]_Promise!vars
  OBVIOUS
<1>1. ASSUME UNCHANGED row, UNCHANGED sessionVars, Settled' <=> Settled
      PROVE  UNCHANGED Promise!vars
  BY <1>1, Stutter DEF sessionVars
<1>2. CASE Agent
  BY <1>1, <1>2 DEF Agent, Send, Reply, TurnCompletes, Settled, mainVars,
     bridgeVars, IInv, TypeOK
<1>3. CASE CordisTimeout \/ ReadScore \/ ReadProgram \/ WorkerKilled
           \/ (\E issues \in BOOLEAN : Judge(issues)) \/ UNCHANGED vars
  BY <1>1, <1>3 DEF CordisTimeout, ReadScore, ReadProgram, WorkerKilled, Judge,
     Settled, mainVars, bridgeVars, vars
<1>4. CASE SeedRaises
  <2>1. AbstractReport = Promise!Open
    BY <1>4 DEF SeedRaises, OutsetInv, AbstractReport, Promise!Open, IInv, TypeOK
  <2>2. AbstractReport' = Promise!Withheld
    BY <1>4 DEF SeedRaises, AbstractReport, Promise!Withheld, Row
  <2>3. UNCHANGED <<CommittedBest, checkpoint, evaluator_calls>>
    BY <1>4 DEF SeedRaises, CommittedBest, BestPair, Pair, Settled, sessionVars,
       bridgeVars
  <2> QED
    BY <2>1, <2>2, <2>3 DEF Promise!Next, Promise!Report
<1> QED
  BY <1>2, <1>3, <1>4, HandlerRefines, SeedRefines, AuditRefines DEF Next, Main

(* The rollout keeps the promise: threads, locks and files behave like a   *)
(* best pair that only improves, a budget, and one report.                 *)
THEOREM RolloutKeepsItsPromise == Spec => ImplementsBestSoFar
<1>1. Init => Promise!Init /\ OutsetInv
  BY DEF Init, SessionInit, Promise!Init, OutsetInv, CommittedBest, BestPair,
     Pair, NoCheckpoint, Settled, AbstractReport, NoRow, Promise!Open
<1>2. IInv /\ OutsetInv /\ [Next]_vars => OutsetInv' /\ [Promise!Next]_Promise!vars
  BY OutsetStep, StepRefines
<1> QED
  BY <1>1, <1>2, Invariance, PTL DEF Spec, ImplementsBestSoFar, Promise!Spec
=============================================================================
