----------------------------- MODULE InnerRollout -----------------------------
(***************************************************************************)
(* One inner rollout: the Cordis process calls the session's tools through *)
(* the loopback bridge (src/cordis_runtime/bridge.py), whose handler       *)
(* threads serialize on a dispatch lock and outlive the server; run_task   *)
(* and run_baseline read the session without that lock and publish a row.  *)
(***************************************************************************)
EXTENDS InnerSession, FiniteSets

CONSTANTS
  Calls,  \* tool calls the agent may make, a set of Nat: names a bound
  None

ASSUME CallsAssumption ==
  /\ Calls \subseteq Nat
  /\ None \notin Calls

VARIABLES
  call,          \* where the handler thread of each call is
  dispatch_lock, \* the call inside the bridge's critical section, or None
  audit,         \* calls in the bridge audit
  awaited,       \* calls whose reply the Cordis process still waits for
  phase,         \* where the main thread is
  stop_reason,   \* CordisRunResult.stop_reason, later InnerResult's
  bridge_audit,  \* the audit as run_cordis snapshotted it
  score_eligible,
  seed_score,
  result,        \* the pair InnerResult was built from, field by field
  row            \* the published summary row, or NoRow

bridgeVars == <<call, dispatch_lock, audit, awaited>>
mainVars == <<phase, stop_reason, bridge_audit, score_eligible, seed_score,
              result, row>>
vars == <<sessionVars, bridgeVars, mainVars>>

(* Threads: queued on the lock; inside it for an evaluation that takes     *)
(* several writes; appending to the audit once it is released; settled.    *)
InLock == {"evaluating", "adopting", "saving"}
CallStates == {"unsent", "queued", "auditing", "settled"} \cup InLock

(* The main thread: seeding, waiting for the Cordis process, judging what  *)
(* came back, reading the session, auditing, done; or killed.              *)
Phases == {"seeding", "agent", "returned", "judged", "scored", "read",
           "published", "killed"}
StopReasons == {"none", "completed", "harness_error",
                "component_participation_failed", "trajectory_missing",
                "h2_package_mutated"}

NoRow == [eligible |-> FALSE, best |-> NoCheckpoint, written |-> FALSE]
Row(eligible, pair) == [eligible |-> eligible, best |-> pair, written |-> TRUE]

Alive == phase # "killed"

Init ==
  /\ SessionInit
  /\ call = [c \in Calls |-> "unsent"]
  /\ dispatch_lock = None
  /\ audit = {}
  /\ awaited = {}
  /\ phase = "seeding"
  /\ stop_reason = "none"
  /\ bridge_audit = {}
  /\ score_eligible = FALSE
  /\ seed_score = NegInf
  /\ result = NoCheckpoint
  /\ row = NoRow

-----------------------------------------------------------------------------
(* The main thread, up to the launch of Cordis. *)

Seed(out) ==
  /\ phase = "seeding"
  /\ SeedBaseline(out)
  /\ seed_score' = out.score
  /\ phase' = "agent"
  /\ UNCHANGED <<bridgeVars, stop_reason, bridge_audit, score_eligible,
                 result, row>>

(* The evaluator cannot even be run: run_baseline's catch writes a row     *)
(* without a score.                                                        *)
SeedRaises ==
  /\ phase = "seeding"
  /\ row' = Row(FALSE, NoCheckpoint)
  /\ phase' = "published"
  /\ UNCHANGED <<sessionVars, bridgeVars, stop_reason, bridge_audit,
                 score_eligible, seed_score, result>>

-----------------------------------------------------------------------------
(* The Cordis process.  One step may hold several tool calls, so several   *)
(* requests may be in flight.  Which tool a request names is left to the   *)
(* handler's step.                                                         *)

Send(c) ==
  /\ phase = "agent"
  /\ call[c] = "unsent"
  /\ \A d \in Calls : d < c => call[d] # "unsent"
  /\ call' = [call EXCEPT ![c] = "queued"]
  /\ awaited' = awaited \cup {c}
  /\ UNCHANGED <<sessionVars, dispatch_lock, audit, mainVars>>

(* Variant for mutation: the reply is sent before the audit append. *)
Reply_BeforeAudit(c) ==
  /\ phase = "agent"
  /\ call[c] \in {"auditing", "settled"}
  /\ c \in awaited
  /\ awaited' = awaited \ {c}
  /\ UNCHANGED <<sessionVars, call, dispatch_lock, audit, mainVars>>

(* The handler replies after dispatch returns, so after the audit append.  *)
Reply(c) ==
  /\ phase = "agent"
  /\ call[c] = "settled"
  /\ c \in awaited
  /\ awaited' = awaited \ {c}
  /\ UNCHANGED <<sessionVars, call, dispatch_lock, audit, mainVars>>

-----------------------------------------------------------------------------
(* Handler threads.  BridgeServer.dispatch takes the lock, runs the tool   *)
(* and releases it; a call that reads the session once is one step.        *)

Acquire(c) ==
  /\ Alive
  /\ call[c] = "queued"
  /\ dispatch_lock = None

Move(c, to) == call' = [call EXCEPT ![c] = to]

Edit(c, p) ==
  /\ Acquire(c)
  /\ EditSolution(p)
  /\ Move(c, "auditing")
  /\ UNCHANGED <<dispatch_lock, audit, awaited, mainVars>>

Probe(c) ==
  /\ Acquire(c)
  /\ ProbeSolution
  /\ Move(c, "auditing")
  /\ UNCHANGED <<dispatch_lock, audit, awaited, mainVars>>

(* finish reads the session only.  It concludes the turn in Cordis, which  *)
(* is not modelled: the agent may go on, as its other calls of one step do.*)
Finish(c) ==
  /\ Acquire(c)
  /\ Move(c, "auditing")
  /\ UNCHANGED <<sessionVars, dispatch_lock, audit, awaited, mainVars>>

(* evaluate_solution checks the budget inside the lock. *)
RefuseEvaluation(c) ==
  /\ Acquire(c)
  /\ EvaluatorExhausted
  /\ Move(c, "auditing")
  /\ UNCHANGED <<sessionVars, dispatch_lock, audit, awaited, mainVars>>

(* Variant for mutation: the budget was checked before the lock was taken. *)
StartEvaluation_StaleCheck(c) ==
  /\ Acquire(c)
  /\ dispatch_lock' = c
  /\ Move(c, "evaluating")
  /\ UNCHANGED <<sessionVars, audit, awaited, mainVars>>

StartEvaluation(c) ==
  /\ Acquire(c)
  /\ ~EvaluatorExhausted
  /\ dispatch_lock' = c
  /\ Move(c, "evaluating")
  /\ UNCHANGED <<sessionVars, audit, awaited, mainVars>>

Score(c, out) ==
  /\ Alive
  /\ call[c] = "evaluating"
  /\ ChargeAndScore(out)
  /\ IF IsBest(out)
       THEN Move(c, "adopting") /\ UNCHANGED dispatch_lock
       ELSE Move(c, "auditing") /\ dispatch_lock' = None
  /\ UNCHANGED <<audit, awaited, mainVars>>

(* evaluate raises (no outcome at all): dispatch releases the lock, and    *)
(* nothing was charged.                                                    *)
EvaluationRaises(c) ==
  /\ Alive
  /\ call[c] = "evaluating"
  /\ Move(c, "auditing")
  /\ dispatch_lock' = None
  /\ UNCHANGED <<sessionVars, audit, awaited, mainVars>>

Adopt(c) ==
  /\ Alive
  /\ call[c] = "adopting"
  /\ AdoptProgram
  /\ Move(c, "saving")
  /\ UNCHANGED <<dispatch_lock, audit, awaited, mainVars>>

SaveBest(c) ==
  /\ Alive
  /\ call[c] = "saving"
  /\ WriteCheckpoint
  /\ Move(c, "auditing")
  /\ dispatch_lock' = None
  /\ UNCHANGED <<audit, awaited, mainVars>>

Audit(c) ==
  /\ Alive
  /\ call[c] = "auditing"
  /\ audit' = audit \cup {c}
  /\ Move(c, "settled")
  /\ UNCHANGED <<sessionVars, dispatch_lock, awaited, mainVars>>

-----------------------------------------------------------------------------
(* run_cordis returns.                                                     *)

(* A completed turn: exit status 0 and a turn/end event of kind completed. *)
(* Cordis ends a turn normally only with every tool result of it in hand.  *)
TurnCompletes ==
  /\ phase = "agent"
  /\ awaited = {}
  /\ stop_reason' = "completed"
  /\ bridge_audit' = audit
  /\ phase' = "returned"
  /\ UNCHANGED <<sessionVars, bridgeVars, score_eligible, seed_score, result,
                 row>>

(* Variant for mutation: the server joins its handlers on the way out. *)
CordisTimeout_JoinsHandlers ==
  /\ phase = "agent"
  /\ \A c \in Calls : call[c] \in {"unsent", "settled"}
  /\ stop_reason' = "harness_error"
  /\ bridge_audit' = audit
  /\ awaited' = {}
  /\ phase' = "returned"
  /\ UNCHANGED <<sessionVars, call, dispatch_lock, audit,
                 score_eligible, seed_score, result, row>>

(* A timeout kills the process; a crash, an interrupted turn or a missing  *)
(* log end the same way.  The server stops accepting, and its daemon       *)
(* handler threads are not joined: calls in flight go on.                  *)
CordisTimeout ==
  /\ phase = "agent"
  /\ stop_reason' = "harness_error"
  /\ bridge_audit' = audit
  /\ awaited' = {}
  /\ phase' = "returned"
  /\ UNCHANGED <<sessionVars, call, dispatch_lock, audit,
                 score_eligible, seed_score, result, row>>

-----------------------------------------------------------------------------
(* run_task after Cordis, then run_baseline. *)

(* Variant for mutation: only participation is judged. *)
IsScoreEligible_IgnoresReason(reason, issues) == reason # "none" /\ ~issues

IsScoreEligible(reason, issues) == reason # "harness_error" /\ ~issues

Judge(issues) ==
  /\ phase = "returned"
  /\ score_eligible' = IsScoreEligible(stop_reason, issues)
  /\ stop_reason' = IF issues /\ stop_reason = "completed"
                      THEN "component_participation_failed" ELSE stop_reason
  /\ phase' = "judged"
  /\ UNCHANGED <<sessionVars, bridgeVars, bridge_audit, seed_score, result,
                 row>>

(* InnerResult reads best_score, then best_program, without the lock.      *)
ReadScore ==
  /\ phase = "judged"
  /\ result' = [result EXCEPT !.score =
                  IF best_score # NegInf THEN best_score ELSE seed_score]
  /\ phase' = "scored"
  /\ UNCHANGED <<sessionVars, bridgeVars, stop_reason, bridge_audit,
                 score_eligible, seed_score, row>>

ReadProgram ==
  /\ phase = "scored"
  /\ result' = [result EXCEPT !.program =
                  IF best_program # NoProgram THEN best_program
                  ELSE InitialProgram]
  /\ phase' = "read"
  /\ UNCHANGED <<sessionVars, bridgeVars, stop_reason, bridge_audit,
                 score_eligible, seed_score, row>>

(* _agent_run: a changed package or a missing trajectory withdraws the     *)
(* score; main then writes the row.                                        *)
AuditRollout(mutated, trajectory_ok) ==
  /\ phase = "read"
  /\ score_eligible' = (score_eligible /\ ~mutated /\ trajectory_ok)
  /\ stop_reason' =
       LET r == IF mutated THEN "h2_package_mutated" ELSE stop_reason
       IN  IF ~trajectory_ok /\ r = "completed" THEN "trajectory_missing" ELSE r
  /\ row' = Row(score_eligible', IF score_eligible' THEN result ELSE NoCheckpoint)
  /\ phase' = "published"
  /\ UNCHANGED <<sessionVars, bridgeVars, bridge_audit, seed_score, result>>

(* The whole worker is killed from outside (a wall limit): its threads and *)
(* memory go, the files stay.                                              *)
WorkerKilled ==
  /\ phase \notin {"published", "killed"}
  /\ phase' = "killed"
  /\ UNCHANGED <<sessionVars, bridgeVars, stop_reason, bridge_audit,
                 score_eligible, seed_score, result, row>>

-----------------------------------------------------------------------------
Handler(c) ==
  \/ \E p \in Programs : Edit(c, p)
  \/ Probe(c)
  \/ Finish(c)
  \/ RefuseEvaluation(c)
  \/ StartEvaluation(c)
  \/ \E out \in Outcome : Score(c, out)
  \/ EvaluationRaises(c)
  \/ Adopt(c)
  \/ SaveBest(c)
  \/ Audit(c)

Main ==
  \/ \E out \in Outcome : Seed(out)
  \/ SeedRaises
  \/ CordisTimeout
  \/ \E issues \in BOOLEAN : Judge(issues)
  \/ ReadScore
  \/ ReadProgram
  \/ \E mutated, trajectory_ok \in BOOLEAN : AuditRollout(mutated, trajectory_ok)

Agent ==
  \/ \E c \in Calls : Send(c)
  \/ \E c \in Calls : Reply(c)
  \/ TurnCompletes

Next ==
  \/ Agent
  \/ \E c \in Calls : Handler(c)
  \/ Main
  \/ WorkerKilled

(* subprocess.run has a timeout and the main thread never waits for a      *)
(* handler; nothing obliges the agent to call or a handler to be scheduled *)
(* before the process is killed.                                           *)
Fairness == WF_vars(Main)

Spec == Init /\ [][Next]_vars
FairSpec == Spec /\ Fairness

-----------------------------------------------------------------------------
TypeOK ==
  /\ SessionTypeOK
  /\ call \in [Calls -> CallStates]
  /\ dispatch_lock \in Calls \cup {None}
  /\ audit \in SUBSET Calls
  /\ awaited \in SUBSET Calls
  /\ phase \in Phases
  /\ stop_reason \in StopReasons
  /\ bridge_audit \in SUBSET Calls
  /\ score_eligible \in BOOLEAN
  /\ seed_score \in Scores \cup {NegInf}
  /\ result \in PartialPairSet
  /\ row \in [eligible : BOOLEAN, best : PartialPairSet, written : BOOLEAN]

(***************************************************************************)
(* Properties.                                                             *)
(***************************************************************************)

NoBetter(score) == \A pr \in validated : pr.score <= score

BestPair == Pair(best_program, best_score)
NothingFound == best_score = NegInf /\ best_program = NoProgram

(* No writer is between the score and the program of a new best. *)
Settled == \A c \in Calls : call[c] # "adopting"

(* The best pair is the highest score the evaluator found valid with the   *)
(* program that earned it, whatever calls interleave and whatever invalid  *)
(* scores came in between (InnerSession.evaluate).                         *)
BestIsHighestValid ==
  /\ best_score = NegInf => validated = {}
  /\ NoBetter(best_score)
  /\ Settled => NothingFound \/ BestPair \in validated

(* At any moment the worker may be killed, and what the checkpoint file    *)
(* then holds is a program with a score it really earned                   *)
(* (_write_checkpoint: "so a wall-kill never loses it").                   *)
CheckpointWasEarned == checkpoint \in validated \cup {NoCheckpoint}

(* A published score belongs to the published program, and no better valid *)
(* pair was seen: the unlocked reads of run_task never tear a row that     *)
(* counts, although handler threads outlive the run.  With no valid        *)
(* outcome at all the row is the seed program and its score.               *)
EligibleRowIsCoherent ==
  row.eligible =>
    \/ row.best \in validated /\ NoBetter(row.best.score)
    \/ validated = {} /\ row.best = Pair(InitialProgram, seed_score)

(* A published score is one the evaluator accepted (InnerSession.evaluate: *)
(* "an INVALID outcome can never become best, no matter how high").  The   *)
(* code breaks it: with nothing valid it publishes the seed's own score.   *)
EligibleScoreIsValid == row.eligible => row.best \in validated

(* Parallel and late calls never buy an evaluation beyond the ledger.      *)
BudgetHolds ==
  evaluator_calls <= MaxEvaluatorCalls /\ probe_calls <= MaxProbeCalls

(* The audit run_cordis snapshots before it closes the bridge holds every  *)
(* call of a completed turn: nothing Cordis saw an answer to is missing.   *)
AuditCoversTurn ==
  stop_reason \in {"completed", "component_participation_failed"} =>
    bridge_audit = {c \in Calls : call[c] # "unsent"}

(* The rollout implements the promise of BestSoFar.  The commit point of a *)
(* new best is the write of the score: the program under evaluation cannot *)
(* change while the dispatch lock is held.                                 *)
CommittedBest ==
  IF Settled THEN BestPair ELSE Pair(current_program, best_score)

AbstractReport ==
  CASE ~row.written -> [kind |-> "open"]
    [] row.written /\ ~row.eligible -> [kind |-> "withheld"]
    [] row.written /\ row.eligible /\ best_score = NegInf -> [kind |-> "unchanged"]
    [] row.written /\ row.eligible /\ best_score # NegInf ->
         [kind |-> "found", pair |-> row.best]

Promise == INSTANCE BestSoFar WITH
  Pairs <- PairSet, NoPair <- NoCheckpoint, MaxCharges <- MaxEvaluatorCalls,
  best <- CommittedBest, saved <- checkpoint, charged <- evaluator_calls,
  report <- AbstractReport

ImplementsBestSoFar == Promise!Spec

(* A rollout ends: a handler that never finishes, even one that holds the  *)
(* dispatch lock, cannot keep run_task from publishing.                    *)
RolloutEnds == <>(phase \in {"published", "killed"})
=============================================================================
