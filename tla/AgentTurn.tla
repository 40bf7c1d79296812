------------------------------- MODULE AgentTurn -------------------------------
(***************************************************************************)
(* One H2 turn: Cordis drives the agent loop, sah-bridge.mjs observes it   *)
(* and adds its notes, Python keeps the audit and the hook tracker, and at *)
(* the end the session log, the audit and the exit status become a row.    *)
(*                                                                         *)
(* Cordis itself is external.  It may end the turn when a hook throws or   *)
(* go on without it; a bridge call that fails does so before Python saw it.*)
(* A score is the number of times it improved.                             *)
(***************************************************************************)
EXTENDS Missing, Totals, FiniteSets, FiniteSetsExt, SequencesExt, Functions

CONSTANTS
  Tools, Middlewares, Skills, \* generated components the candidate mounts
  MaxIterations, MaxEvaluatorCalls, MaxRetries,
  ReminderFrom, StallAfter, MaxRestarts, \* the policy of the bridge plugin
  MaxParallel, MaxCalls,  \* bounds on the calls of one assistant step, of the turn
  MaxLosses,              \* a bound on lost bridge calls and log rows
  Changed,                \* skills the candidate's lineage adds or updates, or None
  Endpoint, BridgeConfig, \* the sampling of the campaign, of the candidate
  Payloads, PluginDirs    \* what Cordis may ask the model, what plugins/ may hold

ASSUME AgentTurnAssumption ==
  /\ MaxIterations \in Nat \ {0} /\ MaxEvaluatorCalls \in Nat /\ MaxRetries \in Nat
  /\ ReminderFrom \in Nat /\ StallAfter \in Nat \ {0} /\ MaxRestarts \in Nat
  /\ MaxParallel \in Nat \ {0} /\ MaxCalls \in Nat \ {0} /\ MaxLosses \in Nat

VARIABLES
  session,  \* InnerSession: evaluations, best, the component audits
  tracker,  \* GeneratedHookTracker
  plugin,   \* restarts and lastRestartAt of the plugin, and its last notes
  turn,     \* Cordis: step, where it is, the calls of the step
  prompt,   \* the first message
  proxy,    \* ModelProxy: answers its threads passed on but have yet to record
            \* (held), those recorded, bodies sent, failed tries of this request
  log,      \* rows of the top-level session.jsonl
  process,  \* the status of the Cordis process
  row,      \* what run_task returns, or None
  losses,   \* losses left
  evaluated, emitted \* history: gains of the evaluations, events of the turn

turnVars == <<session, tracker, plugin, turn, prompt, proxy, log, process, row, losses, evaluated, emitted>>

Calls == 1 .. MaxParallel
CallKinds == Tools \cup {"evaluate", "finish"}

-------------------------------------------------------------------------------
(* The session log.  A row stands for width events, the chunks of a        *)
(* message being packed into one.                                          *)

Width(rows) == Total([i \in DOMAIN rows |-> rows[i].width])
Events == 1 + Width(emitted) \* the next seq, from 1

Emit(kind, value, width, kept) ==
  LET e == [seq |-> Events, width |-> width, kind |-> kind, value |-> value]
  IN /\ emitted' = Append(emitted, e)
     /\ log' = IF kept THEN Append(log, e) ELSE log

(* Variant for mutation: rows are taken as they come.                      *)
Readable_AnyOrder(rows) == TRUE

(* load_session_log refuses a log with a gap.                              *)
Readable(rows) ==
  \A i \in DOMAIN rows :
    rows[i].seq = 1 + Width(SubSeq(rows, 1, i - 1))

(* The tool blocks of the messages a log is projected to.                  *)
Blocks(e) ==
  CASE e.kind = "message" -> [c \in DOMAIN e.value |-> [type |-> "tool_use", name |-> e.value[c]]]
    [] e.kind = "result" -> <<[type |-> "tool_result", name |-> e.value[1], ok |-> e.value[2]]>>
    [] OTHER -> <<>>

Messages(rows) == [i \in DOMAIN rows |-> Blocks(rows[i])]

ModelCalls(rows) == Count([i \in DOMAIN rows |-> rows[i].kind = "message"])

CompletedTurn(rows) == \E i \in DOMAIN rows : rows[i].kind = "end" /\ rows[i].value = "completed"

(* A delegated session lies in the same tree; only the newest readable one *)
(* of depth zero is the rollout's.                                         *)
FindTopLevel(files) ==
  LET top == {f \in files : f.depth = 0 /\ ~f.torn /\ Readable(f.rows)}
  IN IF top = {} THEN None ELSE CHOOSE f \in top : \A g \in top : g.created <= f.created

-------------------------------------------------------------------------------
(* The tracker and the notes.                                              *)

(* Variant for mutation: a gain does not end the stall.                    *)
UpdateStall_KeepsCounting(t, s) ==
  [seen |-> s.evals, last |-> s.best,
   stalled |-> IF t.last = None THEN 0 ELSE t.stalled + s.evals - t.seen]

UpdateStall(t, s) ==
  [seen |-> s.evals, last |-> s.best,
   stalled |-> IF s.evals = t.seen THEN t.stalled
               ELSE IF t.last # None /\ s.best <= t.last THEN t.stalled + s.evals - t.seen
               ELSE 0]

Left(s) == MaxEvaluatorCalls - s.evals

Notes(p, t, s) ==
  LET restart == t.stalled >= StallAfter /\ p.restarts < MaxRestarts /\ t.stalled # p.lastRestartAt
  IN [restarts |-> p.restarts + (IF restart THEN 1 ELSE 0),
      lastRestartAt |-> IF restart THEN t.stalled ELSE p.lastRestartAt,
      notes |-> [stall |-> IF restart THEN t.stalled ELSE None,
                 left |-> IF Left(s) <= ReminderFrom THEN Left(s) ELSE None,
                 at |-> Len(evaluated)]]

-------------------------------------------------------------------------------
(* What the executor is told before its first step, and how it is sampled. *)

(* Without a usable lineage every mounted skill is taken for the candidate's. *)
Required == IF Changed = None THEN Skills ELSE Changed \cap Skills

Contract ==
  [budget |-> MaxEvaluatorCalls, callable |-> CallKinds, automatic |-> Middlewares,
   enacted |-> [s \in Skills |-> IF s \in Required THEN "current" ELSE "inherited"]]

InitialMessage(seedScore) == [baseline |-> seedScore, left |-> MaxEvaluatorCalls, contract |-> Contract]

BridgeOr(key) == IF key \in DOMAIN BridgeConfig THEN BridgeConfig[key] ELSE Endpoint[key]

(* The candidate's bridge row wins over the campaign, but for the seed and *)
(* the thinking switch; top_k is never left to the server.                 *)
Sampling ==
  [temperature |-> BridgeOr("temperature"), topP |-> BridgeOr("topP"),
   topK |-> IF BridgeOr("topK") = None THEN 20 ELSE BridgeOr("topK"),
   seed |-> Endpoint.seed, thinking |-> Endpoint.thinking]

NewProxy == [tries |-> 0, held |-> 0, audit |-> 0, sent |-> {}]

(* rewrite: what is configured replaces what Cordis asked for.             *)
Rewrite(payload) ==
  [key \in DOMAIN payload \cup {k \in DOMAIN Sampling : Sampling[k] # None} |->
     IF key \in DOMAIN Sampling /\ Sampling[key] # None THEN Sampling[key] ELSE payload[key]]

(* _stage_candidate_plugins: plain modules only, none named as the bridge. *)
Stageable(files) == \A f \in files : f.plain /\ f.name # "sah-bridge"

-------------------------------------------------------------------------------
TurnInit ==
  /\ session = [evals |-> 0, best |-> 0,
                tools |-> [t \in Tools |-> [invoked |-> 0, completed |-> 0, error |-> 0]],
                middlewares |-> [m \in Middlewares |-> [invoked |-> 0, error |-> 0]]]
  /\ tracker = [seen |-> 0, last |-> None, stalled |-> 0]
  /\ plugin = [restarts |-> 0, lastRestartAt |-> None,
               notes |-> [stall |-> None, left |-> None, at |-> 0]]
  /\ turn = [step |-> 0, at |-> "pre", calls |-> <<>>]
  /\ prompt = InitialMessage(session.best)
  /\ proxy = NewProxy
  /\ log = <<>> /\ process = "new" /\ row = None /\ losses = MaxLosses
  /\ evaluated = <<>> /\ emitted = <<>>

TurnAt(where) == process = "running" /\ turn.at = where

RunCordis ==
  /\ process = "new" /\ \E files \in PluginDirs : Stageable(files)
  /\ process' = "running"
  /\ UNCHANGED <<session, tracker, plugin, turn, proxy, log, row, losses, evaluated, emitted>>

Lose == losses > 0 /\ losses' = losses - 1

EndTurn(reason) == \* turn/end is the last row; Cordis then exits
  /\ Emit("end", reason, 1, TRUE)
  /\ turn' = [turn EXCEPT !.at = "ended"]

(* agent/pre-step, up to next(): the step limit, then the trusted record   *)
(* that each generated middleware was reached.                             *)
Reject ==
  /\ TurnAt("pre") /\ turn.step >= MaxIterations
  /\ \E reason \in {"completed", "rejected"} : EndTurn(reason)
  /\ UNCHANGED <<session, tracker, plugin, proxy, process, row, losses, evaluated>>

InvokeMiddlewares ==
  /\ TurnAt("pre") /\ turn.step < MaxIterations
  /\ turn' = [turn EXCEPT !.step = @ + 1, !.at = "next"]
  /\ session' = [session EXCEPT !.middlewares =
       [m \in Middlewares |-> [session.middlewares[m] EXCEPT !.invoked = @ + 1]]]
  /\ UNCHANGED <<tracker, plugin, proxy, log, process, row, losses, evaluated, emitted>>

HookThrows == \* a record is lost, and with it next(): none of the later hooks run
  /\ TurnAt("pre") /\ turn.step < MaxIterations /\ Lose
  /\ \E reached \in SUBSET Middlewares \ {Middlewares} :
       session' = [session EXCEPT !.middlewares =
         [m \in Middlewares |-> [session.middlewares[m] EXCEPT !.invoked =
                                  IF m \in reached THEN @ + 1 ELSE @]]]
  /\ \/ EndTurn("error")
     \/ /\ turn' = [turn EXCEPT !.step = @ + 1, !.at = "model"]
        /\ UNCHANGED <<log, emitted>>
  /\ UNCHANGED <<tracker, plugin, proxy, process, row, evaluated>>

(* The candidate's own hooks: each may read the snapshot, report an error, *)
(* or reject the step.                                                     *)
MiddlewareLooks ==
  /\ TurnAt("next") /\ Middlewares # {} /\ tracker # UpdateStall(tracker, session)
  /\ tracker' = UpdateStall(tracker, session)
  /\ UNCHANGED <<session, plugin, turn, proxy, log, process, row, losses, evaluated, emitted>>

MiddlewareFails(m) ==
  /\ TurnAt("next") /\ session.middlewares[m].error = 0
  /\ session' = [session EXCEPT !.middlewares[m].error = @ + 1]
  /\ UNCHANGED <<tracker, plugin, turn, proxy, log, process, row, losses, evaluated, emitted>>

MiddlewareRejects ==
  /\ TurnAt("next") /\ Middlewares # {}
  /\ \E reason \in {"completed", "rejected"} : EndTurn(reason)
  /\ UNCHANGED <<session, tracker, plugin, proxy, process, row, losses, evaluated>>

(* After next(): the snapshot and what it makes the plugin say.            *)
Remind ==
  LET t == UpdateStall(tracker, session)
  IN /\ TurnAt("next")
     /\ tracker' = t /\ plugin' = Notes(plugin, t, session)
     /\ turn' = [turn EXCEPT !.at = "model"]
     /\ UNCHANGED <<session, proxy, log, process, row, losses, evaluated, emitted>>

SnapshotFails ==
  /\ TurnAt("next") /\ Lose
  /\ turn' = [turn EXCEPT !.at = "model"]
  /\ UNCHANGED <<session, tracker, plugin, proxy, log, process, row, evaluated, emitted>>

-------------------------------------------------------------------------------
(* The model behind the proxy, which stamps the request with the sampling  *)
(* of the rollout and streams the answer; the thread that passed it on     *)
(* records it when it gets to it, maybe after Cordis and the rollout are   *)
(* over.  A failed request, also of an answer that was passed on but is of *)
(* no use to Cordis, is sent again, the turn is not replayed.              *)

Forward(payload, passed, usable) ==
  proxy' = [proxy EXCEPT !.tries = IF usable THEN 0 ELSE @ + 1,
                         !.held = IF passed THEN @ + 1 ELSE @,
                         !.sent = @ \cup {Rewrite(payload)}]

RecordRequest == \* the finally of _forward
  /\ proxy.held > 0
  /\ proxy' = [proxy EXCEPT !.held = @ - 1, !.audit = @ + 1]
  /\ UNCHANGED <<session, tracker, plugin, turn, log, process, row, losses, evaluated, emitted>>

Made == Total([i \in DOMAIN emitted |->
                 IF emitted[i].kind = "message" THEN Len(emitted[i].value) ELSE 0])

(* The calls of one message run in parallel: one of its orders stands for  *)
(* the others.                                                             *)
Requests(n) ==
  LET order == SetToSeq(CallKinds)
      Rank(k) == CHOOSE i \in DOMAIN order : order[i] = k
  IN {calls \in [1 .. n -> CallKinds] :
        \A a, b \in 1 .. n : a < b => Rank(calls[a]) <= Rank(calls[b])}

Answer == \* the chunks, then the message with its calls
  /\ TurnAt("model") /\ \E payload \in Payloads : Forward(payload, TRUE, TRUE)
  /\ \E n \in {m \in 0 .. MaxParallel : Made + m <= MaxCalls} : \E calls \in Requests(n) :
       /\ Emit("message", calls, 3, TRUE)
       /\ IF n = 0
          THEN turn' = [turn EXCEPT !.at = "done"]
          ELSE turn' = [turn EXCEPT !.at = "tools", !.calls =
                 [c \in 1 .. n |-> [kind |-> calls[c], at |-> IF calls[c] = "finish" THEN "log" ELSE "pre", ok |-> TRUE]]]
  /\ UNCHANGED <<session, tracker, plugin, process, row, losses, evaluated>>

AnswerFails ==
  /\ TurnAt("model") /\ proxy.tries <= MaxRetries /\ Lose
  /\ \E payload \in Payloads, passed \in BOOLEAN : Forward(payload, passed, FALSE)
  /\ IF proxy.tries = MaxRetries THEN EndTurn("error") ELSE UNCHANGED <<turn, log, emitted>>
  /\ UNCHANGED <<session, tracker, plugin, process, row, evaluated>>

-------------------------------------------------------------------------------
(* The calls of a step, each with its hooks, interleaved.                  *)

Call(c) == turn.calls[c]
InTools(c) == TurnAt("tools") /\ c \in DOMAIN turn.calls
Step(c, where) == turn' = [turn EXCEPT !.calls[c].at = where]
Ends(c, where, ok) == turn' = [turn EXCEPT !.calls[c].at = where, !.calls[c].ok = ok]

Evaluate(c) == \* refused without an outcome when the budget is spent
  /\ InTools(c) /\ Call(c).kind = "evaluate" /\ Call(c).at = "pre"
  /\ IF Left(session) = 0 THEN UNCHANGED <<session, evaluated>>
     ELSE \E gain \in BOOLEAN :
            /\ session' = [session EXCEPT !.evals = @ + 1, !.best = IF gain THEN @ + 1 ELSE @]
            /\ evaluated' = Append(evaluated, gain)
  /\ Ends(c, "log", TRUE)
  /\ UNCHANGED <<tracker, plugin, proxy, log, process, row, losses, emitted>>

RecordToolEvent(t, event) == session' = [session EXCEPT !.tools[t][event] = @ + 1]

PreExecute(c) ==
  /\ InTools(c) /\ Call(c).kind \in Tools /\ Call(c).at = "pre"
  /\ RecordToolEvent(Call(c).kind, "invoked") /\ Step(c, "post")
  /\ UNCHANGED <<tracker, plugin, proxy, log, process, row, losses, evaluated, emitted>>

PreExecuteFails(c) == \* the tool does not run, its result is an error
  /\ InTools(c) /\ Call(c).kind \in Tools /\ Call(c).at = "pre" /\ Lose
  /\ \E where \in {"post", "log"} : Ends(c, where, FALSE)
  /\ UNCHANGED <<session, tracker, plugin, proxy, log, process, row, evaluated, emitted>>

PostExecute(c) == \* the tool ran, or failed before it could
  /\ InTools(c) /\ Call(c).at = "post"
  /\ \E ok \in {Call(c).ok, FALSE} :
       /\ RecordToolEvent(Call(c).kind, IF ok THEN "completed" ELSE "error")
       /\ Ends(c, "log", ok)
  /\ UNCHANGED <<tracker, plugin, proxy, log, process, row, losses, evaluated, emitted>>

PostExecuteFails(c) ==
  /\ InTools(c) /\ Call(c).at = "post" /\ Lose
  /\ \E ok \in {Call(c).ok, FALSE} : Ends(c, "log", ok)
  /\ UNCHANGED <<session, tracker, plugin, proxy, log, process, row, evaluated, emitted>>

(* The result reaches the log, unless its row is lost.                     *)
LogResult(c) ==
  /\ InTools(c) /\ Call(c).at = "log"
  /\ Step(c, "over")
  /\ \/ Emit("result", <<Call(c).kind, Call(c).ok>>, 1, TRUE) /\ UNCHANGED losses
     \/ Emit("result", <<Call(c).kind, Call(c).ok>>, 1, FALSE) /\ Lose
  /\ UNCHANGED <<session, tracker, plugin, proxy, process, row, evaluated>>

StepEnds ==
  /\ TurnAt("tools") /\ \A c \in DOMAIN turn.calls : Call(c).at = "over"
  /\ turn' = [turn EXCEPT !.calls = <<>>,
                !.at = IF \E c \in DOMAIN turn.calls : Call(c).kind = "finish" THEN "done" ELSE "pre"]
  /\ UNCHANGED <<session, tracker, plugin, proxy, log, process, row, losses, evaluated, emitted>>

Conclude ==
  /\ TurnAt("done") /\ EndTurn("completed")
  /\ UNCHANGED <<session, tracker, plugin, proxy, process, row, losses, evaluated>>

-------------------------------------------------------------------------------
(* run_cordis and run_task, once the process is gone.                      *)

Occurrences(messages, block) ==
  Total([i \in DOMAIN messages |->
           Cardinality({c \in DOMAIN messages[i] : messages[i][c] = block})])

Uses(messages, t) == Occurrences(messages, [type |-> "tool_use", name |-> t])
Results(messages, t, ok) ==
  Occurrences(messages, [type |-> "tool_result", name |-> t, ok |-> ok])

Observed(messages) ==
  [t \in Tools |-> [invoked |-> Uses(messages, t), completed |-> Results(messages, t, TRUE),
                    error |-> Results(messages, t, FALSE)]]

(* Variant for mutation: what the log has is added to what was recorded.   *)
Reconciled_Adds(messages) ==
  [t \in Tools |-> [e \in DOMAIN session.tools[t] |-> session.tools[t][e] + Observed(messages)[t][e]]]

(* _record_cordis_tool_calls adds the counts the bridge missed.            *)
Reconciled(messages) ==
  [t \in Tools |-> [e \in DOMAIN session.tools[t] |->
                      Max({session.tools[t][e], Observed(messages)[t][e]})]]

MiddlewareIssues ==
  {m \in Middlewares : session.middlewares[m].invoked = 0 \/ session.middlewares[m].error > 0}

(* The skills are in the prompt: they count as loaded if Cordis exits well. *)
SkillIssues(status) == IF status = "zero" THEN {} ELSE Skills

(* InnerResult and what goes with it: rows are what could be read of the   *)
(* log, requests those of the proxy's audit when its copy was taken.       *)
Result(status, rows) ==
  LET completed == status = "zero" /\ CompletedTurn(rows)
      issues == MiddlewareIssues \cup SkillIssues(status)
  IN [stop |-> IF ~completed THEN "harness_error"
               ELSE IF issues = {} THEN "completed"
               ELSE IF SkillIssues(status) # {} THEN "component_participation_failed"
               ELSE "middleware_participation_failed",
      eligible |-> completed /\ issues = {},
      best |-> session.best, decodeSeed |-> Endpoint.seed,
      tools |-> Reconciled(Messages(rows)), middlewares |-> session.middlewares,
      skills |-> [s \in Skills |-> [loaded |-> status = "zero", required |-> s \in Required]],
      llmCalls |-> ModelCalls(rows), requests |-> proxy.audit]

(* The process exited, crashed or was killed after the wall limit.  A      *)
(* killed process may leave its last row torn, and a delegated agent its   *)
(* own session beside that of the rollout.                                 *)
Judge(status) ==
  /\ row = None /\ process' = status
  /\ \/ process = "running" /\ (status = "zero" => turn.at = "ended")
     \/ process = "new" /\ status = "nonzero" /\ \E files \in PluginDirs : ~Stageable(files)
  /\ \E torn \in {status # "zero", FALSE} :
       LET end == [seq |-> 1, width |-> 1, kind |-> "end", value |-> "completed"]
           files == {[depth |-> 0, created |-> 1, torn |-> torn, rows |-> log],
                     [depth |-> 1, created |-> 2, torn |-> FALSE, rows |-> <<end>>]}
           top == FindTopLevel(files)
       IN row' = Result(status, IF top = None THEN <<>> ELSE top.rows)
  /\ UNCHANGED <<session, tracker, plugin, turn, proxy, log, losses, evaluated, emitted>>

Bridge == RunCordis \/ Reject \/ InvokeMiddlewares \/ HookThrows \/ Remind \/ SnapshotFails

Candidate == MiddlewareLooks \/ MiddlewareRejects \/ \E m \in Middlewares : MiddlewareFails(m)

Model == Answer \/ AnswerFails \/ RecordRequest

Dispatch ==
  \/ \E c \in Calls : \/ Evaluate(c) \/ PreExecute(c) \/ PreExecuteFails(c)
                      \/ PostExecute(c) \/ PostExecuteFails(c) \/ LogResult(c)
  \/ StepEnds \/ Conclude

TurnNext == Bridge \/ Candidate \/ Model \/ Dispatch \/ \E status \in {"zero", "nonzero"} : Judge(status)

TurnSpec == TurnInit /\ [][TurnNext /\ UNCHANGED prompt]_turnVars

-------------------------------------------------------------------------------
(* Properties.                                                             *)

SessionState ==
  [evals : 0 .. MaxEvaluatorCalls, best : Nat,
   tools : [Tools -> [invoked : Nat, completed : Nat, error : Nat]],
   middlewares : [Middlewares -> [invoked : Nat, error : Nat]]]
NotesState == [stall : Nat \cup {None}, left : Nat \cup {None}, at : Nat]
PluginState ==
  [restarts : 0 .. MaxRestarts, lastRestartAt : Nat \cup {None}, notes : NotesState]
TrackerState == [seen : Nat, last : Nat \cup {None}, stalled : Nat]
CallState == [kind : CallKinds, at : {"pre", "post", "log", "over"}, ok : BOOLEAN]
TurnState ==
  [step : 0 .. MaxIterations, at : {"pre", "next", "model", "tools", "done", "ended"},
   calls : Seq(CallState)]
ProxyState ==
  [tries : 0 .. MaxRetries + 1, held : Nat, audit : Nat,
   sent : SUBSET {Rewrite(payload) : payload \in Payloads}]
Entry == \* a row of the log
  [seq : Nat, width : Nat \ {0}, kind : {"message"}, value : Seq(CallKinds)]
    \cup [seq : Nat, width : Nat \ {0}, kind : {"result"}, value : CallKinds \X BOOLEAN]
    \cup [seq : Nat, width : Nat \ {0}, kind : {"end"},
          value : {"completed", "rejected", "error"}]

TurnTypeOK ==
  /\ session \in SessionState /\ plugin \in PluginState /\ turn \in TurnState
  /\ tracker \in TrackerState /\ tracker.stalled <= tracker.seen
  /\ tracker.seen <= session.evals /\ (tracker.last # None => tracker.last <= session.best)
  /\ proxy \in ProxyState
  /\ log \in Seq(Entry) /\ emitted \in Seq(Entry) /\ evaluated \in Seq(BOOLEAN)
  /\ process \in {"new", "running", "zero", "nonzero"} /\ losses \in 0 .. MaxLosses

(* What the notes tell the executor is so: that many evaluations remain,   *)
(* and that many were made in a row without a gain, however many of them   *)
(* one step ran and whoever else read the snapshot in between.             *)
NotesAreTrue ==
  LET n == plugin.notes IN
    /\ n.left # None => n.left = MaxEvaluatorCalls - n.at
    /\ n.stall # None => /\ n.stall <= n.at
                         /\ \A i \in n.at - n.stall + 1 .. n.at : ~evaluated[i]

(* "Only missing counts are added": in a row that counts, the audit of a   *)
(* generated tool has each call of the model once and its one outcome,     *)
(* although both the bridge and the log counted it and either may have     *)
(* missed some.                                                            *)
AuditIsExact ==
  row # None /\ row.eligible => \A t \in Tools :
    /\ row.tools[t].invoked = Uses(Messages(emitted), t)
    /\ row.tools[t].completed + row.tools[t].error = Uses(Messages(emitted), t)

(* A row counts only for a turn that concluded, with a log that lost       *)
(* nothing, whose every model call the proxy answered, though not always   *)
(* on record yet, under the seed the row names, if any.  All middlewares   *)
(* the first message promises preceded each call, but for records that     *)
(* were lost, and reported no error; every skill it calls enacted was      *)
(* loaded.  Its score is what the turn itself improved.                    *)
EligibleIsWhole ==
  row # None /\ row.eligible =>
    /\ process = "zero" /\ log = emitted /\ Last(log).kind = "end"
    /\ row.llmCalls <= proxy.audit + proxy.held
    /\ row.decodeSeed # None => \A body \in proxy.sent : body.seed = row.decodeSeed
    /\ row.best = prompt.baseline + Count(evaluated)
    /\ \A s \in DOMAIN prompt.contract.enacted : row.skills[s].loaded
    /\ \A m \in prompt.contract.automatic :
         /\ row.llmCalls <= row.middlewares[m].invoked + (MaxLosses - losses)
         /\ row.middlewares[m].invoked <= row.llmCalls + 1
         /\ row.middlewares[m].error = 0

(* Not so, and in no run: the audit of requests that is kept with a row    *)
(* that counts names every model call of it.  Its copy is taken while the  *)
(* threads of the proxy still run, and eligibility does not look at it.    *)
AuditNamesEveryCall == row # None /\ row.eligible => row.requests >= row.llmCalls
=============================================================================
