# Self-Adapt-Harness in TLA+

The repository runs a two-level search. An **inner** agent improves the program
of a task through a few tools. An **outer** agent, the *proposer* (phi), rewrites
the harness of the inner one (prompt, parameters, tools, middlewares). Each round
proposes several harnesses, rolls each out, scores them, inherits the best and
may train the proposer on the round's advantages.

Paths below are relative to the repository root; "plugin" without a path is
`cordis/plugins/sah-bridge.mjs`. The specifications model the code. Where a
comment or a document says otherwise, *Findings* says so.

## Components

| component | code | state it keeps | operations | what makes it correct |
|---|---|---|---|---|
| inner session and its tools | `src/inner/runtime/session.py`, `src/inner/harness/tools/discovery.py` | staged program, best pair, checkpoint file, budgets, history | edit, probe, evaluate, finish, seed | the best pair is earned and the highest; budgets hold under parallel calls |
| program editing | `src/inner/editing/program_edit.py` | none | split, assemble, rewrite, diff | fixed code survives every rewrite |
| evaluator subprocess | `src/inner/evaluation/` | one child process | evaluate, repeat, guard | an outcome that breaks a rule never counts |
| task registry | `src/inner/tasks/` | none | load, select | only scorable tasks run |
| loopback bridge | `src/cordis_runtime/bridge.py` | dispatch lock, audit, handler threads | dispatch, start, close | calls exclude one another; the audit is complete when the turn completed |
| Cordis process runner | `src/cordis_runtime/runner.py` | one child process | stage plugins, run with a timeout, decode the session log | a turn that did not complete never counts |
| model proxy | `src/cordis_runtime/` | audit of requests | rewrite sampling, forward, answer | every model call of a row ran under the row's seed |
| plugin, middlewares, hook tracker | plugin, `src/inner/harness/middleware/generated_context.py` | step, restarts, what was last seen of the session | hooks, notes, step limit, stall restart | notes to the agent are true |
| inner rollout runner, row writer | `src/inner/runtime/harness_runner.py`, `src/inner/cli/run_baseline.py` | result, eligibility, published row, summary | seed, run, judge, read, audit, publish | a row that counts is coherent |
| runtime source record | `scripts/runtime/provenance.py` | immutable copy and manifest | snapshot, verify | what runs is what was recorded |
| proposer session | `src/outer/workspace/propose_session.py`, `h2_workspace.py` | files of the draft, revision, validated object, refusals | read, edit, validate, submit | only validated work of the right kind is submitted |
| proposal slot | `src/outer/proposing/propose.py` | phi's session, the repair's, the record | turn, repair, auto-finalize, record | credit goes to the author |
| harness genome and materializer | `src/outer/genome/harness_spec.py`, `src/outer/compiling/materialize.py` | a Cordis package | read, diff, merge, cap, write | encoding loses and invents nothing |
| outer round propose | `src/outer/rounds/outer_round.py`, `src/outer/proposing/proposer_io.py` | drafts, packages, gate archives, `round.json` | deal roles, propose, dedup, materialize, gate | what is recorded is what runs |
| trajectory budget and slot plan | `src/outer/reward/trajectory_budget.py` | `h2_slot_plan.json` | plan | every slot is paid for once |
| round worker | `scripts/_outer_round_worker.sh` | rollout pool | propose, roll out, controls, collect | a round with failed rollouts is not collected |
| round collect | `src/outer/rounds/outer_round.py` | files of the round | score, ratchet, publish | the commit record is last |
| rewards | `src/outer/reward/rewards.py` | none | group rewards and advantages | who shows more is never taught less |
| program ratchet | `src/outer/reward/program_ratchet.py` | `best_programs.json` | bind, promote, elites | the incumbent only improves |
| component ratchet | `src/outer/rounds/component_ratchet.py` | grafted base, ledger | graft components and parameters of slots that did not win | caps, earned changes, a truthful ledger |
| proposer context and analysis | `proposer_io.py`, `src/outer/` analysis and leak guard | `task_feedback.json` | digest, settle, analyse, render | what is told is settled and true |
| training conversion | `scripts/runtime/` | replay files, archive | sanitize, convert, mix | a repaired row is never praised |
| campaign configuration | `src/outer/rounds/campaign_config.py` | none | merge, check, export | what the file says is what runs |
| fresh campaign driver | `scripts/fresh_campaign.sh`, `scripts/context_ablation.sh` | bases, workspace, stall counter, model link | submit, wait, collect, inherit, train | only committed rounds are inherited |
| TTT executor driver | `scripts/drive_ttt_executor_12h.sh`, `scripts/runtime/ttt_discover_prepare.py` | step directories, jobs, archive, search tree, curve | evaluate, top up, prepare, recover | every launch is charged once |

Not modelled (see the end): the continuous campaign driver, the reward-route
controller, safety gates and reviewer, analysis scripts and figures.

### How they interact

* The inner agent is a Cordis child process. Its tools are HTTP calls to the
  loopback bridge of the Python process: one handler thread per call, one lock
  around the tool, the audit entry after the lock, the answer after that.
* The main thread waits for the child, not for the handlers. After a timeout it
  reads the session while handlers may still be inside it.
* The proposer uses the same bridge with other tools. A failed slot is handed to
  a second session, on the same directory, while the first one's handlers live.
* The round worker and the drivers share only files: `round.json`, the rollout
  directories, `best_programs.json`, `task_feedback.json`, `grpo_batch.jsonl`,
  `next_bases.json`, `round_summary.json`; the executor's driver and its Slurm
  jobs share the step directory and its trajectory logs.

### What is hard here

Parallel tool calls and calls that outlive their turn; reads without the lock; a
budget checked in one place and charged in another; a draft that changes between
validation and submission; two authors of one draft; kills at any point of a
collect, a materialization or a snapshot that is then run again; retries over the
files of the attempt before; two processes that may collect one round; a job
queue that answers nothing; ratchets that must move together; and ties, missing
scores and repairs in one group of advantages. `PROJECT.json` lists these as
hazards, each at its line with the property that would catch it.

## Modules

| module | models | composed with |
|---|---|---|
| `InnerSession` | session, budget ledger, tool effects | extended by `InnerRollout` |
| `InnerRollout` | bridge threads, Cordis process, `run_task`, `run_baseline` | `InnerSession`; implements `BestSoFar` |
| `BestSoFar` | the abstract promise of a rollout to its caller | instantiated by `InnerRollout` |
| `AgentTurn` | first message, launch, agent loop, plugin and its notes, hook tracker, model proxy, log decoding, eligibility | |
| `ProgramEdit` | markers, rewrites and diffs of a program | extended by `InnerBatch` |
| `Provenance` | snapshot, manifest, verification | extended by `InnerBatch` |
| `InnerBatch` | one process over the tasks of a round, evaluator worker, repeated reads, `legacy_qd` registry | `ProgramEdit`, `Provenance` |
| `ProposeSlot` | both proposer sessions, their bridges, `run_once` | |
| `DraftFiles` | one proposer session with the files of its draft and every guard | |
| `SlotRoles` | how the K slots are dealt mandates, texts and endpoints | extended by `OuterRound` |
| `OuterRound` | propose, dedup, gate, plan, layers of rollouts and controls, paired collect, beam | `SlotRoles` |
| `Genome` | read, edit, diff, merge, cap, materialize, graft, publish a package | |
| `Credit` | rewards and advantages of all five modes, suppression, sanitation, archive and mix | |
| `Replay` | conversations an optimizer reads | instantiated by `MCCredit` |
| `Lineage` | paired measurement, winner, base refresh, strict revert, component ratchet | |
| `Campaign` | driver, worker, collect, program ratchet, training gate | extended by `ContextCampaign` |
| `ProposerText` | telemetry, brief of two specialists, leak guard | instantiated by `ContextCampaign` |
| `ContextCampaign` | the campaign without training, with the two writes of the feedback file | `Campaign`, `ProposerText` |
| `CampaignConfig` | schema, merge, checks, environment | instantiated by `MCCampaign` |
| `Discover` | one executor batch becomes archive, tree, curve, replay and next parent | extended by `Executor` |
| `Executor` | resumable driver, Slurm jobs, manifests, top-ups | `Discover` |
| `Missing` | the value of what is not there, which is no number | extended by `AgentTurn`, `ProposeSlot`, `Discover` |
| `Totals` | the sum and the count of a sequence, as recursive functions | extended by `AgentTurn`, `Discover` |
| `*Proofs` | theorems about `InnerRollout` (with `BestSoFar`), `InnerBatch` (with `Provenance`), `ProposeSlot` and `DraftFiles` (`ProposerProofs`), `OuterRound` (with `SlotRoles`), `Genome`, `Lineage`, `Campaign` (with `CampaignConfig` and `ContextCampaign`), `AgentTurn` and `Executor` (with `Discover`; `ExecutorProofs`) | |
| `MC*` | values for the constants of the runs | |

### InnerSession and InnerRollout

A program is a model value, an outcome is a score with a validity flag, `-inf`
is a number below every score. One action is one critical section of the
bridge, except for an evaluation, which is split at each write that another
thread can see: the new score (`Score`), the program (`Adopt`), the checkpoint
file (`SaveBest`). `Audit` is the append after the lock, `Reply` the answer.
The main thread is `Seed`, then `TurnCompletes` or `CordisTimeout`, `Judge`
(participation), `ReadScore` and `ReadProgram` (two reads without the lock),
`AuditRollout` (package hash and trajectory) and the row. `WorkerKilled` may
stop everything at any step.

The same program may score differently every time. Nothing obliges the agent to
call a tool. `finish` ends the agent's turn in Cordis; the model lets it go on,
because other calls of the same step may, so it has a few more behaviours than
the code. The tool gate is left out: no caller requests one.

`BestSoFar` states what a caller relies on: a best pair that only improves and is
paid for, a saved copy of some past best, one report. Its best is the *committed*
one: score and program under evaluation while a handler is between its two
writes, the stored pair otherwise.

### AgentTurn

`InnerRollout` has threads; this has the loop. `prompt` is what `run_task`
assembles before launch (component contract, baseline, sampling, with or without a
seed). `RunCordis` starts the child, `Model` is one request through the proxy with its
rewritten sampling (`Rewrite`), which the thread that passed it on puts on record later
(`RecordRequest`), maybe after the rollout is over; `Dispatch` is a call of the step,
`Bridge` the plugin's hooks around them, with the step limit, the reminder and stall
notes and the restart.
`Judge` decodes the log (packed, lost and torn rows), merges the bridge's counts
with it, checks participation of every tool, skill and middleware and builds the
row. What Cordis does with a hook that throws is open: in `HookThrows` the turn ends in
an error or goes on to the model without the hooks after it. A score
is the number of times it improved.

### InnerBatch, ProgramEdit, Provenance

A program is a sequence of lines. `BeginRound` verifies the recorded source,
selects tasks and inherits programs; each task is `BeginTask`, edits and
evaluations, `EndRollout`; `WriteSummary` and the exit status follow. A better program
is saved in the task's checkpoint (`Save`; a write that fails is passed over), and
`Kill` may stop the process anywhere. `Collect` is the `legacy_qd` registry with its
elites: the worker collects a round whose processes succeeded, the driver what was
refused or killed as well, and then what a task is credited with comes from the
checkpoint when there is no summary (`Credited`). `Abandon` is a round nobody collects.
The evaluator may return anything, raise, hang or crash; the guards of three tasks and the
mean of repeated reads are in `EvaluateSolution`. `Provenance` copies and hashes file by file while the
repository is edited and the command may be killed anywhere.

### ProposeSlot and DraftFiles

In `ProposeSlot` a draft is one of a few packages together with the set of
sessions that edited it. Three sets say what validation and the submission guards
answer for each package. `submit_harness` is two steps (`SubmitOpens`,
`SubmitDecides`) because it marks the session submitted and clears its errors
before it decides, and `run_once` looks at both from another thread.
`StartRepair` hands the slot over, `JudgeRepair` takes the result,
`FinalizeValidates` and `FinalizeSubmits` are `maybe_auto_finalize`,
`BuildRecord` writes the record.

`DraftFiles` opens the draft: a composition, plugin texts (one of a few bodies,
the scaffold's placeholder among them), what was read, cut or omitted. Every
edit with its guard, validation and each guard of a submission in the code's
order are actions. It has one session and no clock; how a turn concludes and the
hand-over are `ProposeSlot`'s.

### SlotRoles and OuterRound

`SlotRoles` deals the roles, the sections of each slot's directive, the endpoint
that serves it and the policy its record names. `OuterRound` is a task's rounds:
slots end in any order (`Propose`), `Dedup`, `Materialize` package by package,
the gate with its archives, `round.json`, the plan, layers of candidate and
control rollouts in any order, and `Collect`. `JobDies` may happen anywhere;
`Resubmit` runs the round again over the same directory. A package is its genome,
known by its tools and by the score an executor reaches with it.

### Genome

The package between rounds: rendered as files (`CordisDocument`, `PluginFiles`),
edited, validated, encoded as a partial spec, merged, capped, written file by file with a
kill between any two, promoted, grafted, read back. A text or number is a field
with a few values, one of them illegal; a component is a name and a body.

### Credit and Replay

`Rollouts` fills a group's slots with any mixture of outcomes, `Collect` computes
rewards and advantages in the mode of the run, `Sanitize`, `Train` and
`SkipTraining` are the scripts. Rewards are integers, `Unit` to one; `tanh`
and `exp` are monotone maps, and an advantage is known up to a positive factor
common to its group. `Replay` is pure: rows and self-training sets from
trajectories.

### Campaign, ContextCampaign and CampaignConfig

`Campaign` has one task in `strict_single` mode. The job is `Propose`, one
`RolloutEnds` or `RolloutFails` per slot, `RolloutsFinish`, then the collect;
`JobKilled` is possible anywhere. Collect is the same set of actions for two
actors, the job and the driver: `Judge`, then one action per file in the order of
the code, with `best_programs.json` torn between `OpenRegistry` and
`WriteRegistry` since it is rewritten in place. The driver is `Submit`, `WaitJob`
(with the fallback collect), `NoSummary`, `Inherit`, `Train` or `SkipTraining`.
`Inherit` advances the bases whatever became of the copies: the batch may be sanitized
(`SanitizedBatch`: a row that never reached the model is dropped and the advantages of
the others are compared anew, those the ratchet had suppressed too), and the workspace
may get the registry, keep its older copy, or be left with none (`Handed`: a `cp` that
fails or is cut short, or `NO_INHERIT`).
A rollout's `bound` flag stands for the provenance tests of the program ratchet.

`ContextCampaign` reuses these actions and adds what the proposer reads: the
digest before the ratchets judge (`BeginDigest`, `WriteDigest`), the verdict
after (`BeginSettle`, `WriteSettled`), the analysis in `ContextPropose`, a
curator. It assumes what `scripts/context_ablation.sh` sets up: a driver that
runs once in a fresh namespace, copies that succeed, task texts that match, one
task, no paired deltas (so no campaign evidence), no grafts, a beam of one.

`CampaignConfig` is `campaign_config.py` as functions on files.

### Lineage

The harness of one task over several rounds of paired measurement. A package is
its set of generated components and its operating point; prose is only whether
a candidate left it alone, touched the persona, or more. `Propose` applies a
change from `Menu` to the base, `Measure` is a candidate's rollouts with those
of its parent under the same seeds, `Judge` is `compute_task_group_paired`
with the per-task part of `cmd_collect`. `Ratchet` is the strict revert and the
admission test of `apply_component_ratchet`; then `GraftPart`, `SkipPart`,
`GraftParam` and `SkipParam` take its items one at a time, larger deltas first,
and `Install` publishes the grafted package. `GraftFails` is the exception
handler around the call. What the run does with a score it cannot bind to a
program is `Campaign`'s; here the ratchet's answer is any Boolean.

### Discover and Executor

`Executor` is the driver: `Driver` submits, waits, tops up, builds the manifest and calls
`Discover`'s prepare; `Cluster` runs jobs that may never start, die, or be
submitted twice when the answer of `sbatch` is lost. `scancel` is a request whose failure
is passed over: `CancelAndCollect` marks the job as cut and writes the manifest, and the
job dies then, later or not at all and launches on until it does; `Restart` kills the driver
anywhere and starts it again; `Tick` moves the deadline. `Discover` writes the
archive, the tree (PUCT in fixed point), ledger and curve around the commit of `state.json`.
Weights, and with them the training job, are left out.

## Runs

| run | instance | shows |
|---|---|---|
| `inner_rollout` | 2 programs, 2 scores, 3 calls, 2 evaluations, 1 probe | best pair, checkpoint, row and audit; the refinement of `BestSoFar`; every rollout ends |
| `agent_turn` | 1 tool, 1 middleware, 1 skill, 3 steps, 2 parallel calls, 3 calls, 3 evaluations, 1 fault | notes are true, the merged audit exact, a row that counts is whole |
| `inner_batch` | 2 tasks, 2 rounds, 2 files, 1 change of the repository, 2 reads per evaluation | the snapshot is whole, fixed code survives, only lawful reads are published and credited, after a kill too |
| `propose_slot` | 4 packages, one per verdict, 4 calls | only validated work counts, authorship, every slot ends |
| `draft_files` | 4 plugins of 3 kinds, 4 mandates, 2 edits | nothing is changed unread, a slot is held to its mandate |
| `genome` | 2 kinds, 3 names of which one is part of another, 3 bodies, caps 2 and 1, 3 edits, 1 kill, 2 rounds | the base is what was promised and sound, changes are recorded, writes are whole |
| `outer_round` | 2 slots, 2 rounds, 2 attempts in all, beam of 2 | what runs is recorded, seeds are disjoint, what is published is measured |
| `lineage` | 2 rounds, 2 slots, 3 components of 2 kinds with caps of 1, 1 parameter with 3 values, 3 scores, 9 proposals | every change of the base is earned, nothing evicted, the ledger true |
| `credit` | 5 modes, 3 slots, 7 outcomes, 4 scores, 2 tasks | a repaired slot is lowest, who shows more is not taught less |
| `campaign` | 2 rounds, 3 slots, 2 scores above the first base, plateau 2 | commit order, base bound to program, incumbent, training gate, the campaign ends |
| `context_campaign` | 2 rounds, 2 slots, 2 scores, 3 answers of a specialist | a required brief is there and of the round before, its headline true |
| `executor` | 2 steps of 2 trajectories with 1 supplement, 2 programs, 2 jobs in all, 1 fault | archive, tree and curve agree, launches are conserved and charged |

`MCCampaign` also evaluates `CampaignConfig`'s three properties on sample files,
and `MCCredit` those of `Replay` on every trajectory of up to three messages and
every self-training set of three rollouts, as assumptions of their runs.

*Why these bounds.* Three calls give two in flight at a timeout and a third that
finds the budget spent. Two scores over no score let a best improve twice, which
separates "highest" from "latest". In an agent's turn three evaluations over three
steps with two per step let a stall span steps, be seen late by a hook, and be
broken by a gain in the same step; one fault reaches each kind of loss, and each
is judged alone. Four proposer calls are the least with which phi leaves a
validation and a submission behind while the repair edits; two edits are the
least that write a file and change it again, or move one thing besides another.
Two rounds are the least in which an incumbent is inherited, used as a seed and
replaced; three slots the least in which one is the best, one never reached the model
and is dropped by the sanitation, and two remain to be compared; with a
plateau of two rounds the gate is closed in the first round, and the mutant that
opens it one round early is caught in the second. In `outer_round` a retry lies
over the files of a first attempt, one repeat fits the five minutes (two do not, and the
theorems hold for any), and `MinStride` is 1, so that blocks of seeds
are as close as the code could ever put them. Three slots and four scores let a
tie, a repair and a failure meet in one group in every mode. In `lineage` caps of one
are full after one graft or promotion, so every graft can meet a full kind; the
menu has a proposal for each way to be admitted, contested, mislabelled,
confounded, repaired, over a cap, or a no-op; two controls (four in the code)
are enough to refresh a base there. Two programs, two tasks and two steps of
training are the least with which the parent of a batch is not its grandparent. Two jobs
in all are a job per step, or one and its top-up, or one submitted twice, each of which
may die or outlive its `scancel`.

`CHECK_DEADLOCK FALSE` where the system ends: a rollout, a turn, a slot, a batch,
a campaign, a group's credit, a lineage, an executor campaign. `genome`,
`outer_round` and `draft_files` are checked for deadlock: their last step is
explicit (`Done`, `Stop`) or reading is always possible.

### Fairness

* `InnerRollout`: weak fairness of the main thread only. Its waits are
  `subprocess.run` with a timeout and finite local work. The handlers and the
  agent get none: an evaluation may hang forever with the lock held.
* `ProposeSlot`: weak fairness of `run_once`, for the same reason.
* `Campaign`: weak fairness of the driver, of its own collect and of the job's
  wall time (`JobKilled`, which a job that ends first disables). The job's own
  progress is not assumed.
* The others state safety only.

## Proofs

`InnerRolloutProofs` proves, for every set of programs, scores and calls and
every budget, the invariants the `inner_rollout` run checks, the budgets, and
mutual exclusion of the bridge. Assumptions: the initial program is a program and
the empty one is not; scores are integers above `NegInf`; budgets and call names
are natural numbers, `None` is not a call. `BestIsHighestValid` is not inductive:
nothing in it says that the program a handler is about to adopt is still the one
it scored. `IInv` adds what makes it so: the lock is held by exactly the call
inside a critical section (`LockInv`), the score has been earned by the staged
program until it is adopted (`AdoptInv`), a handler that evaluates still has
budget (`LedgerInv`), a call nobody waits for has settled and is audited
(`AwaitInv`, `AuditInv`), a row can only be eligible after a turn that left no
handler behind (`CompletedInv`), and the main thread's first read still agrees
with the session at its second (`ReadInv`). The proof has one lemma per group of
conjuncts and one step per action. `RolloutKeepsItsPromise` is the refinement of
`BestSoFar`: under `IInv`, and with `OutsetInv` (the seed is not charged, there
is no row before the last step), every step maps to a step or a stutter. The
commit point of a new best is the write of its score, in `HandlerRefines`; the
two unlocked reads become one report of the best pair in `AuditRefines`.

`ProposerProofs` proves the invariants of the `propose_slot` run, and that
futile repeats carry their flag, for every set of packages, every verdict on them
and any number of calls, from the assumptions that barred packages and repeats
are valid ones and that calls are natural numbers. What the record says holds
because of what the sessions hold before there is one (`SessionInv`: only
validated objects, and an accepted repeat has used up its refusals). Authorship
needs to know when the two sessions can meet: the frozen model acts only in a
slot that was handed over (`HandoverInv`), phi leaves no call behind unless its
turn failed (`TurnInv`), and so whatever it validated is its own (`AuthorInv`).

It also proves both properties of the `draft_files` run and the types,
for any plugins, parent, slots, overlong files and futile signatures, from the
assumption on the constants, of which it needs that `cordis.yml` is not a plugin.
`ReadInv` is the reading rule as a state: what counts as read and is there was had
in full, or the first message could not hold it; a deleted file keeps its mark, and
it is safe because a new text under that name comes from the session. `CheckInv`
ties the check to the files at its own revision, and `AcceptedInv` holds because
refusals only grow: whatever is effective while one is left was let through by the
mandate's guards, which `AcceptedKeepsMandate` turns into what the slot was given.

`CampaignProofs` proves four properties of the `campaign` run (commit order, the
binding of base and program, the training gate, the incumbent), `CollectsAlone`
and the types, for any number of rounds and slots, any scores and any plateau, from
the assumptions on the constants and that `None` and `Torn` are no values. `IInv` has
five parts: who may be running, so that one collect at a time judges from what the
driver handed it (`ControlInv`); the files of a round appear in the order of the
collect and later rounds have none (`FilesInv`); what a collect in progress has
decided and which of its writes are done (`CollectInv`); the registry is torn, or
at least as good as the copy the driver keeps (`RegistryInv`, which is why a second
collect after a torn or a published registry still loses nothing); and the rounds
the stall counter stands for (`StallInv`). What is inherited is bound to the *registry*:
the copy a round is seeded with may be older or gone, and then the round advances nothing,
because the ratchet compares the seed of the rollouts with the incumbent. A round with a
gain trains the proposer if it advanced the base or if the sanitation gave the
advantages back.

The same module proves what a campaign file means, for every file: what loads is
what it names over the defaults, sequential sampling is on exactly when asked for,
and two files that differ only in keys no variable carries drive the same campaign.

It ends with `ContextCampaign`: both properties of the `context_campaign` run, for any
rounds, slots, scores, specialists and curator's notes. Assumed, beside what `Campaign`
assumes: the slots are `1 .. n`, the caps are positive, the first base is no worse than
the seed. `Tells` says when an entry is true of the base it is read beside: accepted
exactly if that base was promoted from its round, with its score as the best and above
the base of then. `ContextCollectInv` follows a collect between its two writes of the
feedback file: what is digested is of this round and has the best score, what is settled
`Tells` of the base about to be published. `CommittedInv` says a committed round has told
what it decided, and `HandedOnInv` that the driver carries the base and the entry of one
round together, so that the next proposer's headline is of the base it is shown. The best
score is an extremum over a set of rows: that it exists is induction over `Nat`, which
`BestExists` takes, as sets, from `WellFoundedInduction`.

`InnerBatchProofs` proves `SnapshotIsWhole` for any set of files and any edits: the
command began without a manifest, what it publishes is whole, and what it is about
to record is in place unless it was edited there (`SnapInv`). `BatchKeepsTheRecord` is
the refinement: every step of the batches is one of `Provenance` or a stutter, so the
same holds under them. `PublishedIsEarned` is proved for any tasks, evaluators, scores
and edits, and two reads or one; assumed is that the tasks of a batch differ (a result file
has the task's name), that scores are numbers and `None` is none, and that tasks with a
transaction are guarded. Every layer between the evaluator and the session (`OutIsSound`, `RepeatedIsSound`) leaves an
outcome valid only if all the reads it counts broke no rule; hence a session's best pair
is earned, or nothing was valid and it is what the task inherited (`SessionInv`), and
every row has a result file that agrees with it (`RowsInv`). A checkpoint is no better than
the session's best when it is written, nor than the result file later (`SavedInv`), so what
a collect credits, from a row or from a checkpoint, is no more than the file's program has
been seen to give.

`LineageProofs` proves all invariants of the `lineage` run, and the caps, for every
number of slots, library, caps, operating point, menu and set of scores.
Assumptions: slots and components are finite sets, no component has the name of a
parameter, the first base is a package within the caps, scores are natural
numbers below the ceiling, and `None` is neither a slot nor a value. None of them
is inductive: they speak of the inherited base, and what makes it right happens
on the ratchet's copy. `IInv` carries the promises to the copy during the
loop (`GraftInv`: `Earned`, `Keeps`, `Records`), says that every item to come is
of a slot that showed a gain (`TodoInv`), that the outgoing package is the one
grafts land on, and that a promoted slot earned it (`TrunkInv`), and that valid
candidates and the copy are within the caps (`CapsInv`). `InvConsider` reduces
each step of the loop to what it does to the copy and to the record.

`OuterRoundProofs` is first about the dealing for every K: which slot the frozen base
samples, that a slot held to a component is told which and nothing else, and that
under split serving no number of endpoints makes every recorded policy true. Then it
proves the types and all properties of the `outer_round` run, for any number of
slots, repeats, rounds and attempts, any genomes and a beam of one or two, from the
assumptions that these are positive numbers and `None` and `Pending` are no genomes.
That a seed names one place is arithmetic: a seed is a number in mixed radix and the
stride is at least a round's seeds (`StrideIsWide`, `OneQuotient`, `SeedIsAPlace`). That
launches are as recorded needs that `round.json` and the packages of its accepted slots
are of one attempt until the job is over (`RecordedInv`), which begins with what was
written so far (`DraftsInv`), and that results of earlier attempts, which the code
leaves lying, are told apart by theirs (`RunsInv`). A promoted package is the one its
slot's rollouts ran (`PromotedRan`, which says this of `PublishedIsMeasured` without its
sum over results): the packages of an attempt's accepted slots stay as they were recorded
until a later attempt (`KeptInv`), and every control ran the package that heads the beam,
which `round.json` records (`ControlInv`), although the slot's own parent may be another
one: the contract then refuses the slot.

`GenomeProofs` proves three of the four invariants of the `genome` run, and the types,
for any kinds, any names, overlapping or not, any bodies, fields, caps and menus.
`Encodable` is what can be a package at all, and its lemmas are a round trip: `PartsOf` and `FileHoldsBody` read
rows and files back, `RoundTrip` composes them with the fields and switches, and
`ReadsBack` adds the manifest's verification. `IInv` says that base and promise are
encodable and advertised (`GenomesInv`), that a workspace only ever mounts what the menu
allows (`WorkspaceInv`), how far the writing of the candidate is at each phase, over
whatever an interrupted one left (`WrittenInv`), and that the next package is at every
moment a whole one (`NextPackageInv`). `FirstBaseAssumption` is assumed: the shipped
package `inner/harness` passes the checks a submission has to pass.
`BaseIsSound` says of the persona what survives grafts for any names: it mentions every
component or a longer name that contains it. That it mentions the component itself is
broken (see the findings).

`ExecutorProofs` is about the two programs that run a harness. Its first part is what
both count with: `Total` is a recursive function, so that it has a value at all, and
what one more entry adds to it, are induction over `Nat`, taken as sets from
`WellFoundedInduction` (`SumsExist`, `TotalMore`, `CountMore`).

For `AgentTurn` it proves all properties of the `agent_turn` run and the types, for
any tools, middlewares, skills, budgets, parallel calls and losses, from the assumption
that the limits are numbers and `None` is none. A note can be read several evaluations
after it was counted, so `NotesInv` follows the tracker itself: the stall it counts are
the last evaluations it saw, and a best equal to the one it saw means that none since
gained. `LogInv` is why a log without a gap that ends is the whole one: what is lost
leaves it short of the numbers that were given out. `CallInv` says of each tool that every
call the model made was answered or is open, and that the bridge, which may miss any,
never counted more than the log will have; the maximum of both is then exact once no call
is open (`AuditIsExact`). `CountInv` ties what the proxy passed on, recorded or not, the
messages and the middlewares of each step together, which makes a row that counts whole.

For `Executor` it proves the types, that every batch is charged once
(`ChargeIsConserved`), that every launch is charged (`LaunchesAreCharged`) and that a
published step is whole (`PublishedAgree`), for any number of steps, trajectories,
supplements, jobs, programs and restarts, in both modes. Assumed is what
`DiscoverAssumption` and `ExecutorAssumption` say of the sizes, and for `PublishedAgree`
`AdvantageAssumption`: of two scores in a replay the better has the larger advantage. The
code's advantages are increasing in the score (`adaptive_entropic_advantages`, whose
`beta` is positive); the model's are in hundredths, so that scores far apart in one
batch can round to the same, and the assumption, which TLC evaluates on the run, excludes
such scores. The
invariant follows what is known of a batch from the job to the ledger. `JobInv`: a job
covers indices of its batch, those it has passed have logs, and every log is of an index
some job covers. `DriverInv`: no step is begun before its predecessor named a parent,
so batches are the steps in order. `ChargeInv`: the curve is at most one row behind
`state.json`, and the command adds a batch only when it is complete, which is what
makes a command that was killed between any two writes safe to run again. `LaunchedInv`:
a manifest never says more than was launched. `PlainInv`: where no two jobs cover an index
and at most one is a top-up, a trajectory runs once and the top-up has no more indices
than the first job left to do; and in a batch that is not fixed, where there is a manifest
the first job is over or all of its indices are usable (`First`), so that one that
outlives its `scancel` has nothing left to launch. `ReadyInv` carries that to what is
prepared and what is committed. TLC finds no violation of these parts either,
on the run's instance and on one step of three jobs and two supplements, where a
top-up can follow another.

`LaunchesAreCharged` is exact only where it can be. `scancel` is sent and forgotten
(`scancel "$job" 2>/dev/null || true`, `drive_ttt_executor_12h.sh:215`, `:227`), so a job
may launch what it has left after its launches were counted for the manifest. In a fixed
batch that is a job that was cut before it had begun all (`Whole` says there is none).
The others it excepts are a job submitted twice and a second top-up (`Plain`): past the
deadline the wait for the first returns at once (`:411`), so the second may be submitted
beside it, suffice, and leave the first to launch after the commit. What is charged is
even then no more than what was launched.

`PublishInv` is the invariant of publication and crash recovery. `TaughtInv`: from the
commit of a batch on, its replay has the rows it is credited with, because the replay is
written first (`HandInv` knows it between the two writes) and a step published again does
not write it. `HeirInv`: a parent file, from when it is written, names what the next
batch grew from or, before there is one, the state that is selected; no batch is
committed before the parent file of the one before it is there, so a step published
again after its successor was committed finds the file and keeps it. The marker is
written last and adds nothing. `BatchRowsAre` shows that the rows, taken by rank, are
usable ones: the ranks of a finite set of numbers are an injection, hence all of them.

Only model-checked: liveness, which under fairness is out of the prover's reach;
that the scores of `PublishedIsMeasured` are what `Worth` says, a sum over a set of
results, and with it the order of promoted packages (`PromotedPackagesRan` proves which
packages ran);
`RecordExplainsCandidate` of `Genome`, whose record is a `SelectSeq`;
`RepairedIsLowest` and `BetterNeverLess` of `Credit`, whose means and ranges are products
and quotients of variables, with what `Replay`, `ProgramEdit` and the PUCT sums compute,
which are folds over data (induction over numbers can be taken from the library as sets,
over an operator it cannot); `FixedCodeSurvives` of `InnerBatch`, which rests on such a
fold; and `TreeIsConsistent` of `Discover`, whose sums over the children of a state are
folds too, of an archive walked up to its root. Each module
states its types in `TypeOK` (`TurnTypeOK`, `DraftTypeOK`); where it is not among the
properties of a run it holds there all the same.

## Findings

Properties a comment or a document promises and the code breaks. Those named here
stand in the modules beside the ones that are run; adding one to its
configuration gives the behaviour.

* `AdvancesTogether` (`Campaign`): `outer_round.py:1183` speaks of the joint
  H2/program transition. A collect killed after it published
  `best_programs.json` is run again and keeps the program but not its harness. A run
  with `NO_INHERIT` (`fresh_campaign.sh:87`) or a failed copy has a lasting effect of the
  same kind: rounds seeded with an older program than the incumbent advance nothing.
* `TrainingIsCredited` (`Campaign`): "Do not let an unbound step-0/noisy score update
  proposer weights indirectly" (`outer_round.py:1133`), but `sanitize_grpo_batch.py:54`
  recomputes the advantages from the rewards before the training, those of a round the
  ratchet suppressed too, if one row is dropped and two remain.
* `RefusedIsNotCommitted` (`Campaign`): the worker refuses to collect a round with
  failed rollouts (`_outer_round_worker.sh:266`); the driver finds no batch and
  collects it (`fresh_campaign.sh:77`).
* `FrozenWorkNeverCredited` (`ProposeSlot`): calls of a turn that timed out still
  validate and submit what the repair session edits, under phi's identity
  (`propose.py:383`).
* `RefusalLeavesTurnOpen` (`ProposeSlot`): a refused submission asks for another
  one (`propose_session.py:509`), but the plugin has already concluded the turn.
* `ControlIsOfParent` (`OuterRound`): paired controls roll out the task's head
  package (`_outer_round_worker.sh:302`), the contract expects the slot's own
  beam parent (`trajectory_budget.py:75`). The pair is then refused, not credited.
* `PromotedIsMeasured` (`OuterRound`): a retry writes packages only for its valid
  slots, and rollouts of the first attempt may stay beside them.
* `ProbeCanReturn` (`Genome`): a workspace that only mounts `probe_solution` again
  is no change, although the diff is meant to be complete (`harness_spec.py:593`).
* `BaseNamesItsParts` (`Genome`) where one name is part of another: "the grafted base
  keeps every naming invariant" (`component_ratchet.py:19`), but a grafted name counts as
  declared if it occurs anywhere in the prompt (`:218`, `:224`), and the check that a
  submission has to pass and that wants it as a word (`component_prompt_issues`,
  `harness_spec.py:540`) is skipped (`:233`). The base then mounts a component its
  prompt names only inside a longer name, which is what `BaseIsSound` allows.
* `AuditNamesEveryCall` (`AgentTurn`): `model-request-audit.json` is copied
  (`runner.py:198`) while a thread of the proxy may still have to record its request
  (`model_proxy.py:126`), and nothing in the eligibility of a row looks at it
  (`harness_runner.py:275`, `:555`): a row that counts can have an audit that lacks a call.
* `IneligibleHasNoCredit` (`InnerBatch`): the terminal row of a broken harness is there so
  that its seed's checkpoint does not credit it "with the incumbent score"
  (`rewards.py:40-52`). But rows are only in the summary: a process killed after it
  filed an ineligible result and before the summary leaves a checkpoint and no row, and
  the candidate is credited. The registry is not: it looks at the result file.
* `FixedIsExact` (`Executor`): "spends exactly K=16 launched H2
  trajectories" (`drive_ttt_executor_12h.sh:321`), but a job that
  was submitted twice launches more than the fixed batch, and one that is cut for its
  stragglers is counted short. The shipped fixed campaign never cuts stragglers: it sets
  `PARTIAL_AFTER_SECONDS=999999` (`drive_reward_route_inference16_executor.sh:102`).
* `SelectedSurvives` (`Discover`): the parent PUCT selects can be pruned by
  `migrate_archive` before its step runs.
* `InnerRollout`: with no valid outcome `run_task` publishes the seed's score,
  valid or not, as the best score of an eligible row (`harness_runner.py:584`).
* `Lineage`: after the strict revert the component ratchet still believes in the
  promotion and passes over the reverted winner's components as
  `already_in_promoted` (`outer_round.py:1153`); a removal is no confounder and items are
  admitted one by one, so part of a change can be grafted on the delta of the
  whole (`component_ratchet.py:132`).
* `NoDealingIsLabelledTruly` (proved): with `MPHI_PATH` the worker passes one
  endpoint, M_phi, so the exploration slot samples from phi and is recorded as
  `frozen_base` (`outer_round.py:461-469`, `:504`).
* `UnexportedIsUnread` (proved): `training.plateau_rounds` is never exported,
  although `run_campaign.sh:7` and `fresh_campaign.sh:127` say so.

Smaller ones met while modelling. *Configuration*: value types are not checked;
`run_campaign.sh:23` imports `outer.campaign_config`, which is now
`outer.rounds.campaign_config`. *Replay*: a tool message with several results
keeps only the last call id; a row that raises leaves the output half written
(its caller checks the exit status). *Draft guards*: files the first message cut
count as read, and so does one deleted and written again; a placeholder beside
another tool is accepted, and a removal counts as a component change; a
parameters slot may also change components. *Roles*: with K of 6 or 7 the
exploration slot is not told so. *Context*: a collect's read and write of the
feedback file lose a curator's note written in between, and an unreadable file
wipes all notes ("never wipe them", `outer_round.py:1063`); sequential sampling
never sets the slot's policy and parent. *Program ratchet*: `legacy_qd` drops the
elites at a promotion (`program_ratchet.py:263`). *Executor*: top-ups ignore the deadline
(`drive_ttt_executor_12h.sh:358`), and a driver killed during one cannot resume.
*Evaluation*: repeated reads
drop the ones that failed, so one lucky read can win (`session.py:137`).
*Editing*: a diff reaches outside the EVOLVE-BLOCK, and a stray end marker moves
the rest of a block into the fixed code. *Provenance*: after a kill between the
rename and the manifest and an edit of the repository, every later snapshot
raises.

## Plan

1. `Lineage` with a beam of two and with the crash points of `Campaign`, for the
   ledger under a second collect (it is appended, so admissions are doubled).
2. The continuous campaign driver as a variant of `Campaign`.

## Not modelled

* The continuous campaign driver (`scripts/campaign_driver.sh`) shares its collect
  and inheritance with the fresh one; its own part is adopting running jobs. It
  takes an empty `squeue` answer for the end of the job (line 104).
* The reward-route controller is a lock and an immutable namespace around
  `fresh_campaign.sh`.
* Safety gates and the reviewer scan the text of Python tools and ask a model;
  what they answer is a set of safe bodies in `Genome`.
* Analysis scripts and figures report offline and change no state.
* Model servers, Slurm, Cordis and the training step are external.
