------------------------------- MODULE Executor -------------------------------
(***************************************************************************)
(* One task of drive_ttt_executor_12h.sh: the resumable driver, the Slurm  *)
(* jobs that roll out a batch into a directory (ttt_executor_eval.sbatch), *)
(* its manifest (collect_ttt_eval_manifest.py), the top-ups, and the       *)
(* prepare command of Discover.                                            *)
(*                                                                         *)
(* A batch has K trajectories; fixed is FIXED_LAUNCHED_BATCH.  The driver  *)
(* may be killed anywhere, a submission may be accepted and its answer     *)
(* lost, a job may die or never start.  The weights are left out, and with *)
(* them the train and merge jobs; AHC_SUPPLEMENT_K is 0, its default.      *)
(***************************************************************************)
EXTENDS Discover

CONSTANTS
  K, MaxSupplement,  \* K, MAX_SUPPLEMENT_LAUNCHES
  PartialMin,        \* PARTIAL_MIN_USABLE of a fixed batch
  MaxJobs,           \* a bound on the jobs of a campaign
  MaxFaults          \* a bound on restarts of the driver and answers of sbatch that are lost

ASSUME ExecutorAssumption ==
  /\ K \in Nat \ {0} /\ MaxSupplement \in Nat /\ PartialMin \in 0 .. K
  /\ MaxJobs \in Nat \ {0} /\ MaxFaults \in Nat

Indices == 0 .. K + MaxSupplement - 1 \* of the trajectories of a batch

VARIABLES
  fixed,    \* the mode of the campaign
  clock,    \* before the completion guard, inside it, past DEADLINE_EPOCH
  pc, step, \* of the driver
  ej,       \* the job it waits for
  plan,     \* K_START and K of the top-up it submits
  faults,
  jobs,     \* every job ever accepted
  running,  \* the trajectories under way, as <<job, index>>
  logs,     \* the indices with a k*.log, per step
  summary,  \* what summary.json of an index says, per step
  manifest, \* eval_manifest.json: what it charges, or None, per step
  jobFile   \* the job of jobs_<tag>_uN.env, or None, per step

driverVars == <<pc, step, ej, plan, faults>>
dirVars == <<running, logs, summary>>
vars == <<discoverVars, fixed, clock, driverVars, jobs, dirVars, manifest, jobFile>>

Unusable == "unusable"
JobType ==
  [step : 1 .. Steps, first : Nat, next : Nat, last : Nat, writes : BOOLEAN,
   over : BOOLEAN,
   cut : BOOLEAN]  \* history: cancelled before it had begun its last trajectory

Usable(s) == {k \in Indices : summary[s][k] \notin {None, Unusable}} \* count_usable
Launched(s) == Cardinality(logs[s])                                   \* count_launched
NUsable(s) == Cardinality(Usable(s))

(* load_batch: the usable rows in the order of their indices.              *)
LoadBatch(s) ==
  [i \in 1 .. NUsable(s) |->
     LET k == CHOOSE k \in Usable(s) : Cardinality({l \in Usable(s) : l < k}) = i - 1
     IN [k |-> k, program |-> summary[s][k]]]

-------------------------------------------------------------------------------
(* The jobs.                                                               *)

RunningOf(j) == {x \in running : x[1] = j}

(* An index with a summary is skipped, one with only a log is run again.   *)
Launch(j) ==
  LET b == jobs[j] IN
    /\ ~b.over /\ b.next <= b.last
    /\ jobs' = [jobs EXCEPT ![j].next = @ + 1]
    /\ IF summary[b.step][b.next] # None THEN UNCHANGED <<running, logs>>
       ELSE /\ running' = running \cup {<<j, b.next>>}
            /\ logs' = [logs EXCEPT ![b.step] = @ \cup {b.next}]
    /\ UNCHANGED <<discoverVars, fixed, clock, driverVars, summary, manifest, jobFile>>

(* Of two runs of an index the summary of the later start counts.          *)
Finish(j, k) ==
  LET s == jobs[j].step IN
    /\ <<j, k>> \in running
    /\ running' = running \ {<<j, k>>}
    /\ \/ \E outcome \in Programs \cup {Unusable} :
            summary' = [summary EXCEPT ![s][k] = outcome]
       \/ summary[s][k] # None /\ UNCHANGED summary
    /\ UNCHANGED <<discoverVars, fixed, clock, driverVars, jobs, logs, manifest, jobFile>>

JobEnds(j) ==
  LET b == jobs[j] IN
    /\ ~b.over /\ b.next > b.last /\ RunningOf(j) = {}
    /\ jobs' = [jobs EXCEPT ![j].over = TRUE]
    /\ manifest' = [manifest EXCEPT ![b.step] = IF b.writes THEN K ELSE @]
    /\ UNCHANGED <<discoverVars, fixed, clock, driverVars, dirVars, jobFile>>

(* What a stopped job has not begun it never will: next is of no more use. *)
Stopped(j) == [jobs EXCEPT ![j].over = TRUE, ![j].next = jobs[j].last + 1]

(* A lease that ends, a server that does not come up, a failed audit, or a *)
(* scancel that takes effect.                                              *)
JobDies(j) ==
  /\ ~jobs[j].over
  /\ jobs' = Stopped(j) /\ running' = running \ RunningOf(j)
  /\ UNCHANGED <<discoverVars, fixed, clock, driverVars, logs, summary, manifest, jobFile>>

-------------------------------------------------------------------------------
(* The driver.                                                             *)

Goto(where) == pc' = where
Keep == UNCHANGED <<discoverVars, fixed, clock, dirVars>>
Local == UNCHANGED <<step, ej, plan, faults>>

StepJobs(s) == {j \in DOMAIN jobs : jobs[j].step = s}

NextStep == step' = step + 1 /\ Goto(IF step = Steps THEN "done" ELSE "begin")

(* The head of the loop of run_task: what this step still lacks.           *)
Begin ==
  LET s == step IN
    /\ pc = "begin"
    /\ IF s = 1 /\ marker[1] THEN NextStep /\ UNCHANGED ej
       ELSE IF s > 1 /\ clock = "past" THEN Goto("done") /\ UNCHANGED <<step, ej>>
       ELSE IF s > 1 /\ (parentFile[s - 1] = None \/ (~fixed /\ replay[s - 1] = <<>>))
         THEN Goto("stopped") /\ UNCHANGED <<step, ej>>
       ELSE IF manifest[s] # None THEN Goto("ensure") /\ UNCHANGED <<step, ej>>
       ELSE IF jobFile[s] # None
         THEN Goto("wait") /\ ej' = jobFile[s] /\ UNCHANGED step
       ELSE IF s > 1 /\ clock # "open" THEN Goto("done") /\ UNCHANGED <<step, ej>>
       ELSE Goto("submit") /\ UNCHANGED <<step, ej>>
    /\ Keep /\ UNCHANGED <<plan, faults, jobs, manifest, jobFile>>

NewJob ==
  IF pc = "submit"
  THEN [step |-> step, first |-> 0, next |-> 0, last |-> K - 1, writes |-> TRUE,
        over |-> FALSE, cut |-> FALSE]
  ELSE [step |-> step, first |-> plan.start, next |-> plan.start,
        last |-> plan.start + plan.count - 1, writes |-> FALSE,
        over |-> FALSE, cut |-> FALSE]

(* sbatch: accepted, accepted with its answer lost, or out of attempts.    *)
Submit ==
  /\ pc \in {"submit", "topup"} /\ Len(jobs) < MaxJobs
  /\ jobs' = Append(jobs, NewJob)
  /\ \/ ej' = Len(jobs) + 1 /\ Goto(IF pc = "submit" THEN "record" ELSE "topwait")
        /\ UNCHANGED faults
     \/ faults < MaxFaults /\ faults' = faults + 1 /\ UNCHANGED <<ej, pc>>
  /\ Keep /\ UNCHANGED <<step, plan, manifest, jobFile>>

SubmitFails ==
  /\ pc \in {"submit", "topup"}
  /\ Goto("stopped") /\ Local /\ Keep /\ UNCHANGED <<jobs, manifest, jobFile>>

Record ==
  /\ pc = "record"
  /\ jobFile' = [jobFile EXCEPT ![step] = ej]
  /\ Goto("wait") /\ Local /\ Keep /\ UNCHANGED <<jobs, manifest>>

(* scancel of the job waited for, and a manifest of what is there.  The    *)
(* cancel takes its time and its failure is passed over: the job may die   *)
(* now, later or not at all, and until then it goes on.                    *)
CancelAndCollect ==
  /\ jobs' = [jobs EXCEPT ![ej].cut = @ \/ jobs[ej].next <= jobs[ej].last]
  /\ manifest' = [manifest EXCEPT ![step] = Launched(step)]
  /\ UNCHANGED running

(* Variant for mutation: the target is charged, not the launches.          *)
Collect_Target ==
  /\ manifest' = [manifest EXCEPT ![step] = K]
  /\ UNCHANGED <<jobs, running>>

Collect ==
  /\ manifest' = [manifest EXCEPT ![step] = Launched(step)]
  /\ UNCHANGED <<jobs, running>>

Over == jobs[ej].over \* terminal_state

(* wait_for_eval.  A fixed batch may be cut, or collected once its job is  *)
(* over or the deadline has passed; else a batch lacking K rows has failed.*)
Wait ==
  /\ pc = "wait"
  /\ \/ clock # "past" /\ manifest[step] # None
        /\ Goto("ensure") /\ UNCHANGED <<jobs, running, manifest>>
     \/ clock # "past" /\ manifest[step] = None /\ NUsable(step) >= K
        /\ IF Launched(step) > K
           THEN Goto("stopped") /\ UNCHANGED <<jobs, running, manifest>>
           ELSE Goto("ensure") /\ CancelAndCollect
     \/ clock # "past" /\ manifest[step] = None
        /\ fixed /\ NUsable(step) >= PartialMin
        /\ Goto("ensure") /\ CancelAndCollect
     \/ (clock = "past" \/ (manifest[step] = None /\ Over /\ NUsable(step) < K))
        /\ IF fixed /\ Launched(step) = K
           THEN Goto("ensure") /\ Collect
           ELSE Goto("stopped") /\ UNCHANGED <<jobs, running, manifest>>
  /\ Local /\ UNCHANGED <<discoverVars, fixed, clock, logs, summary, jobFile>>

(* ensure_target_usable.  A fixed batch is never topped up.                *)
EnsureFixed ==
  /\ pc = "ensure" /\ fixed
  /\ Goto(IF manifest[step] # None /\ Launched(step) = K THEN "prepare" ELSE "stopped")
  /\ Local /\ Keep /\ UNCHANGED <<jobs, manifest, jobFile>>

EnsureTarget ==
  LET capacity == K + MaxSupplement - Launched(step) IN
    /\ pc = "ensure" /\ ~fixed
    /\ IF NUsable(step) >= K
       THEN Goto("prepare") /\ Collect /\ UNCHANGED plan
       ELSE IF capacity <= 0 THEN Goto("stopped") /\ UNCHANGED <<plan, jobs, running, manifest>>
       ELSE /\ Goto("topup")
            /\ plan' = [start |-> Launched(step), count |-> Min({K - NUsable(step), capacity})]
            /\ manifest' = [manifest EXCEPT ![step] = None]
            /\ UNCHANGED <<jobs, running>>
    /\ UNCHANGED <<discoverVars, fixed, clock, logs, summary, step, ej, faults, jobFile>>

(* The wait for a top-up: however it ends, the loop looks again.           *)
TopUpWait ==
  /\ pc = "topwait" /\ Goto("ensure")
  /\ \/ (clock = "past" \/ manifest[step] # None \/ (Over /\ NUsable(step) < K))
        /\ UNCHANGED <<jobs, running, manifest>>
     \/ clock # "past" /\ manifest[step] = None /\ NUsable(step) >= K
        /\ IF Launched(step) > plan.start + plan.count
           THEN UNCHANGED <<jobs, running, manifest>> ELSE CancelAndCollect
  /\ Local /\ UNCHANGED <<discoverVars, fixed, clock, logs, summary, jobFile>>

StepPrepare ==
  /\ pc = "prepare"
  /\ IF marker[step]
     THEN NextStep /\ UNCHANGED discoverVars
     ELSE /\ Goto("preparing") /\ UNCHANGED step
          /\ StartPrepare(step, LoadBatch(step), manifest[step],
                          IF step = 1 THEN Root ELSE parentFile[step - 1])
  /\ ej' = None /\ plan' = None
  /\ UNCHANGED <<fixed, clock, faults, jobs, dirVars, manifest, jobFile>>

RunPrepare ==
  /\ pc = "preparing" /\ Prepare
  /\ UNCHANGED <<fixed, clock, driverVars, jobs, dirVars, manifest, jobFile>>

Prepared ==
  /\ pc = "preparing" /\ (prep # None => prep.at = "failed")
  /\ IF prep = None THEN NextStep
                    ELSE Goto("stopped") /\ UNCHANGED step
  /\ prep' = None
  /\ UNCHANGED <<state, replay, curve, parentFile, marker, fixed, clock, ej, plan,
                 faults, jobs, dirVars, manifest, jobFile>>

(* Killed, or stopped, and started again under a new deadline.             *)
Restart ==
  /\ pc # "done" /\ faults < MaxFaults
  /\ Goto("begin") /\ step' = 1 /\ faults' = faults + 1
  /\ ej' = None /\ plan' = None /\ prep' = None /\ clock' = "open"
  /\ UNCHANGED <<state, replay, curve, parentFile, marker, fixed, jobs, dirVars,
                 manifest, jobFile>>

(* Time passes just before it is read: the guard only before a step.       *)
Tick ==
  /\ clock # "past"
  /\ \/ pc \in {"wait", "topwait"} /\ clock' = "past"
     \/ pc = "begin" /\ step > 1 /\ clock' \in {"closing", "past"} \ {clock}
  /\ UNCHANGED <<discoverVars, fixed, driverVars, jobs, dirVars, manifest, jobFile>>

ExecutorInit ==
  /\ DiscoverInit /\ fixed \in BOOLEAN /\ clock = "open"
  /\ pc = "begin" /\ step = 1 /\ ej = None /\ plan = None /\ faults = 0
  /\ jobs = <<>> /\ running = {}
  /\ logs = [s \in 1 .. Steps |-> {}]
  /\ summary = [s \in 1 .. Steps |-> [k \in Indices |-> None]]
  /\ manifest = [s \in 1 .. Steps |-> None]
  /\ jobFile = [s \in 1 .. Steps |-> None]

Driver ==
  \/ Begin \/ Submit \/ SubmitFails \/ Record \/ Wait \/ EnsureFixed
  \/ EnsureTarget \/ TopUpWait \/ StepPrepare \/ RunPrepare \/ Prepared

Cluster ==
  \E j \in DOMAIN jobs :
    \/ Launch(j) \/ JobEnds(j) \/ JobDies(j)
    \/ \E k \in Indices : Finish(j, k)

Next == Driver \/ Cluster \/ Restart \/ Tick

Spec == ExecutorInit /\ [][Next]_vars

-------------------------------------------------------------------------------
(* Properties.                                                             *)

TypeOK ==
  /\ fixed \in BOOLEAN /\ clock \in {"open", "closing", "past"} /\ step \in 1 .. Steps + 1
  /\ faults \in 0 .. MaxFaults /\ jobs \in Seq(JobType)
  /\ running \subseteq {j \in DOMAIN jobs : ~jobs[j].over} \X Indices
  /\ logs \in [1 .. Steps -> SUBSET Indices]
  /\ summary \in [1 .. Steps -> [Indices -> Programs \cup {Unusable, None}]]
  /\ manifest \in [1 .. Steps -> Nat \cup {None}]
  /\ jobFile \in [1 .. Steps -> (DOMAIN jobs) \cup {None}]
  /\ DOMAIN parentFile = 1 .. Steps /\ DOMAIN replay = 1 .. Steps
  /\ marker \in [1 .. Steps -> BOOLEAN]

(* No two jobs of the step cover an index, and at most one is a top-up.    *)
Plain(s) ==
  \A i, j \in StepJobs(s) : i # j =>
    /\ jobs[i].last < jobs[j].first \/ jobs[j].last < jobs[i].first
    /\ jobs[i].writes \/ jobs[j].writes

(* No job of the step was cut in a fixed batch before it had begun all.    *)
Whole(s) == fixed => \A j \in StepJobs(s) : ~jobs[j].cut

(* "A failed trajectory is charged, not silently replaced": no step is     *)
(* charged more than was launched for it, and a committed step charges     *)
(* every index launched for it, those of a top-up, of a driver that was    *)
(* killed and of a job that outlives its scancel included.  A job that was *)
(* submitted twice, and one that is cut in a fixed batch before it had     *)
(* begun all, may launch more than was charged.                            *)
LaunchesAreCharged ==
  \A b \in Range(state.batches) :
    /\ b.launched <= Launched(b.step) /\ b.launched <= K + MaxSupplement
    /\ Plain(b.step) /\ Whole(b.step) =>
         /\ b.launched = Launched(b.step) /\ b.usable <= b.launched
         /\ IF fixed THEN b.launched = K ELSE b.usable >= K

(* "Spends exactly K launched trajectories": the axis of a fixed campaign. *)
(* The code breaks it when a job was submitted twice, and when one that    *)
(* was cut goes on and launches the rest after it was counted.             *)
FixedIsExact ==
  fixed => \A b \in Range(state.batches) : b.launched = K
=============================================================================
