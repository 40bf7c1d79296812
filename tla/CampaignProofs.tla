----------------------------- MODULE CampaignProofs ----------------------------
(***************************************************************************)
(* Proofs about CampaignConfig: what a campaign file means, for any file;  *)
(* about Campaign, which it drives: the commit record, the binding of base *)
(* and program, the incumbent and the training gate; and about             *)
(* ContextCampaign, the same campaign with its feedback: what a proposer   *)
(* is told of the round before.  For any number of rounds and slots, any   *)
(* scores and any plateau.                                                 *)
(***************************************************************************)
EXTENDS ContextCampaign, Integers, FiniteSetTheorems, WellFoundedInduction, TLAPS

INSTANCE CampaignConfig

-------------------------------------------------------------------------------
(* The campaign file: the operators are not recursive, so nothing is       *)
(* assumed.                                                                *)

(* What load changes of the merged data: one switch.                       *)
LEMMA LoadedShape ==
  ASSUME NEW file
  PROVE  LET data == Merged(file)
         IN /\ Loaded(file).root = data.root
            /\ \A s \in DOMAIN Defaults \ {"sequential"} : Loaded(file).sections[s] = data.sections[s]
            /\ \A k \in DOMAIN Defaults["sequential"] \ {"enabled"} :
                 Loaded(file).sections["sequential"][k] = data.sections["sequential"][k]
            /\ Loaded(file).sections["sequential"].enabled =
                 (data.sections["sampling"].mode = "sequential" \/ data.sections["sequential"].enabled = TRUE)
<1> DEFINE data == Merged(file)
           on == data.sections["sampling"].mode = "sequential" \/ data.sections["sequential"].enabled = TRUE
<1>1. "sequential" \in DOMAIN Defaults /\ "enabled" \in DOMAIN Defaults["sequential"]
  BY DEF Defaults
<1>2. data = [root |-> data.root, sections |-> data.sections] /\ DOMAIN data.sections = DOMAIN Defaults
  BY DEF Merged
<1>3. data.sections["sequential"] =
        IF "sequential" \in DOMAIN file.sections
        THEN Over(Defaults["sequential"], file.sections["sequential"]) ELSE Defaults["sequential"]
  BY <1>1 DEF Merged
<1>4. DOMAIN data.sections["sequential"] = DOMAIN Defaults["sequential"]
  BY <1>3 DEF Over
<1>5. Loaded(file) = [data EXCEPT !.sections["sequential"].enabled = on]
  BY DEF Loaded
<1> HIDE DEF data, on
<1>6. Loaded(file).root = data.root
  BY <1>2, <1>5
<1>7. Loaded(file).sections = [data.sections EXCEPT !["sequential"].enabled = on]
  BY <1>2, <1>5
<1>8. \A s \in DOMAIN Defaults \ {"sequential"} : Loaded(file).sections[s] = data.sections[s]
  BY <1>2, <1>7
<1>9. Loaded(file).sections["sequential"] = [data.sections["sequential"] EXCEPT !.enabled = on]
  BY <1>1, <1>2, <1>7
<1>10. /\ \A k \in DOMAIN Defaults["sequential"] \ {"enabled"} :
            Loaded(file).sections["sequential"][k] = data.sections["sequential"][k]
       /\ Loaded(file).sections["sequential"].enabled = on
  BY <1>1, <1>4, <1>9
<1> QED BY <1>6, <1>8, <1>10 DEF data, on

(* Every file that loads agrees with itself and with the schema.           *)
THEOREM LoadFollowsTheFile == ASSUME NEW file PROVE FollowsTheFile(file)
<1> SUFFICES ASSUME Accepted(file), NEW s \in DOMAIN Defaults, NEW k \in DOMAIN Defaults[s],
                    <<s, k>> # <<"sequential", "enabled">>
             PROVE  Loaded(file).sections[s][k] =
                      IF s \in DOMAIN file.sections /\ k \in DOMAIN file.sections[s]
                      THEN file.sections[s][k] ELSE Defaults[s][k]
  BY DEF FollowsTheFile
<1>1. Loaded(file).sections[s][k] = Merged(file).sections[s][k]
  BY LoadedShape
<1>2. Merged(file).sections[s][k] =
        IF s \in DOMAIN file.sections /\ k \in DOMAIN file.sections[s]
        THEN file.sections[s][k] ELSE Defaults[s][k]
  BY DEF Merged, Over
<1> QED BY <1>1, <1>2

(* The worker samples one after the other exactly when the file says so.   *)
THEOREM SequentialSwitch == ASSUME NEW file PROVE SequentialIsAsked(file)
<1>1. EnvOverrides(Loaded(file)).SAH_SEQUENTIAL = Flag(Loaded(file).sections["sequential"].enabled)
  BY DEF EnvOverrides
<1>2. \A b : Flag(b) = "1" <=> b
  BY DEF Flag
<1> QED BY <1>1, <1>2, LoadedShape DEF SequentialIsAsked

(* Keys no variable carries, training.plateau_rounds among them, change    *)
(* nothing in what the campaign's scripts and workers read.                *)
THEOREM UnexportedIsUnread == ASSUME NEW f, NEW g PROVE SameEnvironment(f, g)
<1> SUFFICES ASSUME Merged(f).root.protocol = Merged(g).root.protocol,
                    \A s \in DOMAIN Defaults : \A k \in DOMAIN Defaults[s] :
                      <<s, k>> \notin Unexported => Merged(f).sections[s][k] = Merged(g).sections[s][k]
             PROVE  EnvOverrides(Loaded(f)) = EnvOverrides(Loaded(g))
  BY DEF SameEnvironment
<1> DEFINE A == Merged(f).sections
           B == Merged(g).sections
<1>1. /\ A["sampling"].K = B["sampling"].K /\ A["sampling"].mode = B["sampling"].mode
      /\ A["sampling"].max_evals = B["sampling"].max_evals
      /\ A["sampling"].eval_timeout = B["sampling"].eval_timeout
      /\ A["sampling"].eval_repeats = B["sampling"].eval_repeats
      /\ A["sampling"].min_iters = B["sampling"].min_iters
      /\ A["sampling"].force_tool_frac = B["sampling"].force_tool_frac
  BY DEF Defaults, Unexported
<1>2. /\ A["reward"].impl = B["reward"].impl /\ A["reward"].hist_lambda = B["reward"].hist_lambda
      /\ A["reward"].sharpen_alpha = B["reward"].sharpen_alpha
      /\ A["reward"].min_paired_effect = B["reward"].min_paired_effect
      /\ A["reward"].paired_repeats = B["reward"].paired_repeats
  BY DEF Defaults, Unexported
<1>3. /\ A["training"].kl_coef = B["training"].kl_coef
      /\ A["training"].num_epoch = B["training"].num_epoch
      /\ A["phi"].resume_export = B["phi"].resume_export
      /\ A["phi"].resume_ckpt = B["phi"].resume_ckpt
      /\ A["analysis"].enabled = B["analysis"].enabled
  BY DEF Defaults, Unexported
<1>4. /\ A["sequential"].enabled = B["sequential"].enabled
      /\ A["sequential"].max_shared = B["sequential"].max_shared
      /\ A["leakage_guard"].neutralize_claim_words = B["leakage_guard"].neutralize_claim_words
      /\ A["leakage_guard"].champion_isolation = B["leakage_guard"].champion_isolation
  BY DEF Defaults, Unexported
<1>5. {"sampling", "reward", "training", "phi", "analysis", "leakage_guard"}
        \subseteq DOMAIN Defaults \ {"sequential"}
      /\ "max_shared" \in DOMAIN Defaults["sequential"] \ {"enabled"}
  BY DEF Defaults
<1> DEFINE Same(x, y) ==
      /\ x.root = y.root
      /\ \A s \in {"sampling", "reward", "training", "phi", "analysis", "leakage_guard"} :
           x.sections[s] = y.sections[s]
      /\ x.sections["sequential"].max_shared = y.sections["sequential"].max_shared
<1>6. Same(Loaded(f), Merged(f)) /\ Same(Loaded(g), Merged(g))
  BY <1>5, LoadedShape
<1>7. Loaded(f).sections["sequential"].enabled = Loaded(g).sections["sequential"].enabled
  <2>1. (A["sampling"].mode = "sequential" \/ A["sequential"].enabled = TRUE)
          = (B["sampling"].mode = "sequential" \/ B["sequential"].enabled = TRUE)
    BY <1>1, <1>4
  <2>2. /\ Loaded(f).sections["sequential"].enabled
             = (A["sampling"].mode = "sequential" \/ A["sequential"].enabled = TRUE)
        /\ Loaded(g).sections["sequential"].enabled
             = (B["sampling"].mode = "sequential" \/ B["sequential"].enabled = TRUE)
    BY LoadedShape
  <2> QED BY <2>1, <2>2, Zenon
<1> HIDE DEF Same
<1>8. ASSUME NEW x PROVE Same(Loaded(x), Merged(x)) =>
        EnvOverrides(Loaded(x)) =
          [EnvOverrides(Merged(x)) EXCEPT !.SAH_SEQUENTIAL = Flag(Loaded(x).sections["sequential"].enabled)]
  BY DEF Same, EnvOverrides
<1>9. Merged(f).root.protocol = Merged(g).root.protocol
  OBVIOUS
<1>10. EnvOverrides(Merged(f)) = EnvOverrides(Merged(g))
  BY <1>1, <1>2, <1>3, <1>4, <1>9 DEF EnvOverrides
<1> QED BY <1>6, <1>7, <1>8, <1>10

-------------------------------------------------------------------------------
(* The inductive invariant.                                                *)

(* A collect in progress, at the step it has reached.                      *)
Collector ==
  [at : {"idle", "judged", "writing", "recorded", "batched", "based"},
   next : Base, entry : Entry, improved : BOOLEAN, credited : BOOLEAN]

Fresh(r) == batch[r] = "absent" /\ next_bases[r] = None /\ summary[r] = "absent"

Succeeds(e, prior) ==
  e = prior \/ (e.program \notin {None, prior.program} /\ e.score > prior.score)

Of(b, r) == b.package \in {r} \X Slots

(* Who may be running: the driver waits for the job, and a round in        *)
(* progress judges from what the driver handed it.                         *)
ControlInv ==
  /\ driver # "waiting" => JobOver
  /\ driver \in {"waiting", "collecting", "checking", "training"} => step \in Rounds
  /\ \A a \in Actors : collector[a].at # "idle" => Runs(a)
  /\ worker \in {"rolling", "collecting"} \/ driver = "collecting" => input # None
  /\ driver \in {"waiting", "collecting"} /\ input # None =>
       input.base = bases /\ input.seed = workspace

(* The files of a round appear in the order of the collect, and agree.     *)
FilesInv ==
  /\ \A r \in Rounds : r > step \/ (r = step /\ driver = "starting") => Fresh(r)
  /\ worker \in {"proposing", "rolling"} => Fresh(step)
  /\ driver = "training" => summary[step] # "absent"
  /\ \A r \in Rounds :
       /\ next_bases[r] # None => batch[r] # "absent"
       /\ Committed(r) => next_bases[r] # None
       /\ Advanced(r) => batch[r] = "credited" /\ (Committed(r) => summary[r] = "improved")
       /\ Committed(r) /\ summary[r] = "improved" /\ batch[r] = "credited" => Advanced(r)
       /\ next_bases[r] # None => \A q \in Rounds : Of(next_bases[r], q) => q <= r

(* What a collect has decided, and how far it has come.                    *)
DecidedInv(c) ==
  /\ Of(c.next, step) => c.credited /\ c.improved /\ BoundTo(bases, input.seed)
  /\ c.credited /\ c.improved => Of(c.next, step)
  /\ \A q \in Rounds : Of(c.next, q) => q <= step
  /\ BoundTo(c.next, c.entry) /\ BoundTo(bases, c.entry)
  /\ Succeeds(c.entry, workspace) /\ Succeeds(c.entry, NoEntry)
  /\ \A q \in Rounds : c.entry.program \in {q} \X Slots => q <= step

ProgressInv(c) ==
  /\ summary[step] = "absent"
  /\ c.at \in {"idle", "judged", "writing", "recorded"} => Fresh(step)
  /\ c.at \in {"batched", "based"} =>
       batch[step] = IF c.credited THEN "credited" ELSE "suppressed"
  /\ c.at = "batched" => next_bases[step] = None
  /\ c.at = "based" => next_bases[step] = c.next
  /\ c.at \in {"recorded", "batched", "based"} => registry = c.entry

CollectInv ==
  \A a \in Actors : Runs(a) =>
    /\ collector[a].at # "idle" => DecidedInv(collector[a])
    /\ ProgressInv(collector[a])

(* The registry is torn, or at least as good as what it replaces, and the  *)
(* programs come from rounds that are over or from this one's collect.     *)
RegistryInv ==
  /\ \A r \in Rounds : Of(bases, r) \/ workspace.program \in {r} \X Slots =>
                     r < step \/ (r = step /\ driver = "training")
  /\ registry # Torn =>
       /\ BoundTo(bases, registry)
       /\ Succeeds(registry, workspace) /\ Succeeds(registry, NoEntry)
       /\ \A r \in Rounds : registry.program \in {r} \X Slots => r <= step
  /\ driver \in {"waiting", "collecting", "checking"} /\ Committed(step) =>
       /\ registry # Torn /\ BoundTo(next_bases[step], registry)
       /\ Advanced(step) => BoundTo(bases, input.seed)

(* The rounds the stall counter has counted.                               *)
Counted == IF driver = "training" THEN step ELSE step - 1

StallInv ==
  /\ \A r \in phi : r < step
  /\ stall <= Counted
  /\ \A q \in (Counted - stall + 1) .. Counted : summary[q] = "flat" /\ q \notin phi
  /\ TrainingIsEarned

IInv == TypeOK /\ ControlInv /\ FilesInv /\ CollectInv /\ RegistryInv /\ StallInv

-------------------------------------------------------------------------------
(* Every action preserves it.                                              *)

USE CampaignAssumption, NoneAssumption

(* The initial state satisfies the invariant.                              *)
LEMMA InitInv == Init => IInv
<1> SUFFICES ASSUME Init PROVE IInv
  OBVIOUS
<1>1. TypeOK
  BY DEF Init, TypeOK, Base, Entry, FirstBase, NoEntry, Idle, Actors, Rounds
<1>2. ControlInv
  BY DEF Init, ControlInv, JobOver, Idle, Actors, Runs
<1>3. FilesInv
  BY DEF Init, FilesInv, Fresh, Advanced, Committed, Rounds
<1>4. CollectInv
  BY DEF Init, CollectInv, Runs, Actors
<1>5. RegistryInv
  BY DEF Init, RegistryInv, BoundTo, Succeeds, Of, Committed, FirstBase, NoEntry,
         Origin, Rounds
<1>6. StallInv
  BY DEF Init, StallInv, Counted, TrainingIsEarned, Rounds
<1> QED
  BY <1>1, <1>2, <1>3, <1>4, <1>5, <1>6 DEF IInv

(* The job reads the bases and the registry it starts from.                *)
LEMMA ProposeInv == IInv /\ Propose => IInv'
<1> SUFFICES ASSUME IInv, Propose PROVE IInv'
  OBVIOUS
<1> USE DEF IInv, Propose, driverVars, fileVars, Base, Entry
<1>1. TypeOK'
  BY DEF TypeOK, Rounds
<1>2. ControlInv'
  BY DEF TypeOK, ControlInv, JobOver, Runs, Actors
<1>3. FilesInv'
  BY DEF TypeOK, ControlInv, FilesInv, Fresh, Advanced, Committed, Of, Rounds,
         JobOver
<1>4. CollectInv'
  BY DEF TypeOK, ControlInv, FilesInv, CollectInv, DecidedInv, ProgressInv,
         Fresh, BoundTo, Succeeds, Of, Runs, JobOver, Actors, Rounds
<1>5. RegistryInv'
  BY DEF TypeOK, ControlInv, FilesInv, Fresh, RegistryInv, BoundTo, Succeeds, Of,
         Committed, Advanced, JobOver, Rounds
<1>6. StallInv'
  BY DEF TypeOK, ControlInv, StallInv, Counted, TrainingIsEarned, Committed, Advanced,
         Rounds
<1> QED
  BY <1>1, <1>2, <1>3, <1>4, <1>5, <1>6

(* A rollout ends.                                                         *)
LEMMA RolloutEndsInv == IInv /\ (\E k \in Slots, out \in Outcome : RolloutEnds(k, out)) => IInv'
<1> SUFFICES ASSUME IInv, (\E k \in Slots, out \in Outcome : RolloutEnds(k, out)) PROVE IInv'
  OBVIOUS
<1> USE DEF IInv, RolloutEnds, driverVars, fileVars
<1>1. TypeOK'
  BY DEF TypeOK, Rounds
<1>2. ControlInv'
  BY DEF TypeOK, ControlInv, JobOver, Runs, Actors
<1>3. FilesInv'
  BY DEF TypeOK, ControlInv, FilesInv, Fresh, Advanced, Committed, Of, Rounds,
         JobOver
<1>4. CollectInv'
  BY DEF TypeOK, ControlInv, FilesInv, CollectInv, DecidedInv, ProgressInv,
         Fresh, BoundTo, Succeeds, Of, Runs, JobOver, Actors, Rounds
<1>5. RegistryInv'
  BY DEF TypeOK, ControlInv, FilesInv, Fresh, RegistryInv, BoundTo, Succeeds, Of,
         Committed, Advanced, JobOver, Rounds
<1>6. StallInv'
  BY DEF TypeOK, ControlInv, StallInv, Counted, TrainingIsEarned, Committed, Advanced,
         Rounds
<1> QED
  BY <1>1, <1>2, <1>3, <1>4, <1>5, <1>6

(* A rollout fails.                                                        *)
LEMMA RolloutFailsInv == IInv /\ (\E k \in Slots : RolloutFails(k)) => IInv'
<1> SUFFICES ASSUME IInv, (\E k \in Slots : RolloutFails(k)) PROVE IInv'
  OBVIOUS
<1> USE DEF IInv, RolloutFails, driverVars, fileVars, Outcome
<1>1. TypeOK'
  BY DEF TypeOK, Rounds
<1>2. ControlInv'
  BY DEF TypeOK, ControlInv, JobOver, Runs, Actors
<1>3. FilesInv'
  BY DEF TypeOK, ControlInv, FilesInv, Fresh, Advanced, Committed, Of, Rounds,
         JobOver
<1>4. CollectInv'
  BY DEF TypeOK, ControlInv, FilesInv, CollectInv, DecidedInv, ProgressInv,
         Fresh, BoundTo, Succeeds, Of, Runs, JobOver, Actors, Rounds
<1>5. RegistryInv'
  BY DEF TypeOK, ControlInv, FilesInv, Fresh, RegistryInv, BoundTo, Succeeds, Of,
         Committed, Advanced, JobOver, Rounds
<1>6. StallInv'
  BY DEF TypeOK, ControlInv, StallInv, Counted, TrainingIsEarned, Committed, Advanced,
         Rounds
<1> QED
  BY <1>1, <1>2, <1>3, <1>4, <1>5, <1>6

(* The pool is drained.                                                    *)
LEMMA RolloutsFinishInv == IInv /\ RolloutsFinish => IInv'
<1> SUFFICES ASSUME IInv, RolloutsFinish PROVE IInv'
  OBVIOUS
<1> USE DEF IInv, RolloutsFinish, driverVars, fileVars
<1>1. TypeOK'
  BY DEF TypeOK, ControlInv, JobOver, Rounds
<1>2. ControlInv'
  BY DEF TypeOK, ControlInv, JobOver, Runs, Actors
<1>3. FilesInv'
  BY DEF TypeOK, ControlInv, FilesInv, Fresh, Advanced, Committed, Of, Rounds,
         JobOver
<1>4. CollectInv'
  BY DEF TypeOK, ControlInv, FilesInv, CollectInv, DecidedInv, ProgressInv,
         Fresh, BoundTo, Succeeds, Of, Runs, JobOver, Actors, Rounds
<1>5. RegistryInv'
  BY DEF TypeOK, ControlInv, FilesInv, Fresh, RegistryInv, BoundTo, Succeeds, Of,
         Committed, Advanced, JobOver, Rounds
<1>6. StallInv'
  BY DEF TypeOK, ControlInv, StallInv, Counted, TrainingIsEarned, Committed, Advanced,
         Rounds
<1> QED
  BY <1>1, <1>2, <1>3, <1>4, <1>5, <1>6

(* The job is killed.                                                      *)
LEMMA JobKilledInv == IInv /\ JobKilled => IInv'
<1> SUFFICES ASSUME IInv, JobKilled PROVE IInv'
  OBVIOUS
<1> USE DEF IInv, JobKilled, driverVars, fileVars, Idle, FirstBase, NoEntry, Base, Entry
<1>1. TypeOK'
  BY DEF TypeOK, Rounds
<1>2. ControlInv'
  BY DEF TypeOK, ControlInv, JobOver, Runs, Actors
<1>3. FilesInv'
  BY DEF TypeOK, ControlInv, FilesInv, Fresh, Advanced, Committed, Of, Rounds,
         JobOver
<1>4. CollectInv'
  BY DEF TypeOK, ControlInv, FilesInv, CollectInv, DecidedInv, ProgressInv,
         Fresh, BoundTo, Succeeds, Of, Runs, JobOver, Actors, Rounds
<1>5. RegistryInv'
  BY DEF TypeOK, ControlInv, FilesInv, Fresh, RegistryInv, BoundTo, Succeeds, Of,
         Committed, Advanced, JobOver, Rounds
<1>6. StallInv'
  BY DEF TypeOK, ControlInv, StallInv, Counted, TrainingIsEarned, Committed, Advanced,
         Rounds
<1> QED
  BY <1>1, <1>2, <1>3, <1>4, <1>5, <1>6

(* A round is submitted.                                                   *)
LEMMA SubmitInv == IInv /\ Submit => IInv'
<1> SUFFICES ASSUME IInv, Submit PROVE IInv'
  OBVIOUS
<1> USE DEF IInv, Submit, workerVars, fileVars
<1>1. TypeOK'
  BY DEF TypeOK, Rounds
<1>2. ControlInv'
  BY DEF TypeOK, ControlInv, JobOver, Runs, Actors
<1>3. FilesInv'
  BY DEF TypeOK, ControlInv, FilesInv, Fresh, Advanced, Committed, Of, Rounds,
         JobOver
<1>4. CollectInv'
  BY DEF TypeOK, ControlInv, FilesInv, CollectInv, DecidedInv, ProgressInv,
         Fresh, BoundTo, Succeeds, Of, Runs, JobOver, Actors, Rounds
<1>5. RegistryInv'
  BY DEF TypeOK, ControlInv, FilesInv, Fresh, RegistryInv, BoundTo, Succeeds,
         Committed
<1>6. StallInv'
  BY DEF TypeOK, ControlInv, StallInv, Counted, TrainingIsEarned, Committed, Advanced,
         Rounds
<1> QED
  BY <1>1, <1>2, <1>3, <1>4, <1>5, <1>6

(* The campaign ends.                                                      *)
LEMMA EndCampaignInv == IInv /\ EndCampaign => IInv'
<1> SUFFICES ASSUME IInv, EndCampaign PROVE IInv'
  OBVIOUS
<1> USE DEF IInv, EndCampaign, workerVars, fileVars
<1>1. TypeOK'
  BY DEF TypeOK, Rounds
<1>2. ControlInv'
  BY DEF TypeOK, ControlInv, JobOver, Runs, Actors
<1>3. FilesInv'
  BY DEF TypeOK, ControlInv, FilesInv, Fresh, Advanced, Committed, Of, Rounds,
         JobOver
<1>4. CollectInv'
  BY DEF TypeOK, ControlInv, FilesInv, CollectInv, DecidedInv, ProgressInv,
         Fresh, BoundTo, Succeeds, Of, Runs, JobOver, Actors, Rounds
<1>5. RegistryInv'
  BY DEF TypeOK, ControlInv, FilesInv, Fresh, RegistryInv, BoundTo, Succeeds, Of,
         Committed, Advanced, JobOver, Rounds
<1>6. StallInv'
  BY DEF TypeOK, ControlInv, StallInv, Counted, TrainingIsEarned, Committed, Advanced,
         Rounds
<1> QED
  BY <1>1, <1>2, <1>3, <1>4, <1>5, <1>6

(* The job is over.                                                        *)
LEMMA WaitJobInv == IInv /\ WaitJob => IInv'
<1> SUFFICES ASSUME IInv, WaitJob PROVE IInv'
  OBVIOUS
<1> USE DEF IInv, WaitJob, workerVars, fileVars, AfterJob
<1>1. TypeOK'
  BY DEF TypeOK, Rounds
<1>2. ControlInv'
  BY DEF TypeOK, ControlInv, JobOver, Runs, Actors
<1>3. FilesInv'
  BY DEF TypeOK, ControlInv, FilesInv, Fresh, Advanced, Committed, Of, Rounds,
         JobOver
<1>4. CollectInv'
  <2>1. ~Runs("worker")' /\ (Runs("driver")' => Fresh(step)')
    BY DEF TypeOK, ControlInv, FilesInv, Fresh, Committed, Runs, JobOver,
           Rounds
  <2>2. collector'["driver"].at = "idle"
    BY DEF ControlInv, Actors, Runs
  <2> QED
    BY <2>1, <2>2 DEF CollectInv, ProgressInv, Fresh, Actors
<1>5. RegistryInv'
  BY DEF TypeOK, ControlInv, FilesInv, Fresh, RegistryInv, BoundTo, Succeeds, Of,
         Committed, Advanced, JobOver, Rounds
<1>6. StallInv'
  BY DEF TypeOK, ControlInv, StallInv, Counted, TrainingIsEarned, Committed, Advanced,
         Rounds
<1> QED
  BY <1>1, <1>2, <1>3, <1>4, <1>5, <1>6

(* A round did not commit.                                                 *)
LEMMA NoSummaryInv == IInv /\ NoSummary => IInv'
<1> SUFFICES ASSUME IInv, NoSummary PROVE IInv'
  OBVIOUS
<1> USE DEF IInv, NoSummary, workerVars, fileVars
<1>1. TypeOK'
  BY DEF TypeOK, Rounds
<1>2. ControlInv'
  BY DEF TypeOK, ControlInv, JobOver, Runs, Actors
<1>3. FilesInv'
  BY DEF TypeOK, ControlInv, FilesInv, Fresh, Advanced, Committed, Of, Rounds,
         JobOver
<1>4. CollectInv'
  BY DEF TypeOK, ControlInv, FilesInv, CollectInv, DecidedInv, ProgressInv,
         Fresh, BoundTo, Succeeds, Of, Runs, JobOver, Actors, Rounds
<1>5. RegistryInv'
  BY DEF TypeOK, ControlInv, FilesInv, Fresh, RegistryInv, BoundTo, Succeeds, Of,
         Committed, Advanced, JobOver, Rounds
<1>6. StallInv'
  BY DEF TypeOK, ControlInv, StallInv, Counted, TrainingIsEarned, Committed, Advanced,
         Rounds
<1> QED
  BY <1>1, <1>2, <1>3, <1>4, <1>5, <1>6

(* A committed round is sanitized and inherited.                           *)
LEMMA InheritInv == IInv /\ Inherit => IInv'
<1> SUFFICES ASSUME IInv, Inherit PROVE IInv'
  OBVIOUS
<1> USE DEF IInv, Inherit, workerVars
<1>a. /\ step \in Rounds /\ registry \in Entry /\ registry # Torn
      /\ NoEntry \in Entry
  BY DEF TypeOK, ControlInv, RegistryInv, Committed, Entry, NoEntry
<1>b. workspace' \in {registry, workspace, NoEntry}
  BY DEF Handed
<1>c. /\ batch' \in [Rounds -> {"absent", "credited", "suppressed", "restored"}]
      /\ \A r \in Rounds : batch'[r] # batch[r] =>
           batch[r] = "suppressed" /\ batch'[r] = "restored"
  BY <1>a DEF SanitizedBatch, TypeOK
<1> HIDE DEF Inherit
<1>d. /\ driver = "checking" /\ summary[step] # "absent" /\ driver' = "training"
      /\ bases' = next_bases[step]
      /\ stall' = IF summary[step] = "improved" THEN 0 ELSE stall + 1
      /\ UNCHANGED <<step, phi, workerVars, collector, registry, next_bases, summary>>
  BY DEF Inherit
<1>1. TypeOK'
  BY <1>a, <1>b, <1>c, <1>d DEF TypeOK, ControlInv, FilesInv, Committed, Rounds
<1>2. ControlInv'
  BY <1>d DEF TypeOK, ControlInv, JobOver, Runs, Actors
<1>3. FilesInv'
  BY <1>a, <1>c, <1>d DEF TypeOK, ControlInv, FilesInv, Fresh, Advanced, Committed, Of, Rounds,
         JobOver
<1>4. CollectInv'
  BY <1>d DEF TypeOK, ControlInv, CollectInv, Runs, JobOver, Actors
<1>5. RegistryInv'
  BY <1>a, <1>b, <1>d DEF TypeOK, ControlInv, FilesInv, RegistryInv, BoundTo, Succeeds, Of,
         Committed, Rounds, NoEntry, Entry, Origin
<1>6. StallInv'
  <2>1. /\ stall \in Nat /\ phi \subseteq Rounds
        /\ summary[step] \in {"improved", "flat"} /\ Counted = step - 1 /\ Counted' = step
    BY <1>a, <1>d DEF TypeOK, Counted, Rounds
  <2>2. \A r \in Rounds : batch[r] = "restored" => batch'[r] = "restored"
    BY <1>c
  <2>3. TrainingIsEarned'
    BY <1>d, <2>1, <2>2 DEF StallInv, TrainingIsEarned, Committed, Advanced
  <2> QED
    BY <1>a, <1>d, <2>1, <2>3 DEF StallInv, Rounds
<1> QED
  BY <1>1, <1>2, <1>3, <1>4, <1>5, <1>6

(* The gate is closed.                                                     *)
LEMMA SkipTrainingInv == IInv /\ SkipTraining => IInv'
<1> SUFFICES ASSUME IInv, SkipTraining PROVE IInv'
  OBVIOUS
<1> USE DEF IInv, SkipTraining, workerVars, fileVars
<1>1. TypeOK'
  BY DEF TypeOK, ControlInv, Rounds
<1>2. ControlInv'
  BY DEF TypeOK, ControlInv, JobOver, Runs, Actors
<1>3. FilesInv'
  BY DEF TypeOK, ControlInv, FilesInv, Fresh, Advanced, Committed, Of, Rounds,
         JobOver
<1>4. CollectInv'
  BY DEF TypeOK, ControlInv, FilesInv, CollectInv, DecidedInv, ProgressInv,
         Fresh, BoundTo, Succeeds, Of, Runs, JobOver, Actors, Rounds
<1>5. RegistryInv'
  BY DEF TypeOK, ControlInv, FilesInv, Fresh, RegistryInv, BoundTo, Succeeds, Of,
         Committed, Advanced, JobOver, Rounds
<1>6. StallInv'
  BY DEF TypeOK, ControlInv, StallInv, Counted, TrainingIsEarned, Committed, Advanced,
         Rounds
<1> QED
  BY <1>1, <1>2, <1>3, <1>4, <1>5, <1>6

(* The proposer is trained.                                                *)
LEMMA TrainInv == IInv /\ (\E merged \in BOOLEAN : Train(merged)) => IInv'
<1> SUFFICES ASSUME IInv, (\E merged \in BOOLEAN : Train(merged)) PROVE IInv'
  OBVIOUS
<1> USE DEF IInv, Train, PlateauGate, workerVars, fileVars
<1>1. TypeOK'
  BY DEF TypeOK, ControlInv, Rounds
<1>2. ControlInv'
  BY DEF TypeOK, ControlInv, JobOver, Runs, Actors
<1>3. FilesInv'
  BY DEF TypeOK, ControlInv, FilesInv, Fresh, Advanced, Committed, Of, Rounds,
         JobOver
<1>4. CollectInv'
  BY DEF TypeOK, ControlInv, FilesInv, CollectInv, DecidedInv, ProgressInv,
         Fresh, BoundTo, Succeeds, Of, Runs, JobOver, Actors, Rounds
<1>5. RegistryInv'
  <2>1. /\ step \in Nat /\ driver = "training" /\ driver' = "starting" /\ step' = step + 1
        /\ UNCHANGED <<bases, workspace, registry>>
    BY DEF TypeOK, Rounds
  <2> QED
    BY <2>1 DEF RegistryInv, BoundTo, Succeeds, Of, Rounds, NoEntry
<1>6. StallInv'
  <2>1. PICK merged \in BOOLEAN : Train(merged)
    OBVIOUS
  <2>2. /\ step \in Nat /\ stall \in Nat /\ phi \subseteq Rounds /\ PlateauRounds \in Nat
        /\ stall <= step /\ TrainingIsEarned
        /\ \A r \in phi : r < step
        /\ \A q \in (step - stall + 1) .. step : summary[q] = "flat" /\ q \notin phi
    BY DEF TypeOK, StallInv, Counted
  <2>3. stall' = 0 /\ Counted' = step /\ step' = step + 1 /\ phi' \subseteq phi \cup {step}
    BY <2>1, <2>2 DEF Counted
  <2>4. summary' = summary /\ batch' = batch /\ next_bases' = next_bases
    BY <2>1
  <2>5. /\ summary[step] # "absent"
        /\ summary[step] = "improved" => Advanced(step) \/ batch[step] = "restored"
        /\ summary[step] = "flat" => stall >= PlateauRounds
    BY <2>1 DEF FilesInv, Committed, TypeOK, ControlInv, Rounds
  <2>6. TrainingIsEarned'
    <3> SUFFICES ASSUME NEW r \in phi'
                 PROVE  /\ summary[r] # "absent"
                        /\ summary[r] = "improved" => Advanced(r) \/ batch[r] = "restored"
                        /\ summary[r] = "flat" =>
                             /\ r >= PlateauRounds
                             /\ \A q \in (r - PlateauRounds + 1) .. (r - 1) :
                                  summary[q] = "flat" /\ q \notin phi'
      BY <2>4 DEF TrainingIsEarned, Committed, Advanced
    <3>1. CASE r \in phi
      <4>1. \A q \in (r - PlateauRounds + 1) .. (r - 1) : q # step
        BY <2>2, <3>1 DEF Rounds
      <4> QED
        BY <2>2, <2>3, <3>1, <4>1 DEF TrainingIsEarned, Committed
    <3>2. CASE r = step
      <4>1. summary[r] = "flat" => \A q \in (r - PlateauRounds + 1) .. (r - 1) :
                                     q \in (step - stall + 1) .. step /\ q # step
        BY <2>2, <2>5, <3>2
      <4> QED
        BY <2>2, <2>3, <2>5, <3>2, <4>1
    <3> QED
      BY <2>3, <3>1, <3>2
  <2>7. \A r \in phi' : r < step'
    BY <2>2, <2>3 DEF Rounds
  <2>8. /\ stall' <= Counted'
        /\ \A q \in (Counted' - stall' + 1) .. Counted' : FALSE
    BY <2>2, <2>3
  <2> QED
    BY <2>6, <2>7, <2>8 DEF StallInv
<1> QED
  BY <1>1, <1>2, <1>3, <1>4, <1>5, <1>6

(* Only one collect runs, the driver's after the job is over, and judges   *)
(* by what the driver handed to the job.                                   *)
LEMMA Alone ==
  ASSUME IInv, NEW a \in Actors, Runs(a)
  PROVE  /\ \A b \in Actors \ {a} : ~Runs(b)
         /\ driver \in {"waiting", "collecting"} /\ step \in Rounds
         /\ a = "driver" => JobOver
         /\ input # None /\ input.base = bases /\ input.seed = workspace
  BY DEF IInv, TypeOK, ControlInv, Runs, Actors, JobOver

(* What a collect decides from a whole registry: a promotion advances base *)
(* and entry together, and without one both stay.                          *)
LEMMA JudgeDecides ==
  ASSUME IInv, NEW a \in Actors, Runs(a), registry # Torn, NEW where,
         NEW c, c = [at |-> where, next |-> NextBase(registry), entry |-> NextEntry(registry),
                     improved |-> \E k \in Slots : Improves(k), credited |-> Credited(registry)]
  PROVE  c.next \in Base /\ c.entry \in Entry /\ DecidedInv(c)
<1>1. /\ driver \in {"waiting", "collecting"} /\ step \in Rounds
      /\ input.base = bases /\ input.seed = workspace
  BY Alone
<1>2. /\ bases \in Base /\ registry \in Entry /\ workspace \in Entry
      /\ rows \in [Slots -> Outcome \cup {None}]
  BY DEF IInv, TypeOK
<1>3. /\ BoundTo(bases, registry) /\ Succeeds(registry, workspace) /\ Succeeds(registry, NoEntry)
      /\ \A r \in Rounds : Of(bases, r) \/ workspace.program \in {r} \X Slots => r < step
      /\ \A r \in Rounds : registry.program \in {r} \X Slots => r <= step
  BY <1>1 DEF IInv, RegistryInv
<1>4. CASE \E k \in Slots : Promotes(k, registry)
  <2> DEFINE k == CHOOSE j \in Slots : Promotes(j, registry)
  <2>1. k \in Slots /\ Promotes(k, registry)
    BY <1>4
  <2>2. c.next = [package |-> <<step, k>>, score |-> rows[k].score]
        /\ c.entry = [program |-> <<step, k>>, score |-> rows[k].score]
    BY <1>4 DEF NextBase, NextEntry, Candidate
  <2>3. c.improved /\ c.credited
    BY <1>4, <2>1 DEF Promotes, Credited
  <2> HIDE DEF k
  <2>4. rows[k].score \in Nat /\ rows[k].score > registry.score /\ rows[k].score > bases.score
    BY <1>1, <1>2, <2>1 DEF Promotes, Improves, IsBest, Scored, Outcome
  <2>5. <<step, k>> \in Origin /\ <<step, k>> # None
    BY <1>1, <2>1 DEF Origin
  <2>6. c.next \in Base /\ c.entry \in Entry
    BY <2>2, <2>4, <2>5 DEF Base, Entry
  <2>7. Of(c.next, step) /\ \A q \in Rounds : Of(c.next, q) => q <= step
    BY <1>1, <2>1, <2>2 DEF Of, Rounds
  <2>8. BoundTo(c.next, c.entry) /\ BoundTo(bases, c.entry)
    BY <2>2, <2>4, <2>5 DEF BoundTo
  <2>9. Succeeds(c.entry, workspace) /\ Succeeds(c.entry, NoEntry)
    <3>1. workspace.program # <<step, k>>
      BY <1>1, <1>3, <2>1 DEF Rounds
    <3>2. /\ registry.score \in Nat /\ workspace.score \in Nat
          /\ registry.score >= workspace.score
      BY <1>2, <1>3 DEF Succeeds, Entry
    <3> QED
      BY <2>2, <2>4, <2>5, <3>1, <3>2 DEF Succeeds, NoEntry
  <2>10. BoundTo(bases, input.seed)
    BY <1>1, <1>3, <2>1 DEF Promotes, Succeeds
  <2>11. \A q \in Rounds : c.entry.program \in {q} \X Slots => q <= step
    BY <1>1, <2>2 DEF Rounds
  <2> QED
    BY <2>3, <2>6, <2>7, <2>8, <2>9, <2>10, <2>11 DEF DecidedInv
<1>5. CASE ~\E k \in Slots : Promotes(k, registry)
  <2>1. c.next = bases /\ c.entry = registry /\ ~(c.credited /\ c.improved)
    BY <1>1, <1>5 DEF NextBase, NextEntry, Credited
  <2> QED
    BY <1>1, <1>2, <1>3, <2>1 DEF DecidedInv, Rounds, Base
<1> QED
  BY <1>4, <1>5

(* Where a step of a collect leaves the other actor and the driver.        *)
StepOf(a, c) ==
  /\ ControlInv' /\ collector' \in [Actors -> Collector]
  /\ worker' \in {"none", "proposing", "rolling", "collecting", "done", "refused", "dead"}
  /\ driver' \in {"starting", "waiting", "collecting", "checking", "training", "over"}
  /\ collector'[a] = c
  /\ \A b \in Actors : Runs(b)' => b = a /\ UNCHANGED <<worker, driver>>
  /\ driver' \in {"waiting", "collecting", "checking"} /\ driver \in {"waiting", "collecting"}
  /\ worker' \notin {"proposing", "rolling"}
  /\ Counted' = Counted /\ step \in Rounds

(* It leaves them there.                                                   *)
LEMMA StepOfCollect ==
  ASSUME IInv, NEW a \in Actors, Runs(a), UNCHANGED unchangedByCollect,
         NEW c \in Collector, collector' = [collector EXCEPT ![a] = c],
         \/ UNCHANGED <<worker, driver>>
         \/ /\ c.at = "idle"
            /\ \/ a = "worker" /\ worker' = "done" /\ driver' = driver
               \/ a = "driver" /\ driver' = "checking" /\ worker' = worker
  PROVE  StepOf(a, c)
<1> USE DEF unchangedByCollect
<1>1. /\ \A b \in Actors \ {a} : ~Runs(b)
      /\ driver \in {"waiting", "collecting"} /\ step \in Rounds
      /\ a = "driver" => JobOver
      /\ input # None /\ input.base = bases /\ input.seed = workspace
  BY Alone
<1>2. /\ worker \in {"none", "proposing", "rolling", "collecting", "done", "refused", "dead"}
      /\ collector \in [Actors -> Collector]
  BY DEF IInv, TypeOK, Collector
<1>3. collector' \in [Actors -> Collector] /\ collector'[a] = c
  BY <1>2
<1>4. ControlInv'
  BY <1>1, <1>2 DEF IInv, ControlInv, Runs, JobOver, Actors
<1>5. \A b \in Actors : Runs(b)' => b = a /\ UNCHANGED <<worker, driver>>
  BY <1>1, <1>2 DEF Runs, Actors
<1>6. worker' \notin {"proposing", "rolling"}
  BY <1>1, <1>2 DEF Runs, Actors, JobOver
<1> QED
  BY <1>1, <1>2, <1>3, <1>4, <1>5, <1>6 DEF Counted, StepOf

(* The registry is opened for writing.                                     *)
LEMMA OpenRegistryInv == ASSUME IInv, NEW a \in Actors, OpenRegistry(a) PROVE IInv'
<1> DEFINE c == [collector[a] EXCEPT !.at = "writing"]
<1> USE DEF At
<1>1. Runs(a) /\ collector[a].at = "judged" /\ UNCHANGED unchangedByCollect
      /\ collector' = [collector EXCEPT ![a] = c]
  BY DEF OpenRegistry, Goto, Leave, unchangedByCollect, IInv, TypeOK
<1>2. /\ c \in Collector
      /\ DecidedInv(collector[a]) /\ ProgressInv(collector[a])
  BY <1>1
     DEF IInv, TypeOK, CollectInv, Collector, Idle, FirstBase, NoEntry,
         Base, Entry
<1>3. StepOf(a, c)
  <2> HIDE DEF c
  <2>1. UNCHANGED <<worker, driver>>
    BY DEF OpenRegistry, Goto
  <2> QED
    BY <1>1, <1>2, <2>1, StepOfCollect
<1> HIDE DEF c
<1> USE DEF StepOf, OpenRegistry, unchangedByCollect
<1>4. TypeOK'
  BY <1>1, <1>2, <1>3 DEF IInv, TypeOK, Collector
<1>5. FilesInv'
  BY <1>1, <1>2, <1>3
     DEF IInv, TypeOK, FilesInv, DecidedInv, ProgressInv, Fresh, Advanced,
         Committed, Of, Rounds
<1>6. CollectInv'
  <2>1. DecidedInv(collector[a])'
    BY <1>1, <1>2, <1>3 DEF c, DecidedInv, BoundTo, Succeeds, Of
  <2>2. ProgressInv(collector[a])'
    BY <1>1, <1>2, <1>3 DEF c, IInv, TypeOK, ProgressInv, Fresh
  <2> QED
    BY <1>3, <2>1, <2>2 DEF CollectInv
<1>7. RegistryInv'
  BY <1>1, <1>2, <1>3
     DEF IInv, TypeOK, RegistryInv, DecidedInv, ProgressInv, BoundTo,
         Succeeds, Of, Committed, Advanced, Rounds
<1>8. StallInv'
  BY <1>1, <1>2, <1>3
     DEF IInv, TypeOK, StallInv, TrainingIsEarned, ProgressInv, Committed, Advanced,
         Rounds
<1> QED
  BY <1>3, <1>4, <1>5, <1>6, <1>7, <1>8 DEF IInv

(* The registry is written.                                                *)
LEMMA WriteRegistryInv == ASSUME IInv, NEW a \in Actors, WriteRegistry(a) PROVE IInv'
<1> DEFINE c == [collector[a] EXCEPT !.at = "recorded"]
<1> USE DEF At
<1>1. Runs(a) /\ collector[a].at = "writing" /\ UNCHANGED unchangedByCollect
      /\ collector' = [collector EXCEPT ![a] = c]
  BY DEF WriteRegistry, Goto, Leave, unchangedByCollect, IInv, TypeOK
<1>2. /\ c \in Collector
      /\ DecidedInv(collector[a]) /\ ProgressInv(collector[a])
  BY <1>1
     DEF IInv, TypeOK, CollectInv, Collector, Idle, FirstBase, NoEntry,
         Base, Entry
<1>3. StepOf(a, c)
  <2> HIDE DEF c
  <2>1. UNCHANGED <<worker, driver>>
    BY DEF WriteRegistry, Goto
  <2> QED
    BY <1>1, <1>2, <2>1, StepOfCollect
<1> HIDE DEF c
<1> USE DEF StepOf, WriteRegistry, unchangedByCollect
<1>4. TypeOK'
  BY <1>1, <1>2, <1>3 DEF IInv, TypeOK, Collector
<1>5. FilesInv'
  BY <1>1, <1>2, <1>3
     DEF IInv, TypeOK, FilesInv, DecidedInv, ProgressInv, Fresh, Advanced,
         Committed, Of, Rounds
<1>6. CollectInv'
  <2>1. DecidedInv(collector[a])'
    BY <1>1, <1>2, <1>3 DEF c, DecidedInv, BoundTo, Succeeds, Of
  <2>2. ProgressInv(collector[a])'
    BY <1>1, <1>2, <1>3 DEF c, IInv, TypeOK, ProgressInv, Fresh
  <2> QED
    BY <1>3, <2>1, <2>2 DEF CollectInv
<1>7. RegistryInv'
  BY <1>1, <1>2, <1>3
     DEF IInv, TypeOK, RegistryInv, DecidedInv, ProgressInv, BoundTo,
         Succeeds, Of, Committed, Advanced, Rounds
<1>8. StallInv'
  BY <1>1, <1>2, <1>3
     DEF IInv, TypeOK, StallInv, TrainingIsEarned, ProgressInv, Committed, Advanced,
         Rounds
<1> QED
  BY <1>3, <1>4, <1>5, <1>6, <1>7, <1>8 DEF IInv

(* The batch is written.                                                   *)
LEMMA WriteBatchInv == ASSUME IInv, NEW a \in Actors, WriteBatch(a) PROVE IInv'
<1> DEFINE c == [collector[a] EXCEPT !.at = "batched"]
<1> USE DEF At
<1>1. Runs(a) /\ collector[a].at = "recorded" /\ UNCHANGED unchangedByCollect
      /\ collector' = [collector EXCEPT ![a] = c]
  BY DEF WriteBatch, Goto, Leave, unchangedByCollect, IInv, TypeOK
<1>2. /\ c \in Collector
      /\ DecidedInv(collector[a]) /\ ProgressInv(collector[a])
  BY <1>1
     DEF IInv, TypeOK, CollectInv, Collector, Idle, FirstBase, NoEntry,
         Base, Entry
<1>3. StepOf(a, c)
  <2> HIDE DEF c
  <2>1. UNCHANGED <<worker, driver>>
    BY DEF WriteBatch, Goto
  <2> QED
    BY <1>1, <1>2, <2>1, StepOfCollect
<1> HIDE DEF c
<1> USE DEF StepOf, WriteBatch, unchangedByCollect
<1>4. TypeOK'
  BY <1>1, <1>2, <1>3 DEF IInv, TypeOK, Collector
<1>5. FilesInv'
  BY <1>1, <1>2, <1>3
     DEF IInv, TypeOK, FilesInv, DecidedInv, ProgressInv, Fresh, Advanced,
         Committed, Of, Rounds
<1>6. CollectInv'
  <2>1. DecidedInv(collector[a])'
    BY <1>1, <1>2, <1>3 DEF c, DecidedInv, BoundTo, Succeeds, Of
  <2>2. ProgressInv(collector[a])'
    BY <1>1, <1>2, <1>3 DEF c, IInv, TypeOK, ProgressInv, Fresh
  <2> QED
    BY <1>3, <2>1, <2>2 DEF CollectInv
<1>7. RegistryInv'
  BY <1>1, <1>2, <1>3
     DEF IInv, TypeOK, RegistryInv, DecidedInv, ProgressInv, BoundTo,
         Succeeds, Of, Committed, Advanced, Rounds
<1>8. StallInv'
  BY <1>1, <1>2, <1>3
     DEF IInv, TypeOK, StallInv, TrainingIsEarned, ProgressInv, Committed, Advanced,
         Rounds
<1> QED
  BY <1>3, <1>4, <1>5, <1>6, <1>7, <1>8 DEF IInv

(* The bases are written.                                                  *)
LEMMA WriteNextBasesInv == ASSUME IInv, NEW a \in Actors, WriteNextBases(a) PROVE IInv'
<1> DEFINE c == [collector[a] EXCEPT !.at = "based"]
<1> USE DEF At
<1>1. Runs(a) /\ collector[a].at = "batched" /\ UNCHANGED unchangedByCollect
      /\ collector' = [collector EXCEPT ![a] = c]
  BY DEF WriteNextBases, Goto, Leave, unchangedByCollect, IInv, TypeOK
<1>2. /\ c \in Collector
      /\ DecidedInv(collector[a]) /\ ProgressInv(collector[a])
  BY <1>1
     DEF IInv, TypeOK, CollectInv, Collector, Idle, FirstBase, NoEntry,
         Base, Entry
<1>3. StepOf(a, c)
  <2> HIDE DEF c
  <2>1. UNCHANGED <<worker, driver>>
    BY DEF WriteNextBases, Goto
  <2> QED
    BY <1>1, <1>2, <2>1, StepOfCollect
<1> HIDE DEF c
<1> USE DEF StepOf, WriteNextBases, unchangedByCollect
<1>4. TypeOK'
  BY <1>1, <1>2, <1>3 DEF IInv, TypeOK, Collector
<1>5. FilesInv'
  BY <1>1, <1>2, <1>3
     DEF IInv, TypeOK, FilesInv, DecidedInv, ProgressInv, Fresh, Advanced,
         Committed, Of, Rounds
<1>6. CollectInv'
  <2>1. DecidedInv(collector[a])'
    BY <1>1, <1>2, <1>3 DEF c, DecidedInv, BoundTo, Succeeds, Of
  <2>2. ProgressInv(collector[a])'
    BY <1>1, <1>2, <1>3 DEF c, IInv, TypeOK, ProgressInv, Fresh
  <2> QED
    BY <1>3, <2>1, <2>2 DEF CollectInv
<1>7. RegistryInv'
  BY <1>1, <1>2, <1>3
     DEF IInv, TypeOK, RegistryInv, DecidedInv, ProgressInv, BoundTo,
         Succeeds, Of, Committed, Advanced, Rounds
<1>8. StallInv'
  BY <1>1, <1>2, <1>3
     DEF IInv, TypeOK, StallInv, TrainingIsEarned, ProgressInv, Committed, Advanced,
         Rounds
<1> QED
  BY <1>3, <1>4, <1>5, <1>6, <1>7, <1>8 DEF IInv

(* The commit record is written and the collect is over.                   *)
LEMMA WriteSummaryInv == ASSUME IInv, NEW a \in Actors, WriteSummary(a) PROVE IInv'
<1> USE DEF At
<1>1. Runs(a) /\ collector[a].at = "based" /\ UNCHANGED unchangedByCollect /\ Leave(a)
  BY DEF WriteSummary
<1>2. Idle \in Collector /\ DecidedInv(collector[a]) /\ ProgressInv(collector[a])
  BY <1>1
     DEF IInv, TypeOK, CollectInv, Collector, Idle, FirstBase, NoEntry,
         Base, Entry
<1>3. StepOf(a, Idle)
  BY <1>1, <1>2, StepOfCollect DEF Leave, Actors, Idle
<1> USE DEF WriteSummary, StepOf, unchangedByCollect
<1>4. TypeOK'
  BY <1>1, <1>2, <1>3 DEF IInv, TypeOK, Collector
<1>5. collector[a].next \in Base /\ collector[a].next # None /\ registry # Torn
  BY <1>1, <1>2 DEF IInv, TypeOK, ProgressInv
<1>6. FilesInv'
  BY <1>1, <1>2, <1>3, <1>5
     DEF IInv, TypeOK, FilesInv, DecidedInv, ProgressInv, Fresh, Advanced,
         Committed, Of, Rounds
<1>7. CollectInv'
  BY <1>1, <1>3 DEF CollectInv, Leave, Runs, Actors
<1>8. RegistryInv'
  BY <1>1, <1>2, <1>3, <1>5
     DEF IInv, TypeOK, RegistryInv, DecidedInv, ProgressInv, BoundTo,
         Succeeds, Of, Committed, Advanced, Rounds
<1>9. StallInv'
  BY <1>1, <1>2, <1>3
     DEF IInv, TypeOK, StallInv, TrainingIsEarned, ProgressInv, Committed, Advanced,
         Rounds
<1> QED
  BY <1>3, <1>4, <1>6, <1>7, <1>8, <1>9 DEF IInv

(* A round is judged, or its registry cannot be read and the collect ends. *)
LEMMA JudgeInv == ASSUME IInv, NEW a \in Actors, Judge(a) PROVE IInv'
<1> DEFINE c == [at |-> "judged", next |-> NextBase(registry), entry |-> NextEntry(registry),
                 improved |-> \E k \in Slots : Improves(k), credited |-> Credited(registry)]
           d == IF registry = Torn THEN Idle ELSE c
<1>1. /\ Runs(a) /\ collector[a].at = "idle" /\ UNCHANGED unchangedByCollect /\ UNCHANGED fileVars
      /\ registry = Torn => Leave(a)
      /\ registry # Torn => collector' = [collector EXCEPT ![a] = c] /\ UNCHANGED <<worker, driver>>
  BY DEF Judge, At, Readable
<1>2. d \in Collector /\ (registry # Torn => DecidedInv(c)) /\ ProgressInv(collector[a])
  <2>1. ProgressInv(collector[a]) /\ Idle \in Collector
    BY <1>1
       DEF IInv, CollectInv, Collector, Idle, FirstBase, NoEntry, Base,
           Entry
  <2>2. CASE registry # Torn
    <3>1. c.next \in Base /\ c.entry \in Entry /\ DecidedInv(c)
      BY <1>1, <2>2, JudgeDecides
    <3>2. c.improved \in BOOLEAN /\ c.credited \in BOOLEAN
      BY DEF Credited
    <3> QED
      BY <2>1, <2>2, <3>1, <3>2 DEF Collector
  <2> QED
    BY <2>1, <2>2
<1> HIDE DEF c
<1>3. StepOf(a, d)
  BY <1>1, <1>2, StepOfCollect DEF Leave, Actors, Idle
<1> USE DEF StepOf, unchangedByCollect, fileVars
<1>4. TypeOK'
  BY <1>1, <1>2, <1>3 DEF IInv, TypeOK, Collector
<1>5. FilesInv'
  BY <1>1, <1>2, <1>3 DEF IInv, FilesInv, Fresh, Advanced, Committed, Of
<1>6. CollectInv'
  <2>1. CASE registry = Torn
    BY <1>1, <1>3, <2>1 DEF CollectInv, Leave, Runs, Actors
  <2>2. CASE registry # Torn
    <3>1. c.at = "judged" /\ collector'[a] = c
      BY <1>3, <2>2 DEF c
    <3>2. DecidedInv(collector[a])'
      BY <1>1, <1>2, <2>2, <3>1 DEF DecidedInv, BoundTo, Succeeds, Of
    <3>3. ProgressInv(collector[a])'
      BY <1>1, <1>2, <3>1 DEF ProgressInv, Fresh
    <3> QED
      BY <1>3, <3>2, <3>3 DEF CollectInv
  <2> QED
    BY <2>1, <2>2
<1>7. RegistryInv'
  BY <1>1, <1>2, <1>3
     DEF IInv, RegistryInv, ProgressInv, BoundTo, Succeeds, Of, Committed
<1>8. StallInv'
  BY <1>1, <1>2, <1>3 DEF IInv, StallInv, TrainingIsEarned, Committed, Advanced
<1> QED
  BY <1>3, <1>4, <1>5, <1>6, <1>7, <1>8 DEF IInv

(* Every step preserves the invariant.                                     *)
LEMMA NextInv == IInv /\ [Next]_vars => IInv'
<1> SUFFICES ASSUME IInv, [Next]_vars PROVE IInv'
  OBVIOUS
<1>1. CASE Job
  BY <1>1, ProposeInv, RolloutEndsInv, RolloutFailsInv, RolloutsFinishInv
     DEF Job
<1>2. CASE JobKilled
  BY <1>2, JobKilledInv
<1>3. ASSUME NEW a \in Actors, Collect(a) PROVE IInv'
  BY <1>3, JudgeInv, OpenRegistryInv, WriteRegistryInv, WriteBatchInv,
     WriteNextBasesInv,
     WriteSummaryInv DEF Collect
<1>4. CASE Driver
  BY <1>4, SubmitInv, EndCampaignInv, WaitJobInv, NoSummaryInv, InheritInv,
     TrainInv,
     SkipTrainingInv DEF Driver
<1>5. CASE UNCHANGED vars
  BY <1>5
     DEF vars, driverVars, workerVars, fileVars, IInv, TypeOK, ControlInv,
         FilesInv, CollectInv,
     RegistryInv, StallInv, DecidedInv, ProgressInv, Fresh, BoundTo, Succeeds, Of, Runs,
     JobOver,
     Advanced, Committed, Counted, TrainingIsEarned
<1> QED
  BY <1>1, <1>2, <1>3, <1>4, <1>5 DEF Next

(* The invariant holds throughout a campaign.                              *)
LEMMA Invariant == Spec => []IInv
<1> QED
  BY InitInv, NextInv, PTL DEF Spec

-------------------------------------------------------------------------------
(* What follows from it.                                                   *)

(* Every variable of a campaign keeps its type, for any scores and slots.  *)
THEOREM TypeCorrect == Spec => []TypeOK
<1>1. IInv => TypeOK
  BY DEF IInv
<1> QED
  BY <1>1, Invariant, PTL

(* A commit record is never seen without the bases and the batch it stands *)
(* for, whatever was killed and collected again.                           *)
THEOREM CommitsAreComplete == Spec => []CommitIsComplete
<1>1. IInv => CommitIsComplete
  BY DEF IInv, FilesInv, CommitIsComplete
<1> QED
  BY <1>1, Invariant, PTL

(* A harness is inherited with its program or with a better one in the     *)
(* registry, and no round seeded with an older program advances it.        *)
THEOREM BasesAreBound == Spec => []BaseIsBoundToProgram
<1>1. IInv => BaseIsBoundToProgram
  BY DEF IInv, RegistryInv, BaseIsBoundToProgram
<1> QED
  BY <1>1, Invariant, PTL

(* The proposer is trained on earned rounds only.                          *)
THEOREM TrainingWasEarned == Spec => []TrainingIsEarned
<1>1. IInv => TrainingIsEarned
  BY DEF IInv, StallInv
<1> QED
  BY <1>1, Invariant, PTL

(* Two collects never run at once, nor one beside the job's rollouts.      *)
THEOREM OneCollectAtATime == Spec => []CollectsAlone
<1>1. IInv => CollectsAlone
  BY DEF IInv, ControlInv, CollectsAlone
<1> QED
  BY <1>1, Invariant, PTL

(* What a round hands on is never worse than what it was given.            *)
THEOREM IncumbentImproves == Spec => IncumbentOnlyImproves
<1> DEFINE A == driver' = "training" =>
                  /\ registry # Torn
                  /\ workspace.program # None => registry.program # None
                  /\ registry.program # workspace.program => registry.score > workspace.score
                  /\ BoundTo(bases', registry)
<1>1. IInv /\ [Next]_vars => [A]_driver
  <2> SUFFICES ASSUME IInv, [Next]_vars, driver' # driver, driver' = "training" PROVE A
    OBVIOUS
  <2>1. Inherit
    BY DEF Next, Job, Collect, Driver, Propose, RolloutEnds, RolloutFails,
           RolloutsFinish, JobKilled, Judge, OpenRegistry, WriteRegistry, WriteBatch,
           WriteNextBases, WriteSummary, Leave, Goto, AfterJob, Submit, EndCampaign,
           WaitJob, NoSummary, Train, SkipTraining, vars, driverVars
  <2>2. /\ registry # Torn /\ Succeeds(registry, workspace)
        /\ BoundTo(next_bases[step], registry)
    BY <2>1 DEF IInv, RegistryInv, Inherit, Committed
  <2>3. BoundTo(bases', registry)
    BY <2>1, <2>2 DEF Inherit, BoundTo
  <2> QED
    BY <2>1, <2>2, <2>3 DEF Succeeds
<1> QED
  BY <1>1, Invariant, PTL DEF Spec, IncumbentOnlyImproves

HIDE CampaignAssumption

-------------------------------------------------------------------------------
(* Natural numbers and the best row.                                       *)

(* A nonempty set of numbers has a least element.                          *)
LEMMA Least ==
  ASSUME NEW T \in SUBSET Nat, T # {}
  PROVE  \E x \in T : \A y \in T : x <= y
<1> DEFINE R == OpToRel(<, Nat)
<1>1. \E x \in T : \A y \in T : ~(<<y, x>> \in R)
  <2>1. IsWellFoundedOn(R, Nat)
    BY NatLessThanWellFounded
  <2> HIDE DEF R
  <2> QED
    BY <2>1, WFMin
<1>2. \A x, y \in Nat : <<y, x>> \in R <=> y < x
  BY DEF OpToRel
<1>3. PICK x \in T : \A y \in T : ~(<<y, x>> \in R)
  BY <1>1
<1>4. ASSUME NEW y \in T PROVE x <= y
  <2>1. ~(<<y, x>> \in R) /\ (<<y, x>> \in R <=> y < x)
    BY <1>2, <1>3
  <2> HIDE DEF R
  <2>2. ~(y < x)
    BY <2>1
  <2> QED
    BY <2>2
<1> QED
  BY <1>3, <1>4

(* A set that has 0, and with a number the next, has all numbers.          *)
LEMMA Successors ==
  ASSUME NEW S, 0 \in S, \A n \in Nat : n \in S => n + 1 \in S
  PROVE  Nat \subseteq S
<1> SUFFICES ASSUME Nat \ S # {} PROVE FALSE
  OBVIOUS
<1>1. PICK x \in Nat \ S : \A y \in Nat \ S : x <= y
  BY Least
<1>2. x # 0 /\ x - 1 \in Nat
  BY <1>1
<1>3. x - 1 \in S
  BY <1>1, <1>2
<1> QED
  BY <1>1, <1>2, <1>3

(* The facts about the constants that the steps use.                       *)
LEMMA Given ==
  /\ Scores \subseteq Nat /\ Slots \subseteq Nat /\ BaseScore \in Nat /\ LastRound \in Nat
  /\ Cardinality(Slots) \in Nat /\ Slots = 1 .. Cardinality(Slots)
  /\ None \notin Feedback /\ Torn \notin Feedback /\ None \notin Base /\ Torn \notin Entry
  /\ None \notin Origin /\ None \notin Nat
  BY CampaignAssumption, NoneAssumption, FeedbackAssumption

ScoredRows == rows \in [Slots -> Outcome \cup {None}]

(* Among the rows with a score one is the best, and one only.              *)
LEMMA BestExists == ASSUME ScoredRows, Scored # {} PROVE \E k \in Slots : IsBest(k)
<1> DEFINE score(j) == rows[j].score
           B(k) == \E m \in Nat : \A j \in Scored : j <= k => score(j) <= m
           S == {k \in Nat : B(k)}
           U == {m \in Nat : \A j \in Scored : score(j) <= m}
<1>1. /\ \A j \in Scored : j \in Nat /\ score(j) \in Nat
      /\ \A j \in Scored : j \in Slots /\ j >= 1 /\ j <= Cardinality(Slots)
      /\ Cardinality(Slots) \in Nat
  <2>1. \A j \in Scored : j \in Slots /\ rows[j] \in Outcome
    BY DEF Scored, ScoredRows
  <2>2. \A out \in Outcome : out.score \in Nat
    BY Given DEF Outcome
  <2>3. \A j \in Slots : j \in Nat /\ j >= 1 /\ j <= Cardinality(Slots)
    BY Given
  <2> QED
    BY <2>1, <2>2, <2>3, Given
<1> HIDE DEF score
<1>2. 0 \in S
  BY <1>1
<1>3. ASSUME NEW k \in Nat, k \in S PROVE k + 1 \in S
  <2>1. PICK m \in Nat : \A j \in Scored : j <= k => score(j) <= m
    BY <1>3
  <2>2. CASE k + 1 \notin Scored
    <3>1. \A j \in Scored : j <= k + 1 => score(j) <= m
      BY <1>1, <2>1, <2>2
    <3> QED
      BY <3>1
  <2>3. CASE k + 1 \in Scored
    <3>1. PICK n \in Nat : n >= m /\ n >= score(k + 1)
      BY <1>1, <2>3
    <3>2. \A j \in Scored : j <= k + 1 => score(j) <= n
      <4> SUFFICES ASSUME NEW j \in Scored, j <= k + 1 PROVE score(j) <= n
        OBVIOUS
      <4>1. CASE j = k + 1
        BY <3>1, <4>1
      <4>2. CASE j <= k
        BY <1>1, <2>1, <3>1, <4>2
      <4> QED
        BY <1>1, <4>1, <4>2
    <3> QED
      BY <3>2
  <2> QED
    BY <2>2, <2>3
<1>4. Cardinality(Slots) \in S
  <2> HIDE DEF S
  <2> QED
    BY <1>1, <1>2, <1>3, Successors
<1>5. U # {}
  BY <1>1, <1>4
<1>6. PICK m \in U : \A n \in U : m <= n
  BY <1>5, Least
<1> DEFINE T == {j \in Scored : score(j) = m}
<1>7. T # {}
  <2> SUFFICES ASSUME \A j \in Scored : score(j) # m PROVE FALSE
    OBVIOUS
  <2>1. \A j \in Scored : score(j) < m
    BY <1>1, <1>6
  <2>2. m > 0 /\ m - 1 \in Nat
    BY <1>1, <1>6, <2>1
  <2>3. m - 1 \in U
    BY <1>1, <1>6, <2>1, <2>2
  <2> QED
    BY <1>6, <2>2, <2>3
<1>8. PICK k \in T : \A j \in T : k <= j
  BY <1>1, <1>7, Least
<1>9. \A j \in Scored : score(j) <= score(k) /\ (score(j) = score(k) => k <= j)
  BY <1>6, <1>8
<1> QED
  BY <1>1, <1>8, <1>9 DEF IsBest, score

(* The digest's best score is that of every row that is best.              *)
LEMMA BestScoreIsBest ==
  ASSUME ScoredRows, NEW k \in Slots, IsBest(k)
  PROVE  BestScore = rows[k].score
<1>1. Scored # {} /\ \E j \in Slots : IsBest(j)
  BY DEF IsBest
<1> DEFINE b == CHOOSE j \in Slots : IsBest(j)
<1>2. b \in Slots /\ IsBest(b)
  BY <1>1
<1>3. BestScore = rows[b].score
  BY <1>1 DEF BestScore
<1> HIDE DEF b
<1>4. \A j \in Scored : rows[j].score \in Nat
  BY Given DEF Scored, ScoredRows, Outcome
<1> QED
  BY <1>2, <1>3, <1>4 DEF IsBest

(* It is a score, or there is none.                                        *)
LEMMA BestScoreType == ASSUME ScoredRows PROVE BestScore \in Scores \cup {None}
<1>1. CASE Scored = {}
  BY <1>1 DEF BestScore
<1>2. CASE Scored # {}
  <2>1. PICK k \in Slots : IsBest(k)
    BY <1>2, BestExists
  <2>2. k \in Scored /\ rows[k].score \in Scores
    BY <2>1 DEF IsBest, Scored, ScoredRows, Outcome
  <2> QED
    BY <2>1, <2>2, BestScoreIsBest
<1> QED
  BY <1>1, <1>2

-------------------------------------------------------------------------------
(* The inductive invariant of ContextCampaign: Campaign's file protocol is *)
(* taken again with its briefs and its headlines, since what a round tells *)
(* depends on what its collect decides.                                    *)

ContextCollector ==
  [at : {"idle", "judged", "writing", "recorded", "batched", "based"},
   next : Base, entry : Entry, improved : BOOLEAN, credited : BOOLEAN]

Digester == [at : {"none", "digesting", "digested", "settling", "settled"},
             entry : Feedback \cup {None}]

ContextTypeOK ==
  /\ step \in 1 .. (LastRound + 1)
  /\ driver \in {"starting", "waiting", "collecting", "checking", "training", "over"}
  /\ worker \in {"none", "proposing", "rolling", "collecting", "done", "refused", "dead"}
  /\ bases \in Base
  /\ rows \in [Slots -> Outcome \cup {None}]
  /\ collector \in [Actors -> ContextCollector]
  /\ registry \in Entry \cup {Torn}
  /\ next_bases \in [Rounds -> Base \cup {None}]
  /\ summary \in [Rounds -> {"absent", "improved", "flat"}]
  /\ feedback \in Feedback \cup {None, Torn}
  /\ context \in Feedback \cup {None, Torn}
  /\ digest \in [Actors -> Digester]
  /\ message = [r \in Rounds |-> message[r]]

(* Who may be running.                                                     *)
ContextControlInv ==
  /\ driver # "waiting" => JobOver
  /\ driver \in {"waiting", "collecting", "checking", "training"} => step \in Rounds
  /\ \A a \in Actors : collector[a].at # "idle" \/ digest[a] # NoDigest => Runs(a)
  /\ worker \in {"rolling", "collecting"} \/ driver = "collecting" => input.base = bases
  /\ driver \in {"waiting", "collecting"} /\ input # None => input.base = bases

(* What an entry tells of the base it is read beside.                      *)
Tells(f, r, b) ==
  /\ f \in Feedback /\ f.round = r
  /\ f.accepted = (IF Of(b, r) THEN "yes" ELSE "no")
  /\ f.outgoing = b.score
  /\ Of(b, r) => f.best = b.score /\ b.score > f.base

Follows(b) ==
  /\ b \in Base /\ b.score >= bases.score
  /\ \A q \in Rounds : Of(b, q) => q <= step

(* A collect in progress: what it has decided, digested and settled.       *)
ContextDecidedInv(c) ==
  /\ Follows(c.next)
  /\ Of(c.next, step) => c.next.score = BestScore /\ c.next.score > bases.score

DigestedInv(d) ==
  /\ d.entry \in Feedback /\ d.entry.round = step /\ d.entry.base = bases.score
  /\ d.entry.best = BestScore

CollectOf(c, d) ==
  /\ summary[step] = "absent"
  /\ c.at # "idle" => ContextDecidedInv(c)
  /\ d.at = "none" => d = NoDigest
  /\ d.at \in {"none", "digesting"} => c.at = "idle"
  /\ d.at \in {"digesting", "digested"} => DigestedInv(d)
  /\ d.at = "digested" => c.at \in {"idle", "judged", "writing", "recorded"}
  /\ d.at = "settling" => c.at = "recorded"
  /\ d.at = "settled" => c.at \in {"recorded", "batched", "based"}
  /\ d.at \in {"settling", "settled"} => Tells(d.entry, step, c.next)
  /\ d.at = "settled" => Tells(feedback, step, c.next)
  /\ c.at = "based" => next_bases[step] = c.next

ContextCollectInv == \A a \in Actors : Runs(a) => CollectOf(collector[a], digest[a])

(* A committed round has told what it decided, and the driver hands on     *)
(* what it told.                                                           *)
CommittedInv ==
  /\ \A r \in Rounds : r > step \/ (r = step /\ driver = "starting") => summary[r] = "absent"
  /\ worker \in {"proposing", "rolling"} => summary[step] = "absent"
  /\ driver \in {"waiting", "checking"} /\ summary[step] # "absent" =>
       Follows(next_bases[step]) /\ Tells(feedback, step, next_bases[step])

HandedOnInv ==
  /\ \A r \in Rounds : Of(bases, r) => r < step \/ (r = step /\ driver = "training")
  /\ driver = "training" => Tells(context, step, bases)
  /\ driver \in {"starting", "waiting", "collecting", "checking"} =>
       IF step = 1 THEN context = None ELSE Tells(context, step - 1, bases)

ContextIInv ==
  /\ ContextTypeOK /\ ContextControlInv /\ ContextCollectInv /\ CommittedInv /\ HandedOnInv
  /\ RequiredBriefIsThere /\ HeadlineIsTrue

-------------------------------------------------------------------------------
(* What a collect writes.                                                  *)

(* The headline of an entry is true of the base it tells of.               *)
LEMMA HeadlineTells ==
  ASSUME NEW f, NEW r, NEW b \in Base, Tells(f, r, b)
  PROVE  LET told == RenderFeedback(f)  head == told.headline IN
         /\ told.round = r
         /\ head.says = "reached" /\ head.to > head.from => Of(b, r) /\ b.score = head.to
         /\ head.says = "refused" => ~Of(b, r) /\ b.score = head.from
<1>1. f.base \in Nat /\ b.score \in Nat /\ f.round = r
  BY DEF Tells, Feedback, Base
<1> USE DEF RenderFeedback, Headline
<1>2. CASE Of(b, r)
  <2>1. BestTold(f) = b.score /\ f.accepted = "yes"
    <3>1. f.best = b.score /\ b.score > f.base /\ f.accepted = "yes"
      BY <1>2 DEF Tells
    <3> QED
      BY <1>1, <3>1, Given DEF BestTold, Base
  <2> QED
    BY <1>1, <1>2, <2>1
<1>3. CASE ~Of(b, r)
  <2>1. f.accepted = "no" /\ f.outgoing = b.score
    BY <1>3 DEF Tells
  <2> QED
    BY <1>1, <1>3, <2>1
<1> QED
  BY <1>2, <1>3

(* The digest of a round is an entry of the file.                          *)
LEMMA DigestIsEntry ==
  ASSUME ContextTypeOK, step \in Rounds, input.base = bases
  PROVE  DigestedInv([at |-> "digesting", entry |-> Digest])
<1>1. ScoredRows /\ bases \in Base /\ bases.score \in Nat
  BY DEF ContextTypeOK, ScoredRows, Base
<1>2. StuckRows \in Nat
  <2>1. IsFiniteSet(1 .. Cardinality(Slots))
    BY Given, FS_Interval
  <2>2. IsFiniteSet(Slots)
    BY <2>1, Given
  <2> QED
    BY <2>2, FS_Subset, FS_CardinalityType DEF StuckRows, Scored
<1>3. [i \in 1 .. Cardinality(Slots) |-> Row(i)]
        \in [1 .. Cardinality(Slots) -> [k : Slots, score : Scores \cup {None}]]
  <2>1. ASSUME NEW k \in Slots PROVE Row(k) \in [k : Slots, score : Scores \cup {None}]
    BY <1>1 DEF Row, ScoredRows, Outcome
  <2> QED
    BY <2>1, Given
<1>4. PriorNote \in Lines \cup {None}
  BY DEF PriorNote, SanitizedNote, Sanitized, Neutralized, HasMarker, HasCode, Lines,
         ContextTypeOK, Feedback
<1>5. BestScore \in Scores \cup {None}
  BY <1>1, BestScoreType
<1>6. Digest \in Feedback
  BY <1>1, <1>2, <1>3, <1>4, <1>5 DEF Digest, Feedback
<1> QED
  BY <1>6 DEF DigestedInv, Digest

(* Without a promotion the next base is the one of the round.              *)
LEMMA ContextJudgeDecides ==
  ASSUME ContextIInv, NEW prior \in Entry, step \in Rounds, input.base = bases,
         driver # "training"
  PROVE  LET c == [at |-> "judged", next |-> NextBase(prior), entry |-> NextEntry(prior),
                   improved |-> \E k \in Slots : Improves(k), credited |-> Credited(prior)]
         IN c \in ContextCollector /\ ContextDecidedInv(c)
<1>1. ScoredRows /\ bases \in Base /\ bases.score \in Nat /\ step \in Nat
  BY DEF ContextIInv, ContextTypeOK, ScoredRows, Base, Rounds
<1>2. Credited(prior) \in BOOLEAN /\ (\E k \in Slots : Improves(k)) \in BOOLEAN
  BY DEF Credited
<1>3. CASE \E k \in Slots : Promotes(k, prior)
  <2> DEFINE k == CHOOSE j \in Slots : Promotes(j, prior)
  <2>1. k \in Slots /\ Promotes(k, prior)
    BY <1>3
  <2>2. NextBase(prior) = [package |-> Candidate(k), score |-> rows[k].score]
        /\ NextEntry(prior) = [program |-> Candidate(k), score |-> rows[k].score]
    BY <1>3 DEF NextBase, NextEntry
  <2> HIDE DEF k
  <2>3. rows[k].score \in Nat /\ rows[k].score > bases.score /\ BestScore = rows[k].score
    BY <1>1, <2>1, BestScoreIsBest, Given
       DEF Promotes, Improves, IsBest, Scored, ScoredRows, Outcome
  <2>4. Candidate(k) \in Origin /\ Candidate(k) = <<step, k>>
    BY <2>1 DEF Candidate, Origin
  <2>5. NextBase(prior) \in Base /\ NextEntry(prior) \in Entry
    BY <2>2, <2>3, <2>4 DEF Base, Entry
  <2>6. \A q \in Rounds : Of(NextBase(prior), q) => q <= step
    BY <2>2, <2>4, <1>1 DEF Of, Rounds
  <2> QED
    BY <1>1, <1>2, <2>2, <2>3, <2>5, <2>6 DEF ContextCollector, ContextDecidedInv, Follows
<1>4. CASE ~\E k \in Slots : Promotes(k, prior)
  <2>1. NextBase(prior) = bases /\ NextEntry(prior) = prior
    BY <1>4 DEF NextBase, NextEntry
  <2>2. \A q \in Rounds : Of(bases, q) => q < step
    BY DEF ContextIInv, HandedOnInv
  <2>3. \A q \in Rounds : q < step => q <= step
    BY <1>1 DEF Rounds
  <2>4. ~Of(bases, step)
    BY <1>1, <2>2
  <2> QED
    BY <1>1, <1>2, <2>1, <2>2, <2>3, <2>4 DEF ContextCollector, ContextDecidedInv, Follows
<1> QED
  BY <1>3, <1>4

-------------------------------------------------------------------------------
(* The steps of a collect.                                                 *)

(* Whoever collects is alone, in a round that the driver handed its input. *)
LEMMA ContextAlone ==
  ASSUME ContextIInv, NEW a \in Actors, Runs(a)
  PROVE  /\ \A b \in Actors : Runs(b) => b = a
         /\ driver \in {"waiting", "collecting"} /\ step \in Rounds /\ step \in Nat
         /\ a = "driver" => JobOver
         /\ a = "worker" => worker = "collecting" /\ driver = "waiting"
         /\ input.base = bases
         /\ summary[step] = "absent"
         /\ CollectOf(collector[a], digest[a])
  BY DEF ContextIInv, ContextTypeOK, ContextControlInv, ContextCollectInv, CollectOf, Runs,
         JobOver, Actors, Rounds

(* The best score is that of the rows.                                     *)
LEMMA SameBest == ASSUME UNCHANGED rows PROVE BestScore' = BestScore
  BY DEF BestScore, Scored, IsBest

quietVars == <<step, driver, bases, worker, input, rows, summary, context, message>>

(* The other's collect and digest are as they were.                        *)
MovesOnly(a) ==
  /\ collector' \in [Actors -> ContextCollector] /\ digest' \in [Actors -> Digester]
  /\ \A b \in Actors \ {a} : collector'[b] = collector[b] /\ digest'[b] = digest[b]

(* Writing one actor's collect and digest is such a move.                  *)
LEMMA Moves ==
  ASSUME ContextIInv, NEW a \in Actors,
         NEW c \in ContextCollector, collector' = [collector EXCEPT ![a] = c],
         NEW d \in Digester, digest' = [digest EXCEPT ![a] = d]
  PROVE  MovesOnly(a) /\ collector'[a] = c /\ digest'[a] = d
<1>1. collector \in [Actors -> ContextCollector] /\ digest \in [Actors -> Digester]
  BY DEF ContextIInv, ContextTypeOK
<1> QED
  BY <1>1 DEF MovesOnly

(* Whoever collects goes on: what the others are bound by is as it was.    *)
LEMMA CollectStep ==
  ASSUME ContextIInv, NEW a \in Actors, Runs(a), UNCHANGED quietVars,
         MovesOnly(a), feedback' \in Feedback \cup {None, Torn},
         registry' \in Entry \cup {Torn},
         next_bases' \in [Rounds -> Base \cup {None}],
         CollectOf(collector[a], digest[a])'
  PROVE  ContextIInv'
<1> USE DEF quietVars, MovesOnly
<1>3. \A b \in Actors : Runs(b)' <=> Runs(b)
  BY DEF Runs
<1>4. ContextTypeOK'
  BY DEF ContextIInv, ContextTypeOK
<1>5. ContextControlInv'
  BY <1>3 DEF ContextIInv, ContextControlInv, JobOver
<1>6. ContextCollectInv'
  BY <1>3, ContextAlone DEF ContextCollectInv
<1>7. CommittedInv'
  BY ContextAlone DEF ContextIInv, CommittedInv, Runs, Actors
<1>8. HandedOnInv'
  BY DEF ContextIInv, HandedOnInv, Of
<1>9. RequiredBriefIsThere' /\ HeadlineIsTrue'
  BY DEF ContextIInv, RequiredBriefIsThere, HeadlineIsTrue
<1> QED
  BY <1>4, <1>5, <1>6, <1>7, <1>8, <1>9 DEF ContextIInv

(* A collect ends: without a commit record, or with one that the bases and *)
(* the feedback it stands for precede.                                     *)
LEMMA LeaveStep ==
  ASSUME ContextIInv, NEW a \in Actors, Runs(a), Leave(a),
         UNCHANGED <<step, bases, input, rows, context, message, feedback, registry,
                     next_bases>>,
         digest' = [digest EXCEPT ![a] = NoDigest],
         NEW v \in {"absent", "improved", "flat"}, summary' = [summary EXCEPT ![step] = v],
         v = "absent" \/ (Follows(next_bases[step]) /\ Tells(feedback, step, next_bases[step]))
  PROVE  ContextIInv'
<1>1. collector \in [Actors -> ContextCollector] /\ digest \in [Actors -> Digester]
      /\ summary \in [Rounds -> {"absent", "improved", "flat"}] /\ step \in Rounds
  BY ContextAlone DEF ContextIInv, ContextTypeOK
<1>2. Idle \in ContextCollector /\ Idle.at = "idle" /\ NoDigest \in Digester
  BY Given DEF Idle, ContextCollector, FirstBase, NoEntry, Base, Entry, NoDigest, Digester
<1>3. /\ collector' \in [Actors -> ContextCollector] /\ collector'[a] = Idle
      /\ digest' \in [Actors -> Digester] /\ digest'[a] = NoDigest
      /\ \A b \in Actors \ {a} : collector'[b] = collector[b] /\ digest'[b] = digest[b]
      /\ summary' \in [Rounds -> {"absent", "improved", "flat"}] /\ summary'[step] = v
      /\ \A r \in Rounds \ {step} : summary'[r] = summary[r]
  BY <1>1, <1>2 DEF Leave
<1>4. \/ a = "worker" /\ worker = "collecting" /\ worker' = "done"
         /\ driver = "waiting" /\ driver' = "waiting"
      \/ a = "driver" /\ driver = "collecting" /\ driver' = "checking"
         /\ JobOver /\ UNCHANGED worker
  BY ContextAlone DEF Leave, Runs, Actors
<1>5. \A b \in Actors : ~Runs(b)'
  BY <1>4 DEF Runs, Actors, JobOver
<1>6. \A b \in Actors : collector'[b].at = "idle" /\ digest'[b] = NoDigest
  BY <1>2, <1>3, ContextAlone DEF ContextIInv, ContextControlInv
<1>7. ContextTypeOK'
  BY <1>3, <1>4 DEF ContextIInv, ContextTypeOK
<1>8. ContextControlInv'
  BY <1>1, <1>4, <1>6 DEF ContextIInv, ContextControlInv, JobOver
<1>9. ContextCollectInv'
  BY <1>5 DEF ContextCollectInv
<1>10. CommittedInv'
  <2>1. /\ \A r \in Rounds : r > step' \/ (r = step' /\ driver' = "starting") =>
             summary'[r] = "absent"
        /\ worker' \notin {"proposing", "rolling"}
    <3>1. driver' # "starting" /\ worker' \notin {"proposing", "rolling"}
      BY <1>4 DEF JobOver
    <3>2. \A r \in Rounds : r > step => r # step
      BY <1>1 DEF Rounds
    <3> QED
      BY <1>3, <3>1, <3>2 DEF ContextIInv, CommittedInv
  <2>2. summary'[step] # "absent" =>
          Follows(next_bases[step]) /\ Tells(feedback, step, next_bases[step])
    BY <1>3
  <2>3. summary'[step] # "absent" =>
          (Follows(next_bases[step]) /\ Tells(feedback, step, next_bases[step]))'
    BY <2>2 DEF Follows, Tells, Of
  <2> QED
    BY <2>1, <2>3 DEF CommittedInv
<1>11. HandedOnInv'
  BY <1>4 DEF ContextIInv, HandedOnInv, Of
<1>12. RequiredBriefIsThere' /\ HeadlineIsTrue'
  BY DEF ContextIInv, RequiredBriefIsThere, HeadlineIsTrue
<1> QED
  BY <1>7, <1>8, <1>9, <1>10, <1>11, <1>12 DEF ContextIInv

(* The digest is computed and its file opened.                             *)
LEMMA BeginDigestInv ==
  ASSUME ContextIInv, NEW a \in Actors, BeginDigest(a)
  PROVE  ContextIInv'
<1> DEFINE d == [at |-> "digesting", entry |-> Digest]
<1>1. /\ Runs(a) /\ collector[a].at = "idle" /\ digest' = [digest EXCEPT ![a] = d]
      /\ feedback' = Torn /\ UNCHANGED <<vars, context, message>>
  BY DEF BeginDigest, At
<1>2. UNCHANGED <<quietVars, collector, registry, next_bases, rows>>
  BY <1>1 DEF quietVars, vars, driverVars, workerVars, fileVars
<1>3. /\ collector[a] \in ContextCollector /\ collector' = [collector EXCEPT ![a] = collector[a]]
      /\ registry' \in Entry \cup {Torn} /\ next_bases' \in [Rounds -> Base \cup {None}]
  BY <1>2 DEF ContextIInv, ContextTypeOK
<1>4. DigestedInv(d) /\ d.at = "digesting"
  BY <1>1, ContextAlone, DigestIsEntry DEF ContextIInv
<1> HIDE DEF d
<1>5. d \in Digester
  BY <1>4 DEF d, DigestedInv, Digester
<1>6. MovesOnly(a) /\ collector'[a] = collector[a] /\ digest'[a] = d
  BY <1>1, <1>3, <1>5, Moves
<1>7. CollectOf(collector[a], digest[a])'
  BY <1>1, <1>2, <1>4, <1>6, ContextAlone, SameBest DEF CollectOf, quietVars, DigestedInv
<1> QED
  BY <1>1, <1>2, <1>3, <1>6, <1>7, CollectStep DEF quietVars

(* The digest is written.                                                  *)
LEMMA WriteDigestInv ==
  ASSUME ContextIInv, NEW a \in Actors, WriteDigest(a)
  PROVE  ContextIInv'
<1> DEFINE d == [digest[a] EXCEPT !.at = "digested"]
<1>1. /\ Runs(a) /\ digest[a].at = "digesting" /\ digest' = [digest EXCEPT ![a] = d]
      /\ feedback' = digest[a].entry /\ UNCHANGED <<vars, context, message>>
  BY DEF WriteDigest, ContextIInv, ContextTypeOK
<1>2. UNCHANGED <<quietVars, collector, registry, next_bases, rows>>
  BY <1>1 DEF quietVars, vars, driverVars, workerVars, fileVars
<1>3. /\ collector[a] \in ContextCollector /\ collector' = [collector EXCEPT ![a] = collector[a]]
      /\ registry' \in Entry \cup {Torn} /\ next_bases' \in [Rounds -> Base \cup {None}]
      /\ digest[a] \in Digester
  BY <1>2 DEF ContextIInv, ContextTypeOK
<1>4. DigestedInv(digest[a]) /\ collector[a].at = "idle"
  BY <1>1, ContextAlone DEF CollectOf
<1>5. d \in Digester /\ d.at = "digested" /\ d.entry = digest[a].entry
  BY <1>3 DEF Digester
<1> HIDE DEF d
<1>6. MovesOnly(a) /\ collector'[a] = collector[a] /\ digest'[a] = d
  BY <1>1, <1>3, <1>5, Moves
<1>7. CollectOf(collector[a], digest[a])'
  BY <1>1, <1>2, <1>4, <1>5, <1>6, ContextAlone, SameBest DEF CollectOf, quietVars,
     DigestedInv
<1>8. feedback' \in Feedback \cup {None, Torn}
  BY <1>1, <1>4 DEF DigestedInv
<1> QED
  BY <1>1, <1>2, <1>3, <1>6, <1>7, <1>8, CollectStep DEF quietVars

(* The ratchets judge, or the registry cannot be read.                     *)
LEMMA ContextJudgeInv ==
  ASSUME ContextIInv, NEW a \in Actors, ContextJudge(a)
  PROVE  ContextIInv'
<1>1. /\ Runs(a) /\ collector[a].at = "idle" /\ digest[a].at = "digested"
      /\ UNCHANGED <<feedback, context, message>> /\ UNCHANGED unchangedByCollect
      /\ UNCHANGED fileVars
  BY DEF ContextJudge, Judge, At
<1>2. CASE registry = Torn
  <2>1. Leave(a) /\ digest' = [digest EXCEPT ![a] = NoDigest]
    BY <1>2 DEF ContextJudge, Judge, Readable
  <2>2. summary' = [summary EXCEPT ![step] = "absent"]
    BY <1>1, ContextAlone DEF fileVars, ContextIInv, ContextTypeOK
  <2> QED
    BY <1>1, <2>1, <2>2, LeaveStep DEF unchangedByCollect, fileVars
<1>3. CASE registry # Torn
  <2> DEFINE c == [at |-> "judged", next |-> NextBase(registry),
                   entry |-> NextEntry(registry),
                   improved |-> \E k \in Slots : Improves(k), credited |-> Credited(registry)]
  <2>1. /\ collector' = [collector EXCEPT ![a] = c] /\ UNCHANGED <<worker, driver>>
        /\ UNCHANGED digest
    BY <1>3 DEF ContextJudge, Judge, Readable
  <2>2. c \in ContextCollector /\ ContextDecidedInv(c) /\ c.at = "judged"
    <3>1. registry \in Entry
      BY <1>3 DEF ContextIInv, ContextTypeOK
    <3> QED
      BY <1>1, <3>1, ContextAlone, ContextJudgeDecides
  <2> HIDE DEF c
  <2>3. UNCHANGED <<quietVars, registry, next_bases, rows, feedback>>
    BY <1>1, <2>1 DEF quietVars, unchangedByCollect, fileVars
  <2>4. /\ digest[a] \in Digester /\ digest' = [digest EXCEPT ![a] = digest[a]]
        /\ registry' \in Entry \cup {Torn} /\ next_bases' \in [Rounds -> Base \cup {None}]
        /\ feedback' \in Feedback \cup {None, Torn}
    BY <2>1, <2>3 DEF ContextIInv, ContextTypeOK
  <2>5. MovesOnly(a) /\ collector'[a] = c /\ digest'[a] = digest[a]
    BY <2>1, <2>2, <2>4, Moves
  <2>6. CollectOf(collector[a], digest[a])'
    <3>1. DigestedInv(digest[a]) /\ summary[step] = "absent"
      BY <1>1, ContextAlone DEF CollectOf
    <3>2. DigestedInv(digest[a])' /\ ContextDecidedInv(collector[a])' /\ summary'[step'] = "absent"
      BY <2>2, <2>3, <2>5, <3>1, SameBest
         DEF quietVars, DigestedInv, ContextDecidedInv, Follows, Of
    <3> QED
      BY <1>1, <2>2, <2>5, <3>2 DEF CollectOf
  <2> QED
    BY <1>1, <2>3, <2>4, <2>5, <2>6, CollectStep DEF quietVars
<1> QED
  BY <1>2, <1>3

(* The verdict is added and the file opened again.                         *)
LEMMA BeginSettleInv ==
  ASSUME ContextIInv, NEW a \in Actors, BeginSettle(a)
  PROVE  ContextIInv'
<1> DEFINE d == [at |-> "settling", entry |-> Settled(a)]
<1>1. /\ Runs(a) /\ collector[a].at = "recorded" /\ digest[a].at = "digested"
      /\ digest' = [digest EXCEPT ![a] = d]
      /\ feedback' = Torn /\ UNCHANGED <<vars, context, message>>
  BY DEF BeginSettle, At
<1>2. UNCHANGED <<quietVars, collector, registry, next_bases, rows>>
  BY <1>1 DEF quietVars, vars, driverVars, workerVars, fileVars
<1>3. /\ collector[a] \in ContextCollector /\ collector' = [collector EXCEPT ![a] = collector[a]]
      /\ registry' \in Entry \cup {Torn} /\ next_bases' \in [Rounds -> Base \cup {None}]
  BY <1>2 DEF ContextIInv, ContextTypeOK
<1>4. DigestedInv(digest[a]) /\ ContextDecidedInv(collector[a])
  BY <1>1, ContextAlone DEF CollectOf
<1>5. Tells(Settled(a), step, collector[a].next)
  <2>1. collector[a].next.score \in Nat
    BY <1>3 DEF ContextCollector, Base
  <2> QED
    BY <1>4, <2>1 DEF Settled, Tells, Of, DigestedInv, ContextDecidedInv, Feedback
<1>6. d \in Digester /\ d.at = "settling" /\ d.entry = Settled(a)
  BY <1>5 DEF Tells, Digester
<1> HIDE DEF d
<1>7. MovesOnly(a) /\ collector'[a] = collector[a] /\ digest'[a] = d
  BY <1>1, <1>3, <1>6, Moves
<1>8. CollectOf(collector[a], digest[a])'
  <2>1. ContextDecidedInv(collector[a])' /\ summary'[step'] = "absent"
    BY <1>1, <1>2, <1>4, <1>7, ContextAlone, SameBest DEF quietVars, ContextDecidedInv,
       Follows, Of
  <2>2. Tells(digest[a].entry, step, collector[a].next)'
    BY <1>2, <1>5, <1>6, <1>7 DEF Tells, Of, quietVars
  <2> QED
    BY <1>1, <1>6, <1>7, <2>1, <2>2 DEF CollectOf
<1> QED
  BY <1>1, <1>2, <1>3, <1>7, <1>8, CollectStep DEF quietVars

(* It is written.                                                          *)
LEMMA WriteSettledInv ==
  ASSUME ContextIInv, NEW a \in Actors, WriteSettled(a)
  PROVE  ContextIInv'
<1> DEFINE d == [digest[a] EXCEPT !.at = "settled"]
<1>1. /\ Runs(a) /\ digest[a].at = "settling" /\ digest' = [digest EXCEPT ![a] = d]
      /\ feedback' = digest[a].entry /\ UNCHANGED <<vars, context, message>>
  BY DEF WriteSettled, ContextIInv, ContextTypeOK
<1>2. UNCHANGED <<quietVars, collector, registry, next_bases, rows>>
  BY <1>1 DEF quietVars, vars, driverVars, workerVars, fileVars
<1>3. /\ collector[a] \in ContextCollector /\ collector' = [collector EXCEPT ![a] = collector[a]]
      /\ registry' \in Entry \cup {Torn} /\ next_bases' \in [Rounds -> Base \cup {None}]
      /\ digest[a] \in Digester
  BY <1>2 DEF ContextIInv, ContextTypeOK
<1>4. /\ Tells(digest[a].entry, step, collector[a].next) /\ collector[a].at = "recorded"
      /\ ContextDecidedInv(collector[a])
  BY <1>1, ContextAlone DEF CollectOf
<1>5. d \in Digester /\ d.at = "settled" /\ d.entry = digest[a].entry
  BY <1>3 DEF Digester
<1> HIDE DEF d
<1>6. MovesOnly(a) /\ collector'[a] = collector[a] /\ digest'[a] = d
  BY <1>1, <1>3, <1>5, Moves
<1>7. CollectOf(collector[a], digest[a])'
  <2>1. ContextDecidedInv(collector[a])' /\ summary'[step'] = "absent"
    BY <1>1, <1>2, <1>4, <1>6, ContextAlone, SameBest DEF quietVars, ContextDecidedInv,
       Follows, Of
  <2>2. /\ Tells(digest[a].entry, step, collector[a].next)'
        /\ Tells(feedback, step, collector[a].next)'
    BY <1>1, <1>2, <1>4, <1>5, <1>6 DEF Tells, Of, quietVars
  <2> QED
    BY <1>4, <1>5, <1>6, <2>1, <2>2 DEF CollectOf
<1>8. feedback' \in Feedback \cup {None, Torn}
  BY <1>1, <1>4 DEF Tells
<1> QED
  BY <1>1, <1>2, <1>3, <1>6, <1>7, <1>8, CollectStep DEF quietVars

(* The registry is opened for writing.                                     *)
LEMMA ContextOpenRegistryInv ==
  ASSUME ContextIInv, NEW a \in Actors, OpenRegistry(a), UNCHANGED contextVars
  PROVE  ContextIInv'
<1> DEFINE c == [collector[a] EXCEPT !.at = "writing"]
<1>1. /\ Runs(a) /\ collector[a].at = "judged" /\ UNCHANGED unchangedByCollect
      /\ UNCHANGED <<summary, worker, driver>> /\ collector' = [collector EXCEPT ![a] = c]
      /\ UNCHANGED <<feedback, context, digest, message>>
  BY DEF OpenRegistry, Goto, At, contextVars, ContextIInv, ContextTypeOK
<1>2. UNCHANGED <<quietVars, rows>>
  BY <1>1 DEF quietVars, unchangedByCollect
<1>3. /\ collector[a] \in ContextCollector /\ digest[a] \in Digester
      /\ digest' = [digest EXCEPT ![a] = digest[a]] /\ feedback' \in Feedback \cup {None, Torn}
  BY <1>1 DEF ContextIInv, ContextTypeOK
<1>4. /\ c \in ContextCollector /\ c.at = "writing" /\ c.next = collector[a].next
  BY <1>3 DEF ContextCollector
<1>5. registry' \in Entry \cup {Torn} /\ next_bases' \in [Rounds -> Base \cup {None}]
  BY <1>3, ContextAlone DEF OpenRegistry, ContextCollector, ContextIInv, ContextTypeOK
<1> HIDE DEF c
<1>6. CollectOf(collector[a], digest[a]) /\ summary[step] = "absent" /\ step \in Rounds
  BY <1>1, ContextAlone
<1>7. MovesOnly(a) /\ collector'[a] = c /\ digest'[a] = digest[a]
  BY <1>1, <1>3, <1>4, Moves
<1>8. CollectOf(collector[a], digest[a])'
  <2>1. summary'[step'] = "absent"
    BY <1>2, <1>6 DEF quietVars
  <2>2. ContextDecidedInv(collector[a])'
    <3>1. ContextDecidedInv(collector[a])
      BY <1>1, <1>6 DEF CollectOf
    <3> QED
      BY <1>2, <1>4, <1>7, <3>1, SameBest DEF quietVars, ContextDecidedInv, Follows, Of
  <2>3. /\ digest[a].at \in {"settling", "settled"} =>
             Tells(digest[a].entry, step, collector[a].next)'
        /\ digest[a].at = "settled" => Tells(feedback, step, collector[a].next)'
    <3>1. /\ digest[a].at \in {"settling", "settled"} =>
               Tells(digest[a].entry, step, collector[a].next)
          /\ digest[a].at = "settled" => Tells(feedback, step, collector[a].next)
      BY <1>6 DEF CollectOf
    <3> QED
      BY <1>1, <1>2, <1>4, <1>7, <3>1 DEF Tells, Of, quietVars
  <2>4. digest[a].at = "digested" => DigestedInv(digest[a])'
    BY <1>2, <1>6, <1>7, SameBest DEF CollectOf, DigestedInv, quietVars
  <2> QED
    BY <1>1, <1>4, <1>6, <1>7, <2>1, <2>2, <2>3, <2>4 DEF CollectOf
<1> QED
  BY <1>1, <1>2, <1>3, <1>5, <1>7, <1>8, CollectStep DEF quietVars

(* The registry is written.                                                *)
LEMMA ContextWriteRegistryInv ==
  ASSUME ContextIInv, NEW a \in Actors, WriteRegistry(a), UNCHANGED contextVars
  PROVE  ContextIInv'
<1> DEFINE c == [collector[a] EXCEPT !.at = "recorded"]
<1>1. /\ Runs(a) /\ collector[a].at = "writing" /\ UNCHANGED unchangedByCollect
      /\ UNCHANGED <<summary, worker, driver>> /\ collector' = [collector EXCEPT ![a] = c]
      /\ UNCHANGED <<feedback, context, digest, message>>
  BY DEF WriteRegistry, Goto, At, contextVars, ContextIInv, ContextTypeOK
<1>2. UNCHANGED <<quietVars, rows>>
  BY <1>1 DEF quietVars, unchangedByCollect
<1>3. /\ collector[a] \in ContextCollector /\ digest[a] \in Digester
      /\ digest' = [digest EXCEPT ![a] = digest[a]] /\ feedback' \in Feedback \cup {None, Torn}
  BY <1>1 DEF ContextIInv, ContextTypeOK
<1>4. /\ c \in ContextCollector /\ c.at = "recorded" /\ c.next = collector[a].next
  BY <1>3 DEF ContextCollector
<1>5. registry' \in Entry \cup {Torn} /\ next_bases' \in [Rounds -> Base \cup {None}]
  BY <1>3, ContextAlone DEF WriteRegistry, ContextCollector, ContextIInv, ContextTypeOK
<1> HIDE DEF c
<1>6. CollectOf(collector[a], digest[a]) /\ summary[step] = "absent" /\ step \in Rounds
  BY <1>1, ContextAlone
<1>7. MovesOnly(a) /\ collector'[a] = c /\ digest'[a] = digest[a]
  BY <1>1, <1>3, <1>4, Moves
<1>8. CollectOf(collector[a], digest[a])'
  <2>1. summary'[step'] = "absent"
    BY <1>2, <1>6 DEF quietVars
  <2>2. ContextDecidedInv(collector[a])'
    <3>1. ContextDecidedInv(collector[a])
      BY <1>1, <1>6 DEF CollectOf
    <3> QED
      BY <1>2, <1>4, <1>7, <3>1, SameBest DEF quietVars, ContextDecidedInv, Follows, Of
  <2>3. /\ digest[a].at \in {"settling", "settled"} =>
             Tells(digest[a].entry, step, collector[a].next)'
        /\ digest[a].at = "settled" => Tells(feedback, step, collector[a].next)'
    <3>1. /\ digest[a].at \in {"settling", "settled"} =>
               Tells(digest[a].entry, step, collector[a].next)
          /\ digest[a].at = "settled" => Tells(feedback, step, collector[a].next)
      BY <1>6 DEF CollectOf
    <3> QED
      BY <1>1, <1>2, <1>4, <1>7, <3>1 DEF Tells, Of, quietVars
  <2>4. digest[a].at = "digested" => DigestedInv(digest[a])'
    BY <1>2, <1>6, <1>7, SameBest DEF CollectOf, DigestedInv, quietVars
  <2> QED
    BY <1>1, <1>4, <1>6, <1>7, <2>1, <2>2, <2>3, <2>4 DEF CollectOf
<1> QED
  BY <1>1, <1>2, <1>3, <1>5, <1>7, <1>8, CollectStep DEF quietVars

(* The batch is written, once the verdict is told.                         *)
LEMMA ContextWriteBatchInv ==
  ASSUME ContextIInv, NEW a \in Actors, WriteBatch(a), digest[a].at = "settled", UNCHANGED contextVars
  PROVE  ContextIInv'
<1> DEFINE c == [collector[a] EXCEPT !.at = "batched"]
<1>1. /\ Runs(a) /\ collector[a].at = "recorded" /\ UNCHANGED unchangedByCollect
      /\ UNCHANGED <<summary, worker, driver>> /\ collector' = [collector EXCEPT ![a] = c]
      /\ UNCHANGED <<feedback, context, digest, message>>
  BY DEF WriteBatch, Goto, At, contextVars, ContextIInv, ContextTypeOK
<1>2. UNCHANGED <<quietVars, rows>>
  BY <1>1 DEF quietVars, unchangedByCollect
<1>3. /\ collector[a] \in ContextCollector /\ digest[a] \in Digester
      /\ digest' = [digest EXCEPT ![a] = digest[a]] /\ feedback' \in Feedback \cup {None, Torn}
  BY <1>1 DEF ContextIInv, ContextTypeOK
<1>4. /\ c \in ContextCollector /\ c.at = "batched" /\ c.next = collector[a].next
  BY <1>3 DEF ContextCollector
<1>5. registry' \in Entry \cup {Torn} /\ next_bases' \in [Rounds -> Base \cup {None}]
  BY <1>3, ContextAlone DEF WriteBatch, ContextCollector, ContextIInv, ContextTypeOK
<1> HIDE DEF c
<1>6. CollectOf(collector[a], digest[a]) /\ summary[step] = "absent" /\ step \in Rounds
  BY <1>1, ContextAlone
<1>7. MovesOnly(a) /\ collector'[a] = c /\ digest'[a] = digest[a]
  BY <1>1, <1>3, <1>4, Moves
<1>8. CollectOf(collector[a], digest[a])'
  <2>1. summary'[step'] = "absent"
    BY <1>2, <1>6 DEF quietVars
  <2>2. ContextDecidedInv(collector[a])'
    <3>1. ContextDecidedInv(collector[a])
      BY <1>1, <1>6 DEF CollectOf
    <3> QED
      BY <1>2, <1>4, <1>7, <3>1, SameBest DEF quietVars, ContextDecidedInv, Follows, Of
  <2>3. /\ digest[a].at \in {"settling", "settled"} =>
             Tells(digest[a].entry, step, collector[a].next)'
        /\ digest[a].at = "settled" => Tells(feedback, step, collector[a].next)'
    <3>1. /\ digest[a].at \in {"settling", "settled"} =>
               Tells(digest[a].entry, step, collector[a].next)
          /\ digest[a].at = "settled" => Tells(feedback, step, collector[a].next)
      BY <1>6 DEF CollectOf
    <3> QED
      BY <1>1, <1>2, <1>4, <1>7, <3>1 DEF Tells, Of, quietVars
  <2>4. digest[a].at = "digested" => DigestedInv(digest[a])'
    BY <1>2, <1>6, <1>7, SameBest DEF CollectOf, DigestedInv, quietVars
  <2> QED
    BY <1>1, <1>4, <1>6, <1>7, <2>1, <2>2, <2>3, <2>4 DEF CollectOf
<1> QED
  BY <1>1, <1>2, <1>3, <1>5, <1>7, <1>8, CollectStep DEF quietVars

(* The bases are written.                                                  *)
LEMMA ContextWriteNextBasesInv ==
  ASSUME ContextIInv, NEW a \in Actors, WriteNextBases(a), UNCHANGED contextVars
  PROVE  ContextIInv'
<1> DEFINE c == [collector[a] EXCEPT !.at = "based"]
<1>1. /\ Runs(a) /\ collector[a].at = "batched" /\ UNCHANGED unchangedByCollect
      /\ UNCHANGED <<summary, worker, driver>> /\ collector' = [collector EXCEPT ![a] = c]
      /\ UNCHANGED <<feedback, context, digest, message>>
  BY DEF WriteNextBases, Goto, At, contextVars, ContextIInv, ContextTypeOK
<1>2. UNCHANGED <<quietVars, rows>>
  BY <1>1 DEF quietVars, unchangedByCollect
<1>3. /\ collector[a] \in ContextCollector /\ digest[a] \in Digester
      /\ digest' = [digest EXCEPT ![a] = digest[a]] /\ feedback' \in Feedback \cup {None, Torn}
  BY <1>1 DEF ContextIInv, ContextTypeOK
<1>4. /\ c \in ContextCollector /\ c.at = "based" /\ c.next = collector[a].next
  BY <1>3 DEF ContextCollector
<1>5. registry' \in Entry \cup {Torn} /\ next_bases' \in [Rounds -> Base \cup {None}]
  BY <1>3, ContextAlone DEF WriteNextBases, ContextCollector, ContextIInv, ContextTypeOK
<1> HIDE DEF c
<1>6. CollectOf(collector[a], digest[a]) /\ summary[step] = "absent" /\ step \in Rounds
  BY <1>1, ContextAlone
<1>7. MovesOnly(a) /\ collector'[a] = c /\ digest'[a] = digest[a]
  BY <1>1, <1>3, <1>4, Moves
<1>8. CollectOf(collector[a], digest[a])'
  <2>1. summary'[step'] = "absent"
    BY <1>2, <1>6 DEF quietVars
  <2>2. ContextDecidedInv(collector[a])'
    <3>1. ContextDecidedInv(collector[a])
      BY <1>1, <1>6 DEF CollectOf
    <3> QED
      BY <1>2, <1>4, <1>7, <3>1, SameBest DEF quietVars, ContextDecidedInv, Follows, Of
  <2>3. /\ digest[a].at \in {"settling", "settled"} =>
             Tells(digest[a].entry, step, collector[a].next)'
        /\ digest[a].at = "settled" => Tells(feedback, step, collector[a].next)'
    <3>1. /\ digest[a].at \in {"settling", "settled"} =>
               Tells(digest[a].entry, step, collector[a].next)
          /\ digest[a].at = "settled" => Tells(feedback, step, collector[a].next)
      BY <1>6 DEF CollectOf
    <3> QED
      BY <1>1, <1>2, <1>4, <1>7, <3>1 DEF Tells, Of, quietVars
  <2>4. digest[a].at = "digested" => DigestedInv(digest[a])'
    BY <1>2, <1>6, <1>7, SameBest DEF CollectOf, DigestedInv, quietVars
  <2>5. next_bases'[step'] = collector'[a].next
    BY <1>2, <1>4, <1>6, <1>7 DEF WriteNextBases, quietVars, ContextIInv, ContextTypeOK
  <2> QED
    BY <1>1, <1>4, <1>6, <1>7, <2>1, <2>2, <2>3, <2>4, <2>5 DEF CollectOf
<1> QED
  BY <1>1, <1>2, <1>3, <1>5, <1>7, <1>8, CollectStep DEF quietVars

(* The commit record is written and the collect is over.                   *)
LEMMA ContextWriteSummaryInv ==
  ASSUME ContextIInv, NEW a \in Actors, WriteSummary(a), digest' = [digest EXCEPT ![a] = NoDigest],
         UNCHANGED <<feedback, context, message>>
  PROVE  ContextIInv'
<1> DEFINE v == IF collector[a].improved THEN "improved" ELSE "flat"
<1>1. /\ Runs(a) /\ collector[a].at = "based" /\ UNCHANGED unchangedByCollect /\ Leave(a)
      /\ UNCHANGED <<registry, batch, next_bases>> /\ summary' = [summary EXCEPT ![step] = v]
  BY DEF WriteSummary, At
<1>2. CollectOf(collector[a], digest[a]) /\ digest[a] \in Digester
  BY <1>1, ContextAlone DEF ContextIInv, ContextTypeOK
<1>3. digest[a].at = "settled"
  BY <1>1, <1>2 DEF CollectOf, Digester
<1>4. Follows(next_bases[step]) /\ Tells(feedback, step, next_bases[step])
  BY <1>1, <1>2, <1>3 DEF CollectOf, ContextDecidedInv
<1> QED
  BY <1>1, <1>4, LeaveStep DEF unchangedByCollect

-------------------------------------------------------------------------------
(* The steps of the job and of the driver.                                 *)

(* What the proposers were told does not change, but for the next of them. *)
LEMMA SameMessages ==
  ASSUME ContextIInv, UNCHANGED message
  PROVE  (RequiredBriefIsThere /\ HeadlineIsTrue)'
  BY DEF ContextIInv, RequiredBriefIsThere, HeadlineIsTrue

(* The required brief is missing.                                          *)
LEMMA ProposeRaisesInv == ASSUME ContextIInv, ProposeRaises PROVE ContextIInv'
<1> USE DEF ProposeRaises, driverVars, fileVars, contextVars
<1>1. ContextTypeOK'
  BY DEF ContextIInv, ContextTypeOK
<1>2. ContextControlInv'
  BY DEF ContextIInv, ContextTypeOK, ContextControlInv, JobOver, Runs, Actors, Idle, NoDigest
<1>3. ContextCollectInv'
  BY DEF ContextIInv, ContextTypeOK, ContextControlInv, ContextCollectInv, CommittedInv,
         CollectOf, ContextDecidedInv,
         DigestedInv, Follows, Tells, Of, Runs, JobOver, Actors, Rounds, BestScore, Scored,
         IsBest, NoDigest, Feedback
<1>4. CommittedInv'
  BY DEF ContextIInv, ContextTypeOK, ContextControlInv, CommittedInv, Follows, Tells, Of,
         JobOver, Runs,
         Actors, Rounds, Feedback
<1>5. HandedOnInv'
  BY DEF ContextIInv, ContextTypeOK, ContextControlInv, HandedOnInv, Tells, Of, JobOver,
         Rounds
<1>6. (RequiredBriefIsThere /\ HeadlineIsTrue)'
  BY SameMessages
<1> QED
  BY <1>1, <1>2, <1>3, <1>4, <1>5, <1>6 DEF ContextIInv

(* The job is killed.                                                      *)
LEMMA ContextKilledInv == ASSUME ContextIInv, ContextKilled PROVE ContextIInv'
<1> USE DEF ContextKilled, JobKilled, driverVars, fileVars
<1>1. ContextTypeOK'
  <2>1. Idle \in ContextCollector /\ NoDigest \in Digester
    BY Given DEF Idle, ContextCollector, FirstBase, NoEntry, Base, Entry, NoDigest, Digester
  <2> QED
    BY <2>1 DEF ContextIInv, ContextTypeOK
<1>2. ContextControlInv'
  BY DEF ContextIInv, ContextTypeOK, ContextControlInv, JobOver, Runs, Actors, Idle, NoDigest
<1>3. ContextCollectInv'
  BY DEF ContextIInv, ContextTypeOK, ContextControlInv, ContextCollectInv, CommittedInv,
         CollectOf, ContextDecidedInv,
         DigestedInv, Follows, Tells, Of, Runs, JobOver, Actors, Rounds, BestScore, Scored,
         IsBest, NoDigest, Feedback
<1>4. CommittedInv'
  BY DEF ContextIInv, ContextTypeOK, ContextControlInv, CommittedInv, Follows, Tells, Of,
         JobOver, Runs,
         Actors, Rounds, Feedback
<1>5. HandedOnInv'
  BY DEF ContextIInv, ContextTypeOK, ContextControlInv, HandedOnInv, Tells, Of, JobOver,
         Rounds
<1>6. (RequiredBriefIsThere /\ HeadlineIsTrue)'
  BY SameMessages
<1> QED
  BY <1>1, <1>2, <1>3, <1>4, <1>5, <1>6 DEF ContextIInv

(* A rollout ends.                                                         *)
LEMMA ContextRolloutEndsInv ==
  ASSUME ContextIInv,
         (\E k \in Slots, out \in Outcome : RolloutEnds(k, out)) /\ UNCHANGED contextVars
  PROVE  ContextIInv'
<1> USE DEF RolloutEnds, driverVars, fileVars, contextVars
<1>1. ContextTypeOK'
  BY DEF ContextIInv, ContextTypeOK
<1>2. ContextControlInv'
  BY DEF ContextIInv, ContextTypeOK, ContextControlInv, JobOver, Runs, Actors, Idle, NoDigest
<1>3. ContextCollectInv'
  BY DEF ContextIInv, ContextTypeOK, ContextControlInv, ContextCollectInv, CommittedInv,
         CollectOf, ContextDecidedInv,
         DigestedInv, Follows, Tells, Of, Runs, JobOver, Actors, Rounds, BestScore, Scored,
         IsBest, NoDigest, Feedback
<1>4. CommittedInv'
  BY DEF ContextIInv, ContextTypeOK, ContextControlInv, CommittedInv, Follows, Tells, Of,
         JobOver, Runs,
         Actors, Rounds, Feedback
<1>5. HandedOnInv'
  BY DEF ContextIInv, ContextTypeOK, ContextControlInv, HandedOnInv, Tells, Of, JobOver,
         Rounds
<1>6. (RequiredBriefIsThere /\ HeadlineIsTrue)'
  BY SameMessages
<1> QED
  BY <1>1, <1>2, <1>3, <1>4, <1>5, <1>6 DEF ContextIInv

(* A rollout fails.                                                        *)
LEMMA ContextRolloutFailsInv ==
  ASSUME ContextIInv, (\E k \in Slots : RolloutFails(k)) /\ UNCHANGED contextVars
  PROVE  ContextIInv'
<1> USE DEF RolloutFails, driverVars, fileVars, contextVars
<1>1. ContextTypeOK'
  BY DEF ContextIInv, ContextTypeOK, Outcome
<1>2. ContextControlInv'
  BY DEF ContextIInv, ContextTypeOK, ContextControlInv, JobOver, Runs, Actors, Idle, NoDigest
<1>3. ContextCollectInv'
  BY DEF ContextIInv, ContextTypeOK, ContextControlInv, ContextCollectInv, CommittedInv,
         CollectOf, ContextDecidedInv,
         DigestedInv, Follows, Tells, Of, Runs, JobOver, Actors, Rounds, BestScore, Scored,
         IsBest, NoDigest, Feedback
<1>4. CommittedInv'
  BY DEF ContextIInv, ContextTypeOK, ContextControlInv, CommittedInv, Follows, Tells, Of,
         JobOver, Runs,
         Actors, Rounds, Feedback
<1>5. HandedOnInv'
  BY DEF ContextIInv, ContextTypeOK, ContextControlInv, HandedOnInv, Tells, Of, JobOver,
         Rounds
<1>6. (RequiredBriefIsThere /\ HeadlineIsTrue)'
  BY SameMessages
<1> QED
  BY <1>1, <1>2, <1>3, <1>4, <1>5, <1>6 DEF ContextIInv

(* The pool is drained.                                                    *)
LEMMA ContextRolloutsFinishInv ==
  ASSUME ContextIInv, RolloutsFinish /\ UNCHANGED contextVars
  PROVE  ContextIInv'
<1> USE DEF RolloutsFinish, driverVars, fileVars, contextVars
<1>1. ContextTypeOK'
  BY DEF ContextIInv, ContextTypeOK
<1>2. ContextControlInv'
  BY DEF ContextIInv, ContextTypeOK, ContextControlInv, JobOver, Runs, Actors, Idle, NoDigest
<1>3. ContextCollectInv'
  <2> SUFFICES ASSUME NEW a \in Actors, Runs(a)'
               PROVE  CollectOf(collector[a], digest[a])'
    BY DEF ContextCollectInv
  <2>1. ~Runs(a) /\ summary[step] = "absent"
    BY DEF ContextIInv, ContextControlInv, CommittedInv, JobOver, Runs, Actors
  <2>2. collector[a].at = "idle" /\ digest[a] = NoDigest
    BY <2>1 DEF ContextIInv, ContextControlInv
  <2> QED
    BY <2>1, <2>2 DEF CollectOf, NoDigest
<1>4. CommittedInv'
  BY DEF ContextIInv, ContextTypeOK, ContextControlInv, CommittedInv, Follows, Tells, Of,
         JobOver, Runs,
         Actors, Rounds, Feedback
<1>5. HandedOnInv'
  BY DEF ContextIInv, ContextTypeOK, ContextControlInv, HandedOnInv, Tells, Of, JobOver,
         Rounds
<1>6. (RequiredBriefIsThere /\ HeadlineIsTrue)'
  BY SameMessages
<1> QED
  BY <1>1, <1>2, <1>3, <1>4, <1>5, <1>6 DEF ContextIInv

(* A round is submitted.                                                   *)
LEMMA ContextSubmitInv ==
  ASSUME ContextIInv, Submit /\ UNCHANGED contextVars
  PROVE  ContextIInv'
<1> USE DEF Submit, fileVars, contextVars
<1>1. ContextTypeOK'
  BY DEF ContextIInv, ContextTypeOK, Outcome
<1>2. ContextControlInv'
  BY DEF ContextIInv, ContextTypeOK, ContextControlInv, JobOver, Runs, Actors, Idle, NoDigest
<1>3. ContextCollectInv'
  BY DEF ContextIInv, ContextTypeOK, ContextControlInv, ContextCollectInv, CommittedInv,
         CollectOf, ContextDecidedInv,
         DigestedInv, Follows, Tells, Of, Runs, JobOver, Actors, Rounds, BestScore, Scored,
         IsBest, NoDigest, Feedback
<1>4. CommittedInv'
  BY DEF ContextIInv, ContextTypeOK, ContextControlInv, CommittedInv, Follows, Tells, Of,
         JobOver, Runs,
         Actors, Rounds, Feedback
<1>5. HandedOnInv'
  BY DEF ContextIInv, ContextTypeOK, ContextControlInv, HandedOnInv, Tells, Of, JobOver,
         Rounds
<1>6. (RequiredBriefIsThere /\ HeadlineIsTrue)'
  BY SameMessages
<1> QED
  BY <1>1, <1>2, <1>3, <1>4, <1>5, <1>6 DEF ContextIInv

(* The campaign ends.                                                      *)
LEMMA EndInv ==
  ASSUME ContextIInv, (EndCampaign \/ NoSummary) /\ UNCHANGED contextVars
  PROVE  ContextIInv'
<1> USE DEF EndCampaign, NoSummary, workerVars, fileVars, contextVars
<1>1. ContextTypeOK'
  BY DEF ContextIInv, ContextTypeOK
<1>2. ContextControlInv'
  BY DEF ContextIInv, ContextTypeOK, ContextControlInv, JobOver, Runs, Actors, Idle, NoDigest
<1>3. ContextCollectInv'
  BY DEF ContextIInv, ContextTypeOK, ContextControlInv, ContextCollectInv, CommittedInv,
         CollectOf, ContextDecidedInv,
         DigestedInv, Follows, Tells, Of, Runs, JobOver, Actors, Rounds, BestScore, Scored,
         IsBest, NoDigest, Feedback
<1>4. CommittedInv'
  BY DEF ContextIInv, ContextTypeOK, ContextControlInv, CommittedInv, Follows, Tells, Of,
         JobOver, Runs,
         Actors, Rounds, Feedback
<1>5. HandedOnInv'
  BY DEF ContextIInv, ContextTypeOK, ContextControlInv, HandedOnInv, Tells, Of, JobOver,
         Rounds
<1>6. (RequiredBriefIsThere /\ HeadlineIsTrue)'
  BY SameMessages
<1> QED
  BY <1>1, <1>2, <1>3, <1>4, <1>5, <1>6 DEF ContextIInv

(* The next round is due.                                                  *)
LEMMA NextRoundInv ==
  ASSUME ContextIInv, SkipTraining /\ UNCHANGED contextVars
  PROVE  ContextIInv'
<1> USE DEF SkipTraining, workerVars, fileVars, contextVars
<1>1. ContextTypeOK'
  BY Given DEF ContextIInv, ContextTypeOK, ContextControlInv, Rounds
<1>2. ContextControlInv'
  BY DEF ContextIInv, ContextTypeOK, ContextControlInv, JobOver, Runs, Actors, Idle, NoDigest
<1>3. ContextCollectInv'
  BY DEF ContextIInv, ContextTypeOK, ContextControlInv, ContextCollectInv, CommittedInv,
         CollectOf, ContextDecidedInv,
         DigestedInv, Follows, Tells, Of, Runs, JobOver, Actors, Rounds, BestScore, Scored,
         IsBest, NoDigest, Feedback
<1>4. CommittedInv'
  BY DEF ContextIInv, ContextTypeOK, ContextControlInv, CommittedInv, Follows, Tells, Of,
         JobOver, Runs,
         Actors, Rounds, Feedback
<1>5. HandedOnInv'
  BY DEF ContextIInv, ContextTypeOK, ContextControlInv, HandedOnInv, Tells, Of, JobOver,
         Rounds
<1>6. (RequiredBriefIsThere /\ HeadlineIsTrue)'
  BY SameMessages
<1> QED
  BY <1>1, <1>2, <1>3, <1>4, <1>5, <1>6 DEF ContextIInv

(* The job is over.                                                        *)
LEMMA ContextWaitJobInv == ASSUME ContextIInv, ContextWaitJob PROVE ContextIInv'
<1> USE DEF ContextWaitJob, workerVars, fileVars, contextVars
<1>1. ContextTypeOK'
  BY DEF ContextIInv, ContextTypeOK
<1>2. ContextControlInv'
  BY DEF ContextIInv, ContextTypeOK, ContextControlInv, JobOver, Runs, Actors, Idle, NoDigest
<1>3. ContextCollectInv'
  <2> SUFFICES ASSUME NEW a \in Actors, Runs(a)'
               PROVE  CollectOf(collector[a], digest[a])'
    BY DEF ContextCollectInv
  <2>1. ~Runs(a) /\ summary[step] = "absent"
    BY DEF ContextIInv, ContextControlInv, CommittedInv, JobOver, Runs, Actors
  <2>2. collector[a].at = "idle" /\ digest[a] = NoDigest
    BY <2>1 DEF ContextIInv, ContextControlInv
  <2> QED
    BY <2>1, <2>2 DEF CollectOf, NoDigest
<1>4. CommittedInv'
  BY DEF ContextIInv, ContextTypeOK, ContextControlInv, CommittedInv, Follows, Tells, Of,
         JobOver, Runs,
         Actors, Rounds, Feedback
<1>5. HandedOnInv'
  BY DEF ContextIInv, ContextTypeOK, ContextControlInv, HandedOnInv, Tells, Of, JobOver,
         Rounds
<1>6. (RequiredBriefIsThere /\ HeadlineIsTrue)'
  BY SameMessages
<1> QED
  BY <1>1, <1>2, <1>3, <1>4, <1>5, <1>6 DEF ContextIInv

(* The curator adds a note.                                                *)
LEMMA CurateInv == ASSUME ContextIInv, Curate PROVE ContextIInv'
<1> USE DEF Curate, vars, driverVars, workerVars, fileVars
<1>1. ContextTypeOK'
  <2>1. feedback \in Feedback
    BY DEF ContextIInv, ContextTypeOK
  <2>2. \A note \in Lines : [feedback EXCEPT !.note = note] \in Feedback
    BY <2>1 DEF Feedback
  <2> QED
    BY <2>2 DEF ContextIInv, ContextTypeOK
<1>2. ContextControlInv'
  BY DEF ContextIInv, ContextTypeOK, ContextControlInv, JobOver, Runs, Actors, Idle, NoDigest
<1>3. ContextCollectInv'
  <2> SUFFICES ASSUME NEW a \in Actors, Runs(a)' PROVE CollectOf(collector[a], digest[a])'
    BY DEF ContextCollectInv
  <2>1. CollectOf(collector[a], digest[a])
    BY DEF ContextIInv, ContextCollectInv, Runs
  <2>2. \E note : feedback' = [feedback EXCEPT !.note = note]
    OBVIOUS
  <2>3. Tells(feedback, step, collector[a].next) => Tells(feedback, step, collector[a].next)'
    BY <1>1, <2>2 DEF ContextTypeOK, Tells, Of, Feedback
  <2>4. ContextDecidedInv(collector[a]) => ContextDecidedInv(collector[a])'
    BY SameBest DEF ContextDecidedInv, Follows, Of
  <2>5. DigestedInv(digest[a]) => DigestedInv(digest[a])'
    BY SameBest DEF DigestedInv
  <2>6. Tells(digest[a].entry, step, collector[a].next) =>
          Tells(digest[a].entry, step, collector[a].next)'
    BY DEF Tells, Of
  <2> QED
    BY <2>1, <2>3, <2>4, <2>5, <2>6 DEF CollectOf
<1>4. CommittedInv'
  BY DEF ContextIInv, ContextTypeOK, ContextControlInv, CommittedInv, Follows, Tells, Of,
         JobOver, Runs,
         Actors, Rounds, Feedback
<1>5. HandedOnInv'
  BY DEF ContextIInv, ContextTypeOK, ContextControlInv, HandedOnInv, Tells, Of, JobOver,
         Rounds
<1>6. (RequiredBriefIsThere /\ HeadlineIsTrue)'
  BY SameMessages
<1> QED
  BY <1>1, <1>2, <1>3, <1>4, <1>5, <1>6 DEF ContextIInv

(* The proposer is told of the round before, with a brief if there is any  *)
(* feedback, and its base is what it is told about.                        *)
LEMMA ContextProposeInv == ASSUME ContextIInv, ContextPropose PROVE ContextIInv'
<1> USE DEF ContextPropose, Propose, driverVars, fileVars
<1>1. ContextTypeOK'
  BY DEF ContextIInv, ContextTypeOK
<1>2. ContextControlInv'
  BY DEF ContextIInv, ContextTypeOK, ContextControlInv, JobOver, Runs, Actors, Rounds
<1>3. ContextCollectInv'
  BY DEF ContextIInv, ContextTypeOK, ContextControlInv, ContextCollectInv, Runs, JobOver,
         Actors, Rounds
<1>4. CommittedInv'
  BY DEF ContextIInv, CommittedInv, Follows, Tells, Of
<1>5. HandedOnInv'
  BY DEF ContextIInv, HandedOnInv, Tells, Of
<1>6. driver = "waiting" /\ step \in Rounds /\ bases \in Base /\ step \in Nat /\ step >= 1
  BY DEF ContextIInv, ContextTypeOK, ContextControlInv, JobOver, Rounds
<1>7. PICK brief \in Briefs :
        message' = [message EXCEPT ![step] = UserMessage(Seed, bases, Told, brief)]
  OBVIOUS
<1>8. /\ message'[step] = UserMessage(Seed, bases, Told, brief)
      /\ \A r \in Rounds \ {step} : message'[r] = message[r]
  BY <1>6, <1>7 DEF ContextIInv, ContextTypeOK
<1>9. \/ step = 1 /\ context = None
      \/ step > 1 /\ Tells(context, step - 1, bases)
  BY <1>6 DEF ContextIInv, HandedOnInv
<1>10. CASE step = 1 /\ context = None
  <2>1. Told = None
    BY <1>10 DEF Told, Known
  <2>2. message'[step].told = None
    BY <1>8, <2>1 DEF UserMessage
  <2>3. RequiredBriefIsThere'
    BY <1>8, <1>10 DEF ContextIInv, RequiredBriefIsThere
  <2>4. HeadlineIsTrue'
    BY <1>8, <2>2 DEF ContextIInv, HeadlineIsTrue
  <2> QED
    BY <1>1, <1>2, <1>3, <1>4, <1>5, <2>3, <2>4 DEF ContextIInv
<1>11. CASE step > 1 /\ Tells(context, step - 1, bases)
  <2>1. Known /\ context.round = step - 1
    BY <1>11, Given DEF Known, Tells
  <2>2. brief # None /\ brief.dossier.round = step - 1
    <3>1. brief # None /\ \E perf, design \in Replies : brief = Brief(context, perf, design)
      BY <2>1 DEF Briefs
    <3>2. brief.dossier = Dossier(context)
      BY <3>1 DEF Brief
    <3> QED
      BY <2>1, <3>1, <3>2 DEF Dossier
  <2>3. Told = RenderFeedback(context)
    BY <2>1 DEF Told
  <2>4. /\ message'[step].brief = brief /\ message'[step].told = RenderFeedback(context)
        /\ message'[step].base = bases
    BY <1>8, <2>3 DEF UserMessage
  <2>5. RequiredBriefIsThere'
    BY <1>8, <2>2, <2>4 DEF ContextIInv, RequiredBriefIsThere
  <2>6. HeadlineIsTrue'
    <3> DEFINE told == RenderFeedback(context)
    <3>1. /\ told.headline.says = "reached" /\ told.headline.to > told.headline.from =>
               bases.package \in {told.round} \X Slots /\ bases.score = told.headline.to
          /\ told.headline.says = "refused" =>
               bases.package \notin {told.round} \X Slots /\ bases.score = told.headline.from
      BY <1>6, <1>11, HeadlineTells DEF Of
    <3> HIDE DEF told
    <3> QED
      BY <1>8, <2>4, <3>1 DEF ContextIInv, HeadlineIsTrue, told
  <2> QED
    BY <1>1, <1>2, <1>3, <1>4, <1>5, <2>5, <2>6 DEF ContextIInv
<1> QED
  BY <1>9, <1>10, <1>11

(* A committed round is inherited: the recheck of the base finds nothing   *)
(* to mend, and what is handed on tells of it.                             *)
LEMMA ContextInheritInv == ASSUME ContextIInv, ContextInherit PROVE ContextIInv'
<1> USE DEF ContextInherit, workerVars
<1>1. /\ Follows(next_bases[step]) /\ Tells(feedback, step, next_bases[step])
      /\ step \in Rounds /\ step \in Nat
  BY DEF ContextIInv, CommittedInv, ContextControlInv, Rounds
<1>2. Rechecked = next_bases[step]
  <2>1. next_bases[step].score \in Nat /\ bases.score \in Nat
    BY <1>1 DEF Follows, Base, ContextIInv, ContextTypeOK
  <2> QED
    BY <1>1, <2>1 DEF Rechecked, Follows
<1>3. UNCHANGED next_bases /\ bases' = next_bases[step] /\ next_bases[step] \in Base
  BY <1>1, <1>2 DEF ContextIInv, ContextTypeOK, Follows
<1>4. /\ context' \in Feedback /\ context'.round = feedback.round
      /\ context'.accepted = feedback.accepted /\ context'.outgoing = feedback.outgoing
      /\ context'.best = feedback.best /\ context'.base = feedback.base
  <2>1. feedback \in Feedback /\ context' = [feedback EXCEPT !.note = None]
    BY <1>1, Given DEF Tells, Stripped
  <2> QED
    BY <2>1 DEF Feedback
<1>5. ContextTypeOK'
  BY <1>3, <1>4 DEF ContextIInv, ContextTypeOK
<1>6. ContextControlInv'
  BY DEF ContextIInv, ContextControlInv, JobOver, Runs
<1>7. ContextCollectInv'
  BY DEF ContextIInv, ContextControlInv, ContextCollectInv, Runs, JobOver
<1>8. CommittedInv'
  BY DEF ContextIInv, CommittedInv
<1>9. HandedOnInv'
  <2>1. \A r \in Rounds : Of(bases, r)' => r <= step
    BY <1>1, <1>3 DEF Follows, Of
  <2>2. \A r \in Rounds : r <= step => r < step \/ r = step
    BY <1>1 DEF Rounds
  <2>3. Tells(context, step, bases)'
    BY <1>1, <1>3, <1>4 DEF Tells, Of
  <2> QED
    BY <2>1, <2>2, <2>3 DEF HandedOnInv
<1> QED
  BY <1>5, <1>6, <1>7, <1>8, <1>9, SameMessages DEF ContextIInv

-------------------------------------------------------------------------------
(* Nothing is told before the first round.                                 *)
LEMMA ContextInitInv == ContextInit => ContextIInv
<1> SUFFICES ASSUME ContextInit PROVE ContextIInv
  OBVIOUS
<1> USE DEF ContextInit, Init
<1>1. FirstBase \in Base /\ NoEntry \in Entry /\ Idle \in ContextCollector /\ NoDigest \in Digester
  BY Given DEF Idle, ContextCollector, FirstBase, NoEntry, Base, Entry, NoDigest, Digester
<1>2. ContextTypeOK
  BY <1>1, Given DEF ContextTypeOK, Rounds
<1>3. ContextControlInv
  BY DEF ContextControlInv, JobOver, Idle, Actors, NoDigest
<1>4. ContextCollectInv
  BY DEF ContextCollectInv, Runs, Actors
<1>5. CommittedInv
  BY DEF CommittedInv
<1>6. HandedOnInv
  BY Given DEF HandedOnInv, Of, FirstBase, Origin
<1>7. RequiredBriefIsThere /\ HeadlineIsTrue
  BY DEF RequiredBriefIsThere, HeadlineIsTrue
<1> QED
  BY <1>2, <1>3, <1>4, <1>5, <1>6, <1>7 DEF ContextIInv

(* Every step preserves the invariant.                                     *)
LEMMA ContextNextInv == ContextIInv /\ [ContextNext]_allVars => ContextIInv'
<1> SUFFICES ASSUME ContextIInv, [ContextNext]_allVars PROVE ContextIInv'
  OBVIOUS
<1>1. CASE ContextPropose \/ ProposeRaises \/ ContextKilled
  BY <1>1, ContextProposeInv, ProposeRaisesInv, ContextKilledInv
<1>2. CASE /\ \/ \E k \in Slots, out \in Outcome : RolloutEnds(k, out)
              \/ \E k \in Slots : RolloutFails(k)
              \/ RolloutsFinish
              \/ Submit \/ EndCampaign \/ NoSummary \/ SkipTraining
           /\ UNCHANGED contextVars
  BY <1>2, ContextRolloutEndsInv, ContextRolloutFailsInv, ContextRolloutsFinishInv,
     ContextSubmitInv, EndInv, NextRoundInv
<1>3. ASSUME NEW a \in Actors,
             \/ BeginDigest(a) \/ WriteDigest(a) \/ ContextJudge(a)
             \/ BeginSettle(a) \/ WriteSettled(a)
      PROVE  ContextIInv'
  BY <1>3, BeginDigestInv, WriteDigestInv, ContextJudgeInv, BeginSettleInv, WriteSettledInv
<1>4. ASSUME NEW a \in Actors, ContextCommit(a) PROVE ContextIInv'
  <2>1. CASE /\ OpenRegistry(a) \/ WriteRegistry(a) \/ WriteNextBases(a)
             /\ UNCHANGED contextVars
    BY <2>1, ContextOpenRegistryInv, ContextWriteRegistryInv, ContextWriteNextBasesInv
  <2>2. CASE WriteBatch(a) /\ digest[a].at = "settled" /\ UNCHANGED contextVars
    BY <2>2, ContextWriteBatchInv
  <2>3. CASE /\ WriteSummary(a) /\ digest' = [digest EXCEPT ![a] = NoDigest]
             /\ UNCHANGED <<feedback, context, message>>
    BY <2>3, ContextWriteSummaryInv
  <2> QED
    BY <1>4, <2>1, <2>2, <2>3 DEF ContextCommit
<1>5. CASE ContextWaitJob \/ ContextInherit \/ Curate
  BY <1>5, ContextWaitJobInv, ContextInheritInv, CurateInv
<1>6. CASE UNCHANGED allVars
  <2>1. UNCHANGED <<quietVars, collector, digest, feedback, registry, next_bases>>
    BY <1>6 DEF allVars, vars, driverVars, workerVars, fileVars, contextVars, quietVars
  <2>2. ContextTypeOK'
    BY <2>1 DEF ContextIInv, ContextTypeOK, quietVars
  <2>3. ContextControlInv'
    BY <2>1 DEF ContextIInv, ContextControlInv, JobOver, Runs, quietVars
  <2>4. ContextCollectInv'
    BY <2>1, SameBest
       DEF ContextIInv, ContextCollectInv, CollectOf, ContextDecidedInv, DigestedInv,
           Follows, Tells, Of, Runs,
           quietVars
  <2>5. CommittedInv' /\ HandedOnInv'
    BY <2>1 DEF ContextIInv, CommittedInv, HandedOnInv, Follows, Tells, Of, quietVars
  <2> QED
    BY <2>1, <2>2, <2>3, <2>4, <2>5, SameMessages DEF ContextIInv, quietVars
<1> QED
  BY <1>1, <1>2, <1>3, <1>4, <1>5, <1>6 DEF ContextNext

(* The invariant holds throughout a campaign.                              *)
LEMMA Invariance == ContextSpec => []ContextIInv
  BY ContextInitInv, ContextNextInv, PTL DEF ContextSpec

-------------------------------------------------------------------------------
(* After the cold round every proposer is given a brief, and of the round  *)
(* before its own, whatever was killed, collected twice or unreadable, for *)
(* any number of rounds and slots and any answers of the specialists.      *)
THEOREM BriefsAreThere == ContextSpec => []RequiredBriefIsThere
<1>1. ContextIInv => RequiredBriefIsThere
  BY DEF ContextIInv
<1> QED
  BY <1>1, Invariance, PTL

(* A gain told as reached is the gain of the base the proposer is shown,   *)
(* and an incumbent said to remain is that base.                           *)
THEOREM HeadlinesAreTrue == ContextSpec => []HeadlineIsTrue
<1>1. ContextIInv => HeadlineIsTrue
  BY DEF ContextIInv
<1> QED
  BY <1>1, Invariance, PTL

===============================================================================
