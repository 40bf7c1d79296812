---------------------------- MODULE CampaignConfig ----------------------------
(***************************************************************************)
(* The YAML file that drives a campaign (campaign_config.py): a schema of  *)
(* sections with their defaults, a merge that fails closed on a key the    *)
(* schema does not have, a few checks of values, and the environment the   *)
(* shell and worker layer reads.                                           *)
(*                                                                         *)
(* A file is [root, sections]: root maps keys to values, sections maps     *)
(* names to a mapping of their own, or to None when the file holds         *)
(* something else there.  Fractions and words are strings.                 *)
(***************************************************************************)
EXTENDS Integers

CONSTANT None

Root == [protocol |-> "sah", task |-> None, rounds |-> 12, round_base |-> None, workspace |-> None]

Defaults ==
  [phi |-> [resume_export |-> None, resume_ckpt |-> None],
   sampling |-> [K |-> 8, mode |-> "parallel", max_evals |-> 30, eval_timeout |-> 180,
                 force_tool_frac |-> "0.25", eval_repeats |-> 1, min_iters |-> 0],
   reward |-> [impl |-> "v3", hist_lambda |-> "0.3", sharpen_alpha |-> "0.3",
               min_paired_effect |-> "0.0", paired_repeats |-> 1],
   analysis |-> [enabled |-> FALSE, performance_analyzer |-> TRUE, design_analyzer |-> TRUE,
                 brief_token_cap |-> 6000, dossier_char_cap |-> 18000, dossier_rows |-> 8],
   sequential |-> [enabled |-> FALSE, share_valid_actions |-> TRUE, max_shared |-> 6],
   leakage_guard |-> [champion_isolation |-> TRUE, neutralize_claim_words |-> TRUE,
                      scrub_leak_markers |-> TRUE],
   training |-> [kl_coef |-> "0.05", num_epoch |-> 3, plateau_rounds |-> 1]]

Required == {"task", "round_base"}

(* The value in a file, or the default; what a default's type is does not  *)
(* restrict the value.                                                     *)
Over(base, given) == [k \in DOMAIN base |-> IF k \in DOMAIN given THEN given[k] ELSE base[k]]

Merged(file) ==
  [root |-> Over(Root, file.root),
   sections |-> [s \in DOMAIN Defaults |->
                   IF s \in DOMAIN file.sections THEN Over(Defaults[s], file.sections[s])
                   ELSE Defaults[s]]]

(* Keys only the schema has, and a mapping where it has one.               *)
KnownKeys(file) ==
  /\ DOMAIN file.root \subseteq DOMAIN Root
  /\ DOMAIN file.sections \subseteq DOMAIN Defaults
  /\ \A s \in DOMAIN file.sections :
       file.sections[s] # None /\ DOMAIN file.sections[s] \subseteq DOMAIN Defaults[s]

Valid(data) ==
  /\ \A k \in Required : data.root[k] \notin {None, ""}
  /\ data.sections["sampling"].mode \in {"parallel", "sequential"}
  /\ data.sections["reward"].impl \in {"v2", "v3", "paired", "legacy", "anchored"}
  /\ data.sections["reward"].paired_repeats >= 1

Accepted(file) == KnownKeys(file) /\ Valid(Merged(file))

(* load: sequential sampling switches its feature on.                      *)
Loaded(file) ==
  LET data == Merged(file)
      on == data.sections["sampling"].mode = "sequential" \/ data.sections["sequential"].enabled = TRUE
  IN [data EXCEPT !.sections["sequential"].enabled = on]

Flag(b) == IF b THEN "1" ELSE "0"

EnvOverrides(data) ==
  LET s == data.sections["sampling"]   r == data.sections["reward"]
      t == data.sections["training"]   p == data.sections["phi"]
      q == data.sections["sequential"] g == data.sections["leakage_guard"]
  IN [K |-> s.K, MAX_EVALS |-> s.max_evals, EVAL_TIMEOUT |-> s.eval_timeout,
      EVAL_REPEATS |-> s.eval_repeats, SAH_MIN_ITERS |-> s.min_iters,
      FORCE_TOOL_FRAC |-> s.force_tool_frac,
      SAH_ADV |-> r.impl, SAH_HIST_LAMBDA |-> r.hist_lambda, SAH_ALPHA |-> r.sharpen_alpha,
      SAH_MIN_PAIRED_EFFECT |-> r.min_paired_effect, SAH_PAIRED_REPEATS |-> r.paired_repeats,
      KL_COEF |-> t.kl_coef, NUM_EPOCH |-> t.num_epoch,
      SAH_SAMPLING_MODE |-> s.mode, SAH_SEQUENTIAL |-> Flag(q.enabled),
      SAH_SEQ_MAX_SHARED |-> q.max_shared,
      SAH_ANALYSIS |-> Flag(data.sections["analysis"].enabled),
      SAH_LEAK_NEUTRALIZE |-> Flag(g.neutralize_claim_words),
      SAH_CHAMPION_ISOLATION |-> Flag(g.champion_isolation),
      SAH_PROTOCOL |-> data.root.protocol,
      RESUME_PHI |-> p.resume_export, RESUME_CKPT |-> p.resume_ckpt] \* not exported if None

-------------------------------------------------------------------------------
(* What no exported variable carries: a campaign takes its task, rounds,   *)
(* base and workspace from the data, and the rest from nowhere.            *)
Unexported ==
  {<<"training", "plateau_rounds">>, <<"sequential", "share_valid_actions">>,
   <<"leakage_guard", "scrub_leak_markers">>, <<"analysis", "performance_analyzer">>,
   <<"analysis", "design_analyzer">>, <<"analysis", "brief_token_cap">>,
   <<"analysis", "dossier_char_cap">>, <<"analysis", "dossier_rows">>}

(* A file that loads sets what it names and nothing else: every other key  *)
(* keeps its default, but for the switch that sequential sampling turns.   *)
FollowsTheFile(file) ==
  Accepted(file) => \A s \in DOMAIN Defaults : \A k \in DOMAIN Defaults[s] :
    <<s, k>> # <<"sequential", "enabled">> =>
      LET given == s \in DOMAIN file.sections /\ k \in DOMAIN file.sections[s]
      IN Loaded(file).sections[s][k] = IF given THEN file.sections[s][k] ELSE Defaults[s][k]

(* Sequential sampling, which breaks the independence of a group's         *)
(* samples, reaches the worker only when the file asked for it, by either  *)
(* of the two keys, and then always.                                       *)
SequentialIsAsked(file) ==
  LET data == Merged(file)
  IN EnvOverrides(Loaded(file)).SAH_SEQUENTIAL = "1"
     <=> data.sections["sampling"].mode = "sequential" \/ data.sections["sequential"].enabled = TRUE

(* Two files that differ only in unexported keys drive the same campaign.  *)
SameEnvironment(f, g) ==
  (/\ Merged(f).root.protocol = Merged(g).root.protocol
   /\ \A s \in DOMAIN Defaults : \A k \in DOMAIN Defaults[s] :
        <<s, k>> \notin Unexported => Merged(f).sections[s][k] = Merged(g).sections[s][k])
  => EnvOverrides(Loaded(f)) = EnvOverrides(Loaded(g))
=============================================================================
