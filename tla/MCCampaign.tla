------------------------------ MODULE MCCampaign -------------------------------
(***************************************************************************)
(* Three slots, so that a best one is picked, one may never have reached   *)
(* the model, and the sanitation still has two to compare; two scores above*)
(* the first base, so that an incumbent can be replaced in the second      *)
(* round; a plateau of two rounds, which no campaign file can ask for: see *)
(* CampaignConfig.                                                         *)
(***************************************************************************)
EXTENDS Campaign

MCSlots == 1..3
MCScores == 1..2

(* Campaign files: a minimal one, a deep plateau, sequential sampling by   *)
(* either key, a misspelt key and a section that is not a mapping.         *)
Config == INSTANCE CampaignConfig

RequiredOnly == [task |-> "circle", round_base |-> "700"]
Nothing == [s \in {} |-> None]
Minimal == [root |-> RequiredOnly, sections |-> Nothing]
Plateau == [root |-> RequiredOnly, sections |-> [training |-> [plateau_rounds |-> PlateauRounds]]]
BySampling == [root |-> RequiredOnly, sections |-> [sampling |-> [mode |-> "sequential", K |-> 4]]]
BySwitch == [root |-> RequiredOnly, sections |-> [sequential |-> [enabled |-> TRUE]]]
Misspelt == [root |-> RequiredOnly, sections |-> [sampling |-> [k |-> 4]]]
NotAMapping == [root |-> RequiredOnly, sections |-> [sampling |-> None]]

ASSUME ConfigIsRead ==
  LET loading == {Minimal, Plateau, BySampling, BySwitch}
      Env(file) == Config!EnvOverrides(Config!Loaded(file))
  IN /\ \A file \in loading : /\ Config!Accepted(file) /\ Config!FollowsTheFile(file)
                              /\ Config!SequentialIsAsked(file)
     /\ \A file \in {Misspelt, NotAMapping} : ~Config!Accepted(file)
     /\ ~Config!Accepted([Minimal EXCEPT !.root = Nothing])
     /\ Env(Plateau) = Env(Minimal)
     /\ {file \in loading : Env(file).SAH_SEQUENTIAL = "1"} = {BySampling, BySwitch}
=============================================================================
