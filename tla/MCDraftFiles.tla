----------------------------- MODULE MCDraftFiles ------------------------------
(***************************************************************************)
(* The parent mounts one skill, whose text is too long to be shown; a slot *)
(* of every kind, the tool slot with and without the preloaded workspace;  *)
(* a parameter move was futile before.                                     *)
(***************************************************************************)
EXTENDS DraftFiles

MCPlugins == {"skill", "tool", "other", "hook"}
MCKindOf ==
  [skill |-> "skill", tool |-> "tool", other |-> "tool", hook |-> "middleware"]
MCStarter == [tool |-> "tool", middleware |-> "hook"]
MCParent == {"skill"}
MCOverlong == {"skill"}
MCFutile == {{<<"params">>}}
MCMandates ==
  {[kind |-> "tool", forced |-> FALSE, preload |-> TRUE],
   [kind |-> "middleware", forced |-> FALSE, preload |-> FALSE],
   [kind |-> "params", forced |-> FALSE, preload |-> TRUE],
   [kind |-> "", forced |-> TRUE, preload |-> TRUE]}
===============================================================================
