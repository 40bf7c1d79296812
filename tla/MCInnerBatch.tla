----------------------------- MODULE MCInnerBatch -----------------------------
(***************************************************************************)
(* A guarded task with an EVOLVE-BLOCK, whose rewrites are one with a      *)
(* stray end and one that is a whole program and whose diff changes the    *)
(* block and removes fixed code, and one whose score the worker            *)
(* recomputes, evaluated again as it is.  Of the manifest, those two tasks *)
(* can be scored, found and are in the tier that is asked for.             *)
(***************************************************************************)
EXTENDS InnerBatch

MCFiles == {"dir", "program", "evaluator"}
MCManifest ==
  <<[id |-> "unscorable", source |-> "eft", scorable |-> FALSE, files |-> MCFiles, tier |-> "cpu"],
    [id |-> "eplb", source |-> "adrs", scorable |-> FALSE, files |-> MCFiles, tier |-> "cpu"],
    [id |-> "txn", source |-> "adrs", scorable |-> TRUE, files |-> MCFiles, tier |-> "cpu"],
    [id |-> "heavy", source |-> "eft", scorable |-> TRUE, files |-> MCFiles, tier |-> "heavy"],
    [id |-> "untold", source |-> "simpletes", scorable |-> TRUE, files |-> MCFiles, tier |-> "cpu"]>>
MCTiers == {"cpu"}
MCIds == <<>>
MCInitialLines ==
  [t \in TaskSet |-> IF t = "eplb" THEN <<"import", BlockStart, "x", BlockEnd, "entry">>
                     ELSE <<"x">>]
MCGuarded == {"eplb", "txn"}
MCTxnTasks == {"txn"}
MCCodes ==
  [t \in TaskSet |-> IF t = "txn" THEN {}
                     ELSE {<<"y", BlockEnd, "z">>, <<"other", BlockStart, "z", BlockEnd>>}]
MCDiffs ==
  [t \in TaskSet |-> IF t = "txn" THEN {}
                     ELSE {<<[search |-> <<"x">>, replace |-> <<"y">>],
                             [search |-> <<"import">>, replace |-> <<>>]>>}]
FileSymmetry == Permutations(Files)
MCScores == {0, 2}
=============================================================================
