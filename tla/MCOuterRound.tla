----------------------------- MODULE MCOuterRound -----------------------------
(***************************************************************************)
(* A forced slot and a component-only slot; two genomes with one tool each *)
(* and a base with none.                                                   *)
(***************************************************************************)
EXTENDS OuterRound

MCGenomes == {"h0", "scan", "tune"}
MCToolsOf == [g \in MCGenomes |-> IF g = "h0" THEN {} ELSE {g}]
MCWorth == [g \in MCGenomes |-> IF g = "scan" THEN 2 ELSE 1]
=============================================================================
