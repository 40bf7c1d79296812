------------------------------ MODULE MCExecutor ------------------------------
(***************************************************************************)
(* Batches of two with one supplement, over the initial program and a     *)
(* better one.                                                             *)
(***************************************************************************)
EXTENDS Executor

MCPrograms == {"r", "a"}
MCScore == [p \in MCPrograms |-> CASE p = "r" -> 0 [] p = "a" -> 20]
=============================================================================
