-------------------------------- MODULE Missing --------------------------------
(***************************************************************************)
(* The value of what is not there: Python's None, a file not written yet, a *)
(* field without a value.  It is no number.                                *)
(***************************************************************************)
EXTENDS Integers

CONSTANT None

ASSUME NoneAssumption == None \notin Nat
================================================================================
