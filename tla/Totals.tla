-------------------------------- MODULE Totals ---------------------------------
(***************************************************************************)
(* Sums over a sequence, as recursive functions.                           *)
(***************************************************************************)
EXTENDS Integers, Sequences, FiniteSets

(* The sum of a sequence of numbers.                                       *)
Total(s) ==
  LET upTo[n \in 0 .. Len(s)] == IF n = 0 THEN 0 ELSE upTo[n - 1] + s[n]
  IN upTo[Len(s)]

(* How many entries of a sequence of truth values are TRUE.                *)
Count(s) == Cardinality({i \in DOMAIN s : s[i]})
================================================================================
