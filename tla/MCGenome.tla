------------------------------- MODULE MCGenome -------------------------------
(***************************************************************************)
(* Tools under a cap of two and skills under a cap of one, a core name, a  *)
(* name that is part of another, a body the gate refuses, and a first base *)
(* that carries one tool.                                                  *)
(***************************************************************************)
EXTENDS Genome

MCNames == {"scan", "scan_wide", "finish"}
MCKinds == {"tool", "skill"}
MCCodeKinds == {"tool"}
MCReserved == {"finish"}
MCCap == [kind \in MCKinds |-> IF kind = "tool" THEN 2 ELSE 1]
MCFields == {"temperature"}
MCRowMenu == [kind \in MCKinds |->
  IF kind = "tool" THEN {[name |-> n, body |-> None] : n \in MCNames}
  ELSE {[name |-> "scan", body |-> 1]}]
MCOverlap == {<<"scan", "scan_wide">>}
MCFirstBase ==
  [persona |-> [mentions |-> {"scan_wide", Probe}, claims |-> {<<"tool", "scan_wide">>}],
   fields |-> [x \in MCFields |-> 1],
   parts |-> [kind \in MCKinds |->
                IF kind = "tool" THEN <<[name |-> "scan_wide", body |-> 1]>> ELSE <<>>],
   off |-> <<>>]
=============================================================================
