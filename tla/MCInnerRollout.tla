---------------------------- MODULE MCInnerRollout ----------------------------
(***************************************************************************)
(* Two programs and two scores, so that from no best at all a best can     *)
(* improve twice; one probe; one evaluation fewer than calls that may ask  *)
(* for one; and enough calls for two to be in flight at a timeout.         *)
(***************************************************************************)
EXTENDS InnerRollout

MCScores == 0..1
MCNegInf == -1
MCCalls == 1..3
=============================================================================
