----------------------------- MODULE MCProposeSlot -----------------------------
(***************************************************************************)
(* One package of each verdict, and enough calls for phi to leave a        *)
(* validation and a submission in flight while the repair session edits.   *)
(***************************************************************************)
EXTENDS ProposeSlot

MCCalls == 1..4
=============================================================================
