--------------------------- MODULE MCContextCampaign ---------------------------
(***************************************************************************)
(* Two rounds of two slots, scores at and above the first base.  Of the    *)
(* specialists' answers one is lost, one holds nothing that passes the     *)
(* guard and one has more lines than a section takes.                      *)
(***************************************************************************)
EXTENDS ContextCampaign

MCSlots == 1 .. 2
MCScores == 0 .. 1
MCReplies == {None, <<<<"leak">>, <<>>, <<>>>>,
              <<<<"leak", "claim", "fact">>, <<>>, <<"code">>>>}
===============================================================================
