------------------------------- MODULE BestSoFar -------------------------------
(***************************************************************************)
(* What one rollout promises its caller, with no bridge, threads or files: *)
(* a best pair that only improves and is paid for by a bounded number of   *)
(* evaluations, a saved copy that was the best when it was saved, and one  *)
(* report that is either withheld or the best pair, program and score      *)
(* together.                                                               *)
(***************************************************************************)
EXTENDS Integers

CONSTANTS Pairs,     \* records with a field score
          NoPair,    \* nothing found yet
          MaxCharges

VARIABLES best, saved, charged, report

vars == <<best, saved, charged, report>>

Open == [kind |-> "open"]
Withheld == [kind |-> "withheld"]
Unchanged == [kind |-> "unchanged"]  \* nothing valid was found
Found(pr) == [kind |-> "found", pair |-> pr]

Improves(pr) == best = NoPair \/ pr.score > best.score

Init == best = NoPair /\ saved = NoPair /\ charged = 0 /\ report = Open

(* The uncharged seed. *)
Baseline(pr) ==
  /\ best = NoPair /\ charged = 0
  /\ best' = pr
  /\ saved' \in {saved, pr}
  /\ UNCHANGED <<charged, report>>

Evaluate ==
  /\ charged < MaxCharges
  /\ charged' = charged + 1
  /\ \/ UNCHANGED best
     \/ \E pr \in Pairs : Improves(pr) /\ best' = pr
  /\ UNCHANGED <<saved, report>>

Save == saved' = best /\ UNCHANGED <<best, charged, report>>

Report ==
  /\ report = Open
  /\ report' \in {Withheld, IF best = NoPair THEN Unchanged ELSE Found(best)}
  /\ UNCHANGED <<best, saved, charged>>

Next == Evaluate \/ Save \/ Report \/ \E pr \in Pairs : Baseline(pr)

Spec == Init /\ [][Next]_vars
=============================================================================
