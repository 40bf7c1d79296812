------------------------------- MODULE MCLineage -------------------------------
(***************************************************************************)
(* Two slots, two tools under a cap of one and a skill under a cap of one, *)
(* one parameter with three values.  The menu has one proposal per way to  *)
(* be admitted, contested, confounded, refused or promoted.                *)
(***************************************************************************)
EXTENDS Lineage

MCSlots == 1..2
MCComponents == {"t1", "t2", "s1"}
MCKinds == {"tool", "skill"}
MCKindOf == [c \in MCComponents |-> IF c = "s1" THEN "skill" ELSE "tool"]
MCCap == [kind \in MCKinds |-> 1]
MCParams == {"temperature"}
MCValues == 0..2
MCFirstBase == [parts |-> {}, params |-> [p \in MCParams |-> 0]]
MCScores == 0..2

LOCAL Change(add, drop, value, prose, isolated, repaired) ==
  [add |-> add, drop |-> drop, set |-> [p \in MCParams |-> value],
   prose |-> prose, isolated |-> isolated, repaired |-> repaired]

MCMenu == {
  Change({}, {}, None, "same", FALSE, FALSE),           \* changes nothing
  Change({"t1"}, {}, None, "same", TRUE, FALSE),
  Change({"t2"}, {}, None, "same", TRUE, TRUE),
  Change({"t2"}, {"t1"}, None, "persona", TRUE, FALSE),
  Change({"t2"}, {}, None, "more", TRUE, FALSE),
  Change({"s1"}, {}, 1, "same", TRUE, FALSE),
  Change({}, {}, 2, "same", TRUE, FALSE),
  Change({"t1", "t2"}, {}, None, "same", FALSE, FALSE), \* over the cap
  Change({"t1"}, {}, 2, "more", FALSE, FALSE) }
=============================================================================
