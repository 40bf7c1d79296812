----------------------------- MODULE LineageProofs -----------------------------
(***************************************************************************)
(* Theorems about Lineage, for every number of slots, library of           *)
(* components, caps, operating point, menu of proposals and scores.        *)
(***************************************************************************)
EXTENDS Lineage, FiniteSetTheorems, TLAPS

-----------------------------------------------------------------------------
(* The inductive invariant, in named parts.                                *)

(* A round is judged only when every slot has its candidate.               *)
SlotInv == phase # "measuring" => \A k \in Slots : slot[k] # None

CapsInv ==
  /\ LibraryWithinCaps
  /\ WithinCaps(merged.parts)
  /\ \A k \in Slots : slot[k] # None /\ slot[k].valid =>
       WithinCaps(slot[k].package.parts)

(* What is still to be considered comes from slots that showed a gain.     *)
TodoInv ==
  /\ phase # "grafting" => todo = {}
  /\ \A i \in todo : i.k \in Slots /\ ShowsGain(i.k) /\ i \in Items(i.k)

(* Where the outgoing package comes from.                                  *)
TrunkInv ==
  /\ phase = "measuring" => next.from = None
  /\ next.from # None =>
       Delta(next.from) > MinEffect /\ slot[next.from].score > base.score
  /\ phase \in {"judged", "grafting"} => next.package = Trunk

(* The three promises about the grafts, stated of a package.               *)
Earned(pkg) ==
  /\ \A c \in pkg.parts \ Trunk.parts :
       \E k \in Slots : c \in Added(k) /\ ShowsGain(k)
  /\ \A p \in Params : pkg.params[p] # Trunk.params[p] =>
       \E k \in Slots : /\ p \in Moved(k) /\ ShowsGain(k)
                        /\ slot[k].package.params[p] = pkg.params[p]

Keeps(pkg) == Trunk.parts \subseteq pkg.parts

Records(pkg) ==
  \A e \in record : e.event = "admitted" =>
    IF e.value = None THEN e.name \in pkg.parts
    ELSE e.name \in Params /\ pkg.params[e.name] = e.value

GraftInv ==
  /\ phase = "grafting" => Earned(merged) /\ Keeps(merged) /\ Records(merged)
  /\ Inherited => Earned(next.package) /\ Keeps(next.package) /\ Records(next.package)

IInv == TypeOK /\ SlotInv /\ CapsInv /\ TodoInv /\ TrunkInv /\ GraftInv

-----------------------------------------------------------------------------
USE LineageAssumption

(* Adding one component below the cap of its kind keeps every cap.         *)
LEMMA AddKeepsCaps ==
  ASSUME NEW parts \in SUBSET Components, NEW c \in Components,
         WithinCaps(parts), CountOf(parts, KindOf[c]) < Cap[KindOf[c]]
  PROVE  WithinCaps(parts \cup {c})
<1> SUFFICES ASSUME NEW kind \in Kinds
             PROVE  CountOf(parts \cup {c}, kind) <= Cap[kind]
  BY DEF WithinCaps
<1> DEFINE S == {x \in parts : KindOf[x] = kind}
           T == {x \in parts \cup {c} : KindOf[x] = kind}
<1>1. IsFiniteSet(S)
  BY FS_Subset
<1>2. Cardinality(S) \in Nat
  BY <1>1, FS_CardinalityType
<1>3. Cardinality(S) <= Cap[kind]
  BY DEF WithinCaps, CountOf
<1>4. CASE KindOf[c] = kind
  <2>1. T = S \cup {c}
    BY <1>4
  <2>2. /\ IsFiniteSet(S \cup {c})
        /\ Cardinality(S \cup {c}) = IF c \in S THEN Cardinality(S) ELSE Cardinality(S) + 1
    <3> HIDE DEF S, T
    <3> QED
      BY <1>1, FS_AddElement, Zenon
  <2>3. Cardinality(S \cup {c}) \in Nat
    <3> HIDE DEF S, T
    <3> QED
      BY <2>2, FS_CardinalityType
  <2>4. Cardinality(S) < Cap[kind]
    BY <1>4 DEF CountOf
  <2>5. CountOf(parts \cup {c}, kind) = Cardinality(T)
    BY DEF CountOf
  <2>6. Cap[kind] \in Nat
    OBVIOUS
  <2> HIDE DEF S, T
  <2> QED
    BY <2>1, <2>2, <2>3, <2>4, <2>5, <2>6, <1>2
<1>5. CASE KindOf[c] # kind
  <2>1. T = S
    BY <1>5
  <2> QED
    BY <2>1, <1>3 DEF CountOf
<1> QED
  BY <1>4, <1>5

(* A proposal applied to a well-typed base is a package.                   *)
LEMMA AppliedType ==
  ASSUME NEW m \in Menu, base.package \in Package
  PROVE  Applied(m) \in Package
<1>1. m \in Proposal
  OBVIOUS
<1>2. \A p \in Params : m.set[p] \in Values \cup {None}
  BY <1>1 DEF Proposal
<1> QED
  BY <1>1, <1>2 DEF Applied, Package, Proposal

(* The initial state satisfies the invariant.                              *)
LEMMA InvInit == Init => IInv
<1> SUFFICES ASSUME Init PROVE IInv
  OBVIOUS
<1>1. TypeOK
  BY DEF Init, TypeOK, Phases, NoVerdict
<1>2. SlotInv /\ TodoInv /\ TrunkInv
  BY DEF Init, SlotInv, TodoInv, TrunkInv
<1>3. CapsInv
  BY DEF Init, CapsInv, LibraryWithinCaps
<1>4. GraftInv
  BY DEF Init, GraftInv, Inherited
<1> QED
  BY <1>1, <1>2, <1>3, <1>4 DEF IInv

-----------------------------------------------------------------------------
(* Facts about one slot, used by several actions.                          *)

(* The items of a slot are well typed: its components, or its parameters   *)
(* with the values it gives them.                                          *)
LEMMA ItemsType ==
  ASSUME TypeOK, NEW k \in Slots, slot[k] # None
  PROVE  Items(k) \subseteq Item
<1>1. slot[k] \in Candidate
  BY DEF TypeOK
<1>2. Added(k) \subseteq Components /\ Moved(k) \subseteq Params
  BY <1>1 DEF Added, Moved, Candidate, Package
<1>3. \A p \in Params : slot[k].package.params[p] \in Values
  BY <1>1 DEF Candidate, Package
<1> QED
  BY <1>2, <1>3 DEF Items, Item

(* An item that names a component was added by its slot and has no value;  *)
(* one that names a parameter was moved by it, to the item's value.        *)
LEMMA ItemsMeaning ==
  ASSUME TypeOK, NEW k \in Slots, slot[k] # None, NEW i \in Items(k)
  PROVE  /\ i.k = k
         /\ i.name \in Components => i.name \in Added(k) /\ i.value = None
         /\ i.name \in Params =>
              /\ i.name \in Moved(k) /\ i.value \in Values
              /\ i.value = slot[k].package.params[i.name]
<1>1. slot[k] \in Candidate
  BY DEF TypeOK
<1>2. Added(k) \subseteq Components /\ Moved(k) \subseteq Params
  BY <1>1 DEF Added, Moved, Candidate, Package
<1>3. \A p \in Params : slot[k].package.params[p] \in Values
  BY <1>1 DEF Candidate, Package
<1> QED
  BY <1>2, <1>3 DEF Items

-----------------------------------------------------------------------------
(* Before the round is judged only slots change.                           *)

(* A candidate that counts as valid is within the caps.                    *)
LEMMA InvPropose ==
  ASSUME IInv, NEW k \in Slots, NEW m \in Menu, Propose(k, m)
  PROVE  IInv'
<1> USE DEF Propose
<1>0. TypeOK
  BY DEF IInv
<1>1. Applied(m) \in Package
  <2>1. base.package \in Package
    BY <1>0 DEF TypeOK
  <2> QED
    BY <2>1, AppliedType
<1>2. TypeOK'
  <2>1. m.prose \in {"same", "persona", "more"} /\ m.isolated \in BOOLEAN /\ m.repaired \in BOOLEAN
    BY DEF Proposal
  <2>2. IsValid(m) \in BOOLEAN
    BY DEF IsValid
  <2>3. slot' \in [Slots -> Candidate \cup {None}]
    BY <1>0, <1>1, <2>1, <2>2 DEF TypeOK, Candidate
  <2> QED
    BY <1>0, <2>3 DEF TypeOK
<1>3. SlotInv'
  BY DEF SlotInv
<1>4. CapsInv'
  <2>1. LibraryWithinCaps' /\ WithinCaps(merged.parts)'
    BY DEF IInv, CapsInv, LibraryWithinCaps, WithinCaps, CountOf
  <2>2. ASSUME NEW j \in Slots, slot'[j] # None, slot'[j].valid
        PROVE  WithinCaps(slot'[j].package.parts)
    <3>1. CASE j = k
      BY <2>2, <3>1, <1>0 DEF TypeOK, IsValid
    <3>2. CASE j # k
      BY <2>2, <3>2, <1>0 DEF TypeOK, IInv, CapsInv
    <3> QED
      BY <3>1, <3>2
  <2>3. \A j \in Slots : (slot[j] # None /\ slot[j].valid)' => WithinCaps(slot[j].package.parts)'
    BY <2>2 DEF WithinCaps, CountOf
  <2> QED
    BY <2>1, <2>3 DEF CapsInv
<1>5. TodoInv'
  BY DEF IInv, TodoInv
<1>6. TrunkInv'
  BY DEF IInv, TrunkInv
<1>7. GraftInv'
  BY DEF GraftInv, Inherited
<1> QED
  BY <1>2, <1>3, <1>4, <1>5, <1>6, <1>7 DEF IInv

(* A measurement leaves the package of its candidate alone.                *)
LEMMA InvMeasure ==
  ASSUME IInv, NEW k \in Slots, NEW score \in Scores \cup {None},
         NEW control \in Scores, Measure(k, score, control)
  PROVE  IInv'
<1> USE DEF Measure
<1>0. TypeOK
  BY DEF IInv
<1>1. slot[k] \in Candidate
  BY <1>0 DEF TypeOK
<1>2. TypeOK'
  <2>1. slot' \in [Slots -> Candidate \cup {None}]
    BY <1>0, <1>1 DEF TypeOK, Candidate
  <2> QED
    BY <1>0, <2>1 DEF TypeOK
<1>3. SlotInv'
  BY DEF SlotInv
<1>4. CapsInv'
  <2>1. LibraryWithinCaps' /\ WithinCaps(merged.parts)'
    BY DEF IInv, CapsInv, LibraryWithinCaps, WithinCaps, CountOf
  <2>2. \A j \in Slots : slot'[j] # None /\ slot'[j].valid =>
          slot[j] # None /\ slot[j].valid /\ slot'[j].package = slot[j].package
    BY <1>0, <1>1 DEF TypeOK, Candidate
  <2>3. \A j \in Slots : (slot[j] # None /\ slot[j].valid)' => WithinCaps(slot[j].package.parts)'
    BY <2>2 DEF IInv, CapsInv, WithinCaps, CountOf
  <2> QED
    BY <2>1, <2>3 DEF CapsInv
<1>5. TodoInv'
  BY DEF IInv, TodoInv
<1>6. TrunkInv'
  BY DEF IInv, TrunkInv
<1>7. GraftInv'
  BY DEF GraftInv, Inherited
<1> QED
  BY <1>2, <1>3, <1>4, <1>5, <1>6, <1>7 DEF IInv

-----------------------------------------------------------------------------
(* The round is judged: the base is replaced by a slot that earned it, or  *)
(* retained.                                                               *)
LEMMA InvJudge ==
  ASSUME IInv, Judge
  PROVE  IInv'
<1> USE DEF Judge
<1>0. TypeOK
  BY DEF IInv
<1>1. ASSUME NEW s \in Refreshed
      PROVE  s \in Scores /\ Retained(s).package = base.package
  BY <1>0 DEF Refreshed, Retained, TypeOK
<1>2. /\ next' \in [package : Package, score : Scores, from : Slots \cup {None}]
      /\ verdict' \in [best : Slots \cup {None}, improved : BOOLEAN]
      /\ WithinCaps(next'.package.parts)
      /\ \/ next'.from = None /\ next'.package = base.package
         \/ /\ next'.from \in Slots
            /\ Delta(next'.from) > MinEffect
            /\ slot[next'.from].score > base.score
            /\ next'.package = slot[next'.from].package
  <2>1. CASE \E k \in Slots :
               /\ IsCausalBest(k)
               /\ verdict' = [best |-> k, improved |-> Improves(k)]
               /\ IF Improves(k)
                    THEN next' = [package |-> slot[k].package, score |-> slot[k].score,
                                  from |-> k]
                    ELSE \E s \in Refreshed : next' = Retained(s)
    <3>1. PICK k \in Slots :
               /\ IsCausalBest(k)
               /\ verdict' = [best |-> k, improved |-> Improves(k)]
               /\ IF Improves(k)
                    THEN next' = [package |-> slot[k].package, score |-> slot[k].score,
                                  from |-> k]
                    ELSE \E s \in Refreshed : next' = Retained(s)
      BY <2>1
    <3>2. verdict' \in [best : Slots \cup {None}, improved : BOOLEAN]
      BY <3>1 DEF Improves
    <3>3. slot[k] # None /\ slot[k].valid /\ slot[k].score # None
      BY <3>1 DEF IsCausalBest, Attributed, Measured
    <3>4. slot[k] \in Candidate /\ slot[k].score \in Scores
      BY <1>0, <3>3 DEF TypeOK, Candidate
    <3>5. CASE Improves(k)
      <4>1. next' = [package |-> slot[k].package, score |-> slot[k].score, from |-> k]
        BY <3>1, <3>5
      <4>2. WithinCaps(slot[k].package.parts)
        BY <3>3 DEF IInv, CapsInv
      <4> QED
        BY <3>2, <3>4, <3>5, <4>1, <4>2 DEF Improves, Candidate
    <3>6. CASE ~Improves(k)
      <4>1. PICK s \in Refreshed : next' = Retained(s)
        BY <3>1, <3>6
      <4>2. WithinCaps(base.package.parts)
        BY DEF IInv, CapsInv, LibraryWithinCaps
      <4> QED
        BY <1>0, <1>1, <3>2, <4>1, <4>2 DEF Retained, TypeOK
    <3> QED
      BY <3>5, <3>6
  <2>2. CASE /\ verdict' = NoVerdict
             /\ \E s \in Refreshed : next' = Retained(s)
    <3>1. PICK s \in Refreshed : next' = Retained(s)
      BY <2>2
    <3>2. WithinCaps(base.package.parts)
      BY DEF IInv, CapsInv, LibraryWithinCaps
    <3> QED
      BY <1>0, <1>1, <2>2, <3>1, <3>2 DEF Retained, TypeOK, NoVerdict
  <2> QED
    BY <2>1, <2>2
<1>3. TypeOK'
  BY <1>0, <1>2 DEF TypeOK, Phases
<1>4. SlotInv'
  BY DEF SlotInv, Measured
<1>5. CapsInv'
  BY <1>2 DEF IInv, CapsInv, LibraryWithinCaps, WithinCaps, CountOf
<1>6. TodoInv'
  BY DEF IInv, TodoInv
<1>7. TrunkInv'
  <2>1. None \notin Slots
    OBVIOUS
  <2> QED
    BY <1>2, <2>1 DEF TrunkInv, Trunk, Delta
<1>8. GraftInv'
  BY DEF GraftInv, Inherited
<1> QED
  BY <1>3, <1>4, <1>5, <1>6, <1>7, <1>8 DEF IInv

(* A slot the ratchet admits showed a gain.                                *)
LEMMA AdmissibleShowsGain ==
  ASSUME NEW k \in Slots, Admissible(k)
  PROVE  ShowsGain(k)
BY DEF Admissible, ShowsGain

(* The strict revert, and the items the ratchet starts from: the copy of   *)
(* the outgoing package is the trunk, and nothing is recorded as admitted. *)
LEMMA InvRatchet ==
  ASSUME IInv, NEW accepted \in BOOLEAN, Ratchet(accepted)
  PROVE  IInv'
<1> USE DEF Ratchet
<1>0. TypeOK
  BY DEF IInv
<1>1. \A k \in Slots : slot[k] # None
  BY DEF IInv, SlotInv
<1>2. next' \in [package : Package, score : Scores, from : Slots \cup {None}]
  BY <1>0 DEF TypeOK, Retained
<1>3. WithinCaps(next'.package.parts)
  BY DEF IInv, CapsInv, LibraryWithinCaps, Retained
<1>4. todo' \subseteq Item
  BY <1>0, <1>1, ItemsType
<1>5. Passed \in SUBSET [k : Slots, name : Components \cup Params \cup {None},
                        value : Values \cup {None}, event : Events]
  BY DEF Passed, Entry, Events
<1>6. TypeOK'
  BY <1>0, <1>2, <1>4, <1>5 DEF TypeOK, Phases
<1>7. SlotInv'
  BY <1>1 DEF SlotInv
<1>8. CapsInv'
  BY <1>3 DEF IInv, CapsInv, LibraryWithinCaps, WithinCaps, CountOf
<1>9. TodoInv'
  <2>1. ASSUME NEW i \in todo'
        PROVE  i.k \in Slots /\ ShowsGain(i.k)' /\ i \in Items(i.k)'
    <3>1. PICK k \in Slots : Admissible(k) /\ i \in Items(k)
      BY <2>1
    <3>2. i.k = k
      BY <1>0, <1>1, <3>1, ItemsMeaning
    <3>3. ShowsGain(k)
      BY <3>1, AdmissibleShowsGain
    <3> QED
      BY <3>1, <3>2, <3>3
         DEF ShowsGain, Attributed, Delta, Items, Added, Moved
  <2> QED
    BY <2>1 DEF TodoInv
<1>10. TrunkInv'
  BY DEF IInv, TrunkInv, Trunk, Retained, Delta
<1>11. GraftInv'
  <2>1. merged' = Trunk'
    BY DEF IInv, TrunkInv, Trunk, Retained
  <2>2. \A e \in record' : e.event # "admitted"
    BY DEF Passed, Entry
  <2>3. Earned(merged)' /\ Keeps(merged)' /\ Records(merged)'
    BY <2>1, <2>2 DEF Earned, Keeps, Records
  <2> QED
    BY <2>3 DEF GraftInv, Inherited
<1> QED
  BY <1>6, <1>7, <1>8, <1>9, <1>10, <1>11 DEF IInv

-----------------------------------------------------------------------------
(* The graft loop.                                                         *)

(* What the loop leaves alone, and so every fact about slots: it changes   *)
(* the copy, the items to come and the record.                             *)
GraftFrame == UNCHANGED <<round, phase, base, slot, verdict, next>>

(* The facts about slots are the same after a step of the loop.            *)
LEMMA FrameKeeps ==
  ASSUME GraftFrame
  PROVE  /\ Trunk' = Trunk
         /\ \A k \in Slots : /\ Added(k)' = Added(k) /\ Moved(k)' = Moved(k)
                             /\ ShowsGain(k)' = ShowsGain(k) /\ Items(k)' = Items(k)
<1>1. Trunk' = Trunk
  BY DEF GraftFrame, Trunk
<1>2. ASSUME NEW k \in Slots
      PROVE  Added(k)' = Added(k) /\ Moved(k)' = Moved(k)
  BY DEF GraftFrame, Added, Moved
<1>3. ASSUME NEW k \in Slots
      PROVE  ShowsGain(k)' = ShowsGain(k)
  BY DEF GraftFrame, ShowsGain, Attributed, Delta
<1>4. ASSUME NEW k \in Slots
      PROVE  Items(k)' = Items(k)
  BY <1>2 DEF GraftFrame, Items
<1> QED
  BY <1>1, <1>2, <1>3, <1>4

(* One item considered: whatever the verdict, the invariant is left to     *)
(* what it does to the copy and to the record.                             *)
LEMMA InvConsider ==
  ASSUME IInv, phase = "grafting", NEW i \in todo, NEW event \in Events,
         Consider(i, event),
         merged' \in Package, WithinCaps(merged'.parts),
         Earned(merged)', Keeps(merged)', Records(merged)'
  PROVE  IInv'
<1> USE DEF Consider
<1>0. TypeOK /\ GraftFrame
  BY DEF IInv, GraftFrame
<1>1. Entry(i.k, i.name, i.value, event) \in
        [k : Slots, name : Components \cup Params \cup {None},
         value : Values \cup {None}, event : Events]
  BY <1>0 DEF TypeOK, Item, Entry
<1>2. TypeOK'
  BY <1>0, <1>1 DEF TypeOK
<1>3. SlotInv'
  BY DEF IInv, SlotInv
<1>4. CapsInv'
  BY DEF IInv, CapsInv, LibraryWithinCaps, WithinCaps, CountOf
<1>5. TodoInv'
  BY <1>0, FrameKeeps DEF IInv, TodoInv
<1>6. TrunkInv'
  BY <1>0, FrameKeeps DEF IInv, TrunkInv, Delta
<1>7. GraftInv'
  BY DEF GraftInv, Inherited
<1> QED
  BY <1>2, <1>3, <1>4, <1>5, <1>6, <1>7 DEF IInv

(* A skipped item changes no package and is not recorded as admitted.      *)
LEMMA InvSkip ==
  ASSUME IInv, phase = "grafting", NEW i \in todo,
         NEW event \in Events \ {"admitted"},
         Consider(i, event), UNCHANGED merged
  PROVE  IInv'
<1>0. TypeOK /\ GraftFrame /\ Earned(merged) /\ Keeps(merged) /\ Records(merged)
  BY DEF IInv, GraftFrame, GraftInv, Consider
<1>1. merged' \in Package /\ WithinCaps(merged'.parts)
  BY <1>0 DEF IInv, TypeOK, CapsInv, WithinCaps, CountOf
<1>2. Earned(merged)'
  BY <1>0, FrameKeeps DEF Earned, GraftFrame
<1>3. Keeps(merged)'
  BY <1>0, FrameKeeps DEF Keeps
<1>4. Records(merged)'
  BY <1>0 DEF Records, Consider, Entry
<1> QED
  BY <1>1, <1>2, <1>3, <1>4, InvConsider

(* A component grafted below its cap came from a slot that showed a gain.  *)
LEMMA InvGraftPart ==
  ASSUME IInv, NEW i \in todo, GraftPart(i)
  PROVE  IInv'
<1> USE DEF GraftPart
<1>0. /\ TypeOK /\ GraftFrame /\ Consider(i, "admitted")
      /\ Earned(merged) /\ Keeps(merged) /\ Records(merged)
  BY DEF IInv, GraftFrame, GraftInv, Consider
<1>1. i.k \in Slots /\ slot[i.k] # None /\ ShowsGain(i.k) /\ i \in Items(i.k)
  BY DEF IInv, TodoInv, SlotInv
<1>2. i.name \in Added(i.k) /\ i.value = None
  BY <1>0, <1>1, ItemsMeaning
<1>3. merged \in Package
  BY <1>0 DEF TypeOK
<1>4. /\ merged' \in Package
      /\ merged'.parts = merged.parts \cup {i.name}
      /\ merged'.params = merged.params
  BY <1>3 DEF Package
<1>5. WithinCaps(merged'.parts)
  <2>1. WithinCaps(merged.parts) /\ merged.parts \in SUBSET Components
    BY <1>3 DEF IInv, CapsInv, Package
  <2> QED
    BY <2>1, <1>4, AddKeepsCaps
<1>6. Earned(merged)'
  BY <1>0, <1>1, <1>2, <1>4, FrameKeeps DEF Earned, GraftFrame
<1>7. Keeps(merged)'
  BY <1>0, <1>4, FrameKeeps DEF Keeps
<1>8. Records(merged)'
  BY <1>0, <1>2, <1>4 DEF Records, Consider, Entry
<1>9. "admitted" \in Events
  BY DEF Events
<1> QED
  BY <1>0, <1>4, <1>5, <1>6, <1>7, <1>8, <1>9, InvConsider

(* A parameter is set once, by the strongest slot that moved it, so what   *)
(* was recorded of the others stays true.                                  *)
LEMMA InvGraftParam ==
  ASSUME IInv, NEW i \in todo, GraftParam(i)
  PROVE  IInv'
<1> USE DEF GraftParam
<1>0. /\ TypeOK /\ GraftFrame /\ Consider(i, "admitted")
      /\ Earned(merged) /\ Keeps(merged) /\ Records(merged)
  BY DEF IInv, GraftFrame, GraftInv, Consider
<1>1. i.k \in Slots /\ slot[i.k] # None /\ ShowsGain(i.k) /\ i \in Items(i.k)
  BY DEF IInv, TodoInv, SlotInv
<1>2. /\ i.name \in Moved(i.k) /\ i.value \in Values
      /\ i.value = slot[i.k].package.params[i.name]
  BY <1>0, <1>1, ItemsMeaning
<1>3. merged \in Package
  BY <1>0 DEF TypeOK
<1>4. /\ merged' \in Package
      /\ merged'.parts = merged.parts
      /\ merged'.params[i.name] = i.value
      /\ \A p \in Params \ {i.name} : merged'.params[p] = merged.params[p]
  BY <1>2, <1>3 DEF Package
<1>5. WithinCaps(merged'.parts)
  BY <1>4 DEF IInv, CapsInv, WithinCaps, CountOf
<1>6. Earned(merged)'
  <2>1. ASSUME NEW c \in merged'.parts \ Trunk'.parts
        PROVE  \E k \in Slots : c \in Added(k)' /\ ShowsGain(k)'
    BY <1>0, <1>4, FrameKeeps DEF Earned
  <2>2. ASSUME NEW p \in Params, merged'.params[p] # Trunk'.params[p]
        PROVE  \E k \in Slots : /\ p \in Moved(k)' /\ ShowsGain(k)'
                               /\ slot'[k].package.params[p] = merged'.params[p]
    <3>1. CASE p = i.name
      BY <1>0, <1>1, <1>2, <1>4, <3>1, FrameKeeps DEF GraftFrame
    <3>2. CASE p # i.name
      BY <1>0, <1>4, <2>2, <3>2, FrameKeeps DEF Earned, GraftFrame
    <3> QED
      BY <3>1, <3>2
  <2> QED
    BY <2>1, <2>2 DEF Earned
<1>7. Keeps(merged)'
  BY <1>0, <1>4, FrameKeeps DEF Keeps
<1>8. Records(merged)'
  <2> SUFFICES ASSUME NEW e \in record', e.event = "admitted"
               PROVE  IF e.value = None THEN e.name \in merged'.parts
                      ELSE e.name \in Params /\ merged'.params[e.name] = e.value
    BY DEF Records
  <2>1. CASE e \in record
    <3>1. IF e.value = None THEN e.name \in merged.parts
          ELSE e.name \in Params /\ merged.params[e.name] = e.value
      BY <1>0, <2>1 DEF Records
    <3>2. e.name \in Params => e.name # i.name
      BY <2>1 DEF AdmittedParams
    <3> QED
      BY <1>4, <3>1, <3>2
  <2>2. CASE e = Entry(i.k, i.name, i.value, "admitted")
    BY <1>2, <1>4, <2>2 DEF Entry
  <2> QED
    BY <1>0, <2>1, <2>2 DEF Consider
<1>9. "admitted" \in Events
  BY DEF Events
<1> QED
  BY <1>0, <1>4, <1>5, <1>6, <1>7, <1>8, <1>9, InvConsider

(* What holds of the copy holds of the base that is inherited.             *)
LEMMA InvInstall ==
  ASSUME IInv, Install
  PROVE  IInv'
<1> USE DEF Install
<1>0. TypeOK /\ Earned(merged) /\ Keeps(merged) /\ Records(merged)
  BY DEF IInv, GraftInv
<1>1. /\ next' \in [package : Package, score : Scores, from : Slots \cup {None}]
      /\ next'.package = merged /\ next'.from = next.from
  BY <1>0 DEF TypeOK
<1>2. TypeOK'
  BY <1>0, <1>1 DEF TypeOK, Phases
<1>3. SlotInv' /\ TodoInv'
  BY DEF IInv, SlotInv, TodoInv
<1>4. CapsInv'
  BY <1>1 DEF IInv, CapsInv, LibraryWithinCaps, WithinCaps, CountOf
<1>5. TrunkInv'
  BY <1>1 DEF IInv, TrunkInv, Delta
<1>6. GraftInv'
  <2>1. Trunk' = Trunk
    BY <1>1 DEF Trunk
  <2>2. Earned(next.package)' /\ Keeps(next.package)' /\ Records(next.package)'
    BY <1>0, <1>1, <2>1
       DEF Earned, Keeps, Records, Added, Moved, ShowsGain, Attributed, Delta
  <2> QED
    BY <2>2 DEF GraftInv
<1> QED
  BY <1>2, <1>3, <1>4, <1>5, <1>6 DEF IInv

(* A failed graft leaves the trunk, and an empty record of it.             *)
LEMMA InvGraftFails ==
  ASSUME IInv, GraftFails
  PROVE  IInv'
<1> USE DEF GraftFails
<1>0. TypeOK /\ next.package = Trunk
  BY DEF IInv, TrunkInv
<1>1. TypeOK'
  BY <1>0 DEF TypeOK, Phases
<1>2. SlotInv' /\ TodoInv'
  BY DEF IInv, SlotInv, TodoInv
<1>3. CapsInv'
  BY DEF IInv, CapsInv, LibraryWithinCaps, WithinCaps, CountOf
<1>4. TrunkInv'
  BY DEF IInv, TrunkInv, Delta
<1>5. GraftInv'
  <2>1. Trunk' = Trunk
    BY DEF Trunk
  <2>2. Earned(next.package)' /\ Keeps(next.package)' /\ Records(next.package)'
    BY <1>0, <2>1 DEF Earned, Keeps, Records
  <2> QED
    BY <2>2 DEF GraftInv
<1> QED
  BY <1>1, <1>2, <1>3, <1>4, <1>5 DEF IInv

(* A new round starts from what was inherited, with nothing measured.      *)
LEMMA InvNextRound ==
  ASSUME IInv, NextRound
  PROVE  IInv'
<1>0. TypeOK /\ phase = "collected"
  BY DEF IInv, NextRound
<1>1. CASE round < LastRound
  <2>1. /\ round' = round + 1 /\ phase' = "measuring"
        /\ base' = [package |-> next.package, score |-> next.score]
        /\ slot' = [k \in Slots |-> None] /\ verdict' = NoVerdict
        /\ next' = [next EXCEPT !.from = None]
        /\ merged' = next.package /\ todo' = {} /\ record' = {}
    BY <1>1 DEF NextRound
  <2>2. /\ next' \in [package : Package, score : Scores, from : Slots \cup {None}]
        /\ next'.from = None /\ next'.package = next.package
    BY <1>0, <2>1 DEF TypeOK
  <2>3. TypeOK'
    BY <1>0, <2>1, <2>2 DEF TypeOK, Phases, NoVerdict
  <2>4. SlotInv' /\ TodoInv' /\ TrunkInv' /\ GraftInv'
    BY <2>1, <2>2 DEF SlotInv, TodoInv, TrunkInv, GraftInv, Inherited
  <2>5. CapsInv'
    <3>1. WithinCaps(next.package.parts)
      BY DEF IInv, CapsInv, LibraryWithinCaps
    <3> QED
      BY <3>1, <2>1, <2>2 DEF CapsInv, LibraryWithinCaps, WithinCaps, CountOf
  <2> QED
    BY <2>3, <2>4, <2>5 DEF IInv
<1>2. CASE ~(round < LastRound)
  <2>1. /\ phase' = "over"
        /\ UNCHANGED <<round, base, slot, verdict, next, merged, todo, record>>
    BY <1>2 DEF NextRound
  <2>2. TypeOK'
    BY <1>0, <2>1 DEF TypeOK, Phases
  <2>3. SlotInv' /\ TodoInv' /\ TrunkInv'
    BY <1>0, <2>1 DEF IInv, SlotInv, TodoInv, TrunkInv, Delta
  <2>4. CapsInv'
    BY <2>1 DEF IInv, CapsInv, LibraryWithinCaps, WithinCaps, CountOf
  <2>5. GraftInv'
    <3>1. Earned(next.package) /\ Keeps(next.package) /\ Records(next.package)
      BY <1>0 DEF IInv, GraftInv, Inherited
    <3>2. Trunk' = Trunk
      BY <2>1 DEF Trunk
    <3>3. Earned(next.package)' /\ Keeps(next.package)' /\ Records(next.package)'
      BY <2>1, <3>1, <3>2
         DEF Earned, Keeps, Records, Added, Moved, ShowsGain, Attributed, Delta
    <3> QED
      BY <2>1, <3>3 DEF GraftInv
  <2> QED
    BY <2>2, <2>3, <2>4, <2>5 DEF IInv
<1> QED
  BY <1>1, <1>2

-----------------------------------------------------------------------------
(* Every step keeps the invariant.                                         *)
LEMMA InvNext == IInv /\ [Next]_vars => IInv'
<1> SUFFICES ASSUME IInv, [Next]_vars PROVE IInv'
  OBVIOUS
<1>1. CASE Round
  BY <1>1, InvPropose, InvMeasure, InvJudge, InvRatchet DEF Round
<1>2. CASE Graft
  <2>1. ASSUME NEW i \in todo, SkipPart(i)
        PROVE  IInv'
    <3> DEFINE event == IF i.name \in merged.parts THEN "name_already_in_base"
                        ELSE IF CountOf(merged.parts, KindOf[i.name]) >= Cap[KindOf[i.name]]
                          THEN "capacity_full" ELSE "prompt_cap"
    <3>1. event \in Events \ {"admitted"}
      BY DEF Events
    <3>2. phase = "grafting" /\ UNCHANGED merged /\ Consider(i, event)
      BY <2>1 DEF SkipPart
    <3> HIDE DEF event
    <3> QED
      BY <3>1, <3>2, InvSkip
  <2>2. ASSUME NEW i \in todo, SkipParam(i)
        PROVE  IInv'
    <3> DEFINE event == IF i.name \in AdmittedParams THEN "param_contested_lower_delta"
                        ELSE "param_already_set"
    <3>1. event \in Events \ {"admitted"}
      BY DEF Events
    <3>2. phase = "grafting" /\ UNCHANGED merged /\ Consider(i, event)
      BY <2>2 DEF SkipParam
    <3> HIDE DEF event
    <3> QED
      BY <3>1, <3>2, InvSkip
  <2> QED
    BY <1>2, <2>1, <2>2, InvGraftPart, InvGraftParam, InvInstall, InvGraftFails DEF Graft
<1>3. CASE NextRound
  BY <1>3, InvNextRound
<1>4. CASE UNCHANGED vars
  BY <1>4 DEF vars, IInv, TypeOK, SlotInv, CapsInv, LibraryWithinCaps, WithinCaps,
              CountOf, TodoInv, TrunkInv, GraftInv, Inherited, Earned, Keeps, Records,
              Trunk, Added, Moved, Items, ShowsGain, Attributed, Delta
<1> QED
  BY <1>1, <1>2, <1>3, <1>4 DEF Next

(* The invariant holds in every reachable state.                           *)
LEMMA Invariance == Spec => []IInv
BY InvInit, InvNext, PTL DEF Spec

-----------------------------------------------------------------------------
(* What a reader should know of.                                           *)

(* Every variable stays in its type.                                       *)
THEOREM TypeCorrect == Spec => []TypeOK
<1>1. IInv => TypeOK
  BY DEF IInv
<1> QED
  BY <1>1, Invariance, PTL

(* Whatever a collect adds to the harness was measured to gain against its *)
(* matched control, by the promoted slot or by an isolated one.            *)
THEOREM ChangesAreEarned == Spec => []EveryChangeIsEarned
<1>1. IInv => EveryChangeIsEarned
  BY DEF IInv, TrunkInv, GraftInv, Earned, EveryChangeIsEarned
<1> QED
  BY <1>1, Invariance, PTL

(* Grafting never evicts a component the outgoing package carried.         *)
THEOREM GraftsNeverEvict == Spec => []NothingIsEvicted
<1>1. IInv => NothingIsEvicted
  BY DEF IInv, GraftInv, Keeps, NothingIsEvicted
<1> QED
  BY <1>1, Invariance, PTL

(* What the component ledger calls admitted is in the base inherited.      *)
THEOREM LedgerTellsTheTruth == Spec => []LedgerIsInherited
<1>1. IInv => LedgerIsInherited
  BY DEF IInv, GraftInv, Records, LedgerIsInherited
<1> QED
  BY <1>1, Invariance, PTL

(* No sequence of rounds outgrows the caps of the component library.       *)
THEOREM CapsAreKept == Spec => []LibraryWithinCaps
<1>1. IInv => LibraryWithinCaps
  BY DEF IInv, CapsInv
<1> QED
  BY <1>1, Invariance, PTL
=============================================================================
