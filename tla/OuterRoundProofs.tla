---------------------------- MODULE OuterRoundProofs ----------------------------
(***************************************************************************)
(* Proofs about the outer round: the dealing of its mandates (SlotRoles),  *)
(* for every batch size, and the round itself, for any number of slots,    *)
(* repeats, genomes, rounds and attempts.                                  *)
(***************************************************************************)
EXTENDS OuterRound, TLAPS

-------------------------------------------------------------------------------
(* The mandates.  The text of a message is built from the default of eight *)
(* slots while the sampling and the submit guard use the batch's own K, so *)
(* that the two never contradict each other is not evident.                *)

(* A free slot is held to a component exactly when it is among the first   *)
(* four free ones.                                                         *)
LEMMA HeldAreTheFirst ==
  ASSUME NEW total \in Nat, NEW k \in Free(total), Diversity
  PROVE  HeldOf(k, total) <=> k - ForceCount < 4
<1>1. ForceCount \in Nat /\ k \in Nat /\ k >= ForceCount
  BY SlotAssumption DEF Free, Below, Forced
<1> DEFINE place == k - ForceCount + 1
<1>2. place \in Nat \ {0} /\ (place \in DOMAIN RoleOrder <=> place <= 7)
  BY <1>1 DEF RoleOrder
<1>3. CASE place > 7
  <2>1. ~(k - ForceCount + 1 \in DOMAIN RoleOrder)
    BY <1>2, <1>3
  <2>2. RoleOf(k, total) = ""
    BY ONLY <2>1 DEF RoleOf
  <2>3. ~HeldOf(k, total)
    BY ONLY <2>2 DEF HeldOf, ComponentRoles
  <2>4. ~(k - ForceCount < 4)
    BY <1>1, <1>3
  <2> QED BY <2>3, <2>4
<1>4. CASE place <= 7
  <2>1. RoleOf(k, total) = RoleOrder[place]
    BY <1>2, <1>4 DEF RoleOf
  <2>2. place \in 1 .. 7
    BY <1>2, <1>4
  <2>3. RoleOrder[place] \in ComponentRoles <=> place <= 4
    <3>1. place = 1 \/ place = 2 \/ place = 3 \/ place = 4 \/ place = 5
          \/ place = 6 \/ place = 7
      BY <2>2
    <3>2. /\ RoleOrder[1] \in ComponentRoles /\ RoleOrder[2] \in ComponentRoles
          /\ RoleOrder[3] \in ComponentRoles /\ RoleOrder[4] \in ComponentRoles
      BY DEF RoleOrder, ComponentRoles
    <3>3. /\ RoleOrder[5] \notin ComponentRoles /\ RoleOrder[6] \notin ComponentRoles
          /\ RoleOrder[7] \notin ComponentRoles
      BY DEF RoleOrder, ComponentRoles
    <3>4. CASE place <= 4
      <4>1. place = 1 \/ place = 2 \/ place = 3 \/ place = 4
        BY <3>1, <3>4
      <4> QED BY <4>1, <3>2, <3>4
    <3>5. CASE ~(place <= 4)
      <4>1. place = 5 \/ place = 6 \/ place = 7
        BY <3>1, <3>5
      <4> QED BY <4>1, <3>3, <3>5
    <3> QED BY <3>4, <3>5
  <2>4. place <= 4 <=> k - ForceCount < 4
    BY <1>1
  <2> QED BY <2>1, <2>3, <2>4 DEF HeldOf
<1> QED BY <1>2, <1>3, <1>4

(* An exploration sample exists exactly when five slots are free, and it   *)
(* is then the last one: a batch of four has none, whatever the fraction   *)
(* of forced slots (epsilon_slot, "the last free NON-COMPONENT slot        *)
(* samples from the frozen base policy").                                  *)
THEOREM SampleIsTheLastSlot ==
  \A k \in Slots :
    Epsilon(k) <=> Diversity /\ K - ForceCount >= 5 /\ k = K - 1
<1> SUFFICES ASSUME NEW k \in Slots
             PROVE  Epsilon(k) <=> Diversity /\ K - ForceCount >= 5 /\ k = K - 1
  OBVIOUS
<1>1. K \in Nat \ {0} /\ ForceCount \in 0 .. K /\ k \in 0 .. K - 1
  BY SlotAssumption DEF Slots, Below
<1>2. Free(K) = {j \in 0 .. K - 1 : j >= ForceCount}
  BY <1>1 DEF Free, Below, Forced
<1>3. Diversity => \A j \in Free(K) : HeldOf(j, K) <=> j - ForceCount < 4
  BY <1>1, HeldAreTheFirst
<1>4. ASSUME Diversity, K - ForceCount >= 5, k = K - 1
      PROVE  Epsilon(k)
  BY <1>1, <1>2, <1>3, <1>4 DEF Epsilon, EpsilonOf
<1>5. ASSUME Epsilon(k)
      PROVE  Diversity /\ K - ForceCount >= 5 /\ k = K - 1
  <2>1. Diversity /\ k \in Free(K) /\ ~HeldOf(k, K)
    BY <1>5 DEF Epsilon, EpsilonOf
  <2>2. k - ForceCount >= 4
    BY <2>1, <1>1, <1>2, <1>3
  <2>3. K - 1 \in Free(K) /\ ~HeldOf(K - 1, K)
    BY <2>1, <2>2, <1>1, <1>2, <1>3
  <2>4. K - 1 <= k
    BY <2>3, <1>5 DEF Epsilon, EpsilonOf
  <2> QED BY <2>1, <2>2, <2>4, <1>1
<1> QED BY <1>4, <1>5

(* A slot whose submission is held to a component is told which component, *)
(* and never that any improvement is welcome, although the two are         *)
(* computed from different batch sizes (epsilon_slot: the submit guard     *)
(* "contradicts the epsilon arm's propose whatever you judge best").       *)
THEOREM HeldIsTold ==
  \A k \in Slots : ComponentOnly(k) =>
    Role(k) \in Directive(k) /\ "explore" \notin Directive(k)
<1> SUFFICES ASSUME NEW k \in Slots, ComponentOnly(k)
             PROVE  Role(k) \in Directive(k) /\ "explore" \notin Directive(k)
  OBVIOUS
<1>1. Diversity /\ k \in Free(K) /\ Role(k) \in ComponentRoles
  BY DEF ComponentOnly, HeldOf, Role, RoleOf, ComponentRoles
<1>2. k \notin Forced /\ Role(k) \in RoleSections(k) /\ "explore" \notin RoleSections(k)
  BY <1>1 DEF Free, RoleSections, ComponentRoles, RoleText, ParamsText, ToolApi,
              MiddlewareApi, BudgetNote
<1>3. ~EpsilonOf(k, DefaultSlots)
  <2>1. CASE k \in Free(DefaultSlots)
    <3>1. k - ForceCount < 4
      BY <1>1, SlotAssumption, HeldAreTheFirst DEF ComponentOnly
    <3>2. HeldOf(k, DefaultSlots)
      BY <3>1, <2>1, <1>1, HeldAreTheFirst DEF DefaultSlots
    <3> QED BY <3>2 DEF EpsilonOf
  <2>2. CASE k \notin Free(DefaultSlots)
    BY <2>2 DEF EpsilonOf
  <2> QED BY <2>1, <2>2
<1>4. Directive(k) = RoleSections(k)
  BY <1>2, <1>3 DEF Directive, ToldToExplore
<1> QED BY <1>2, <1>4

(* Under split serving, with repairs on, no number of endpoints records    *)
(* the policy of every slot truly: over one, as the worker passes, the     *)
(* exploration sample is the trained proposer's although its record says   *)
(* "frozen_base"; over more, the second slot is the frozen base's although *)
(* its record says "trained_phi".                                          *)
THEOREM NoDealingIsLabelledTruly ==
  ASSUME NEW n \in Nat, NEW e \in Slots, Epsilon(e)
  PROVE  \E k \in Slots : BehaviorPolicy(k, TRUE) # SplitModel(ServedBy(k, n, TRUE))
<1>1. K \in Nat /\ ForceCount \in Nat /\ K - ForceCount >= 5 /\ e = K - 1
  BY SampleIsTheLastSlot, SlotAssumption DEF Slots, Below
<1>2. CASE Replicas(n) = 1
  <2>1. ServedBy(e, n, TRUE) = 0 /\ BehaviorPolicy(e, TRUE) = "frozen_base"
    BY <1>2 DEF ServedBy, RepairReplica, BehaviorPolicy
  <2> QED BY <2>1 DEF SplitModel
<1>3. CASE Replicas(n) # 1
  <2>1. Replicas(n) = n /\ n \in Nat /\ n >= 2
    BY <1>3 DEF Replicas
  <2>2. 1 \in Slots /\ 1 # K - 1
    BY <1>1 DEF Slots, Below
  <2>3. ~Epsilon(1)
    BY <2>2, SampleIsTheLastSlot
  <2>4. 1 % n = 1
    <3> DEFINE q == 1 \div n
               r == 1 % n
    <3>1. q \in Int /\ r \in 0 .. n - 1 /\ 1 = n * q + r
      BY <2>1
    <3> HIDE DEF q, r
    <3>2. q >= 1 => n * q >= n
      BY <2>1, <3>1
    <3>3. q <= -1 => n * q <= -n
      BY <2>1, <3>1
    <3>4. q = 0 => r = 1
      BY <2>1, <3>1
    <3>5. q = 0
      BY <2>1, <3>1, <3>2, <3>3
    <3> QED BY <3>4, <3>5 DEF r
  <2>5. ServedBy(1, n, TRUE) = 1 /\ BehaviorPolicy(1, TRUE) = "trained_phi"
    BY <2>1, <2>3, <2>4 DEF ServedBy, BehaviorPolicy
  <2>6. SplitModel(1) = "frozen_base"
    BY DEF SplitModel
  <2>7. BehaviorPolicy(1, TRUE) # SplitModel(ServedBy(1, n, TRUE))
    BY <2>5, <2>6
  <2> QED BY <2>2, <2>7
<1> QED BY <1>2, <1>3

-------------------------------------------------------------------------------
(* The decode seeds.  A seed is a number written in mixed radix: the round *)
(* over the stride, the layer over the slots, and the slot.                *)

(* A number has one quotient and one remainder.                            *)
LEMMA OneQuotient ==
  ASSUME NEW s \in Nat \ {0}, NEW n \in Nat, NEW m \in Nat,
         NEW a \in 0 .. s - 1, NEW b \in 0 .. s - 1,
         n * s + a = m * s + b
  PROVE  n = m /\ a = b
<1>1. ASSUME NEW p \in Nat, NEW q \in Nat, p < q, NEW c \in 0 .. s - 1, NEW d \in 0 .. s - 1
      PROVE  p * s + c # q * s + d
  <2>1. PICK e \in Nat : q = p + 1 + e
    <3>1. q - p - 1 \in Nat /\ q = p + 1 + (q - p - 1)
      BY <1>1
    <3> QED BY <3>1
  <2>2. q * s = p * s + s + e * s
    BY <2>1
  <2>3. e * s \in Nat /\ p * s \in Nat
    BY <2>1
  <2> QED BY <2>2, <2>3
<1>2. n = m
  BY <1>1
<1>3. n * s \in Nat
  OBVIOUS
<1> QED BY <1>2, <1>3

(* The stride leaves room for every seed of a round.                       *)
LEMMA StrideIsWide == Stride \in Nat \ {0} /\ K * Repeats <= Stride
<1>1. K \in Nat \ {0} /\ Repeats \in Nat \ {0} /\ MinStride \in Nat \ {0}
  BY SlotAssumption, RoundAssumption
<1>2. K * Repeats \in Nat
  BY <1>1
<1> DEFINE width == K * Repeats
<1>3. width \in Nat
  BY <1>2
<1> HIDE DEF width
<1>4. Max({MinStride, width}) \in {MinStride, width} /\ width <= Max({MinStride, width})
      /\ MinStride <= Max({MinStride, width})
  <2>1. \E x \in {MinStride, width} : \A y \in {MinStride, width} : x >= y
    BY <1>1, <1>3
  <2> QED BY <2>1, <1>1, <1>3 DEF Max
<1>5. Stride = Max({MinStride, width})
  BY DEF Stride, width
<1> QED BY <1>1, <1>3, <1>4, <1>5 DEF width

(* The place of a rollout within its round is below the stride.            *)
LEMMA PlaceIsBelow ==
  ASSUME NEW i \in 0 .. Repeats - 1, NEW k \in Slots
  PROVE  i * K + k \in 0 .. Stride - 1
<1>1. K \in Nat \ {0} /\ Repeats \in Nat \ {0} /\ i \in Nat /\ k \in 0 .. K - 1
  BY SlotAssumption, RoundAssumption DEF Slots, Below
<1>2. Repeats - 1 - i \in Nat
  BY <1>1
<1>3. (Repeats - 1 - i) * K \in Nat /\ i * K \in Nat
  BY <1>1, <1>2
<1>4. K * Repeats = i * K + (Repeats - 1 - i) * K + K
  BY <1>1
<1> QED BY <1>1, <1>3, <1>4, StrideIsWide

(* Two rollouts have one seed exactly when they are of one round, one      *)
(* layer and one slot.                                                     *)
LEMMA SeedIsAPlace ==
  ASSUME NEW r \in Nat, NEW i \in 0 .. Repeats - 1, NEW k \in Slots,
         NEW q \in Nat, NEW j \in 0 .. Repeats - 1, NEW l \in Slots,
         Seed(r, i, k) = Seed(q, j, l)
  PROVE  r = q /\ i = j /\ k = l
<1>1. K \in Nat \ {0} /\ i \in Nat /\ j \in Nat /\ k \in 0 .. K - 1 /\ l \in 0 .. K - 1
  BY SlotAssumption, RoundAssumption DEF Slots, Below
<1>2. Stride \in Nat \ {0}
  BY StrideIsWide
<1>3. i * K + k \in 0 .. Stride - 1 /\ j * K + l \in 0 .. Stride - 1
  BY PlaceIsBelow
<1>4. r * Stride + (i * K + k) = q * Stride + (j * K + l)
  <2>1. i * K \in Nat /\ j * K \in Nat /\ r * Stride \in Nat /\ q * Stride \in Nat
    BY <1>1, <1>2
  <2> QED BY <2>1, <1>1 DEF Seed
<1>5. r = q /\ i * K + k = j * K + l
  BY <1>2, <1>3, <1>4, OneQuotient
<1>6. i = j /\ k = l
  BY <1>1, <1>5, OneQuotient
<1> QED BY <1>5, <1>6

-------------------------------------------------------------------------------
(* The inductive invariant.                                                *)

Typing ==
  /\ round \in 0 .. LastRound /\ attempt \in 1 .. MaxAttempts /\ phase \in Phases
  /\ Len(beam) \in 1 .. BeamWidth
  /\ drafts \in [Slots -> Genomes \cup {None, Pending}] /\ written \in 0 .. K
  /\ cand \in [Slots -> Genomes \cup {None}]
  /\ evidence \in 0 .. MaxAttempts /\ refused \subseteq 1 .. MaxAttempts
  /\ todo \subseteq Slots /\ layer \in 0 .. Repeats - 1 /\ rc \in {0, 1}
  /\ winner \in Slots \cup {None}

(* Two of a set of drafts are one genome only if they are none.            *)
Distinct(genomes) == \A k, j \in Slots : k # j /\ genomes[k] # None => genomes[k] # genomes[j]

(* From dedup_group to round.json: the drafts differ from each other and   *)
(* from the incumbent, and those already written are what lies on disk.    *)
DraftsInv ==
  /\ phase = "propose" => written = 0
  /\ phase = "write" =>
       /\ \A k \in Slots : drafts[k] # Pending
                            /\ (drafts[k] # None => drafts[k] # beam[1].package)
       /\ Distinct(drafts)
       /\ \A k \in Slots : k < written /\ drafts[k] # None => cand[k] = drafts[k]

(* What round.json says of an attempt, and whose attempt it is.            *)
MetaInv ==
  /\ meta = <<>> \/ meta = <<meta[1]>>
  /\ \A m \in Range(meta) :
       /\ m.attempt \in 1 .. attempt
       /\ phase \in {"propose", "write"} => m.attempt < attempt
       /\ \A k \in Slots : m.genome[k] = m.accepted[k]
       /\ \A k \in Slots : m.genome[k] # None => m.genome[k] # m.base
       /\ Distinct(m.genome)

Recorded == {"gate", "plan", "rollouts", "controls", "collect"}

(* Once round.json is written it is this attempt's, and so are the         *)
(* packages of its accepted slots until the job is over.                   *)
RecordedInv ==
  phase \in Recorded =>
    /\ meta # <<>> /\ meta[1].attempt = attempt
    /\ \A k \in Slots : meta[1].accepted[k] # None => cand[k] = meta[1].accepted[k]

(* The plan of the layers under way is the one of round.json.              *)
PlanInv ==
  phase \in {"rollouts", "controls"} =>
    /\ \A k \in Slots : plan[k] = SlotMode(k)
    /\ todo \subseteq Planned

Begun == {"rollouts", "controls", "collect", "dead", "adopt"}

(* A result is of a slot, a layer and an attempt made so far, and has the  *)
(* seed of its place.                                                      *)
RunsInv ==
  \A x \in runs :
    /\ x.attempt \in 1 .. attempt /\ x.k \in Slots /\ x.repeat \in 0 .. Repeats - 1
    /\ x.seed = Seed(round, x.repeat, x.k)
    /\ phase \notin Begun => x.attempt < attempt

SpentInv ==
  \A x \in spent :
    /\ x.round \in 0 .. round - 1 /\ x.k \in Slots /\ x.repeat \in 0 .. Repeats - 1
    /\ x.seed = Seed(x.round, x.repeat, x.k)

(* The packages of the recorded attempt lie on disk until another attempt  *)
(* writes its own.                                                         *)
KeptInv ==
  /\ phase = "adopt" => meta # <<>>
  /\ meta # <<>> /\ meta[1].attempt = attempt =>
       \A k \in Slots : meta[1].accepted[k] # None => cand[k] = meta[1].accepted[k]

(* Every control of a round ran the package that heads its beam, and every *)
(* round.json of the round says so.                                        *)
ControlInv ==
  /\ meta # <<>> /\ phase # "adopt" => meta[1].base = beam[1].package
  /\ \A x \in runs : x.group = "paired_controls" => meta # <<>> /\ x.package = meta[1].base

(* A promoted package and its score are those of the rollouts of its slot, *)
(* each beside a control of the package it replaces under the same seed,   *)
(* and the rollouts came out ahead.                                        *)
PromotedRan ==
  phase = "adopt" /\ winner # None /\ meta[1].attempt = attempt =>
    LET c == Results("rollouts", winner)
        p == Results("paired_controls", winner)
    IN /\ beam[1].score = Score(winner) /\ Delta(winner) > 0
       /\ Cardinality(c) = Repeats /\ Cardinality(Seeds(c)) = Repeats
       /\ \A x \in c : x.package = beam[1].package /\ \E y \in p : y.seed = x.seed
       /\ \A y \in p : y.package = meta[1].base

IInv ==
  /\ Typing /\ DraftsInv /\ MetaInv /\ RecordedInv /\ PlanInv /\ RunsInv /\ SpentInv
  /\ KeptInv /\ ControlInv /\ LaunchedAsRecorded /\ PromotedRan

(* What the proofs use of the constants.                                   *)
LEMMA Given ==
  /\ K \in Nat \ {0} /\ Repeats \in Nat \ {0} /\ LastRound \in Nat
  /\ MaxAttempts \in Nat \ {0} /\ BeamWidth \in {1, 2} /\ Slots = 0 .. K - 1
  /\ FirstBase \in Genomes /\ None \notin Genomes /\ Pending \notin Genomes
  /\ None # Pending
  BY SlotAssumption, RoundAssumption DEF Slots, Below

(* round.json is one record or is not there.                               *)
LEMMA RangeOfMeta ==
  ASSUME MetaInv
  PROVE  Range(meta) = IF meta = <<>> THEN {} ELSE {meta[1]}
  BY DEF MetaInv, Range

(* A record is all that the file holds when it is written.                 *)
LEMMA RangeOfOne == \A m : Range(<<m>>) = {m}
  BY DEF Range

(* An absent file holds no record.                                         *)
LEMMA RangeOfNone == Range(<<>>) = {}
  BY DEF Range

(* A campaign begins with the first base and an empty directory.           *)
LEMMA InitInv == Init => IInv
<1> SUFFICES ASSUME Init PROVE IInv
  OBVIOUS
<1>1. Range(meta) = {}
  BY RangeOfNone DEF Init
<1>2. Typing
  <2>1. Len(beam) = 1
    BY DEF Init
  <2> QED BY <2>1, Given DEF Init, Typing, Phases, Working, NoDrafts, NoPackages
<1> QED
  BY <1>1, <1>2 DEF Init, IInv, DraftsInv, MetaInv, RecordedInv, PlanInv, RunsInv,
     SpentInv, KeptInv, ControlInv, LaunchedAsRecorded, PromotedRan, Recorded
-------------------------------------------------------------------------------
(* Its preservation, one lemma for each of its conjuncts.                  *)

(* dedup_group drops what it drops and changes nothing else.               *)
LEMMA DedupedDrafts ==
  ASSUME NEW recs \in [Slots -> Genomes \cup {None, Pending}], NEW head,
         \A k \in Slots : recs[k] # Pending
  PROVE  LET d == Deduped(recs, head) IN
         /\ d \in [Slots -> Genomes \cup {None}]
         /\ \A k \in Slots : d[k] # Pending /\ (d[k] # None => d[k] # head)
         /\ Distinct(d)
<1> DEFINE d == Deduped(recs, head)
<1>1. \A k \in Slots : d[k] \in Genomes \cup {None}
  BY Given DEF Deduped
<1>2. \A k \in Slots : d[k] # None => d[k] # head
  BY Given DEF Deduped
<1>3. ASSUME NEW k \in Slots, NEW j \in Slots, k # j, d[k] # None
      PROVE  d[k] # d[j]
  <2>1. d[k] = recs[k] /\ ~\E i \in Slots : i < k /\ recs[i] = recs[k]
    BY <1>3 DEF Deduped
  <2>2. CASE d[j] = None
    BY <1>3, <2>2
  <2>3. CASE d[j] # None
    <3>1. d[j] = recs[j] /\ ~\E i \in Slots : i < j /\ recs[i] = recs[j]
      BY <2>3 DEF Deduped
    <3>2. k < j \/ j < k
      BY <1>3, Given
    <3> QED BY <2>1, <3>1, <3>2
  <2> QED BY <2>2, <2>3
<1>4. d \in [Slots -> Genomes \cup {None}]
  BY <1>1 DEF Deduped
<1> QED BY <1>1, <1>2, <1>3, <1>4, Given DEF Distinct

(* The second entry of a beam is one package or none.                      *)
LEMMA SecondIsOne ==
  ASSUME NEW head, NEW won
  PROVE  Second(head, won) = <<>> \/ (BeamWidth # 1 /\ \E b : Second(head, won) = <<b>>)
<1> DEFINE pool == {k \in Slots : InPool(k, won)}
           near == {k \in pool : HasComponent(k) /\ head.score - Score(k) <= Tolerance}
           one == FirstByScore(IF near # {} THEN near ELSE pool)
<1> HIDE DEF one
<1>1. CASE BeamWidth = 1 \/ pool = {}
  <2>1. Second(head, won) = <<>>
    BY <1>1 DEF Second
  <2> QED BY <2>1
<1>2. CASE ~(BeamWidth = 1 \/ pool = {})
  <2>1. Second(head, won) = <<[package |-> cand[one], score |-> Score(one)]>>
    BY <1>2 DEF Second, one
  <2> QED BY <2>1, <1>2
<1> QED BY <1>1, <1>2

(* The beam published by a collect has its head and at most one other.     *)
LEMMA PublishedBeam ==
  ASSUME NEW won, Publish(won)
  PROVE  Len(beam') \in 1 .. BeamWidth /\ winner' = won
<1>1. ASSUME NEW a PROVE Len(<<a>> \o <<>>) = 1
  OBVIOUS
<1>2. ASSUME NEW a, NEW b PROVE Len(<<a>> \o <<b>>) = 2
  OBVIOUS
<1> DEFINE head == IF won = None THEN beam[1]
                   ELSE [package |-> cand[won], score |-> Score(won)]
<1>3. Second(head, won) = <<>> \/ (BeamWidth # 1 /\ \E b : Second(head, won) = <<b>>)
  BY SecondIsOne
<1>4. beam' = <<head>> \o Second(head, won) /\ winner' = won
  BY DEF Publish
<1> HIDE DEF head
<1>5. CASE Second(head, won) = <<>>
  BY <1>1, <1>4, <1>5, Given
<1>6. CASE BeamWidth # 1 /\ \E b : Second(head, won) = <<b>>
  BY <1>2, <1>4, <1>6, Given
<1> QED BY <1>3, <1>5, <1>6

(* A promoted package heads the beam.                                      *)
LEMMA HeadOfBeam ==
  ASSUME NEW won, won # None, Publish(won)
  PROVE  beam'[1] = [package |-> cand[won], score |-> Score(won)]
<1>1. /\ \A a : (<<a>> \o <<>>)[1] = a
      /\ \A a, b : (<<a>> \o <<b>>)[1] = a
  OBVIOUS
<1> DEFINE head == [package |-> cand[won], score |-> Score(won)]
<1>2. beam' = <<head>> \o Second(head, won)
  BY DEF Publish
<1> HIDE DEF head
<1>3. Second(head, won) = <<>> \/ \E b : Second(head, won) = <<b>>
  BY SecondIsOne
<1>4. beam'[1] = head
  BY <1>1, <1>2, <1>3
<1> QED BY <1>4 DEF head

(* Every variable keeps its type.                                          *)
LEMMA TypingStep == Typing /\ DraftsInv /\ [Next]_vars => Typing'
<1> SUFFICES ASSUME Typing, DraftsInv, [Next]_vars PROVE Typing'
  OBVIOUS
<1> USE Given DEF Typing, Phases, Working, inherited, proposal, execution
<1>1. ASSUME NEW k \in Slots, Propose(k) PROVE Typing'
  <2>1. \A parent : Proposals(k, parent) \subseteq Genomes \cup {None}
    BY DEF Proposals
  <2>2. drafts' \in [Slots -> Genomes \cup {None, Pending}]
    BY <1>1, <2>1 DEF Propose
  <2> QED BY <1>1, <2>2 DEF Propose
<1>2. ASSUME NEW k \in Slots, RunCandidate(k) PROVE Typing'
  BY <1>2 DEF RunCandidate, Rollout
<1>3. ASSUME NEW k \in Slots, RunControl(k) PROVE Typing'
  BY <1>3 DEF RunControl, Rollout
<1>4. CASE Dedup
  <2>1. drafts' \in [Slots -> Genomes \cup {None, Pending}]
    BY <1>4 DEF Dedup, Deduped
  <2> QED BY <1>4, <2>1 DEF Dedup
<1>5. CASE Materialize
  <2>1. written \in Slots /\ written' \in 0 .. K
    BY <1>5 DEF Materialize
  <2>2. cand' \in [Slots -> Genomes \cup {None}]
    BY <1>5, <2>1 DEF Materialize, DraftsInv
  <2> QED BY <1>5, <2>1, <2>2 DEF Materialize
<1>6. CASE GateRefuses
  BY <1>6 DEF GateRefuses
<1>14. CASE WriteTrajectories
  BY <1>14 DEF WriteTrajectories
<1>12. CASE WriteRoundJson
  BY <1>12 DEF WriteRoundJson
<1>13. CASE BuildPlan
  <2>1. todo' \subseteq Slots /\ layer' \in 0 .. Repeats - 1
    BY <1>13 DEF BuildPlan
  <2> QED BY <1>13, <2>1 DEF BuildPlan
<1>7. CASE NextLayer \/ NextControls
  <2>1. Planned \subseteq Slots
    BY DEF Planned
  <2>2. todo' \subseteq Slots /\ layer' \in 0 .. Repeats - 1
    <3>1. CASE NextLayer
      BY <2>1, <3>1 DEF NextLayer
    <3>2. CASE NextControls
      <4>1. ((layer < Repeats - 1 /\ layer' = layer + 1) \/ layer' = layer)
            /\ (todo' = Planned \/ todo' = todo)
        BY <3>2 DEF NextControls
      <4>2. layer \in 0 .. Repeats - 1 /\ todo \subseteq Slots /\ Repeats \in Nat \ {0}
        OBVIOUS
      <4>3. layer' \in 0 .. Repeats - 1
        BY ONLY <4>1, <4>2
      <4> QED BY ONLY <2>1, <4>1, <4>2, <4>3
    <3> QED BY <1>7, <3>1, <3>2
  <2> QED BY <1>7, <2>2 DEF NextLayer, NextControls
<1>8. CASE JobDies \/ CollectRaises
  BY <1>8 DEF JobDies, CollectRaises
<1>9. CASE Collect
  <2>1. \E won \in Slots \cup {None} : Publish(won)
    BY <1>9 DEF Collect
  <2>2. Len(beam') \in 1 .. BeamWidth /\ winner' \in Slots \cup {None}
    BY <2>1, PublishedBeam
  <2> QED BY <1>9, <2>2 DEF Collect
<1>10. CASE Resubmit \/ NextRound
  <2>1. drafts' \in [Slots -> Genomes \cup {None, Pending}] /\ layer' \in 0 .. Repeats - 1
    BY <1>10 DEF Resubmit, NextRound, Proposing, NoDrafts
  <2>2. cand' \in [Slots -> Genomes \cup {None}]
    BY <1>10 DEF Resubmit, NextRound, NoPackages
  <2>3. CASE Resubmit
    BY <2>1, <2>2, <2>3 DEF Resubmit, Proposing
  <2>4. CASE NextRound
    BY <2>1, <2>2, <2>4 DEF NextRound, Proposing
  <2> QED BY <1>10, <2>3, <2>4
<1>11. CASE UNCHANGED vars
  BY <1>11 DEF vars
<1> QED
  BY <1>1, <1>2, <1>3, <1>4, <1>5, <1>6, <1>7, <1>8, <1>9, <1>10, <1>11,
     <1>12, <1>13, <1>14 DEF Next, Stop

(* Drafts are compared once, and written as they were compared.            *)
LEMMA DraftsStep == IInv /\ [Next]_vars => DraftsInv'
<1> SUFFICES ASSUME IInv, [Next]_vars PROVE DraftsInv'
  OBVIOUS
<1>5. ASSUME phase' # "write" PROVE DraftsInv'
  <2>1. phase' = "propose" => written' = 0 \/ (phase = "propose" /\ written' = written)
    BY <1>5 DEF Next, Stop, Propose, RunCandidate, RunControl, Rollout, Dedup, Materialize,
       GateRefuses, WriteRoundJson, WriteTrajectories, BuildPlan, NextLayer, NextControls,
       JobDies, Collect, CollectRaises, Resubmit, NextRound, Proposing, vars, proposal
  <2> QED BY <1>5, <2>1 DEF DraftsInv, IInv
<1> SUFFICES ASSUME phase' = "write" PROVE DraftsInv'
  BY <1>5
<1>1. Dedup \/ Materialize \/ UNCHANGED vars
  BY DEF Next, Stop, Propose, RunCandidate, RunControl, Rollout, GateRefuses, WriteRoundJson,
         WriteTrajectories, BuildPlan, NextLayer, NextControls, JobDies, Collect,
         CollectRaises, Resubmit, NextRound, Proposing
<1>2. CASE Dedup
  <2> DEFINE head == beam[1].package
  <2>1. /\ drafts \in [Slots -> Genomes \cup {None, Pending}]
        /\ \A k \in Slots : drafts[k] # Pending
        /\ drafts' = Deduped(drafts, head) /\ written' = 0 /\ beam' = beam
    BY <1>2 DEF Dedup, inherited, IInv, Typing, DraftsInv
  <2>2. \A k \in Slots : drafts'[k] # Pending /\ (drafts'[k] # None => drafts'[k] # head)
    BY <2>1, DedupedDrafts
  <2>3. Distinct(drafts')
    BY <2>1, DedupedDrafts
  <2> QED BY <2>1, <2>2, <2>3, Given DEF DraftsInv, Distinct
<1>3. CASE Materialize
  <2>1. written \in Slots
    BY <1>3, Given DEF Materialize, IInv, Typing
  <2>2. /\ phase = "write" /\ written' = written + 1 /\ drafts' = drafts /\ beam' = beam
        /\ \A k \in Slots : k # written => cand'[k] = cand[k]
        /\ drafts[written] # None => cand'[written] = drafts[written]
    BY <1>3, <2>1 DEF Materialize, inherited, IInv, Typing
  <2>3. ASSUME NEW k \in Slots, k < written', drafts[k] # None PROVE cand'[k] = drafts[k]
    <3>1. k < written \/ k = written
      BY <2>1, <2>2, <2>3, Given
    <3> QED BY <2>2, <2>3, <3>1 DEF IInv, DraftsInv
  <2> QED BY <2>2, <2>3 DEF DraftsInv, Distinct, IInv
<1>4. CASE UNCHANGED vars
  BY <1>4 DEF vars, DraftsInv, IInv, Distinct
<1> QED BY <1>1, <1>2, <1>3, <1>4

(* The round's record is written once per attempt, from drafts that are    *)
(* all on disk.                                                            *)
LEMMA MetaStep == IInv /\ [Next]_vars => MetaInv'
<1> SUFFICES ASSUME IInv, [Next]_vars PROVE MetaInv'
  OBVIOUS
<1>1. CASE WriteRoundJson
  <2> DEFINE m == [attempt |-> attempt, base |-> beam[1].package, accepted |-> drafts,
                   genome |-> [k \in Slots |-> IF drafts[k] = None THEN None ELSE cand[k]],
                   parent |-> [k \in Slots |-> ParentOf(k, beam).package]]
  <2>1. meta' = <<m>> /\ m.attempt = attempt /\ m.base = beam[1].package /\ m.accepted = drafts
    BY <1>1 DEF WriteRoundJson
  <2>2. \A k \in Slots : m.genome[k] = drafts[k]
    BY <1>1, Given DEF WriteRoundJson, IInv, DraftsInv
  <2> HIDE DEF m
  <2>3. Range(meta') = {m} /\ meta' = <<meta'[1]>>
    BY <2>1, RangeOfOne
  <2>4. attempt' = attempt /\ attempt \in 1 .. attempt /\ phase' = "gate"
    BY <1>1 DEF WriteRoundJson, inherited, IInv, Typing
  <2>5. Distinct(m.genome) /\ \A k \in Slots : drafts[k] # None => drafts[k] # beam[1].package
    BY <1>1, <2>2 DEF WriteRoundJson, IInv, DraftsInv, Distinct
  <2> QED BY <2>1, <2>2, <2>3, <2>4, <2>5 DEF MetaInv
<1>2. CASE Dedup
  <2>1. phase = "propose" /\ phase' = "write" /\ attempt' = attempt /\ meta' = meta
    BY <1>2 DEF Dedup, inherited
  <2> QED BY <2>1, RangeOfMeta DEF MetaInv, IInv, Distinct
<1>3. CASE Resubmit
  <2>1. meta' = meta /\ attempt' = attempt + 1 /\ attempt \in Nat
    BY <1>3 DEF Resubmit, IInv, Typing
  <2>2. \A m \in Range(meta) : m.attempt \in 1 .. attempt' /\ m.attempt < attempt'
    BY <2>1 DEF IInv, MetaInv
  <2> QED BY <2>1, <2>2 DEF MetaInv, IInv, Distinct
<1>4. CASE NextRound
  <2>1. meta' = <<>>
    BY <1>4 DEF NextRound
  <2> QED BY <2>1, RangeOfNone DEF MetaInv
<1>5. CASE ~(WriteRoundJson \/ Dedup \/ Resubmit \/ NextRound)
  <2>1. UNCHANGED <<meta, attempt>> /\ (phase' \in {"propose", "write"} => phase = phase')
    BY <1>5 DEF Next, Stop, Propose, RunCandidate, RunControl, Rollout, Materialize,
       GateRefuses, WriteTrajectories, BuildPlan, NextLayer, NextControls, JobDies,
       Collect, CollectRaises, vars, inherited, proposal, execution
  <2> QED BY <2>1 DEF MetaInv, IInv, Distinct
<1> QED BY <1>1, <1>2, <1>3, <1>4, <1>5

(* While its job runs, the round's record and its packages stay.           *)
LEMMA RecordedStep == IInv /\ [Next]_vars => RecordedInv'
<1> SUFFICES ASSUME IInv, [Next]_vars, phase' \in Recorded PROVE RecordedInv'
  BY DEF RecordedInv
<1>1. CASE WriteRoundJson
  <2>1. PICK m : meta' = <<m>> /\ m.attempt = attempt /\ m.accepted = drafts
    BY <1>1 DEF WriteRoundJson
  <2>2. \A k \in Slots : drafts[k] # None => cand[k] = drafts[k]
    BY <1>1, Given DEF WriteRoundJson, IInv, DraftsInv
  <2>3. attempt' = attempt /\ cand' = cand
    BY <1>1 DEF WriteRoundJson, inherited, proposal
  <2> QED BY <2>1, <2>2, <2>3 DEF RecordedInv
<1>2. CASE ~WriteRoundJson
  <2>1. UNCHANGED <<meta, attempt, cand>> /\ phase \in Recorded
    BY <1>2 DEF Next, Stop, Propose, RunCandidate, RunControl, Rollout, Dedup, Materialize,
       GateRefuses, WriteTrajectories, BuildPlan, NextLayer, NextControls, JobDies,
       Collect, CollectRaises, Resubmit, NextRound, Proposing, Recorded, vars, inherited,
       proposal, execution
  <2> QED BY <2>1 DEF RecordedInv, IInv
<1> QED BY <1>1, <1>2

(* The layers under way are those of the plan.                             *)
LEMMA PlanStep == IInv /\ [Next]_vars => PlanInv'
<1> SUFFICES ASSUME IInv, [Next]_vars, phase' \in {"rollouts", "controls"} PROVE PlanInv'
  BY DEF PlanInv
<1>1. CASE BuildPlan
  <2>1. plan' = [k \in Slots |-> SlotMode(k)] /\ meta' = meta
        /\ todo' = {k \in Slots : SlotMode(k) # "omitted"}
    BY <1>1 DEF BuildPlan
  <2>2. \A k \in Slots : SlotMode(k)' = SlotMode(k)
    BY <2>1 DEF SlotMode
  <2> QED BY <2>1, <2>2 DEF PlanInv, Planned
<1>2. CASE ~BuildPlan
  <2>1. UNCHANGED <<meta, plan>> /\ todo' \in {todo, Planned} \cup SUBSET todo
        /\ phase \in {"rollouts", "controls"}
    BY <1>2 DEF Next, Stop, Propose, RunCandidate, RunControl, Rollout, Dedup, Materialize,
       GateRefuses, WriteRoundJson, WriteTrajectories, NextLayer, NextControls, JobDies,
       Collect, CollectRaises, Resubmit, NextRound, Proposing, vars, inherited,
       proposal, execution
  <2>2. Planned' = Planned /\ \A k \in Slots : SlotMode(k)' = SlotMode(k)
    BY <2>1 DEF SlotMode, Planned
  <2> QED BY <2>1, <2>2 DEF PlanInv, IInv
<1> QED BY <1>1, <1>2

(* A process leaves at most the result of its own slot and layer.          *)
LEMMA RunsStep == IInv /\ [Next]_vars => RunsInv'
<1> SUFFICES ASSUME IInv, [Next]_vars PROVE RunsInv'
  OBVIOUS
<1>1. ASSUME NEW k \in Slots, RunCandidate(k) \/ RunControl(k) PROVE RunsInv'
  <2>1. /\ UNCHANGED <<round, attempt, phase>> /\ phase \in Begun
        /\ \A x \in runs' : x \in runs
             \/ (/\ x.attempt = attempt /\ x.k = k /\ x.repeat = layer
                 /\ x.seed = Seed(round, layer, k))
    BY <1>1 DEF RunCandidate, RunControl, Rollout, inherited, Begun
  <2>2. attempt \in 1 .. attempt /\ layer \in 0 .. Repeats - 1
    BY DEF IInv, Typing
  <2> QED BY <2>1, <2>2 DEF RunsInv, IInv
<1>2. CASE Resubmit
  <2>1. runs' = runs /\ attempt' = attempt + 1 /\ attempt \in Nat /\ round' = round
    BY <1>2 DEF Resubmit, IInv, Typing
  <2> QED BY <2>1 DEF RunsInv, IInv
<1>3. CASE NextRound
  BY <1>3 DEF NextRound, RunsInv
<1>4. CASE ~(NextRound \/ Resubmit \/ \E k \in Slots : RunCandidate(k) \/ RunControl(k))
  <2>1. UNCHANGED <<round, attempt, runs>> /\ (phase' \notin Begun => phase \notin Begun)
    BY <1>4 DEF Next, Stop, Propose, Dedup, Materialize, GateRefuses, WriteRoundJson,
       WriteTrajectories, BuildPlan, NextLayer, NextControls, JobDies, Collect,
       CollectRaises, Begun, vars, inherited, proposal, execution
  <2> QED BY <2>1 DEF RunsInv, IInv
<1> QED BY <1>1, <1>2, <1>3, <1>4

(* What a round leaves to the history has its round's number.              *)
LEMMA SpentStep == IInv /\ [Next]_vars => SpentInv'
<1> SUFFICES ASSUME IInv, [Next]_vars PROVE SpentInv'
  OBVIOUS
<1>1. CASE NextRound
  <2>1. round \in Nat /\ round' = round + 1 /\ spent' = spent \cup Rollouts
    BY <1>1 DEF NextRound, IInv, Typing
  <2>2. ASSUME NEW x \in Rollouts
        PROVE  /\ x.round \in 0 .. round' - 1 /\ x.k \in Slots
               /\ x.repeat \in 0 .. Repeats - 1 /\ x.seed = Seed(x.round, x.repeat, x.k)
    <3>1. PICK y \in runs : /\ x.round = round /\ x.k = y.k
                            /\ x.repeat = y.repeat /\ x.seed = y.seed
      BY DEF Rollouts
    <3> QED BY <2>1, <3>1 DEF RunsInv, IInv
  <2>3. \A x \in spent : x.round \in 0 .. round' - 1
    BY <2>1 DEF SpentInv, IInv
  <2> QED BY <2>1, <2>2, <2>3 DEF SpentInv, IInv
<1>2. CASE ~NextRound
  <2>1. UNCHANGED <<round, spent>>
    BY <1>2 DEF Next, Stop, Propose, RunCandidate, RunControl, Rollout, Dedup, Materialize,
       GateRefuses, WriteRoundJson, WriteTrajectories, BuildPlan, NextLayer, NextControls,
       JobDies, Collect, CollectRaises, Resubmit, vars, inherited
  <2> QED BY <2>1 DEF SpentInv, IInv
<1> QED BY <1>1, <1>2

(* A process is launched on what its own attempt recorded.                 *)
LEMMA LaunchedStep == IInv /\ [Next]_vars => LaunchedAsRecorded'
<1> SUFFICES ASSUME IInv, [Next]_vars PROVE LaunchedAsRecorded'
  OBVIOUS
<1>1. ASSUME NEW k \in Slots, RunCandidate(k) PROVE LaunchedAsRecorded'
  <2>1. /\ meta' = meta /\ meta # <<>> /\ Range(meta) = {meta[1]}
        /\ \A x \in runs' : x \in runs
             \/ (x.group = "rollouts" /\ x.k = k
                 /\ x.package = IF plan[k] = "fallback" THEN meta[1].base ELSE cand[k])
    BY <1>1, RangeOfMeta DEF RunCandidate, Rollout, IInv, RecordedInv, Recorded
  <2>2. (IF plan[k] = "fallback" THEN meta[1].base ELSE cand[k])
           = IF meta[1].accepted[k] = None THEN meta[1].base ELSE meta[1].accepted[k]
    <3>1. plan[k] = SlotMode(k) /\ plan[k] # "omitted"
      BY <1>1 DEF RunCandidate, IInv, PlanInv, Planned
    <3>2. meta[1].genome[k] = meta[1].accepted[k]
      BY <2>1 DEF IInv, MetaInv
    <3>3. meta[1].accepted[k] # None => cand[k] = meta[1].accepted[k]
      BY <1>1 DEF RunCandidate, IInv, RecordedInv, Recorded
    <3> QED BY <3>1, <3>2, <3>3 DEF SlotMode
  <2>3. ASSUME NEW x \in runs', x.attempt = meta[1].attempt
        PROVE  x.package = IF x.group = "paired_controls" \/ meta[1].accepted[x.k] = None
                           THEN meta[1].base ELSE meta[1].accepted[x.k]
    <3>1. CASE x \in runs
      BY <2>1, <2>3, <3>1 DEF IInv, LaunchedAsRecorded
    <3>2. CASE x \notin runs
      BY <2>1, <2>2, <3>2
    <3> QED BY <3>1, <3>2
  <2> QED BY <2>1, <2>3 DEF LaunchedAsRecorded
<1>2. CASE WriteRoundJson
  <2>1. Range(meta') = {meta'[1]} /\ meta'[1].attempt = attempt /\ runs' = runs
    BY <1>2, RangeOfOne DEF WriteRoundJson, execution
  <2>2. \A x \in runs : x.attempt # attempt
    BY <1>2 DEF WriteRoundJson, IInv, RunsInv, Begun
  <2> QED BY <2>1, <2>2 DEF LaunchedAsRecorded
<1>3. CASE ~(WriteRoundJson \/ \E k \in Slots : RunCandidate(k))
  <2>1. \/ UNCHANGED <<meta, runs>>
        \/ meta' = <<>>
        \/ meta' = meta /\ \E k \in Slots : RunControl(k)
    BY <1>3 DEF Next, Stop, Propose, Dedup, Materialize, GateRefuses, WriteTrajectories,
       BuildPlan, NextLayer, NextControls, JobDies, Collect, CollectRaises, Resubmit,
       NextRound, RunControl, Rollout, vars, execution
  <2>2. ASSUME NEW k \in Slots, RunControl(k), meta' = meta PROVE LaunchedAsRecorded'
    <3>1. /\ Range(meta) \subseteq {meta[1]}
          /\ \A x \in runs' : x \in runs
               \/ (x.group = "paired_controls" /\ x.package = meta[1].base)
      BY <2>2, RangeOfMeta DEF RunControl, Rollout, IInv
    <3> QED BY <2>2, <3>1 DEF LaunchedAsRecorded, IInv
  <2>3. CASE meta' = <<>>
    BY <2>3, RangeOfNone DEF LaunchedAsRecorded
  <2>4. CASE UNCHANGED <<meta, runs>>
    BY <2>4 DEF LaunchedAsRecorded, IInv
  <2> QED BY <2>1, <2>2, <2>3, <2>4
<1> QED BY <1>1, <1>2, <1>3

(* Only an attempt of its own replaces the packages of the record.         *)
LEMMA KeptStep == IInv /\ [Next]_vars => KeptInv'
<1> SUFFICES ASSUME IInv, [Next]_vars PROVE KeptInv'
  OBVIOUS
<1>1. CASE WriteRoundJson
  <2>1. meta'[1].accepted = drafts /\ cand' = cand /\ phase = "write" /\ written = K
        /\ phase' = "gate" /\ meta' # <<>>
    BY <1>1 DEF WriteRoundJson, proposal
  <2>2. \A k \in Slots : drafts[k] # None => cand[k] = drafts[k]
    BY <2>1, Given DEF IInv, DraftsInv
  <2> QED BY <2>1, <2>2 DEF KeptInv
<1>2. CASE Materialize
  <2>1. meta' = meta /\ attempt' = attempt /\ phase = "write" /\ phase' = "write"
    BY <1>2 DEF Materialize, inherited
  <2>2. meta # <<>> => meta[1].attempt < attempt
    BY <2>1, RangeOfMeta DEF IInv, MetaInv
  <2>3. attempt \in Nat /\ (meta # <<>> => meta[1].attempt \in Nat)
    BY RangeOfMeta DEF IInv, Typing, MetaInv
  <2> QED BY <2>1, <2>2, <2>3 DEF KeptInv
<1>3. CASE Resubmit
  <2>1. meta' = meta /\ attempt' = attempt + 1 /\ phase' = "propose"
    BY <1>3 DEF Resubmit, Proposing
  <2>2. attempt \in Nat /\ (meta # <<>> => meta[1].attempt \in 1 .. attempt)
    BY RangeOfMeta DEF IInv, Typing, MetaInv
  <2> QED BY <2>1, <2>2 DEF KeptInv
<1>4. CASE NextRound
  BY <1>4 DEF NextRound, Proposing, KeptInv
<1>5. CASE Collect
  BY <1>5 DEF Collect, proposal, execution, IInv, KeptInv
<1>6. CASE ~(WriteRoundJson \/ Materialize \/ Resubmit \/ NextRound \/ Collect)
  <2>1. UNCHANGED <<meta, attempt, cand>> /\ (phase' = "adopt" => phase = "adopt")
    BY <1>6 DEF Next, Stop, Propose, RunCandidate, RunControl, Rollout, Dedup, GateRefuses,
       WriteTrajectories, BuildPlan, NextLayer, NextControls, JobDies, CollectRaises, vars,
       inherited, proposal, execution
  <2> QED BY <2>1 DEF IInv, KeptInv
<1> QED BY <1>1, <1>2, <1>3, <1>4, <1>5, <1>6

(* The beam of a round, and so the base of its controls, is one.           *)
LEMMA ControlStep == IInv /\ [Next]_vars => ControlInv'
<1> SUFFICES ASSUME IInv, [Next]_vars PROVE ControlInv'
  OBVIOUS
<1>1. CASE WriteRoundJson
  <2>1. /\ meta' # <<>> /\ meta'[1].base = beam[1].package /\ beam' = beam /\ runs' = runs
        /\ phase = "write"
    BY <1>1 DEF WriteRoundJson, inherited, execution
  <2> QED BY <2>1 DEF IInv, ControlInv
<1>2. ASSUME NEW k \in Slots, RunCandidate(k) \/ RunControl(k) PROVE ControlInv'
  <2>1. /\ meta' = meta /\ meta # <<>> /\ beam' = beam /\ phase' = phase
        /\ \A x \in runs' : x \in runs \/ x.group = "rollouts" \/ x.package = meta[1].base
    BY <1>2 DEF RunCandidate, RunControl, Rollout, inherited, IInv, RecordedInv, Recorded
  <2> QED BY <2>1 DEF IInv, ControlInv
<1>3. CASE Collect
  <2>1. phase' = "adopt" /\ UNCHANGED <<meta, runs>>
    BY <1>3 DEF Collect, execution
  <2> QED BY <2>1 DEF IInv, ControlInv
<1>4. CASE NextRound
  BY <1>4 DEF NextRound, ControlInv
<1>5. CASE ~(\/ WriteRoundJson \/ Collect \/ NextRound
             \/ \E k \in Slots : RunCandidate(k) \/ RunControl(k))
  <2>1. UNCHANGED <<meta, beam, runs>> /\ (phase = "adopt" => phase' = "adopt")
    BY <1>5 DEF Next, Stop, Propose, Dedup, Materialize, GateRefuses, WriteTrajectories,
       BuildPlan, NextLayer, NextControls, JobDies, CollectRaises, Resubmit, vars, inherited,
       execution, Working
  <2> QED BY <2>1 DEF IInv, ControlInv
<1> QED BY <1>1, <1>2, <1>3, <1>4, <1>5

(* What a collect promotes is on disk what its rollouts ran.               *)
LEMMA PromotedStep == IInv /\ [Next]_vars => PromotedRan'
<1> SUFFICES ASSUME IInv, [Next]_vars, phase' = "adopt" PROVE PromotedRan'
  BY DEF PromotedRan
<1>1. UNCHANGED <<meta, runs, attempt>> /\ (Collect \/ phase = "adopt")
  BY DEF Next, Stop, Propose, RunCandidate, RunControl, Rollout, Dedup, Materialize,
     GateRefuses, WriteRoundJson, WriteTrajectories, BuildPlan, NextLayer, NextControls,
     JobDies, Collect, CollectRaises, Resubmit, NextRound, Proposing, vars, inherited, execution
<1>2. \A g, k : Results(g, k)' = Results(g, k)
  BY <1>1 DEF Results
<1>3. ASSUME NEW k PROVE Score(k)' = Score(k) /\ Delta(k)' = Delta(k)
  <2>1. Results("rollouts", k)' = Results("rollouts", k)
        /\ Results("paired_controls", k)' = Results("paired_controls", k)
    BY <1>2
  <2> QED BY <2>1 DEF Score, Delta
<1>4. CASE phase = "adopt"
  <2>1. UNCHANGED <<beam, winner>>
    BY <1>4 DEF Next, Stop, Propose, RunCandidate, RunControl, Rollout, Dedup, Materialize,
       GateRefuses, WriteRoundJson, WriteTrajectories, BuildPlan, NextLayer, NextControls,
       JobDies, Collect, CollectRaises, Resubmit, NextRound, Proposing, vars, Working
  <2> QED BY <1>1, <1>2, <1>3, <1>4, <2>1 DEF IInv, PromotedRan, Seeds
<1>5. ASSUME Collect, winner' # None, meta[1].attempt = attempt PROVE PromotedRan'
  <2>0. PICK w : w = winner'
    OBVIOUS
  <2> DEFINE c == Results("rollouts", w)
             p == Results("paired_controls", w)
  <2>1. meta # <<>> /\ \A k \in Slots : Collectable(k)
    BY <1>5 DEF Collect
  <2>2. w \in Slots /\ Improves(w)
    BY <1>5, <2>0 DEF Collect, Publish
  <2>3. beam'[1] = [package |-> cand[w], score |-> Score(w)]
    <3>1. Publish(w)
      BY <1>5, <2>0 DEF Collect, Publish
    <3> QED BY <1>5, <2>0, <3>1, HeadOfBeam
  <2>4. w \in Credited /\ Delta(w) > 0
    BY <2>2 DEF Improves, IsCausalBest
  <2>5. meta[1].genome[w] # None /\ Complete(w) /\ PairContract(w)
        /\ Cardinality(p) = Repeats
    BY <2>1, <2>2, <2>4 DEF Credited, Collectable
  <2>6. cand[w] = meta[1].genome[w]
    BY <1>5, <2>1, <2>2, <2>5, RangeOfMeta DEF IInv, KeptInv, MetaInv
  <2>7. \A x \in c : x.package = cand[w] /\ \E y \in p : y.seed = x.seed
    <3>1. ASSUME NEW x \in c PROVE \E y \in p : y.seed = x.seed
      <4>1. x.seed \in Seeds(p)
        BY <2>5 DEF PairContract, Seeds
      <4> QED BY <4>1 DEF Seeds
    <3> QED BY <2>5, <2>6, <3>1 DEF PairContract
  <2>8. \A y \in p : y.package = meta[1].base
    BY DEF IInv, ControlInv, Results
  <2>9. Cardinality(c) = Repeats /\ Cardinality(Seeds(c)) = Repeats
    BY <2>5 DEF Complete, PairContract
  <2>10. /\ beam'[1].score = Score(w)' /\ Delta(w)' > 0
         /\ \A x \in c : x.package = beam'[1].package
    BY <1>3, <2>3, <2>4, <2>7
  <2>11. Results("rollouts", winner)' = c /\ Results("paired_controls", winner)' = p
    BY <1>1, <2>0 DEF Results
  <2> HIDE DEF c, p
  <2> QED
    BY <1>1, <2>0, <2>7, <2>8, <2>9, <2>10, <2>11 DEF PromotedRan, Seeds
<1> QED BY <1>1, <1>4, <1>5 DEF PromotedRan

-------------------------------------------------------------------------------
(* The theorems.                                                           *)

(* The inductive invariant holds of every round of every campaign.         *)
LEMMA Invariance == Spec => []IInv
<1>1. IInv /\ [Next]_vars => IInv'
  BY TypingStep, DraftsStep, MetaStep, RecordedStep, PlanStep, RunsStep, SpentStep,
     KeptStep, ControlStep, LaunchedStep, PromotedStep DEF IInv
<1> QED BY <1>1, InitInv, PTL DEF Spec

(* The variables have their types, and no round charges two slots for one  *)
(* genome nor one for the incumbent's (dedup_group).                       *)
THEOREM TypeCorrect == Spec => []TypeOK
<1>1. IInv => TypeOK
  BY DEF IInv, Typing, MetaInv, Distinct, TypeOK
<1> QED BY <1>1, Invariance, PTL

(* Every rollout of the attempt that round.json records ran the genome its *)
(* slot handed in, or the incumbent, for any number of slots, repeats and  *)
(* attempts over one directory.                                            *)
THEOREM LaunchesAreAsRecorded == Spec => []LaunchedAsRecorded
<1>1. IInv => LaunchedAsRecorded
  BY DEF IInv
<1> QED BY <1>1, Invariance, PTL

(* A decode seed names one slot of one layer of one round, whatever the    *)
(* number of slots, repeats and rounds and the smallest stride.            *)
THEOREM SeedsNameRollouts == Spec => []SeedsTellRollouts
<1>1. IInv => SeedsTellRollouts
  <2> SUFFICES ASSUME IInv, NEW x \in spent \cup Rollouts, NEW y \in spent \cup Rollouts
               PROVE  x.seed = y.seed <=>
                        (x.round = y.round /\ x.k = y.k /\ x.repeat = y.repeat)
    BY DEF SeedsTellRollouts
  <2>1. ASSUME NEW z \in spent \cup Rollouts
        PROVE  /\ z.round \in Nat /\ z.k \in Slots /\ z.repeat \in 0 .. Repeats - 1
               /\ z.seed = Seed(z.round, z.repeat, z.k)
    <3>1. CASE z \in spent
      BY <3>1 DEF IInv, SpentInv
    <3>2. CASE z \in Rollouts
      <4>1. PICK w \in runs : /\ z.round = round /\ z.k = w.k
                                /\ z.repeat = w.repeat /\ z.seed = w.seed
        BY <3>2 DEF Rollouts
      <4>2. round \in Nat
        BY DEF IInv, Typing
      <4> QED BY <4>1, <4>2 DEF IInv, RunsInv
    <3> QED BY <3>1, <3>2
  <2>2. x.round = y.round /\ x.k = y.k /\ x.repeat = y.repeat => x.seed = y.seed
    BY <2>1
  <2>3. x.seed = y.seed => x.round = y.round /\ x.k = y.k /\ x.repeat = y.repeat
    BY <2>1, SeedIsAPlace
  <2> QED BY <2>2, <2>3
<1> QED BY <1>1, Invariance, PTL

(* However the attempts over one directory were mixed, a package that is   *)
(* promoted from the last of them is the one its slot's rollouts ran, its  *)
(* score is theirs, and they beat controls of the package it replaces seed *)
(* by seed (compute_task_group_paired and the collect).                    *)
THEOREM PromotedPackagesRan == Spec => []PromotedRan
<1>1. IInv => PromotedRan
  BY DEF IInv
<1> QED BY <1>1, Invariance, PTL
===============================================================================
