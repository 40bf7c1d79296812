------------------------------- MODULE Discover -------------------------------
(***************************************************************************)
(* ttt_discover_prepare.py: one executor batch becomes a point of the      *)
(* curve, a replay for the next update and the parent of the next batch,   *)
(* published file by file around the commit of state.json.                 *)
(*                                                                         *)
(* A step is the code's plus one, a replay or parent file is that of its   *)
(* code number, and a state is named by its step and index alone.  Scores  *)
(* are naturals; the PUCT form is computed in fixed point.                 *)
(***************************************************************************)
EXTENDS Missing, Totals, FiniteSetsExt, SequencesExt, TLC

CONSTANTS
  Programs, Score, InitialProgram, \* programs, InitialProgram among them
  WarmStart,          \* the score before the first batch
  Steps,              \* a bound on the updates
  MaxTrain, MinTrain, \* --max-train-rows, --min-train-rows
  Ways                \* rows come in groups of four

ASSUME DiscoverAssumption ==
  /\ InitialProgram \in Programs /\ Score \in [Programs -> Nat] /\ WarmStart \in Nat
  /\ Steps \in Nat \ {0} /\ MaxTrain \in Nat /\ MinTrain \in Nat \ {0} /\ Ways \in Nat \ {0}

Root == <<0, 0>>
TopChildren == 2

VARIABLES
  state,      \* state.json, or the first state when it is not there
  replay,     \* the rows of replay_stepNN.jsonl, none when it is not there
  curve,      \* the rows of curve.jsonl
  parentFile, \* the state named by parent_stepNN.json, or None
  marker,     \* prepare_stepNN.json is there
  prep        \* the running command, or None

discoverVars == <<state, replay, curve, parentFile, marker, prep>>

-------------------------------------------------------------------------------
(* The archive: a tree of programs.                                        *)

ScoreOf(a, n) == Score[a[n].program]
Children(a, p) == {n \in DOMAIN a \ {Root} : a[n].parent = p}

Beats(x, y, tie) == x > y \/ (x = y /\ tie) \* lexicographic order

Ranked(a, m, n) == Beats(ScoreOf(a, m), ScoreOf(a, n), Beats(m[1], n[1], m[2] > n[2]))

(* migrate_archive: two children of each retained state survive a load.    *)
Retained(a) ==
  LET Best(p) == {n \in Children(a, p) :
                    Cardinality({m \in Children(a, p) : Ranked(a, m, n)}) < TopChildren}
      kept[n \in DOMAIN a] ==
        n = Root \/ (a[n].parent \in DOMAIN a /\ n \in Best(a[n].parent) /\ kept[a[n].parent])
  IN {n \in DOMAIN a : kept[n]}

Migrated(a) == [n \in Retained(a) |-> a[n]]

(* Variant for mutation: the ancestors' visits stand.                      *)
Ancestry_ParentOnly(a, parent) == {parent}

Ancestry(a, parent) ==
  LET up[n \in DOMAIN a] ==
        {n} \cup (IF n = Root \/ a[n].parent \notin DOMAIN a THEN {} ELSE up[a[n].parent])
  IN up[parent]

BatchBest(rows) == Max({Score[rows[i].program] : i \in DOMAIN rows})

(* Rows whose program the archive does not hold yet, the best two.         *)
Admitted(a, rows) ==
  LET fresh == {i \in DOMAIN rows : \A n \in DOMAIN a : a[n].program # rows[i].program}
      Ahead(i, j) == Beats(Score[rows[i].program], Score[rows[j].program], i < j)
  IN {i \in fresh : Cardinality({j \in fresh : Ahead(j, i)}) < TopChildren}

UpdateArchive(a, rows, parent, step) ==
  LET best == BatchBest(rows)
      visited == [n \in DOMAIN a |->
        [a[n] EXCEPT !.visits = IF n \in Ancestry(a, parent) THEN @ + 1 ELSE @,
                     !.maxChild = IF n # parent THEN @
                                  ELSE IF @ = None THEN best ELSE Max({@, best})]]
      new == {<<step, rows[i].k>> : i \in Admitted(a, rows)}
  IN visited @@ [n \in new |->
       [program |-> rows[CHOOSE i \in DOMAIN rows : rows[i].k = n[2]].program,
        parent |-> parent, visits |-> 0, maxChild |-> None]]

-------------------------------------------------------------------------------
(* select_puct, every term multiplied by Fine * 600 * the sum of weights.  *)

Fine == 20
Root10(n) == <<10, 14, 17, 20, 22, 24, 26, 28, 30, 32>>[n] \* ten times the square root

Inserted(a, m, n) == \* m is before n in the archive's order
  Beats(n[1], m[1], Beats(ScoreOf(a, m), ScoreOf(a, n), m[2] < n[2]))

Scale(a) ==
  LET found == IF DOMAIN a = {Root} THEN {Root} ELSE DOMAIN a \ {Root}
      scores == {ScoreOf(a, n) : n \in found}
  IN Max({Fine * (Max(scores) - Min(scores)), 1})

RankWeight(a, n) ==
  Cardinality(DOMAIN a)
    - Cardinality({m \in DOMAIN a : Beats(ScoreOf(a, m), ScoreOf(a, n), Inserted(a, m, n))})

Puct(a, expansions, n) ==
  LET size == Cardinality(DOMAIN a)
      q == IF a[n].visits > 0 /\ a[n].maxChild # None THEN a[n].maxChild ELSE ScoreOf(a, n)
      bonus == (Scale(a) * RankWeight(a, n) * Root10(1 + expansions) * 60) \div (1 + a[n].visits)
  IN q * Fine * 600 * ((size * (size + 1)) \div 2) + bonus

SelectPuct(a, expansions) ==
  LET p == [n \in DOMAIN a |-> Puct(a, expansions, n)]
  IN CHOOSE n \in DOMAIN a : \A m \in DOMAIN a \ {n} :
       Beats(p[n], p[m], Beats(ScoreOf(a, n), ScoreOf(a, m), Inserted(a, n, m)))

-------------------------------------------------------------------------------
(* The command, from the lock to the marker.                               *)

FirstState ==
  [archive |-> [n \in {Root} |-> [program |-> InitialProgram, parent |-> None,
                                  visits |-> 0, maxChild |-> None]],
   expansions |-> 0, cum |-> 0, best |-> WarmStart, batches |-> <<>>, selected |-> None]

TrainRows(rows) ==
  LET upTo == Min({Len(rows), MaxTrain})
      cap == upTo - (upTo % Ways)
  IN IF cap >= MinTrain THEN SubSeq(rows, 1, cap) ELSE <<>>

Batch(st, step) == {b \in Range(st.batches) : b.step = step}

CurveRow(b, cum) ==
  [step |-> b.step, cum |-> cum, best |-> b.best, launched |-> b.launched, parent |-> b.parent]

Charged(st, step) == \* what the batches up to step launched
  Total([i \in DOMAIN st.batches |->
           IF st.batches[i].step <= step THEN st.batches[i].launched ELSE 0])

UpdatedState(st, p) ==
  LET a == IF p.rows = <<>> THEN st.archive
           ELSE UpdateArchive(st.archive, p.rows, p.parent, p.step)
      t == IF p.rows = <<>> THEN st.expansions ELSE st.expansions + 1
      best == IF p.rows = <<>> THEN st.best ELSE Max({st.best, BatchBest(p.rows)})
  IN [archive |-> a, expansions |-> t, cum |-> st.cum + p.launched, best |-> best,
      batches |-> Append(st.batches,
        [step |-> p.step, launched |-> p.launched, usable |-> Len(p.rows),
         trained |-> Len(TrainRows(p.rows)), best |-> best, parent |-> p.parent]),
      selected |-> SelectPuct(a, t)]

(* The state is loaded under the lock and its archive filtered.  A step    *)
(* that state.json holds is only published again.                          *)
StartPrepare(step, rows, launched, parent) ==
  LET st == [state EXCEPT !.archive = Migrated(@)]
      again == Batch(st, step) # {}
      known == (IF again THEN st.selected ELSE parent) \in DOMAIN st.archive
  IN /\ prep = None
     /\ prep' = [at |-> IF ~known THEN "failed" ELSE IF again THEN "curve" ELSE "replay",
                 step |-> step, rows |-> rows, launched |-> launched, parent |-> parent,
                 again |-> again, st |-> st]
     /\ UNCHANGED <<state, replay, curve, parentFile, marker>>

At(where) == prep # None /\ prep.at = where

(* adaptive_entropic_advantages: a weight over the mean of the others, in  *)
(* hundredths, less one.  2^x stands for exp(beta * x).                    *)
Entropic(scores) ==
  LET n == Len(scores)
      total == FoldSeq(LAMBDA x, sum : sum + 2^x, 0, scores)
  IN [i \in DOMAIN scores |->
        IF Cardinality(Range(scores)) < 2 THEN 0
        ELSE (100 * (n - 1) * 2^scores[i]) \div (total - 2^scores[i]) - 100]

(* Of two scores of a replay the better has the larger advantage, as it    *)
(* has exactly: hundredths must be fine enough for the scores.             *)
ASSUME AdvantageAssumption ==
  \A n \in 1 .. MaxTrain : \A f \in [1 .. n -> Programs] :
    LET advantages == Entropic([i \in 1 .. n |-> Score[f[i]]])
    IN \A i, j \in 1 .. n : Score[f[i]] < Score[f[j]] => advantages[i] < advantages[j]

MakeReplay(train, parent) ==
  LET advantages == Entropic([i \in DOMAIN train |-> Score[train[i].program]])
  IN [i \in DOMAIN train |->
        [k |-> train[i].k, program |-> train[i].program, parent |-> parent,
         advantage |-> advantages[i]]]

(* Written before the commit; a step without train rows removes the file.  *)
WriteReplay ==
  /\ At("replay")
  /\ replay' = [replay EXCEPT ![prep.step] = MakeReplay(TrainRows(prep.rows), prep.parent)]
  /\ prep' = [prep EXCEPT !.at = "commit"]
  /\ UNCHANGED <<state, curve, parentFile, marker>>

(* Variant for mutation: a step published again is plotted again.          *)
AppendCurve_Blindly ==
  LET b == CHOOSE x \in Batch(prep.st, prep.step) : TRUE
  IN /\ At("curve")
     /\ curve' = Append(curve, CurveRow(b, prep.st.cum))
     /\ prep' = [prep EXCEPT !.at = "parent"]
     /\ UNCHANGED <<state, replay, parentFile, marker>>

CommitState ==
  /\ At("commit")
  /\ state' = UpdatedState(prep.st, prep)
  /\ prep' = [prep EXCEPT !.at = "curve", !.st = state']
  /\ UNCHANGED <<replay, curve, parentFile, marker>>

AppendCurve ==
  LET b == CHOOSE x \in Batch(prep.st, prep.step) : TRUE
      cum == IF prep.again THEN Charged(prep.st, prep.step) ELSE prep.st.cum
      there == prep.again /\ \E i \in DOMAIN curve : curve[i].step = prep.step
  IN /\ At("curve")
     /\ curve' = IF there THEN curve ELSE Append(curve, CurveRow(b, cum))
     /\ prep' = [prep EXCEPT !.at = "parent"]
     /\ UNCHANGED <<state, replay, parentFile, marker>>

(* Variant for mutation: a step published again has no parent file.        *)
WriteParent_NotAgain ==
  /\ At("parent")
  /\ parentFile' = [parentFile EXCEPT ![prep.step] = IF prep.again THEN @ ELSE prep.st.selected]
  /\ prep' = [prep EXCEPT !.at = "marker"]
  /\ UNCHANGED <<state, replay, curve, marker>>

WriteParent ==
  /\ At("parent")
  /\ parentFile' = [parentFile EXCEPT ![prep.step] =
       IF prep.again /\ @ # None THEN @ ELSE prep.st.selected]
  /\ prep' = [prep EXCEPT !.at = "marker"]
  /\ UNCHANGED <<state, replay, curve, marker>>

WriteMarker ==
  /\ At("marker")
  /\ marker' = [marker EXCEPT ![prep.step] = TRUE]
  /\ prep' = None
  /\ UNCHANGED <<state, replay, curve, parentFile>>

Prepare == WriteReplay \/ CommitState \/ AppendCurve \/ WriteParent \/ WriteMarker

DiscoverInit ==
  /\ state = FirstState /\ curve = <<>> /\ prep = None
  /\ replay = [s \in 1 .. Steps |-> <<>>]
  /\ parentFile = [s \in 1 .. Steps |-> None]
  /\ marker = [s \in 1 .. Steps |-> FALSE]

(* The command alone, on every batch of at most MaxTrain rows in turn.     *)
BatchRows == UNION {{[i \in 1 .. n |-> [k |-> i - 1, program |-> f[i]]] : f \in [1 .. n -> Programs]}
                    : n \in 0 .. MaxTrain}

DiscoverNext ==
  \/ LET step == Cardinality({s \in 1 .. Steps : marker[s]}) + 1 IN
       /\ step <= Steps
       /\ \E rows \in BatchRows :
            StartPrepare(step, rows, MaxTrain, IF step = 1 THEN Root ELSE parentFile[step - 1])
  \/ Prepare

DiscoverSpec == DiscoverInit /\ [][DiscoverNext]_discoverVars

-------------------------------------------------------------------------------
(* Properties.                                                             *)

(* Every batch is charged once and the curve's axis is the running sum of  *)
(* what was launched, whatever the command was interrupted at.             *)
ChargeIsConserved ==
  /\ state.cum = Charged(state, Steps)
  /\ Len(state.batches) = Cardinality({b.step : b \in Range(state.batches)})
  /\ \A i \in DOMAIN curve :
       /\ curve[i].step = i /\ Batch(state, i) # {}
       /\ curve[i] \in {CurveRow(b, Charged(state, i)) : b \in Batch(state, i)}

(* A published step is whole: its row is on the curve, its parent file     *)
(* names the state that the next batch grows from, or that is selected     *)
(* now, and its replay has the rows its batch was credited with, the       *)
(* better program of any two being taught more.                            *)
PublishedAgree ==
  \A s \in 1 .. Steps : marker[s] =>
    \E b \in Batch(state, s) :
      /\ \E i \in DOMAIN curve : curve[i].step = s
      /\ Batch(state, s + 1) = {} => parentFile[s] = state.selected
      /\ \A n \in Batch(state, s + 1) : n.parent = parentFile[s]
      /\ b.trained = Len(replay[s])
      /\ \A i, j \in DOMAIN replay[s] :
           /\ replay[s][i].parent = b.parent
           /\ Score[replay[s][i].program] < Score[replay[s][j].program]
                => replay[s][i].advantage < replay[s][j].advantage

(* The archive is a tree: no state without its parent, the root counts     *)
(* every expansion, a state at least those of its children, and its best   *)
(* child score bounds them.                                                *)
TreeIsConsistent ==
  state.batches # <<>> =>
    LET a == state.archive IN
      /\ a[Root].visits = state.expansions /\ state.selected \in DOMAIN a
      /\ \A n \in DOMAIN a \ {Root} : a[n].parent \in DOMAIN a
      /\ \A n \in DOMAIN a :
           /\ MapThenSumSet(LAMBDA m : a[m].visits, Children(a, n)) <= a[n].visits
           /\ \A m \in Children(a, n) : a[n].maxChild # None /\ ScoreOf(a, m) <= a[n].maxChild

(* The state selected for the next batch is still there when the next step *)
(* loads the archive.  The code breaks it: a load may prune it, and the    *)
(* next prepare then fails.                                                *)
SelectedSurvives ==
  state.batches # <<>> => state.selected \in Retained(state.archive)
=============================================================================
