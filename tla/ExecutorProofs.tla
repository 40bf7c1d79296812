---------------------------- MODULE ExecutorProofs ----------------------------
(***************************************************************************)
(* Theorems about the two programs that run a harness: one turn of the     *)
(* agent loop (AgentTurn), for any calls, middlewares, evaluation limits   *)
(* and losses of the log, and one task of the executor (Executor), for any *)
(* number of steps, trajectories, supplements, jobs and restarts.          *)
(***************************************************************************)
EXTENDS AgentTurn, Executor, FiniteSetTheorems, WellFoundedInduction, TLAPS

-------------------------------------------------------------------------------
(***************************************************************************)
(* PART I. Sums and counts.                                                *)
(***************************************************************************)

(* A set of natural numbers that has a member has a least one.             *)
LEMMA Least ==
  ASSUME NEW T \in SUBSET Nat, T # {}
  PROVE  \E x \in T : \A y \in T : x <= y
<1> DEFINE R == OpToRel(<, Nat)
<1>1. \E x \in T : \A y \in T : ~(<<y, x>> \in R)
  <2>1. IsWellFoundedOn(R, Nat)
    BY NatLessThanWellFounded
  <2> HIDE DEF R
  <2> QED
    BY <2>1, WFMin
<1>2. \A x, y \in Nat : <<y, x>> \in R <=> y < x
  BY DEF OpToRel
<1>3. PICK x \in T : \A y \in T : ~(<<y, x>> \in R)
  BY <1>1
<1>4. ASSUME NEW y \in T PROVE x <= y
  <2>1. ~(<<y, x>> \in R) /\ (<<y, x>> \in R <=> y < x)
    BY <1>2, <1>3
  <2> HIDE DEF R
  <2>2. ~(y < x)
    BY <2>1
  <2> QED
    BY <2>2
<1> QED
  BY <1>3, <1>4

(* The partial sums of a sequence exist.                                   *)
SumsOf(f, s, n) ==
  f = [k \in 0 .. n |-> IF k = 0 THEN 0 ELSE f[k - 1] + s[k]]

(* The function of the partial sums is there.                              *)
LEMMA SumsExist ==
  ASSUME NEW s, NEW n \in Nat
  PROVE  \E f : SumsOf(f, s, n)
<1> DEFINE Bad == {m \in Nat : ~\E f : SumsOf(f, s, m)}
<1>1. SUFFICES ASSUME Bad # {} PROVE FALSE
  OBVIOUS
<1>2. PICK m \in Bad : \A k \in Bad : m <= k
  BY <1>1, Least
<1>3. CASE m = 0
  <2>1. SumsOf([k \in 0 .. 0 |-> 0], s, 0)
    BY DEF SumsOf
  <2> QED
    BY <1>3, <2>1
<1>4. CASE m # 0
  <2>1. m - 1 \in Nat /\ m - 1 \notin Bad
    BY <1>2, <1>4
  <2>2. PICK f : SumsOf(f, s, m - 1)
    BY <2>1
  <2> DEFINE g == [k \in 0 .. m |-> IF k = m THEN f[m - 1] + s[m] ELSE f[k]]
  <2>3. \A k \in 0 .. m - 1 : g[k] = f[k] /\ f[k] = IF k = 0 THEN 0 ELSE f[k - 1] + s[k]
    BY <2>2 DEF SumsOf
  <2>4. \A k \in 0 .. m : g[k] = IF k = 0 THEN 0 ELSE g[k - 1] + s[k]
    BY <2>3, <1>4
  <2>5. g = [k \in 0 .. m |-> g[k]]
    OBVIOUS
  <2> HIDE DEF g
  <2>6. SumsOf(g, s, m)
    BY <2>4, <2>5 DEF SumsOf
  <2> QED
    BY <2>6
<1> QED
  BY <1>3, <1>4

(* The total is the last of the sums.                                      *)
LEMMA TotalIsSum ==
  ASSUME NEW s, Len(s) \in Nat
  PROVE  \E f : SumsOf(f, s, Len(s)) /\ Total(s) = f[Len(s)]
<1> DEFINE f == CHOOSE f : f = [n \in 0 .. Len(s) |-> IF n = 0 THEN 0 ELSE f[n - 1] + s[n]]
<1>1. Total(s) = f[Len(s)]
  BY DEF Total
<1>2. \E g : g = [n \in 0 .. Len(s) |-> IF n = 0 THEN 0 ELSE g[n - 1] + s[n]]
  BY SumsExist DEF SumsOf
<1>3. f = [n \in 0 .. Len(s) |-> IF n = 0 THEN 0 ELSE f[n - 1] + s[n]]
  BY <1>2, Zenon
<1> HIDE DEF f
<1> QED
  BY <1>1, <1>3 DEF SumsOf

(* Sums of sequences that agree so far agree so far.                       *)
LEMMA SumsAgree ==
  ASSUME NEW s, NEW t, NEW f, NEW g, NEW n \in Nat, NEW m \in Nat, n <= m,
         SumsOf(f, s, n), SumsOf(g, t, m), \A i \in 1 .. n : s[i] = t[i]
  PROVE  \A k \in 0 .. n : f[k] = g[k]
<1> DEFINE Bad == {k \in 0 .. n : f[k] # g[k]}
<1>1. SUFFICES ASSUME Bad # {} PROVE FALSE
  OBVIOUS
<1>a. Bad \in SUBSET Nat
  OBVIOUS
<1> HIDE DEF Bad
<1>2. PICK k \in Bad : \A j \in Bad : k <= j
  BY <1>1, <1>a, Least
<1> USE DEF Bad
<1>3. f[k] = (IF k = 0 THEN 0 ELSE f[k - 1] + s[k]) /\ g[k] = (IF k = 0 THEN 0 ELSE g[k - 1] + t[k])
  BY DEF SumsOf
<1>4. k # 0 /\ k - 1 \in 0 .. n /\ k - 1 \notin Bad
  BY <1>2, <1>3
<1>5. f[k - 1] = g[k - 1] /\ s[k] = t[k]
  BY <1>4
<1> QED
  BY <1>3, <1>4, <1>5

(* A sum of natural numbers is one.                                        *)
LEMMA SumsNat ==
  ASSUME NEW s, NEW f, NEW n \in Nat, SumsOf(f, s, n), \A i \in 1 .. n : s[i] \in Nat
  PROVE  \A k \in 0 .. n : f[k] \in Nat
<1> DEFINE Bad == {k \in 0 .. n : f[k] \notin Nat}
<1>1. SUFFICES ASSUME Bad # {} PROVE FALSE
  OBVIOUS
<1>a. Bad \in SUBSET Nat
  OBVIOUS
<1> HIDE DEF Bad
<1>2. PICK k \in Bad : \A j \in Bad : k <= j
  BY <1>1, <1>a, Least
<1> USE DEF Bad
<1>3. f[k] = IF k = 0 THEN 0 ELSE f[k - 1] + s[k]
  BY DEF SumsOf
<1>4. k # 0 /\ k - 1 \in 0 .. n /\ k - 1 \notin Bad
  BY <1>2, <1>3
<1> QED
  BY <1>3, <1>4

(* The total of a sequence of natural numbers, and of one that is longer.  *)
LEMMA TotalNat ==
  ASSUME NEW s \in Seq(Nat)
  PROVE  Total(s) \in Nat /\ (Len(s) = 0 => Total(s) = 0)
<1>1. PICK f : SumsOf(f, s, Len(s)) /\ Total(s) = f[Len(s)]
  BY TotalIsSum
<1>2. f[Len(s)] \in Nat
  BY <1>1, SumsNat
<1>3. Len(s) = 0 => f[Len(s)] = 0
  BY <1>1 DEF SumsOf
<1> QED
  BY <1>1, <1>2, <1>3

(* A sequence that is longer by one has a total that is larger by it.      *)
LEMMA TotalMore ==
  ASSUME NEW s \in Seq(Nat), NEW t \in Seq(Nat), Len(t) = Len(s) + 1,
         \A i \in 1 .. Len(s) : s[i] = t[i]
  PROVE  Total(t) = Total(s) + t[Len(t)]
<1>1. PICK f : SumsOf(f, s, Len(s)) /\ Total(s) = f[Len(s)]
  BY TotalIsSum
<1>2. PICK g : SumsOf(g, t, Len(t)) /\ Total(t) = g[Len(t)]
  BY TotalIsSum
<1>3. f[Len(s)] = g[Len(s)]
  <2> DEFINE n == Len(s)
             m == Len(t)
  <2>1. n \in Nat /\ m \in Nat /\ n <= m /\ \A i \in 1 .. n : s[i] = t[i]
    OBVIOUS
  <2>2. SumsOf(f, s, n) /\ SumsOf(g, t, m)
    BY <1>1, <1>2
  <2> HIDE DEF n, m
  <2>3. \A k \in 0 .. n : f[k] = g[k]
    BY <2>1, <2>2, SumsAgree, SMTT(30)
  <2>4. f[n] = g[n]
    BY <2>1, <2>3
  <2> QED
    BY <2>4 DEF n
<1>4. g[Len(t)] = g[Len(s)] + t[Len(t)]
  BY <1>2 DEF SumsOf
<1> QED
  BY <1>1, <1>2, <1>3, <1>4

(* The same of a count.                                                    *)
LEMMA CountNat ==
  ASSUME NEW s \in Seq(BOOLEAN)
  PROVE  IsFiniteSet({i \in DOMAIN s : s[i]}) /\ Count(s) \in Nat /\ (Len(s) = 0 => Count(s) = 0)
<1>1. IsFiniteSet(1 .. Len(s)) /\ {i \in DOMAIN s : s[i]} \subseteq 1 .. Len(s)
  BY FS_Interval
<1>2. IsFiniteSet({i \in DOMAIN s : s[i]})
  BY <1>1, FS_Subset
<1>3. Len(s) = 0 => {i \in DOMAIN s : s[i]} = {}
  OBVIOUS
<1> QED
  BY <1>2, <1>3, FS_CardinalityType, FS_EmptySet DEF Count

(* A sequence that is longer by one counts one more, or the same.          *)
LEMMA CountMore ==
  ASSUME NEW s \in Seq(BOOLEAN), NEW t \in Seq(BOOLEAN), Len(t) = Len(s) + 1,
         \A i \in 1 .. Len(s) : s[i] = t[i]
  PROVE  Count(t) = Count(s) + (IF t[Len(t)] THEN 1 ELSE 0)
<1> DEFINE S == {i \in DOMAIN s : s[i]}
           T == {i \in DOMAIN t : t[i]}
<1>1. IsFiniteSet(S) /\ Len(t) \notin S
  <2>1. IsFiniteSet(S)
    BY CountNat
  <2>2. Len(t) \notin S
    OBVIOUS
  <2> QED
    BY <2>1, <2>2
<1>2. CASE t[Len(t)]
  <2>1. T = S \cup {Len(t)}
    BY <1>2
  <2>2. Cardinality(S \cup {Len(t)}) = Cardinality(S) + 1
    BY <1>1, FS_AddElement
  <2> QED
    BY <1>2, <2>1, <2>2 DEF Count
<1>3. CASE ~t[Len(t)]
  <2>1. T = S
    BY <1>3
  <2>2. Count(t) = Count(s) /\ Count(s) \in Nat
    BY <2>1, CountNat DEF Count
  <2> QED
    BY <1>3, <2>2
<1> QED
  BY <1>2, <1>3

-------------------------------------------------------------------------------
(***************************************************************************)
(* PART II. One turn of the agent loop.                                    *)
(***************************************************************************)

(* A function on 1 .. n is a sequence.                                     *)
LEMMA MapIsSeq ==
  ASSUME NEW S, NEW n \in Nat, NEW f, f = [i \in 1 .. n |-> f[i]], \A i \in 1 .. n : f[i] \in S
  PROVE  f \in Seq(S) /\ Len(f) = n
  OBVIOUS

(* What one more row adds to a log.                                        *)
LEMMA WidthAppend ==
  ASSUME NEW rows \in Seq(Entry), NEW e \in Entry
  PROVE  Width(rows) \in Nat /\ Width(Append(rows, e)) = Width(rows) + e.width
<1> DEFINE w(r) == [i \in DOMAIN r |-> r[i].width]
<1>0. \A x \in Entry : x.width \in Nat
  BY DEF Entry
<1>1. ASSUME NEW r \in Seq(Entry) PROVE w(r) \in Seq(Nat) /\ Len(w(r)) = Len(r)
  <2>1. Len(r) \in Nat /\ w(r) = [i \in 1 .. Len(r) |-> w(r)[i]]
    OBVIOUS
  <2>2. \A i \in 1 .. Len(r) : w(r)[i] \in Nat
    BY <1>0
  <2> HIDE DEF w
  <2> QED
    BY <2>1, <2>2, MapIsSeq
<1>2. Append(rows, e) \in Seq(Entry) /\ Len(Append(rows, e)) = Len(rows) + 1
  OBVIOUS
<1>3. /\ \A i \in 1 .. Len(rows) : w(rows)[i] = w(Append(rows, e))[i]
      /\ w(Append(rows, e))[Len(rows) + 1] = e.width
  OBVIOUS
<1>4. w(rows) \in Seq(Nat) /\ Len(w(rows)) = Len(rows)
  BY <1>1
<1>5. w(Append(rows, e)) \in Seq(Nat) /\ Len(w(Append(rows, e))) = Len(rows) + 1
  BY <1>1, <1>2
<1>6. Width(rows) = Total(w(rows)) /\ Width(Append(rows, e)) = Total(w(Append(rows, e)))
  BY DEF Width
<1> HIDE DEF w
<1>7. Total(w(Append(rows, e))) = Total(w(rows)) + w(Append(rows, e))[Len(rows) + 1]
  BY <1>3, <1>4, <1>5, TotalMore
<1> QED
  BY <1>3, <1>4, <1>6, <1>7, TotalNat

(* The blocks of a row are finitely many.                                  *)
BlocksLike(e, block) == {c \in DOMAIN Blocks(e) : Blocks(e)[c] = block}

(* The blocks of a row that are such a call are so many.                   *)
LEMMA BlocksFinite ==
  ASSUME NEW e \in Entry, NEW block
  PROVE  IsFiniteSet(BlocksLike(e, block)) /\ Cardinality(BlocksLike(e, block)) \in Nat
<1>1. \E n \in Nat : DOMAIN Blocks(e) = 1 .. n
  <2>1. CASE e.kind = "message"
    <3>1. e.value \in Seq(CallKinds)
      BY <2>1 DEF Entry
    <3>2. DOMAIN Blocks(e) = 1 .. Len(e.value)
      BY <2>1, <3>1 DEF Blocks
    <3> QED
      BY <3>1, <3>2
  <2>2. CASE e.kind = "result"
    BY <2>2 DEF Blocks
  <2>3. CASE e.kind = "end"
    BY <2>3 DEF Blocks
  <2> QED
    BY <2>1, <2>2, <2>3 DEF Entry
<1>2. PICK n \in Nat : DOMAIN Blocks(e) = 1 .. n
  BY <1>1
<1>3. BlocksLike(e, block) \subseteq 1 .. n
  BY <1>2 DEF BlocksLike
<1>4. IsFiniteSet(1 .. n)
  BY FS_Interval
<1>5. IsFiniteSet(BlocksLike(e, block))
  BY <1>3, <1>4, FS_Subset
<1> QED
  BY <1>5, FS_CardinalityType

(* What one more row adds to the calls of a tool in the log.               *)
LEMMA OccurrencesAppend ==
  ASSUME NEW rows \in Seq(Entry), NEW e \in Entry, NEW block
  PROVE  /\ Occurrences(Messages(rows), block) \in Nat
         /\ Occurrences(Messages(Append(rows, e)), block)
              = Occurrences(Messages(rows), block) + Cardinality(BlocksLike(e, block))
<1> DEFINE w(r) == [i \in DOMAIN r |-> Cardinality(BlocksLike(r[i], block))]
<1>1. ASSUME NEW r \in Seq(Entry)
      PROVE  /\ w(r) \in Seq(Nat) /\ Len(w(r)) = Len(r)
             /\ Occurrences(Messages(r), block) = Total(w(r))
  <2>1. Len(r) \in Nat /\ w(r) = [i \in 1 .. Len(r) |-> w(r)[i]]
    OBVIOUS
  <2>2. \A i \in 1 .. Len(r) : w(r)[i] \in Nat
    BY BlocksFinite
  <2>3. DOMAIN Messages(r) = DOMAIN r /\ \A i \in DOMAIN r : Messages(r)[i] = Blocks(r[i])
    BY DEF Messages
  <2>4. [i \in DOMAIN Messages(r) |->
           Cardinality({c \in DOMAIN Messages(r)[i] : Messages(r)[i][c] = block})] = w(r)
    BY <2>3 DEF BlocksLike
  <2>5. Occurrences(Messages(r), block) = Total(w(r))
    BY <2>4 DEF Occurrences
  <2> HIDE DEF w
  <2> QED
    BY <2>1, <2>2, <2>5, MapIsSeq
<1>2. Append(rows, e) \in Seq(Entry) /\ Len(Append(rows, e)) = Len(rows) + 1
  OBVIOUS
<1>3. /\ \A i \in 1 .. Len(rows) : w(rows)[i] = w(Append(rows, e))[i]
      /\ w(Append(rows, e))[Len(rows) + 1] = Cardinality(BlocksLike(e, block))
  OBVIOUS
<1> HIDE DEF w
<1>4. /\ w(rows) \in Seq(Nat) /\ Len(w(rows)) = Len(rows)
      /\ Occurrences(Messages(rows), block) = Total(w(rows))
  BY <1>1
<1>5. /\ w(Append(rows, e)) \in Seq(Nat) /\ Len(w(Append(rows, e))) = Len(rows) + 1
      /\ Occurrences(Messages(Append(rows, e)), block) = Total(w(Append(rows, e)))
  BY <1>1, <1>2
<1>6. Total(w(Append(rows, e))) = Total(w(rows)) + w(Append(rows, e))[Len(rows) + 1]
  BY <1>3, <1>4, <1>5, TotalMore
<1> QED
  BY <1>3, <1>4, <1>5, <1>6, TotalNat

(* What one more row adds to the model calls of the log.                   *)
LEMMA ModelCallsAppend ==
  ASSUME NEW rows \in Seq(Entry), NEW e \in Entry
  PROVE  /\ ModelCalls(rows) \in Nat
         /\ ModelCalls(Append(rows, e)) = ModelCalls(rows) + (IF e.kind = "message" THEN 1 ELSE 0)
<1> DEFINE w(r) == [i \in DOMAIN r |-> r[i].kind = "message"]
<1>1. ASSUME NEW r \in Seq(Entry) PROVE w(r) \in Seq(BOOLEAN) /\ Len(w(r)) = Len(r)
  <2>1. Len(r) \in Nat /\ w(r) = [i \in 1 .. Len(r) |-> w(r)[i]]
    OBVIOUS
  <2>2. ASSUME NEW i \in 1 .. Len(r) PROVE w(r)[i] \in BOOLEAN
    <3>1. w(r)[i] = (r[i].kind = "message")
      OBVIOUS
    <3> HIDE DEF w
    <3> QED
      BY <3>1
  <2> HIDE DEF w
  <2> QED
    BY <2>1, <2>2, MapIsSeq
<1>2. Append(rows, e) \in Seq(Entry) /\ Len(Append(rows, e)) = Len(rows) + 1
  OBVIOUS
<1>3. /\ \A i \in 1 .. Len(rows) : w(rows)[i] = w(Append(rows, e))[i]
      /\ w(Append(rows, e))[Len(rows) + 1] = (e.kind = "message")
  OBVIOUS
<1>6. ModelCalls(rows) = Count(w(rows)) /\ ModelCalls(Append(rows, e)) = Count(w(Append(rows, e)))
  BY DEF ModelCalls
<1> HIDE DEF w
<1>4. w(rows) \in Seq(BOOLEAN) /\ Len(w(rows)) = Len(rows)
  BY <1>1
<1>5. w(Append(rows, e)) \in Seq(BOOLEAN) /\ Len(w(Append(rows, e))) = Len(rows) + 1
  BY <1>1, <1>2
<1>7. Count(w(Append(rows, e)))
        = Count(w(rows)) + (IF w(Append(rows, e))[Len(rows) + 1] THEN 1 ELSE 0)
  BY <1>3, <1>4, <1>5, CountMore
<1>8. ModelCalls(rows) \in Nat
  BY <1>4, <1>6, CountNat
<1>9. w(Append(rows, e))[Len(rows) + 1] <=> e.kind = "message"
  BY <1>3
<1> QED
  BY <1>6, <1>7, <1>8, <1>9

(* An empty log has nothing in it.                                         *)
LEMMA EmptyLog ==
  /\ Width(<<>>) = 0 /\ ModelCalls(<<>>) = 0
  /\ \A block : Occurrences(Messages(<<>>), block) = 0
<1>1. \A f : [i \in DOMAIN <<>> |-> f[i]] = <<>> /\ DOMAIN <<>> = {}
  OBVIOUS
<1>2. Total(<<>>) = 0 /\ Count(<<>>) = 0
  <2>1. <<>> \in Seq(Nat) /\ <<>> \in Seq(BOOLEAN) /\ Len(<<>>) = 0
    OBVIOUS
  <2> QED
    BY <2>1, TotalNat, CountNat
<1>3. Width(<<>>) = 0
  <2>1. [i \in DOMAIN <<>> |-> <<>>[i].width] = <<>>
    OBVIOUS
  <2> QED
    BY <1>2, <2>1 DEF Width
<1>4. ModelCalls(<<>>) = 0
  <2>1. [i \in DOMAIN <<>> |-> <<>>[i].kind = "message"] = <<>>
    OBVIOUS
  <2> QED
    BY <1>2, <2>1 DEF ModelCalls
<1>5. Messages(<<>>) = <<>>
  BY DEF Messages
<1>6. ASSUME NEW block PROVE Occurrences(<<>>, block) = 0
  <2>1. [i \in DOMAIN <<>> |-> Cardinality({c \in DOMAIN <<>>[i] : <<>>[i][c] = block})] = <<>>
    OBVIOUS
  <2> QED
    BY <1>2, <2>1 DEF Occurrences
<1> QED
  BY <1>3, <1>4, <1>5, <1>6

-------------------------------------------------------------------------------
(* A turn: the inductive invariant.                                        *)

(* The evaluations since the tracker looked, and the stall it counts.      *)
NotesInv ==
  /\ session.evals = Len(evaluated) /\ plugin.notes.at <= Len(evaluated)
  /\ tracker.last # None /\ session.best = tracker.last =>
       \A i \in tracker.seen + 1 .. session.evals : ~evaluated[i]
  /\ \A i \in tracker.seen - tracker.stalled + 1 .. tracker.seen : ~evaluated[i]
  /\ NotesAreTrue

(* A log that has lost a row is short of the events that were emitted; one *)
(* that ends and has no gap has lost none.                                 *)
LogInv ==
  /\ log = emitted \/ Width(log) < Width(emitted)
  /\ turn.at # "ended" => \A i \in DOMAIN log : log[i].kind # "end"
  /\ turn.at = "ended" => /\ Len(log) > 0 /\ log[Len(log)].kind = "end"
                          /\ Readable(log) => log = emitted

(* The calls of the step: to be over, begun, and to be logged as this.     *)
Open(t) == {c \in DOMAIN turn.calls : turn.calls[c].kind = t /\ turn.calls[c].at # "over"}
Begun(t) == {c \in Open(t) : turn.calls[c].at # "pre"}
Unlogged(t, ok) == {c \in Open(t) : turn.calls[c].at = "log" /\ turn.calls[c].ok = ok}

Said(t) == Uses(Messages(emitted), t)
Heard(t, ok) == Results(Messages(emitted), t, ok)

(* Each call of a tool was answered or is open, and the bridge never       *)
(* counted more than the log will.                                         *)
CallInv ==
  /\ turn.at # "tools" => turn.calls = <<>>
  /\ \A t \in Tools :
       /\ Said(t) = Heard(t, TRUE) + Heard(t, FALSE) + Cardinality(Open(t))
       /\ session.tools[t].invoked <= Heard(t, TRUE) + Heard(t, FALSE) + Cardinality(Begun(t))
       /\ session.tools[t].completed <= Heard(t, TRUE) + Cardinality(Unlogged(t, TRUE))
       /\ session.tools[t].error <= Heard(t, FALSE) + Cardinality(Unlogged(t, FALSE))

(* The middlewares are invoked once for each step, before the model is, but *)
(* for records that were lost.                                             *)
Reached(m) == session.middlewares[m].invoked

StepInv ==
  /\ \A m \in Middlewares : /\ turn.step <= Reached(m) + (MaxLosses - losses)
                            /\ Reached(m) <= ModelCalls(emitted) + 1
  /\ turn.at \in {"next", "model"} => turn.step = ModelCalls(emitted) + 1
  /\ turn.at \in {"pre", "tools", "done"} =>
       turn.step = ModelCalls(emitted) /\ \A m \in Middlewares : Reached(m) <= turn.step
  /\ turn.step \in {ModelCalls(emitted), ModelCalls(emitted) + 1}

(* The counts of the turn go together.                                     *)
CountInv ==
  /\ prompt = InitialMessage(0) /\ session.best = Count(evaluated)
  /\ Endpoint.seed # None => \A body \in proxy.sent : body.seed = Endpoint.seed
  /\ ModelCalls(emitted) <= proxy.audit + proxy.held
  /\ StepInv

(* Once there is a row the turn is over.                                   *)
RowInv ==
  /\ row # None => process \in {"zero", "nonzero"}
  /\ AuditIsExact /\ EligibleIsWhole

TurnInv == TurnTypeOK /\ NotesInv /\ LogInv /\ CallInv /\ CountInv /\ RowInv

-------------------------------------------------------------------------------
(* A turn: the steps that keep a log.                                      *)

(* What an event adds to the turn and, unless its row is lost, to the log. *)
Emitted(e, kept) ==
  /\ e.seq = Events /\ emitted' = Append(emitted, e)
  /\ log' = IF kept THEN Append(log, e) ELSE log

(* An event of each kind is an entry.                                      *)
RowOf(kind, value, width) == [seq |-> Events, width |-> width, kind |-> kind, value |-> value]

(* The logs of a turn stand for so many events.                            *)
LEMMA WidthNat == TurnTypeOK => Width(emitted) \in Nat /\ Width(log) \in Nat
<1>1. [seq |-> 0, width |-> 1, kind |-> "end", value |-> "error"] \in Entry
  BY DEF Entry
<1>2. Entry # {}
  BY <1>1
<1> QED
  BY <1>2, WidthAppend DEF TurnTypeOK

(* What is written is an entry.                                            *)
LEMMA RowIsEntry ==
  ASSUME TurnTypeOK
  PROVE  /\ \A reason \in {"completed", "rejected", "error"} : RowOf("end", reason, 1) \in Entry
         /\ \A calls \in Seq(CallKinds) : RowOf("message", calls, 3) \in Entry
         /\ \A kind \in CallKinds, ok \in BOOLEAN : RowOf("result", <<kind, ok>>, 1) \in Entry
<1>1. Events \in Nat
  BY WidthNat DEF Events
<1>2. \A reason \in {"completed", "rejected", "error"} : RowOf("end", reason, 1) \in Entry
  BY <1>1 DEF RowOf, Entry
<1>3. \A calls \in Seq(CallKinds) : RowOf("message", calls, 3) \in Entry
  BY <1>1 DEF RowOf, Entry
<1>4. \A kind \in CallKinds, ok \in BOOLEAN : RowOf("result", <<kind, ok>>, 1) \in Entry
  BY <1>1 DEF RowOf, Entry
<1> QED
  BY <1>2, <1>3, <1>4

(* The end of a turn.                                                      *)
Ended(reason) ==
  \E e \in Entry : /\ e.kind = "end" /\ e.value = reason /\ e.width = 1 /\ Emitted(e, TRUE)
                   /\ turn' = [turn EXCEPT !.at = "ended"]

(* The row of the end of the turn.                                         *)
LEMMA EndRow ==
  ASSUME TurnTypeOK, NEW reason \in {"completed", "rejected", "error"}, EndTurn(reason)
  PROVE  Ended(reason)
<1>1. Emit("end", reason, 1, TRUE) /\ turn' = [turn EXCEPT !.at = "ended"]
  BY DEF EndTurn
<1> DEFINE e == RowOf("end", reason, 1)
<1>2. e \in Entry /\ e.kind = "end" /\ e.value = reason /\ e.width = 1
  BY RowIsEntry DEF RowOf
<1>3. Emitted(e, TRUE)
  BY <1>1 DEF Emit, Emitted, RowOf
<1> HIDE DEF e
<1> QED
  BY <1>1, <1>2, <1>3 DEF Ended

(* The message of an answer and the calls it makes.                        *)
Answered(calls) ==
  \E e \in Entry :
    /\ e.kind = "message" /\ e.value = calls /\ e.width = 3 /\ Emitted(e, TRUE)
    /\ turn' = IF Len(calls) = 0 THEN [turn EXCEPT !.at = "done"]
               ELSE [turn EXCEPT !.at = "tools", !.calls =
                      [c \in 1 .. Len(calls) |->
                         [kind |-> calls[c], at |-> IF calls[c] = "finish" THEN "log" ELSE "pre",
                          ok |-> TRUE]]]

(* The row of an answer of the model.                                      *)
LEMMA AnswerRow ==
  ASSUME TurnTypeOK, Answer
  PROVE  \E calls \in Seq(CallKinds) : Answered(calls)
<1>1. PICK n \in 0 .. MaxParallel : \E calls \in Requests(n) :
         /\ Emit("message", calls, 3, TRUE)
         /\ IF n = 0 THEN turn' = [turn EXCEPT !.at = "done"]
            ELSE turn' = [turn EXCEPT !.at = "tools", !.calls =
              [c \in 1 .. n |-> [kind |-> calls[c],
                 at |-> IF calls[c] = "finish" THEN "log" ELSE "pre", ok |-> TRUE]]]
  BY DEF Answer
<1>2. PICK calls \in Requests(n) :
         /\ Emit("message", calls, 3, TRUE)
         /\ IF n = 0 THEN turn' = [turn EXCEPT !.at = "done"]
            ELSE turn' = [turn EXCEPT !.at = "tools", !.calls =
              [c \in 1 .. n |-> [kind |-> calls[c],
                 at |-> IF calls[c] = "finish" THEN "log" ELSE "pre", ok |-> TRUE]]]
  BY <1>1
<1>3. n \in Nat
  BY AgentTurnAssumption
<1>4. calls \in Seq(CallKinds) /\ Len(calls) = n
  <2>1. calls \in [1 .. n -> CallKinds]
    BY DEF Requests
  <2> QED
    BY <1>3, <2>1, MapIsSeq
<1> DEFINE e == RowOf("message", calls, 3)
<1>5. e \in Entry /\ e.kind = "message" /\ e.value = calls /\ e.width = 3
  BY <1>4, RowIsEntry DEF RowOf
<1>6. Emitted(e, TRUE)
  BY <1>2 DEF Emit, Emitted, RowOf
<1> HIDE DEF e
<1> QED
  BY <1>2, <1>4, <1>5, <1>6 DEF Answered

-------------------------------------------------------------------------------
(* A turn: every variable keeps its type.                                  *)

(* One more loss, or none.                                                 *)
LEMMA LossType == TurnTypeOK /\ (Lose \/ UNCHANGED losses) => losses' \in 0 .. MaxLosses
<1>1. MaxLosses \in Nat
  BY AgentTurnAssumption
<1> QED
  BY <1>1 DEF Lose, TurnTypeOK

(* The turn moves on.                                                      *)
LEMMA MoveType ==
  ASSUME TurnTypeOK, NEW where \in {"pre", "next", "model", "tools", "done", "ended"}
  PROVE  /\ [turn EXCEPT !.at = where] \in TurnState
         /\ \A calls \in Seq(CallState) :
              [turn EXCEPT !.at = where, !.calls = calls] \in TurnState
<1>1. turn \in TurnState
  BY DEF TurnTypeOK
<1> QED
  BY <1>1 DEF TurnState

(* One call of the step moves on.                                          *)
LEMMA CallType ==
  ASSUME TurnTypeOK, NEW c, InTools(c)
  PROVE  /\ c \in DOMAIN turn.calls /\ Call(c) \in CallState
         /\ \A where \in {"pre", "post", "log", "over"} :
              Step(c, where) => turn' \in TurnState
         /\ \A where \in {"pre", "post", "log", "over"}, ok \in BOOLEAN :
              Ends(c, where, ok) => turn' \in TurnState
<1>1. turn \in TurnState /\ c \in DOMAIN turn.calls
  BY DEF InTools, TurnTypeOK
<1>2. turn.calls \in Seq(CallState)
  BY <1>1 DEF TurnState
<1>3. Call(c) \in CallState
  BY <1>1, <1>2 DEF Call
<1>4. ASSUME NEW where \in {"pre", "post", "log", "over"}, NEW ok \in BOOLEAN
      PROVE  /\ [turn.calls EXCEPT ![c].at = where] \in Seq(CallState)
             /\ [turn.calls EXCEPT ![c].at = where, ![c].ok = ok] \in Seq(CallState)
  <2>1. [Call(c) EXCEPT !.at = where] \in CallState
    BY <1>3 DEF CallState
  <2>2. [[Call(c) EXCEPT !.at = where] EXCEPT !.ok = ok] \in CallState
    BY <1>3 DEF CallState
  <2>3. /\ [turn.calls EXCEPT ![c].at = where]
             = [turn.calls EXCEPT ![c] = [Call(c) EXCEPT !.at = where]]
        /\ [turn.calls EXCEPT ![c].at = where, ![c].ok = ok]
             = [turn.calls EXCEPT ![c] = [[Call(c) EXCEPT !.at = where] EXCEPT !.ok = ok]]
    BY <1>1, <1>2 DEF Call
  <2>4. \A x \in CallState : [turn.calls EXCEPT ![c] = x] \in Seq(CallState)
    BY <1>1, <1>2
  <2> QED
    BY <2>1, <2>2, <2>3, <2>4
<1>5. \A calls \in Seq(CallState) : [turn EXCEPT !.calls = calls] \in TurnState
  BY <1>1 DEF TurnState
<1>6. ASSUME NEW where \in {"pre", "post", "log", "over"}, Step(c, where)
      PROVE  turn' \in TurnState
  <2>1. turn' = [turn EXCEPT !.calls = [turn.calls EXCEPT ![c].at = where]]
    BY <1>1, <1>6 DEF Step, TurnState
  <2> QED
    BY <1>4, <1>5, <2>1
<1>7. ASSUME NEW where \in {"pre", "post", "log", "over"}, NEW ok \in BOOLEAN, Ends(c, where, ok)
      PROVE  turn' \in TurnState
  <2>1. turn' = [turn EXCEPT !.calls = [turn.calls EXCEPT ![c].at = where, ![c].ok = ok]]
    BY <1>1, <1>7 DEF Ends, TurnState
  <2> QED
    BY <1>4, <1>5, <2>1
<1> QED
  BY <1>1, <1>3, <1>6, <1>7

(* The audits of the session move on.                                      *)
LEMMA SessionType ==
  ASSUME TurnTypeOK
  PROVE  /\ \A t, event : RecordToolEvent(t, event) =>
              /\ session' \in SessionState
              /\ session'.evals = session.evals /\ session'.best = session.best
              /\ session'.middlewares = session.middlewares
         /\ \A mw \in [Middlewares -> [invoked : Nat, error : Nat]] :
              session' = [session EXCEPT !.middlewares = mw] =>
                /\ session' \in SessionState /\ session'.middlewares = mw
                /\ session'.evals = session.evals /\ session'.best = session.best
                /\ session'.tools = session.tools
<1>1. session \in SessionState
  BY DEF TurnTypeOK
<1>2. ASSUME NEW t, NEW event
      PROVE  [session.tools EXCEPT ![t][event] = @ + 1]
               \in [Tools -> [invoked : Nat, completed : Nat, error : Nat]]
  <2>1. session.tools \in [Tools -> [invoked : Nat, completed : Nat, error : Nat]]
    BY <1>1 DEF SessionState
  <2>2. ASSUME NEW r \in [invoked : Nat, completed : Nat, error : Nat]
        PROVE  [r EXCEPT ![event] = @ + 1] \in [invoked : Nat, completed : Nat, error : Nat]
    OBVIOUS
  <2> QED
    BY <2>1, <2>2
<1>3. ASSUME NEW t, NEW event, RecordToolEvent(t, event)
      PROVE  /\ session' \in SessionState
             /\ session'.evals = session.evals /\ session'.best = session.best
             /\ session'.middlewares = session.middlewares
  <2>1. session' = [session EXCEPT !.tools = [session.tools EXCEPT ![t][event] = @ + 1]]
    BY <1>1, <1>3 DEF RecordToolEvent, SessionState
  <2> DEFINE tools == [session.tools EXCEPT ![t][event] = @ + 1]
  <2>2. tools \in [Tools -> [invoked : Nat, completed : Nat, error : Nat]]
    BY <1>2
  <2> HIDE DEF tools
  <2> QED
    BY <1>1, <2>1, <2>2 DEF SessionState, tools
<1>4. \A mw \in [Middlewares -> [invoked : Nat, error : Nat]] :
        session' = [session EXCEPT !.middlewares = mw] =>
          /\ session' \in SessionState /\ session'.middlewares = mw
          /\ session'.evals = session.evals /\ session'.best = session.best
          /\ session'.tools = session.tools
  BY <1>1 DEF SessionState
<1> QED
  BY <1>3, <1>4

(* A result that is logged, or whose row is lost.                          *)
Logged(c) ==
  \E e \in Entry, kept \in BOOLEAN :
    /\ e.kind = "result" /\ e.value = <<Call(c).kind, Call(c).ok>> /\ e.width = 1
    /\ Emitted(e, kept)

(* The row of a result of a tool.                                          *)
LEMMA ResultRow ==
  ASSUME TurnTypeOK, NEW c, LogResult(c)
  PROVE  Logged(c)
<1> DEFINE e == RowOf("result", <<Call(c).kind, Call(c).ok>>, 1)
<1>1. Call(c).kind \in CallKinds /\ Call(c).ok \in BOOLEAN
  BY CallType DEF LogResult, CallState
<1>2. e \in Entry /\ e.kind = "result" /\ e.value = <<Call(c).kind, Call(c).ok>> /\ e.width = 1
  BY <1>1, RowIsEntry DEF RowOf
<1>3. Emitted(e, TRUE) \/ Emitted(e, FALSE)
  BY DEF LogResult, Emit, Emitted, RowOf
<1> HIDE DEF e
<1> QED
  BY <1>2, <1>3 DEF Logged

(* The steps that end a turn before the model answers, or after.           *)
EndsTurn ==
  /\ \E reason \in {"completed", "rejected", "error"} : Ended(reason)
  /\ UNCHANGED <<session, tracker, plugin, process, row, evaluated>>

(* Every step that ends the turn is one of them.                           *)
LEMMA EndSteps ==
  ASSUME TurnTypeOK, Reject \/ MiddlewareRejects \/ Conclude
  PROVE  EndsTurn /\ UNCHANGED proxy /\ losses' \in 0 .. MaxLosses
<1>1. \E reason \in {"completed", "rejected", "error"} : EndTurn(reason)
  BY DEF Reject, MiddlewareRejects, Conclude
<1>2. \E reason \in {"completed", "rejected", "error"} : Ended(reason)
  BY <1>1, EndRow
<1>3. UNCHANGED <<session, tracker, plugin, proxy, process, row, evaluated>>
  BY DEF Reject, MiddlewareRejects, Conclude
<1>4. losses' \in 0 .. MaxLosses
  BY LossType DEF Reject, MiddlewareRejects, Conclude
<1> QED
  BY <1>2, <1>3, <1>4 DEF EndsTurn

(* A hook that throws ends the turn, or the step goes on without the later *)
(* ones.                                                                   *)
LEMMA HookStep ==
  ASSUME TurnTypeOK, HookThrows
  PROVE  /\ turn.at = "pre" /\ losses' = losses - 1 /\ losses' \in 0 .. MaxLosses
         /\ UNCHANGED <<tracker, plugin, proxy, process, row, evaluated>>
         /\ session' \in SessionState /\ session'.tools = session.tools
         /\ session'.evals = session.evals /\ session'.best = session.best
         /\ \A m \in Middlewares :
              session'.middlewares[m].invoked
                \in {session.middlewares[m].invoked, session.middlewares[m].invoked + 1}
         /\ \/ \E reason \in {"completed", "rejected", "error"} : Ended(reason)
            \/ /\ turn' \in TurnState /\ UNCHANGED <<log, emitted>>
               /\ turn'.at = "model" /\ turn'.step = turn.step + 1 /\ turn'.calls = turn.calls
<1>1. /\ turn.at = "pre" /\ losses' = losses - 1 /\ turn.step < MaxIterations
      /\ UNCHANGED <<tracker, plugin, proxy, process, row, evaluated>>
  BY DEF HookThrows, TurnAt, Lose
<1>2. losses' \in 0 .. MaxLosses
  BY LossType DEF HookThrows
<1>3. PICK reached \in SUBSET Middlewares :
        session' = [session EXCEPT !.middlewares =
          [m \in Middlewares |-> [session.middlewares[m] EXCEPT !.invoked =
                                   IF m \in reached THEN @ + 1 ELSE @]]]
  BY DEF HookThrows
<1> DEFINE mw == [m \in Middlewares |-> [session.middlewares[m] EXCEPT !.invoked =
                                         IF m \in reached THEN @ + 1 ELSE @]]
<1>4. session \in SessionState
  BY DEF TurnTypeOK
<1>5. /\ mw \in [Middlewares -> [invoked : Nat, error : Nat]]
      /\ \A m \in Middlewares :
           mw[m].invoked \in {session.middlewares[m].invoked, session.middlewares[m].invoked + 1}
  BY <1>4 DEF SessionState
<1>6. session' = [session EXCEPT !.middlewares = mw]
  BY <1>3
<1> HIDE DEF mw
<1>7. /\ session' \in SessionState /\ session'.middlewares = mw
      /\ session'.evals = session.evals /\ session'.best = session.best
      /\ session'.tools = session.tools
  BY <1>5, <1>6, SessionType
<1>8. CASE EndTurn("error")
  <2>1. Ended("error")
    BY <1>8, EndRow
  <2> QED
    BY <1>1, <1>2, <1>5, <1>7, <2>1
<1>9. CASE turn' = [turn EXCEPT !.step = @ + 1, !.at = "model"] /\ UNCHANGED <<log, emitted>>
  <2>1. turn \in TurnState /\ MaxIterations \in Nat
    BY AgentTurnAssumption DEF TurnTypeOK
  <2>2. turn.step + 1 \in 0 .. MaxIterations
    BY <1>1, <2>1 DEF TurnState
  <2>3. /\ turn' \in TurnState
        /\ turn'.at = "model" /\ turn'.step = turn.step + 1 /\ turn'.calls = turn.calls
    BY <1>9, <2>1, <2>2 DEF TurnState
  <2> QED
    BY <1>1, <1>2, <1>5, <1>7, <1>9, <2>3
<1> QED
  BY <1>8, <1>9 DEF HookThrows

(* A log stays one.                                                        *)
LEMMA EmittedType ==
  ASSUME TurnTypeOK, NEW e \in Entry, NEW kept, Emitted(e, kept)
  PROVE  emitted' \in Seq(Entry) /\ log' \in Seq(Entry)
  BY DEF Emitted, TurnTypeOK

(* The end of a turn keeps the types.                                      *)
LEMMA EndType ==
  ASSUME TurnTypeOK, EndsTurn
  PROVE  turn' \in TurnState /\ emitted' \in Seq(Entry) /\ log' \in Seq(Entry)
<1>1. PICK e \in Entry : Emitted(e, TRUE) /\ turn' = [turn EXCEPT !.at = "ended"]
  BY DEF EndsTurn, Ended
<1> QED
  BY <1>1, EmittedType, MoveType

(* What the tracker keeps is about evaluations that were made.             *)
LEMMA StallType ==
  ASSUME TurnTypeOK
  PROVE  LET t == UpdateStall(tracker, session) IN
           /\ t \in TrackerState /\ t.stalled <= t.seen /\ t.seen = session.evals
           /\ t.last = session.best /\ session.best \in Nat
<1>1. session.evals \in Nat /\ session.best \in Nat
  BY AgentTurnAssumption DEF TurnTypeOK, SessionState
<1>2. tracker.seen \in Nat /\ tracker.stalled \in Nat /\ tracker.stalled <= tracker.seen
      /\ tracker.seen <= session.evals
  BY DEF TurnTypeOK, TrackerState
<1> QED
  BY <1>1, <1>2 DEF UpdateStall, TrackerState

(* So do the notes.                                                        *)
LEMMA NotesType ==
  ASSUME TurnTypeOK, NEW t \in TrackerState
  PROVE  Notes(plugin, t, session) \in PluginState
<1>1. plugin \in PluginState /\ t.stalled \in Nat /\ Len(evaluated) \in Nat /\ MaxRestarts \in Nat
  BY AgentTurnAssumption DEF TurnTypeOK, TrackerState
<1>2. Left(session) \in Nat
  BY AgentTurnAssumption DEF Left, TurnTypeOK, SessionState
<1>3. plugin.restarts \in 0 .. MaxRestarts /\ plugin.lastRestartAt \in Nat \cup {None}
  BY <1>1 DEF PluginState
<1>4. (IF Left(session) <= ReminderFrom THEN Left(session) ELSE None) \in Nat \cup {None}
  BY <1>2
<1> QED
  BY <1>1, <1>3, <1>4 DEF Notes, PluginState, NotesState

(* So does a hook, before a call or after it.                              *)
LEMMA HookType ==
  ASSUME TurnTypeOK,
         RunCordis \/ InvokeMiddlewares \/ MiddlewareLooks \/ Remind \/ SnapshotFails \/ StepEnds
  PROVE  TurnTypeOK'
<1>1. CASE RunCordis
  BY <1>1 DEF RunCordis, TurnTypeOK
<1>2. CASE InvokeMiddlewares
  <2> DEFINE mw == [m \in Middlewares |-> [session.middlewares[m] EXCEPT !.invoked = @ + 1]]
  <2>1. session \in SessionState
    BY DEF TurnTypeOK
  <2>a. session' = [session EXCEPT !.middlewares = mw]
    BY <1>2 DEF InvokeMiddlewares
  <2>2. mw \in [Middlewares -> [invoked : Nat, error : Nat]]
    BY <2>1 DEF SessionState
  <2> HIDE DEF mw
  <2>3. /\ session' \in SessionState
        /\ session'.evals = session.evals /\ session'.best = session.best
    BY <2>1, <2>2, <2>a, SessionType
  <2>4. turn' \in TurnState
    <3>1. turn' = [turn EXCEPT !.step = @ + 1, !.at = "next"] /\ turn.step < MaxIterations
      BY <1>2 DEF InvokeMiddlewares
    <3>2. turn \in TurnState /\ MaxIterations \in Nat
      BY AgentTurnAssumption DEF TurnTypeOK
    <3>3. turn.step + 1 \in 0 .. MaxIterations
      BY <3>1, <3>2 DEF TurnState
    <3> QED
      BY <3>1, <3>2, <3>3 DEF TurnState
  <2> QED
    BY <1>2, <2>3, <2>4 DEF InvokeMiddlewares, TurnTypeOK
<1>3. CASE MiddlewareLooks
  <2>1. tracker' = UpdateStall(tracker, session)
    BY <1>3 DEF MiddlewareLooks
  <2>2. /\ tracker' \in TrackerState /\ tracker'.stalled <= tracker'.seen
        /\ tracker'.seen <= session.evals /\ tracker'.last <= session.best
    BY <2>1, StallType, AgentTurnAssumption DEF TurnTypeOK, SessionState
  <2> QED
    BY <1>3, <2>2 DEF MiddlewareLooks, TurnTypeOK
<1>4. CASE Remind
  <2>1. tracker' = UpdateStall(tracker, session) /\ plugin' = Notes(plugin, tracker', session)
    BY <1>4 DEF Remind
  <2>2. /\ tracker' \in TrackerState /\ tracker'.stalled <= tracker'.seen
        /\ tracker'.seen <= session.evals /\ tracker'.last <= session.best
    BY <2>1, StallType, AgentTurnAssumption DEF TurnTypeOK, SessionState
  <2>3. plugin' \in PluginState
    <3>1. UpdateStall(tracker, session) \in TrackerState
      BY StallType
    <3> QED
      BY <2>1, <3>1, NotesType
  <2>4. turn' \in TurnState
    BY <1>4, MoveType DEF Remind
  <2> QED
    BY <1>4, <2>2, <2>3, <2>4 DEF Remind, TurnTypeOK
<1>5. CASE SnapshotFails
  <2>1. turn' \in TurnState /\ losses' \in 0 .. MaxLosses
    BY <1>5, MoveType, LossType DEF SnapshotFails
  <2> QED
    BY <1>5, <2>1 DEF SnapshotFails, TurnTypeOK
<1>6. CASE StepEnds
  <2>1. <<>> \in Seq(CallState)
    OBVIOUS
  <2>2. turn' = [turn EXCEPT !.at = "done", !.calls = <<>>]
        \/ turn' = [turn EXCEPT !.at = "pre", !.calls = <<>>]
    BY <1>6 DEF StepEnds, TurnTypeOK, TurnState
  <2>3. turn' \in TurnState
    BY <2>1, <2>2, MoveType
  <2> QED
    BY <1>6, <2>3 DEF StepEnds, TurnTypeOK
<1> QED
  BY <1>1, <1>2, <1>3, <1>4, <1>5, <1>6

(* So does a call that Python handles.                                     *)
LEMMA DispatchType ==
  ASSUME TurnTypeOK, NEW c,
         \/ Evaluate(c) \/ PreExecute(c) \/ PreExecuteFails(c)
         \/ PostExecute(c) \/ PostExecuteFails(c) \/ LogResult(c)
  PROVE  TurnTypeOK'
<1>0. InTools(c)
  BY DEF Evaluate, PreExecute, PreExecuteFails, PostExecute, PostExecuteFails, LogResult
<1>1. turn' \in TurnState
  <2>1. Call(c).ok \in BOOLEAN
    BY <1>0, CallType DEF CallState
  <2>2. \E where \in {"pre", "post", "log", "over"}, ok \in BOOLEAN :
          Step(c, where) \/ Ends(c, where, ok)
    BY <2>1 DEF Evaluate, PreExecute, PreExecuteFails, PostExecute, PostExecuteFails, LogResult
  <2> QED
    BY <1>0, <2>2, CallType
<1>2. losses' \in 0 .. MaxLosses
  BY LossType DEF Evaluate, PreExecute, PreExecuteFails, PostExecute, PostExecuteFails, LogResult
<1>3. CASE Evaluate(c)
  <2>1. /\ session' \in SessionState /\ evaluated' \in Seq(BOOLEAN)
        /\ session.evals <= session'.evals /\ session.best <= session'.best
    <3>1. session \in SessionState /\ evaluated \in Seq(BOOLEAN) /\ MaxEvaluatorCalls \in Nat
      BY AgentTurnAssumption DEF TurnTypeOK
    <3>2. CASE Left(session) = 0
      BY <1>3, <3>1, <3>2 DEF Evaluate, SessionState
    <3>3. CASE Left(session) # 0
      <4>1. PICK gain \in BOOLEAN :
              /\ session' = [session EXCEPT !.evals = @ + 1, !.best = IF gain THEN @ + 1 ELSE @]
              /\ evaluated' = Append(evaluated, gain)
        BY <1>3, <3>3 DEF Evaluate
      <4>2. session.evals + 1 \in 0 .. MaxEvaluatorCalls
        BY <3>1, <3>3 DEF SessionState, Left
      <4>3. (IF gain THEN session.best + 1 ELSE session.best) \in Nat
        BY <3>1 DEF SessionState
      <4>4. session' \in SessionState
        BY <3>1, <4>1, <4>2, <4>3 DEF SessionState
      <4>5. session.evals <= session'.evals /\ session.best <= session'.best
        BY <3>1, <4>1 DEF SessionState
      <4>6. evaluated' \in Seq(BOOLEAN)
        BY <3>1, <4>1
      <4> QED
        BY <4>4, <4>5, <4>6
    <3> QED
      BY <3>2, <3>3
  <2>2. UNCHANGED <<tracker, plugin, proxy, log, process, row, losses, emitted>>
    BY <1>3 DEF Evaluate
  <2>3. tracker.seen <= session'.evals /\ (tracker.last # None => tracker.last <= session'.best)
    BY <2>1, AgentTurnAssumption DEF TurnTypeOK, TrackerState, SessionState
  <2> QED
    BY <1>1, <2>1, <2>2, <2>3 DEF TurnTypeOK
<1>4. CASE PreExecute(c) \/ PostExecute(c)
  <2>1. \E t, event : RecordToolEvent(t, event)
    BY <1>4 DEF PreExecute, PostExecute
  <2>2. /\ session' \in SessionState
        /\ session.evals = session'.evals /\ session.best = session'.best
    BY <2>1, SessionType
  <2> QED
    BY <1>1, <1>2, <1>4, <2>2 DEF PreExecute, PostExecute, TurnTypeOK
<1>5. CASE PreExecuteFails(c) \/ PostExecuteFails(c)
  BY <1>1, <1>2, <1>5 DEF PreExecuteFails, PostExecuteFails, TurnTypeOK
<1>6. CASE LogResult(c)
  <2>1. PICK e \in Entry, kept \in BOOLEAN : Emitted(e, kept)
    BY <1>6, ResultRow DEF Logged
  <2>2. emitted' \in Seq(Entry) /\ log' \in Seq(Entry)
    BY <2>1, EmittedType
  <2> QED
    BY <1>1, <1>2, <1>6, <2>2 DEF LogResult, TurnTypeOK
<1> QED
  BY <1>3, <1>4, <1>5, <1>6

(* A request that is answered adds a record to come.                       *)
LEMMA ForwardCounts ==
  ASSUME TurnTypeOK, NEW payload \in Payloads, NEW passed \in BOOLEAN, NEW usable \in BOOLEAN,
         usable \/ proxy.tries <= MaxRetries, Forward(payload, passed, usable)
  PROVE  /\ proxy' \in ProxyState /\ proxy'.sent = proxy.sent \cup {Rewrite(payload)}
         /\ proxy'.audit = proxy.audit
         /\ proxy'.held = IF passed THEN proxy.held + 1 ELSE proxy.held
<1>1. proxy \in ProxyState /\ MaxRetries \in Nat
  BY AgentTurnAssumption DEF TurnTypeOK
<1> DEFINE tries == IF usable THEN 0 ELSE proxy.tries + 1
           held == IF passed THEN proxy.held + 1 ELSE proxy.held
           sent == proxy.sent \cup {Rewrite(payload)}
<1>2. proxy' = [proxy EXCEPT !.tries = tries, !.held = held, !.sent = sent]
  BY <1>1 DEF Forward, ProxyState
<1>3. tries \in 0 .. MaxRetries + 1 /\ held \in Nat
  BY <1>1 DEF ProxyState
<1>4. sent \in SUBSET {Rewrite(p) : p \in Payloads}
  BY <1>1 DEF ProxyState
<1> HIDE DEF tries, held, sent
<1>5. /\ proxy' \in ProxyState /\ proxy'.sent = sent
      /\ proxy'.audit = proxy.audit /\ proxy'.held = held
  BY <1>1, <1>2, <1>3, <1>4 DEF ProxyState
<1> QED
  BY <1>5 DEF held, sent

(* A record that is made was to come.                                      *)
LEMMA RecordCounts ==
  ASSUME TurnTypeOK, RecordRequest
  PROVE  /\ proxy' \in ProxyState /\ proxy'.sent = proxy.sent
         /\ proxy'.audit + proxy'.held = proxy.audit + proxy.held
<1>1. proxy \in ProxyState /\ proxy.held > 0
      /\ proxy' = [proxy EXCEPT !.held = @ - 1, !.audit = @ + 1]
  BY DEF RecordRequest, TurnTypeOK
<1>2. proxy.held \in Nat /\ proxy.audit \in Nat
  BY <1>1 DEF ProxyState
<1>3. proxy.held - 1 \in Nat /\ proxy.audit + 1 \in Nat
  BY <1>1, <1>2
<1>4. proxy'.held = proxy.held - 1 /\ proxy'.audit = proxy.audit + 1 /\ proxy'.sent = proxy.sent
  BY <1>1 DEF ProxyState
<1>5. proxy' \in ProxyState
  BY <1>1, <1>3 DEF ProxyState
<1> QED
  BY <1>2, <1>4, <1>5

(* So does a request, however it is answered.                              *)
LEMMA ModelType == ASSUME TurnTypeOK, Model PROVE TurnTypeOK'
<1>1. CASE Answer
  <2>1. PICK calls \in Seq(CallKinds) : Answered(calls)
    BY <1>1, AnswerRow
  <2>2. PICK e \in Entry : Emitted(e, TRUE)
    BY <2>1 DEF Answered
  <2>3. emitted' \in Seq(Entry) /\ log' \in Seq(Entry)
    BY <2>2, EmittedType
  <2>4. turn' \in TurnState
    <3> DEFINE new == [c \in 1 .. Len(calls) |->
                         [kind |-> calls[c],
                          at |-> IF calls[c] = "finish" THEN "log" ELSE "pre", ok |-> TRUE]]
    <3>1. new \in Seq(CallState)
      <4>1. \A c \in 1 .. Len(calls) : new[c] \in CallState
        BY DEF CallState
      <4>2. Len(calls) \in Nat /\ new = [c \in 1 .. Len(calls) |-> new[c]]
        OBVIOUS
      <4> HIDE DEF new
      <4> QED
        BY <4>1, <4>2, MapIsSeq
    <3>2. turn' = IF Len(calls) = 0 THEN [turn EXCEPT !.at = "done"]
                  ELSE [turn EXCEPT !.at = "tools", !.calls = new]
      BY <2>1 DEF Answered
    <3> HIDE DEF new
    <3> QED
      BY <3>1, <3>2, MoveType
  <2>5. proxy' \in ProxyState
    BY <1>1, ForwardCounts DEF Answer
  <2> QED
    BY <1>1, <2>3, <2>4, <2>5 DEF Answer, TurnTypeOK
<1>2. CASE AnswerFails
  <2>1. proxy' \in ProxyState
    BY <1>2, ForwardCounts DEF AnswerFails
  <2>2. losses' \in 0 .. MaxLosses
    BY <1>2, LossType DEF AnswerFails
  <2>3. turn' \in TurnState /\ emitted' \in Seq(Entry) /\ log' \in Seq(Entry)
    <3>1. CASE EndTurn("error")
      <4>1. PICK e \in Entry : Emitted(e, TRUE) /\ turn' = [turn EXCEPT !.at = "ended"]
        BY <3>1, EndRow DEF Ended
      <4> QED
        BY <4>1, EmittedType, MoveType
    <3>2. CASE UNCHANGED <<turn, log, emitted>>
      BY <3>2 DEF TurnTypeOK
    <3> QED
      BY <1>2, <3>1, <3>2 DEF AnswerFails
  <2> QED
    BY <1>2, <2>1, <2>2, <2>3 DEF AnswerFails, TurnTypeOK
<1>3. CASE RecordRequest
  <2>1. proxy' \in ProxyState
    BY <1>3, RecordCounts
  <2> QED
    BY <1>3, <2>1 DEF RecordRequest, TurnTypeOK
<1> QED
  BY <1>1, <1>2, <1>3 DEF Model

(* Every step does.                                                        *)
LEMMA TurnTypeStep == TurnTypeOK /\ [TurnNext]_turnVars => TurnTypeOK'
<1> SUFFICES ASSUME TurnTypeOK, [TurnNext]_turnVars PROVE TurnTypeOK'
  OBVIOUS
<1>1. CASE Reject \/ MiddlewareRejects \/ Conclude
  BY <1>1, EndSteps, EndType DEF EndsTurn, TurnTypeOK
<1>8. CASE HookThrows
  <2>1. turn' \in TurnState /\ log' \in Seq(Entry) /\ emitted' \in Seq(Entry)
    <3>1. CASE \E reason \in {"completed", "rejected", "error"} : Ended(reason)
      <4>1. PICK e \in Entry : Emitted(e, TRUE) /\ turn' = [turn EXCEPT !.at = "ended"]
        BY <3>1 DEF Ended
      <4> QED
        BY <4>1, EmittedType, MoveType
    <3>2. CASE turn' \in TurnState /\ UNCHANGED <<log, emitted>>
      BY <3>2 DEF TurnTypeOK
    <3> QED
      BY <1>8, <3>1, <3>2, HookStep
  <2> QED
    BY <1>8, <2>1, HookStep DEF TurnTypeOK
<1>2. CASE RunCordis \/ InvokeMiddlewares \/ MiddlewareLooks \/ Remind \/ SnapshotFails \/ StepEnds
  BY <1>2, HookType
<1>3. CASE \E c \in Calls : \/ Evaluate(c) \/ PreExecute(c) \/ PreExecuteFails(c)
                            \/ PostExecute(c) \/ PostExecuteFails(c) \/ LogResult(c)
  BY <1>3, DispatchType
<1>4. ASSUME NEW m \in Middlewares, MiddlewareFails(m) PROVE TurnTypeOK'
  <2> DEFINE mw == [session.middlewares EXCEPT ![m].error = @ + 1]
  <2>1. session \in SessionState /\ session' = [session EXCEPT !.middlewares = mw]
    BY <1>4 DEF MiddlewareFails, TurnTypeOK, SessionState
  <2>2. mw \in [Middlewares -> [invoked : Nat, error : Nat]]
    BY <2>1 DEF SessionState
  <2> HIDE DEF mw
  <2>3. /\ session' \in SessionState
        /\ session'.evals = session.evals /\ session'.best = session.best
    BY <2>1, <2>2, SessionType
  <2> QED
    BY <1>4, <2>3 DEF MiddlewareFails, TurnTypeOK
<1>5. CASE Model
  BY <1>5, ModelType
<1>6. CASE \E status \in {"zero", "nonzero"} : Judge(status)
  BY <1>6 DEF Judge, TurnTypeOK
<1>7. CASE UNCHANGED turnVars
  BY <1>7 DEF turnVars, TurnTypeOK
<1> QED
  BY <1>1, <1>2, <1>3, <1>4, <1>5, <1>6, <1>7, <1>8 DEF TurnNext, Bridge, Candidate, Dispatch

-------------------------------------------------------------------------------
(* A turn: the notes.                                                      *)

(* Only an evaluation changes what the session has scored.                 *)
LEMMA ScoreStep ==
  ASSUME TurnTypeOK, [TurnNext]_turnVars, \A c \in Calls : ~Evaluate(c)
  PROVE  /\ UNCHANGED evaluated
         /\ session'.evals = session.evals /\ session'.best = session.best
<1>1. CASE UNCHANGED <<session, evaluated>>
  BY <1>1
<1>2. CASE InvokeMiddlewares
  <2> DEFINE mw == [m \in Middlewares |-> [session.middlewares[m] EXCEPT !.invoked = @ + 1]]
  <2>1. session' = [session EXCEPT !.middlewares = mw] /\ UNCHANGED evaluated
    BY <1>2 DEF InvokeMiddlewares
  <2>2. session \in SessionState
    BY DEF TurnTypeOK
  <2> HIDE DEF mw
  <2> QED
    BY <2>1, <2>2 DEF SessionState
<1>3. ASSUME NEW m \in Middlewares, MiddlewareFails(m)
      PROVE  /\ UNCHANGED evaluated
             /\ session'.evals = session.evals /\ session'.best = session.best
  <2>1. session' = [session EXCEPT !.middlewares[m].error = @ + 1] /\ UNCHANGED evaluated
    BY <1>3 DEF MiddlewareFails
  <2>2. session \in SessionState
    BY DEF TurnTypeOK
  <2> QED
    BY <2>1, <2>2 DEF SessionState
<1>4. ASSUME NEW c, PreExecute(c) \/ PostExecute(c)
      PROVE  /\ UNCHANGED evaluated
             /\ session'.evals = session.evals /\ session'.best = session.best
  <2>1. \E t, event : RecordToolEvent(t, event)
    BY <1>4 DEF PreExecute, PostExecute
  <2>2. UNCHANGED evaluated
    BY <1>4 DEF PreExecute, PostExecute
  <2> QED
    BY <2>1, <2>2, SessionType
<1>6. CASE HookThrows
  BY <1>6, HookStep
<1>5. ASSUME ~InvokeMiddlewares, ~HookThrows, \A m \in Middlewares : ~MiddlewareFails(m),
             \A c \in Calls : ~PreExecute(c) /\ ~PostExecute(c)
      PROVE  UNCHANGED <<session, evaluated>>
  <2>1. CASE UNCHANGED turnVars
    BY <2>1 DEF turnVars
  <2>2. CASE RunCordis \/ Reject \/ Remind \/ SnapshotFails
    BY <2>2 DEF RunCordis, Reject, Remind, SnapshotFails
  <2>3. CASE MiddlewareLooks \/ MiddlewareRejects \/ Model
    BY <2>3 DEF MiddlewareLooks, MiddlewareRejects, Model, Answer, AnswerFails,
       RecordRequest
  <2>4. ASSUME NEW c, PreExecuteFails(c) \/ PostExecuteFails(c) \/ LogResult(c)
        PROVE  UNCHANGED <<session, evaluated>>
    BY <2>4 DEF PreExecuteFails, PostExecuteFails, LogResult
  <2>5. CASE StepEnds \/ Conclude
    BY <2>5 DEF StepEnds, Conclude
  <2>6. CASE \E status \in {"zero", "nonzero"} : Judge(status)
    BY <2>6 DEF Judge
  <2> QED
    BY <1>5, <2>1, <2>2, <2>3, <2>4, <2>5, <2>6 DEF TurnNext, Bridge, Candidate, Dispatch
<1> QED
  BY <1>1, <1>2, <1>3, <1>4, <1>5, <1>6

(* What the tracker will keep is so.                                       *)
LEMMA StallIsTrue ==
  ASSUME TurnTypeOK, NotesInv
  PROVE  LET t == UpdateStall(tracker, session) IN
           /\ t.seen = Len(evaluated) /\ t.last = session.best /\ t.stalled \in 0 .. t.seen
           /\ \A i \in t.seen - t.stalled + 1 .. t.seen : ~evaluated[i]
<1> DEFINE t == UpdateStall(tracker, session)
<1>1. /\ session.evals \in Nat /\ session.best \in Nat /\ session.evals = Len(evaluated)
      /\ tracker.seen \in Nat /\ tracker.stalled \in Nat /\ tracker.seen <= session.evals
      /\ tracker.last # None => tracker.last \in Nat /\ tracker.last <= session.best
  BY AgentTurnAssumption DEF TurnTypeOK, SessionState, TrackerState, NotesInv
<1>2. /\ tracker.last # None /\ session.best = tracker.last =>
           \A i \in tracker.seen + 1 .. session.evals : ~evaluated[i]
      /\ \A i \in tracker.seen - tracker.stalled + 1 .. tracker.seen : ~evaluated[i]
  BY DEF NotesInv
<1>3. t \in TrackerState /\ t.stalled <= t.seen /\ t.seen = session.evals /\ t.last = session.best
  BY StallType
<1>4. t.stalled = IF session.evals = tracker.seen THEN tracker.stalled
                  ELSE IF tracker.last # None /\ session.best <= tracker.last
                       THEN tracker.stalled + session.evals - tracker.seen ELSE 0
  BY DEF UpdateStall
<1> HIDE DEF t
<1>5. ASSUME NEW i \in t.seen - t.stalled + 1 .. t.seen PROVE ~evaluated[i]
  <2>1. i \in Int /\ i <= t.seen /\ t.seen - t.stalled + 1 <= i /\ t.stalled \in Nat
    BY <1>1, <1>3 DEF TrackerState
  <2>2. CASE session.evals = tracker.seen
    BY <1>1, <1>2, <1>3, <1>4, <2>1, <2>2
  <2>3. CASE session.evals # tracker.seen /\ tracker.last # None /\ session.best <= tracker.last
    <3>1. session.best = tracker.last /\ t.stalled = tracker.stalled + session.evals - tracker.seen
      BY <1>1, <1>4, <2>3
    <3>2. i \in tracker.seen + 1 .. session.evals
          \/ i \in tracker.seen - tracker.stalled + 1 .. tracker.seen
      BY <1>1, <1>3, <2>1, <3>1
    <3> QED
      BY <1>2, <2>3, <3>1, <3>2
  <2>4. CASE session.evals # tracker.seen /\ ~(tracker.last # None /\ session.best <= tracker.last)
    <3>1. t.stalled = 0
      BY <1>4, <2>4
    <3> QED
      BY <1>1, <1>3, <2>1, <3>1
  <2> QED
    BY <2>2, <2>3, <2>4
<1>6. t.stalled \in 0 .. t.seen
  BY <1>1, <1>3 DEF TrackerState
<1> QED
  BY <1>1, <1>3, <1>5, <1>6 DEF t

(* The notes stay true.                                                    *)
LEMMA NotesStep == TurnTypeOK /\ NotesInv /\ [TurnNext]_turnVars => NotesInv'
<1> SUFFICES ASSUME TurnTypeOK, NotesInv, [TurnNext]_turnVars PROVE NotesInv'
  OBVIOUS
<1>1. /\ session.evals = Len(evaluated) /\ session.evals \in Nat /\ session.best \in Nat
      /\ evaluated \in Seq(BOOLEAN) /\ plugin.notes.at \in Nat /\ plugin.notes.at <= Len(evaluated)
      /\ tracker.seen \in Nat /\ tracker.stalled \in Nat /\ tracker.seen <= session.evals
      /\ tracker.last # None => tracker.last \in Nat /\ tracker.last <= session.best
  BY AgentTurnAssumption
     DEF TurnTypeOK, NotesInv, SessionState, PluginState, NotesState, TrackerState
<1>2. ASSUME NEW c \in Calls, Evaluate(c) PROVE NotesInv'
  <2>1. UNCHANGED <<tracker, plugin>>
    BY <1>2 DEF Evaluate
  <2>2. CASE UNCHANGED <<session, evaluated>>
    BY <2>1, <2>2 DEF NotesInv, NotesAreTrue
  <2>3. ASSUME NEW gain \in BOOLEAN,
               session' = [session EXCEPT !.evals = @ + 1, !.best = IF gain THEN @ + 1 ELSE @],
               evaluated' = Append(evaluated, gain)
        PROVE  NotesInv'
    <3>1. /\ session'.evals = session.evals + 1
          /\ session'.best = IF gain THEN session.best + 1 ELSE session.best
      BY <2>3 DEF TurnTypeOK, SessionState
    <3>2. /\ Len(evaluated') = Len(evaluated) + 1 /\ evaluated'[Len(evaluated) + 1] = gain
          /\ \A i \in 1 .. Len(evaluated) : evaluated'[i] = evaluated[i]
      BY <1>1, <2>3
    <3>3. session'.evals = Len(evaluated') /\ plugin.notes.at <= Len(evaluated')
      BY <1>1, <3>1, <3>2
    <3>4. ASSUME tracker.last # None, session'.best = tracker.last,
                 NEW i \in tracker.seen + 1 .. session'.evals
          PROVE  ~evaluated'[i]
      <4>1. ~gain /\ session.best = tracker.last
        BY <1>1, <3>1, <3>4
      <4>2. i \in tracker.seen + 1 .. session.evals \/ i = Len(evaluated) + 1
        BY <1>1, <3>1, <3>4
      <4>3. i \in tracker.seen + 1 .. session.evals => i \in 1 .. Len(evaluated)
        BY <1>1
      <4> QED
        BY <3>2, <3>4, <4>1, <4>2, <4>3 DEF NotesInv
    <3>5. ASSUME NEW i \in tracker.seen - tracker.stalled + 1 .. tracker.seen PROVE ~evaluated'[i]
      <4>1. i \in 1 .. Len(evaluated)
        BY <1>1 DEF TurnTypeOK
      <4> QED
        BY <3>2, <3>5, <4>1 DEF NotesInv
    <3>6. NotesAreTrue'
      <4> DEFINE n == plugin.notes
      <4>1. /\ n.left # None => n.left = MaxEvaluatorCalls - n.at
            /\ n.stall # None => /\ n.stall <= n.at
                                 /\ \A i \in n.at - n.stall + 1 .. n.at : ~evaluated[i]
        BY DEF NotesInv, NotesAreTrue
      <4>2. ASSUME n.stall # None, NEW i \in n.at - n.stall + 1 .. n.at PROVE ~evaluated'[i]
        <5>1. n.stall \in Nat
          BY <4>2 DEF TurnTypeOK, PluginState, NotesState
        <5>2. i \in 1 .. Len(evaluated)
          BY <1>1, <4>1, <4>2, <5>1
        <5> QED
          BY <3>2, <4>1, <4>2, <5>2
      <4> QED
        BY <2>1, <4>1, <4>2 DEF NotesAreTrue
    <3> QED
      BY <2>1, <3>3, <3>4, <3>5, <3>6 DEF NotesInv
  <2> QED
    BY <1>2, <2>2, <2>3 DEF Evaluate
<1>3. ASSUME \A c \in Calls : ~Evaluate(c) PROVE NotesInv'
  <2>1. /\ UNCHANGED evaluated
        /\ session'.evals = session.evals /\ session'.best = session.best
    BY <1>3, ScoreStep
  <2>2. CASE UNCHANGED <<tracker, plugin>>
    BY <2>1, <2>2 DEF NotesInv, NotesAreTrue
  <2>3. CASE tracker' = UpdateStall(tracker, session) /\ UNCHANGED plugin
    <3>1. tracker'.seen = Len(evaluated)
          /\ \A i \in tracker'.seen - tracker'.stalled + 1 .. tracker'.seen : ~evaluated[i]
      BY <2>3, StallIsTrue
    <3>2. \A i \in tracker'.seen + 1 .. session'.evals : FALSE
      BY <1>1, <2>1, <3>1
    <3> QED
      BY <2>1, <2>3, <3>1, <3>2 DEF NotesInv, NotesAreTrue
  <2>4. CASE tracker' = UpdateStall(tracker, session) /\ plugin' = Notes(plugin, tracker', session)
    <3>1. tracker'.seen = Len(evaluated) /\ tracker'.stalled \in 0 .. tracker'.seen
          /\ \A i \in tracker'.seen - tracker'.stalled + 1 .. tracker'.seen : ~evaluated[i]
      BY <2>4, StallIsTrue
    <3>2. \A i \in tracker'.seen + 1 .. session'.evals : FALSE
      BY <1>1, <2>1, <3>1
    <3>3. /\ plugin'.notes.at = Len(evaluated)
          /\ plugin'.notes.stall \in {tracker'.stalled, None}
          /\ plugin'.notes.left \in {Left(session), None}
      BY <2>4 DEF Notes
    <3>4. NotesAreTrue'
      BY <1>1, <2>1, <3>1, <3>3 DEF NotesAreTrue, Left
    <3>5. plugin'.notes.at <= Len(evaluated)
      BY <1>1, <3>3
    <3> QED
      BY <1>1, <2>1, <3>1, <3>2, <3>4, <3>5 DEF NotesInv
  <2>5. \/ UNCHANGED <<tracker, plugin>>
        \/ tracker' = UpdateStall(tracker, session) /\ UNCHANGED plugin
        \/ tracker' = UpdateStall(tracker, session) /\ plugin' = Notes(plugin, tracker', session)
    <3>1. CASE UNCHANGED turnVars
      BY <3>1 DEF turnVars
    <3>2. CASE Bridge
      BY <3>2 DEF Bridge, RunCordis, Reject, InvokeMiddlewares, HookThrows, Remind, SnapshotFails
    <3>3. CASE Candidate \/ Model
      BY <3>3 DEF Candidate, MiddlewareLooks, MiddlewareFails, MiddlewareRejects, Model, Answer,
         AnswerFails, RecordRequest
    <3>4. CASE Dispatch
      BY <3>4 DEF Dispatch, Evaluate, PreExecute, PreExecuteFails, PostExecute, PostExecuteFails,
         LogResult, StepEnds, Conclude
    <3>5. CASE \E status \in {"zero", "nonzero"} : Judge(status)
      BY <3>5 DEF Judge
    <3> QED
      BY <3>1, <3>2, <3>3, <3>4, <3>5 DEF TurnNext
  <2> QED
    BY <2>2, <2>3, <2>4, <2>5
<1> QED
  BY <1>2, <1>3

-------------------------------------------------------------------------------
(* A turn: the log.                                                        *)

(* A row that is kept keeps the order of the two logs, a lost one makes    *)
(* the log shorter than what was emitted.                                  *)
LEMMA LogGrows ==
  ASSUME TurnTypeOK, log = emitted \/ Width(log) < Width(emitted),
         NEW e \in Entry, NEW kept \in BOOLEAN, Emitted(e, kept)
  PROVE  log' = emitted' \/ Width(log') < Width(emitted')
<1>1. log \in Seq(Entry) /\ emitted \in Seq(Entry) /\ e.width \in Nat \ {0}
  BY DEF TurnTypeOK, Entry
<1>2. /\ Width(log) \in Nat /\ Width(Append(log, e)) = Width(log) + e.width
      /\ Width(emitted) \in Nat /\ Width(Append(emitted, e)) = Width(emitted) + e.width
  BY <1>1, WidthAppend
<1>3. emitted' = Append(emitted, e) /\ log' = IF kept THEN Append(log, e) ELSE log
  BY DEF Emitted
<1>4. Width(emitted') = Width(emitted) + e.width
  BY <1>2, <1>3
<1>5. CASE kept
  <2>1. Width(log') = Width(log) + e.width /\ log' = Append(log, e)
    BY <1>2, <1>3, <1>5
  <2> QED
    BY <1>1, <1>2, <1>3, <1>4, <2>1
<1>6. CASE ~kept
  <2>1. log' = log
    BY <1>3, <1>6
  <2>2. Width(log) <= Width(emitted)
    BY <1>2
  <2> QED
    BY <1>1, <1>2, <1>4, <2>1, <2>2
<1> QED
  BY <1>5, <1>6

(* The row of the end: with no gap before it, nothing was lost.            *)
LEMMA LogEnds ==
  ASSUME TurnTypeOK, LogInv, turn.at # "ended", NEW reason, Ended(reason)
  PROVE  LogInv'
<1>1. PICK e \in Entry : e.kind = "end" /\ Emitted(e, TRUE) /\ turn' = [turn EXCEPT !.at = "ended"]
  BY DEF Ended
<1>2. log' = emitted' \/ Width(log') < Width(emitted')
  BY <1>1, LogGrows DEF LogInv
<1>3. log \in Seq(Entry) /\ emitted \in Seq(Entry) /\ turn'.at = "ended"
  BY <1>1 DEF TurnTypeOK, TurnState
<1>4. /\ log' = Append(log, e) /\ emitted' = Append(emitted, e)
      /\ e.seq = 1 + Width(emitted)
  BY <1>1 DEF Emitted, Events
<1>5. Len(log') > 0 /\ log'[Len(log')].kind = "end"
  BY <1>1, <1>3, <1>4
<1>6. ASSUME Readable(log)' PROVE log' = emitted'
  <2>1. log'[Len(log) + 1].seq = 1 + Width(SubSeq(log', 1, Len(log)))
    <3>1. \A i \in DOMAIN log' : log'[i].seq = 1 + Width(SubSeq(log', 1, i - 1))
      BY <1>6 DEF Readable, Width
    <3>2. Len(log) + 1 \in DOMAIN log' /\ (Len(log) + 1) - 1 = Len(log)
      BY <1>3, <1>4
    <3> QED
      BY <3>1, <3>2
  <2>2. log'[Len(log) + 1] = e /\ SubSeq(log', 1, Len(log)) = log
    BY <1>3, <1>4
  <2>3. Width(log) = Width(emitted)
    <3>1. Width(SubSeq(log', 1, Len(log))) = Width(log)
      BY <2>2
    <3>2. e.seq = 1 + Width(log)
      BY <2>1, <2>2, <3>1
    <3> QED
      BY <1>4, <3>2, WidthNat
  <2>4. log = emitted
    BY <2>3, WidthNat DEF LogInv
  <2> QED
    BY <1>4, <2>4
<1> QED
  BY <1>2, <1>3, <1>5, <1>6 DEF LogInv

(* The steps that write nothing neither end the turn nor begin it again.   *)
LEMMA LogQuiet ==
  ASSUME TurnTypeOK,
         \/ RunCordis \/ InvokeMiddlewares \/ MiddlewareLooks \/ Remind \/ SnapshotFails \/ StepEnds
         \/ \E m \in Middlewares : MiddlewareFails(m)
         \/ \E c \in Calls : \/ Evaluate(c) \/ PreExecute(c) \/ PreExecuteFails(c)
                             \/ PostExecute(c) \/ PostExecuteFails(c)
         \/ \E status \in {"zero", "nonzero"} : Judge(status)
  PROVE  UNCHANGED <<log, emitted>> /\ (turn'.at = "ended" <=> turn.at = "ended")
<1>0. turn \in TurnState
  BY DEF TurnTypeOK
<1>1. CASE RunCordis \/ MiddlewareLooks \/ \E m \in Middlewares : MiddlewareFails(m)
  BY <1>1 DEF RunCordis, MiddlewareLooks, MiddlewareFails
<1>2. CASE InvokeMiddlewares \/ Remind \/ SnapshotFails
  <2>1. /\ UNCHANGED <<log, emitted>> /\ turn.at \in {"pre", "next"}
        /\ \/ turn' = [turn EXCEPT !.step = @ + 1, !.at = "next"]
           \/ turn' = [turn EXCEPT !.at = "model"]
    BY <1>2 DEF InvokeMiddlewares, Remind, SnapshotFails, TurnAt
  <2> QED
    BY <1>0, <2>1 DEF TurnState
<1>3. CASE StepEnds
  <2>1. /\ UNCHANGED <<log, emitted>> /\ turn.at = "tools"
        /\ \E where \in {"done", "pre"} : turn' = [turn EXCEPT !.calls = <<>>, !.at = where]
    BY <1>3 DEF StepEnds, TurnAt
  <2> QED
    BY <1>0, <2>1 DEF TurnState
<1>4. ASSUME NEW c, \/ Evaluate(c) \/ PreExecute(c) \/ PreExecuteFails(c)
                    \/ PostExecute(c) \/ PostExecuteFails(c)
      PROVE  UNCHANGED <<log, emitted>> /\ (turn'.at = "ended" <=> turn.at = "ended")
  <2>1. UNCHANGED <<log, emitted>>
    BY <1>4 DEF Evaluate, PreExecute, PreExecuteFails, PostExecute, PostExecuteFails
  <2>2. \E where, ok : Step(c, where) \/ Ends(c, where, ok)
    BY <1>4 DEF Evaluate, PreExecute, PreExecuteFails, PostExecute, PostExecuteFails
  <2> QED
    BY <1>0, <2>1, <2>2 DEF Step, Ends, TurnState
<1>5. CASE \E status \in {"zero", "nonzero"} : Judge(status)
  BY <1>5 DEF Judge
<1> QED
  BY <1>1, <1>2, <1>3, <1>4, <1>5

(* The log stays what the turn wrote, up to what it lost.                  *)
LEMMA LogStep == TurnTypeOK /\ LogInv /\ [TurnNext]_turnVars => LogInv'
<1> SUFFICES ASSUME TurnTypeOK, LogInv, [TurnNext]_turnVars PROVE LogInv'
  OBVIOUS
<1>0. turn \in TurnState /\ log \in Seq(Entry)
  BY DEF TurnTypeOK
<1>1. CASE Reject \/ MiddlewareRejects \/ Conclude
  <2>1. turn.at # "ended"
    BY <1>1 DEF Reject, MiddlewareRejects, Conclude, TurnAt
  <2> QED
    BY <1>1, <2>1, EndSteps, LogEnds DEF EndsTurn
<1>2. CASE UNCHANGED <<log, emitted>> /\ (turn'.at = "ended" <=> turn.at = "ended")
  BY <1>2 DEF LogInv, Readable, Width
<1>3. ASSUME NEW e \in Entry, NEW kept \in BOOLEAN, Emitted(e, kept), e.kind # "end",
             turn.at # "ended", turn'.at # "ended"
      PROVE  LogInv'
  <2>1. log' = emitted' \/ Width(log') < Width(emitted')
    BY <1>3, LogGrows DEF LogInv
  <2>2. \A i \in DOMAIN log' : log'[i].kind # "end"
    BY <1>0, <1>3 DEF Emitted, LogInv
  <2> QED
    BY <1>3, <2>1, <2>2 DEF LogInv
<1>4. CASE Answer
  <2>1. PICK calls \in Seq(CallKinds) : Answered(calls)
    BY <1>4, AnswerRow
  <2>2. turn'.at # "ended"
    BY <1>0, <2>1 DEF Answered, TurnState
  <2>3. turn.at # "ended"
    BY <1>4 DEF Answer, TurnAt
  <2>4. PICK e \in Entry : Emitted(e, TRUE) /\ e.kind = "message"
    BY <2>1 DEF Answered
  <2> QED
    BY <1>3, <2>2, <2>3, <2>4
<1>8. CASE HookThrows
  <2>1. turn.at # "ended"
    BY <1>8, HookStep
  <2>2. CASE \E reason \in {"completed", "rejected", "error"} : Ended(reason)
    BY <2>1, <2>2, LogEnds
  <2> QED
    BY <1>2, <1>8, <2>1, <2>2, HookStep
<1>9. CASE RecordRequest
  BY <1>2, <1>9 DEF RecordRequest
<1>5. CASE AnswerFails
  <2>1. turn.at # "ended"
    BY <1>5 DEF AnswerFails, TurnAt
  <2>2. CASE EndTurn("error")
    BY <2>1, <2>2, EndRow, LogEnds
  <2> QED
    BY <1>2, <1>5, <2>2 DEF AnswerFails
<1>6. ASSUME NEW c, LogResult(c) PROVE LogInv'
  <2>1. turn.at # "ended" /\ turn'.at = turn.at
    BY <1>0, <1>6 DEF LogResult, InTools, TurnAt, Step, TurnState
  <2>2. PICK e \in Entry, kept \in BOOLEAN : Emitted(e, kept) /\ e.kind = "result"
    BY <1>6, ResultRow DEF Logged
  <2> QED
    BY <1>3, <2>1, <2>2
<1>7. CASE UNCHANGED turnVars
  BY <1>2, <1>7 DEF turnVars
<1> QED
  BY <1>1, <1>2, <1>4, <1>5, <1>6, <1>7, <1>8, <1>9, LogQuiet
     DEF TurnNext, Bridge, Candidate, Model, Dispatch

-------------------------------------------------------------------------------
(* A turn: the calls.                                                      *)

(* What a row says of the calls of a tool.                                 *)
LEMMA RowSays ==
  ASSUME TurnTypeOK, NEW e \in Entry, NEW kept, Emitted(e, kept), NEW t, NEW ok \in BOOLEAN
  PROVE  /\ Said(t) \in Nat /\ Heard(t, ok) \in Nat
         /\ e.kind = "end" => Said(t)' = Said(t) /\ Heard(t, ok)' = Heard(t, ok)
         /\ e.kind = "message" =>
              /\ Heard(t, ok)' = Heard(t, ok)
              /\ Said(t)' = Said(t) + Cardinality({c \in DOMAIN e.value : e.value[c] = t})
         /\ e.kind = "result" =>
              /\ Said(t)' = Said(t)
              /\ Heard(t, ok)' = Heard(t, ok) + IF e.value = <<t, ok>> THEN 1 ELSE 0
<1> DEFINE use == [type |-> "tool_use", name |-> t]
           res == [type |-> "tool_result", name |-> t, ok |-> ok]
<1>1. emitted \in Seq(Entry) /\ emitted' = Append(emitted, e)
  BY DEF TurnTypeOK, Emitted
<1>2. /\ Said(t) \in Nat /\ Said(t)' = Said(t) + Cardinality(BlocksLike(e, use))
      /\ Heard(t, ok) \in Nat /\ Heard(t, ok)' = Heard(t, ok) + Cardinality(BlocksLike(e, res))
  <2>1. /\ Said(t) = Occurrences(Messages(emitted), use)
        /\ Heard(t, ok) = Occurrences(Messages(emitted), res)
        /\ Said(t)' = Occurrences(Messages(Append(emitted, e)), use)
        /\ Heard(t, ok)' = Occurrences(Messages(Append(emitted, e)), res)
    BY <1>1 DEF Said, Heard, Uses, Results
  <2> HIDE DEF use, res
  <2> QED
    BY <1>1, <2>1, OccurrencesAppend
<1>3. Cardinality({}) = 0 /\ \A x : Cardinality({x}) = 1
  BY FS_EmptySet, FS_Singleton
<1>4. use # res
  <2>1. use.type = "tool_use" /\ res.type = "tool_result"
    OBVIOUS
  <2> HIDE DEF use, res
  <2> QED
    BY <2>1
<1>5. CASE e.kind = "end"
  <2>1. BlocksLike(e, use) = {} /\ BlocksLike(e, res) = {}
    BY <1>5 DEF BlocksLike, Blocks
  <2> QED
    BY <1>2, <1>3, <1>5, <2>1
<1>6. CASE e.kind = "message"
  <2>1. Blocks(e) = [c \in DOMAIN e.value |-> [type |-> "tool_use", name |-> e.value[c]]]
    BY <1>6 DEF Blocks
  <2>2. BlocksLike(e, use) = {c \in DOMAIN e.value : e.value[c] = t}
    <3>1. \A x : [type |-> "tool_use", name |-> x] = use <=> x = t
      <4>1. \A x : [type |-> "tool_use", name |-> x].name = x
        OBVIOUS
      <4> QED
        BY <4>1
    <3> HIDE DEF use
    <3> QED
      BY <2>1, <3>1 DEF BlocksLike
  <2>3. BlocksLike(e, res) = {}
    <3>1. \A x : [type |-> "tool_use", name |-> x] # res
      <4>1. \A x : [type |-> "tool_use", name |-> x].type = "tool_use"
        OBVIOUS
      <4>2. res.type = "tool_result"
        OBVIOUS
      <4> HIDE DEF res
      <4> QED
        BY <4>1, <4>2
    <3> HIDE DEF res
    <3> QED
      BY <2>1, <3>1 DEF BlocksLike
  <2> HIDE DEF use, res
  <2> QED
    BY <1>2, <1>3, <1>6, <2>2, <2>3
<1>7. CASE e.kind = "result"
  <2> DEFINE b == [type |-> "tool_result", name |-> e.value[1], ok |-> e.value[2]]
  <2>1. Blocks(e) = <<b>>
    BY <1>7 DEF Blocks
  <2>2. b # use
    <3>1. b.type = "tool_result" /\ use.type = "tool_use"
      OBVIOUS
    <3> HIDE DEF b, use
    <3> QED
      BY <3>1
  <2>3. b = res <=> e.value = <<t, ok>>
    <3>1. e.value \in CallKinds \X BOOLEAN
      BY <1>7 DEF Entry
    <3>2. b = res <=> e.value[1] = t /\ e.value[2] = ok
      <4>1. b.name = e.value[1] /\ b.ok = e.value[2] /\ res.name = t /\ res.ok = ok
        OBVIOUS
      <4>2. e.value[1] = t /\ e.value[2] = ok => b = res
        OBVIOUS
      <4> HIDE DEF b, res
      <4> QED
        BY <4>1, <4>2
    <3> HIDE DEF b, res
    <3> QED
      BY <3>1, <3>2
  <2> HIDE DEF b, use, res
  <2>4. BlocksLike(e, use) = {} /\ BlocksLike(e, res) = IF b = res THEN {1} ELSE {}
    BY <2>1, <2>2 DEF BlocksLike
  <2>5. CASE b = res
    <3>2. BlocksLike(e, res) = {1} /\ Cardinality({1}) = 1
      BY <1>3, <2>4, <2>5
    <3>1. Said(t)' = Said(t) /\ Heard(t, ok)' = Heard(t, ok) + 1
      BY <1>2, <1>3, <2>4, <3>2
    <3> QED
      BY <1>7, <2>3, <2>5, <3>1, <1>2
  <2>6. CASE b # res
    <3>1. Said(t)' = Said(t) /\ Heard(t, ok)' = Heard(t, ok) + 0
      BY <1>2, <1>3, <2>4, <2>6
    <3> QED
      BY <1>7, <2>3, <2>6, <3>1, <1>2
  <2> QED
    BY <2>5, <2>6
<1> QED
  BY <1>2, <1>5, <1>6, <1>7 DEF Entry

(* A set of the calls of a step is finite.                                 *)
LEMMA CallsFinite ==
  ASSUME turn \in TurnState, NEW S, S \subseteq DOMAIN turn.calls
  PROVE  IsFiniteSet(S) /\ Cardinality(S) \in Nat
<1>1. turn.calls \in Seq(CallState)
  BY DEF TurnState
<1>2. DOMAIN turn.calls = 1 .. Len(turn.calls) /\ Len(turn.calls) \in Nat
  BY <1>1
<1>3. IsFiniteSet(1 .. Len(turn.calls))
  BY <1>2, FS_Interval
<1>4. IsFiniteSet(S)
  BY <1>2, <1>3, FS_Subset
<1> QED
  BY <1>4, FS_CardinalityType

(* Adding to a set, and taking from it.                                    *)
LEMMA OneMore ==
  ASSUME NEW S, IsFiniteSet(S), NEW x
  PROVE  /\ Cardinality(S) \in Nat
         /\ x \notin S => Cardinality(S \cup {x}) = Cardinality(S) + 1
         /\ Cardinality(S) <= Cardinality(S \cup {x}) /\ Cardinality(S \cup {x}) \in Nat
         /\ x \in S => Cardinality(S \ {x}) = Cardinality(S) - 1
<1>1. Cardinality(S) \in Nat
  BY FS_CardinalityType
<1>2. x \notin S => Cardinality(S \cup {x}) = Cardinality(S) + 1
  BY FS_AddElement
<1>3. x \in S => S \cup {x} = S
  OBVIOUS
<1>4. x \in S => Cardinality(S \ {x}) = Cardinality(S) - 1
  BY FS_RemoveElement
<1>5. CASE x \in S
  <2>1. Cardinality(S \cup {x}) = Cardinality(S)
    BY <1>3, <1>5
  <2>2. Cardinality(S) <= Cardinality(S)
    BY <1>1
  <2> QED
    BY <1>1, <1>4, <1>5, <2>1, <2>2
<1>6. CASE x \notin S
  <2>1. Cardinality(S \cup {x}) = Cardinality(S) + 1
    BY <1>2, <1>6
  <2> QED
    BY <1>1, <1>6, <2>1
<1> QED
  BY <1>5, <1>6

(* A call is moved to where it is next, with its outcome.                  *)
Moves(c, where, ok) == Ends(c, where, ok) \/ (Step(c, where) /\ ok = Call(c).ok)

(* Where a call is after a move, and that no other has moved.              *)
LEMMA CallMoves ==
  ASSUME TurnTypeOK, NEW c, InTools(c),
         NEW where \in {"pre", "post", "log", "over"}, NEW ok \in BOOLEAN,
         Moves(c, where, ok)
  PROVE  /\ turn'.at = turn.at /\ DOMAIN turn'.calls = DOMAIN turn.calls
         /\ turn'.calls[c] = [kind |-> Call(c).kind, at |-> where, ok |-> ok]
         /\ \A d \in DOMAIN turn.calls \ {c} : turn'.calls[d] = turn.calls[d]
<1>1. turn \in TurnState /\ c \in DOMAIN turn.calls /\ Call(c) \in CallState
  BY CallType DEF TurnTypeOK
<1>2. turn.calls \in Seq(CallState) /\ Call(c) = turn.calls[c]
  BY <1>1 DEF TurnState, Call
<1>3. \/ turn' = [turn EXCEPT !.calls[c].at = where, !.calls[c].ok = ok]
      \/ turn' = [turn EXCEPT !.calls[c].at = where] /\ ok = Call(c).ok
  BY DEF Moves, Ends, Step
<1> DEFINE calls == [turn.calls EXCEPT ![c] = [kind |-> Call(c).kind, at |-> where, ok |-> ok]]
<1>4. CASE turn' = [turn EXCEPT !.calls[c].at = where, !.calls[c].ok = ok]
  <2>1. [[Call(c) EXCEPT !.at = where] EXCEPT !.ok = ok]
          = [kind |-> Call(c).kind, at |-> where, ok |-> ok]
    <3>1. \A k, a, o : [[kind |-> k, at |-> a, ok |-> o] EXCEPT !.at = where]
                           = [kind |-> k, at |-> where, ok |-> o]
      OBVIOUS
    <3>2. \A k, o : [[kind |-> k, at |-> where, ok |-> o] EXCEPT !.ok = ok]
                        = [kind |-> k, at |-> where, ok |-> ok]
      OBVIOUS
    <3>3. Call(c) = [kind |-> Call(c).kind, at |-> Call(c).at, ok |-> Call(c).ok]
      BY <1>1 DEF CallState
    <3>4. [Call(c) EXCEPT !.at = where] = [kind |-> Call(c).kind, at |-> where, ok |-> Call(c).ok]
      BY <3>1, <3>3
    <3> QED
      BY <3>2, <3>4
  <2>2. turn'.at = turn.at
        /\ turn'.calls = [turn.calls EXCEPT ![c] = [[Call(c) EXCEPT !.at = where] EXCEPT !.ok = ok]]
    BY <1>1, <1>2, <1>4 DEF TurnState
  <2>3. turn'.calls = calls
    BY <2>1, <2>2
  <2> QED
    BY <1>1, <1>2, <2>2, <2>3
<1>5. CASE turn' = [turn EXCEPT !.calls[c].at = where] /\ ok = Call(c).ok
  <2>1. [Call(c) EXCEPT !.at = where] = [kind |-> Call(c).kind, at |-> where, ok |-> ok]
    BY <1>1, <1>5 DEF CallState
  <2>2. turn'.at = turn.at
        /\ turn'.calls = [turn.calls EXCEPT ![c] = [Call(c) EXCEPT !.at = where]]
    BY <1>1, <1>2, <1>5 DEF TurnState
  <2>3. turn'.calls = calls
    BY <2>1, <2>2
  <2> QED
    BY <1>1, <1>2, <2>2, <2>3
<1> QED
  BY <1>3, <1>4, <1>5

(* What one call changes of the sets of calls.                             *)
LEMMA SetsMove ==
  ASSUME TurnTypeOK, NEW c, InTools(c), Call(c).at # "over",
         NEW where \in {"post", "log", "over"}, NEW ok \in BOOLEAN,
         Moves(c, where, ok), NEW t, NEW x \in BOOLEAN
  PROVE  /\ where # "over" =>
              /\ Open(t)' = Open(t)
              /\ Begun(t)' = IF Call(c).kind = t THEN Begun(t) \cup {c} ELSE Begun(t)
         /\ where # "over" /\ Call(c).at # "log" =>
              Unlogged(t, x)' = IF Call(c).kind = t /\ where = "log" /\ ok = x
                                THEN Unlogged(t, x) \cup {c} ELSE Unlogged(t, x)
         /\ where = "over" => /\ Open(t)' = Open(t) \ {c} /\ Begun(t)' = Begun(t) \ {c}
                              /\ Unlogged(t, x)' = Unlogged(t, x) \ {c}
<1> DEFINE moved == [kind |-> Call(c).kind, at |-> where, ok |-> ok]
<1>1. /\ DOMAIN turn'.calls = DOMAIN turn.calls /\ c \in DOMAIN turn.calls
      /\ turn'.calls[c] = moved
      /\ \A d \in DOMAIN turn.calls \ {c} : turn'.calls[d] = turn.calls[d]
  BY CallMoves DEF InTools
<1>2. moved.kind = turn.calls[c].kind /\ moved.at = where /\ moved.ok = ok
      /\ turn.calls[c].at # "over" /\ Call(c) = turn.calls[c]
  BY DEF Call
<1> HIDE DEF moved
<1>3. \A d \in DOMAIN turn.calls :
        /\ turn'.calls[d].kind = turn.calls[d].kind
        /\ turn'.calls[d].at = IF d = c THEN where ELSE turn.calls[d].at
        /\ turn'.calls[d].ok = IF d = c THEN ok ELSE turn.calls[d].ok
  BY <1>1, <1>2
<1>4. Open(t)' = {d \in DOMAIN turn.calls : turn.calls[d].kind = t /\ turn'.calls[d].at # "over"}
  BY <1>1, <1>3 DEF Open
<1>5. CASE where # "over"
  <2>1. Open(t)' = Open(t)
    BY <1>2, <1>3, <1>4, <1>5 DEF Open
  <2>2. Begun(t)' = {d \in Open(t) : turn'.calls[d].at # "pre"}
    BY <2>1 DEF Begun
  <2>3. Begun(t)' = IF Call(c).kind = t THEN Begun(t) \cup {c} ELSE Begun(t)
    BY <1>1, <1>2, <1>3, <1>5, <2>2 DEF Begun, Open
  <2>4. Unlogged(t, x)' = {d \in Open(t) : turn'.calls[d].at = "log" /\ turn'.calls[d].ok = x}
    BY <2>1 DEF Unlogged
  <2>5. ASSUME Call(c).at # "log"
        PROVE  Unlogged(t, x)' = IF Call(c).kind = t /\ where = "log" /\ ok = x
                                 THEN Unlogged(t, x) \cup {c} ELSE Unlogged(t, x)
    BY <1>1, <1>2, <1>3, <1>5, <2>4, <2>5 DEF Unlogged, Open
  <2> QED
    BY <1>5, <2>1, <2>3, <2>5
<1>6. CASE where = "over"
  <2>1. Open(t)' = Open(t) \ {c}
    BY <1>2, <1>3, <1>4, <1>6 DEF Open
  <2>2. Begun(t)' = {d \in Open(t) \ {c} : turn'.calls[d].at # "pre"}
    BY <2>1 DEF Begun
  <2>3. Begun(t)' = Begun(t) \ {c}
    BY <1>3, <2>2 DEF Begun, Open
  <2>4. Unlogged(t, x)' = {d \in Open(t) \ {c} : turn'.calls[d].at = "log" /\ turn'.calls[d].ok = x}
    BY <2>1 DEF Unlogged
  <2>5. Unlogged(t, x)' = Unlogged(t, x) \ {c}
    BY <1>3, <2>4 DEF Unlogged, Open
  <2> QED
    BY <1>6, <2>1, <2>3, <2>5
<1> QED
  BY <1>5, <1>6

(* The sets of calls are finite.                                           *)
LEMMA SetsFinite ==
  ASSUME TurnTypeOK, NEW t, NEW ok
  PROVE  /\ IsFiniteSet(Open(t)) /\ IsFiniteSet(Begun(t)) /\ IsFiniteSet(Unlogged(t, ok))
         /\ Cardinality(Open(t)) \in Nat /\ Cardinality(Begun(t)) \in Nat
         /\ Cardinality(Unlogged(t, ok)) \in Nat
<1>1. Open(t) \subseteq DOMAIN turn.calls /\ Begun(t) \subseteq DOMAIN turn.calls
      /\ Unlogged(t, ok) \subseteq DOMAIN turn.calls /\ turn \in TurnState
  BY DEF Open, Begun, Unlogged, TurnTypeOK
<1> QED
  BY <1>1, CallsFinite

(* Nothing moves but what the tool was counted for, or nothing at all.     *)
LEMMA CallsRest ==
  ASSUME CallInv, UNCHANGED emitted, session'.tools = session.tools,
         turn'.calls = turn.calls, turn'.at # "tools" => turn.calls = <<>>
  PROVE  CallInv'
<1>1. \A t, ok : /\ Said(t)' = Said(t) /\ Heard(t, ok)' = Heard(t, ok)
                 /\ Open(t)' = Open(t) /\ Begun(t)' = Begun(t) /\ Unlogged(t, ok)' = Unlogged(t, ok)
  BY DEF Said, Heard, Open, Begun, Unlogged
<1> QED
  BY <1>1 DEF CallInv

(* Between the steps nothing is open.                                      *)
LEMMA NothingOpen ==
  ASSUME turn.calls = <<>>
  PROVE  \A t, ok : /\ Cardinality(Open(t)) = 0 /\ Cardinality(Begun(t)) = 0
                    /\ Cardinality(Unlogged(t, ok)) = 0
<1>1. \A t, ok : Open(t) = {} /\ Begun(t) = {} /\ Unlogged(t, ok) = {}
  BY DEF Open, Begun, Unlogged
<1> QED
  BY <1>1, FS_EmptySet

(* The end of a turn says nothing of the calls.                            *)
LEMMA CallsEnd ==
  ASSUME TurnTypeOK, CallInv, turn.at # "tools", NEW reason, Ended(reason),
         session'.tools = session.tools
  PROVE  CallInv'
<1>1. PICK e \in Entry : e.kind = "end" /\ Emitted(e, TRUE) /\ turn' = [turn EXCEPT !.at = "ended"]
  BY DEF Ended
<1>2. turn.calls = <<>> /\ turn'.calls = <<>>
  BY <1>1 DEF CallInv, TurnTypeOK, TurnState
<1>3. \A t, ok : Open(t)' = Open(t) /\ Begun(t)' = Begun(t) /\ Unlogged(t, ok)' = Unlogged(t, ok)
  BY <1>2 DEF Open, Begun, Unlogged
<1>4. \A t : \A ok \in BOOLEAN : Said(t)' = Said(t) /\ Heard(t, ok)' = Heard(t, ok)
  BY <1>1, RowSays
<1> QED
  BY <1>2, <1>3, <1>4 DEF CallInv

(* The calls of an answer are open, and none of a tool has begun.          *)
LEMMA CallsOpen ==
  ASSUME TurnTypeOK, CallInv, turn.at = "model", NEW calls \in Seq(CallKinds), Answered(calls),
         UNCHANGED session
  PROVE  CallInv'
<1>1. PICK e \in Entry :
        /\ e.kind = "message" /\ e.value = calls /\ Emitted(e, TRUE)
        /\ turn' = IF Len(calls) = 0 THEN [turn EXCEPT !.at = "done"]
                   ELSE [turn EXCEPT !.at = "tools", !.calls =
                          [c \in 1 .. Len(calls) |->
                             [kind |-> calls[c], at |-> IF calls[c] = "finish" THEN "log" ELSE "pre",
                              ok |-> TRUE]]]
  BY DEF Answered
<1>2. turn.calls = <<>> /\ turn \in TurnState
  BY DEF CallInv, TurnTypeOK
<1>3. DOMAIN turn'.calls = DOMAIN calls /\ \A c \in DOMAIN calls :
        turn'.calls[c].kind = calls[c] /\ turn'.calls[c].at \in {"pre", "log"}
  <2>1. CASE Len(calls) = 0
    <3>1. turn'.calls = <<>> /\ DOMAIN calls = {}
      BY <1>1, <1>2, <2>1 DEF TurnState
    <3> QED
      BY <3>1
  <2>2. CASE Len(calls) # 0
    <3>1. turn'.calls = [c \in 1 .. Len(calls) |->
             [kind |-> calls[c], at |-> IF calls[c] = "finish" THEN "log" ELSE "pre", ok |-> TRUE]]
      BY <1>1, <1>2, <2>2 DEF TurnState
    <3> QED
      BY <3>1
  <2> QED
    BY <2>1, <2>2
<1>4. turn'.at # "tools" => turn'.calls = <<>>
  BY <1>1, <1>2 DEF TurnState
<1>5. ASSUME NEW t \in Tools
      PROVE  /\ Said(t)' = Heard(t, TRUE)' + Heard(t, FALSE)' + Cardinality(Open(t)')
             /\ session.tools[t].invoked <= Heard(t, TRUE)' + Heard(t, FALSE)'
                   + Cardinality(Begun(t)')
             /\ session.tools[t].completed <= Heard(t, TRUE)' + Cardinality(Unlogged(t, TRUE)')
             /\ session.tools[t].error <= Heard(t, FALSE)' + Cardinality(Unlogged(t, FALSE)')
  <2>1. Open(t)' = {c \in DOMAIN calls : calls[c] = t}
    BY <1>3 DEF Open
  <2>2. /\ Said(t) \in Nat /\ Said(t)' = Said(t) + Cardinality(Open(t)')
        /\ Heard(t, TRUE) \in Nat /\ Heard(t, TRUE)' = Heard(t, TRUE)
        /\ Heard(t, FALSE) \in Nat /\ Heard(t, FALSE)' = Heard(t, FALSE)
    <3>1. ASSUME NEW ok \in BOOLEAN
          PROVE  /\ Said(t) \in Nat /\ Heard(t, ok) \in Nat /\ Heard(t, ok)' = Heard(t, ok)
                 /\ Said(t)' = Said(t) + Cardinality({c \in DOMAIN calls : calls[c] = t})
      <4>1. e \in Entry /\ Emitted(e, TRUE) /\ e.kind = "message"
        BY <1>1
      <4>2. /\ Said(t) \in Nat /\ Heard(t, ok) \in Nat /\ Heard(t, ok)' = Heard(t, ok)
            /\ Said(t)' = Said(t) + Cardinality({c \in DOMAIN e.value : e.value[c] = t})
        BY <4>1, RowSays
      <4> QED
        BY <1>1, <4>2
    <3> QED
      BY <2>1, <3>1
  <2>3. Cardinality(Open(t)') \in Nat /\ Cardinality(Begun(t)') \in Nat
        /\ Cardinality(Unlogged(t, TRUE)') \in Nat /\ Cardinality(Unlogged(t, FALSE)') \in Nat
    <3>1. Begun(t)' \subseteq Open(t)' /\ \A ok : Unlogged(t, ok)' \subseteq Open(t)'
      BY DEF Begun, Unlogged
    <3>2. IsFiniteSet(Open(t)')
      <4>1. DOMAIN calls = 1 .. Len(calls) /\ Len(calls) \in Nat
            /\ Open(t)' \subseteq 1 .. Len(calls)
        BY <2>1
      <4>2. IsFiniteSet(1 .. Len(calls))
        BY <4>1, FS_Interval
      <4> QED
        BY <4>1, <4>2, FS_Subset
    <3> HIDE DEF Open
    <3> QED
      BY <3>1, <3>2, FS_Subset, FS_CardinalityType
  <2>4. /\ Said(t) = Heard(t, TRUE) + Heard(t, FALSE) + 0
        /\ session.tools[t].invoked <= Heard(t, TRUE) + Heard(t, FALSE) + 0
        /\ session.tools[t].completed <= Heard(t, TRUE) + 0
        /\ session.tools[t].error <= Heard(t, FALSE) + 0
    <3>1. /\ Cardinality(Open(t)) = 0 /\ Cardinality(Begun(t)) = 0
          /\ Cardinality(Unlogged(t, TRUE)) = 0 /\ Cardinality(Unlogged(t, FALSE)) = 0
      BY <1>2, NothingOpen
    <3> QED
      BY <3>1 DEF CallInv
  <2>5. session.tools[t].invoked \in Nat /\ session.tools[t].completed \in Nat
        /\ session.tools[t].error \in Nat
    BY DEF TurnTypeOK, SessionState
  <2> DEFINE s == Said(t) h == Heard(t, TRUE) g == Heard(t, FALSE)
             s1 == Said(t)' h1 == Heard(t, TRUE)' g1 == Heard(t, FALSE)'
             o == Cardinality(Open(t)') b == Cardinality(Begun(t)')
             u == Cardinality(Unlogged(t, TRUE)') v == Cardinality(Unlogged(t, FALSE)')
             r == session.tools[t]
  <2>a. /\ s \in Nat /\ h \in Nat /\ g \in Nat /\ s1 = s + o /\ h1 = h /\ g1 = g
        /\ o \in Nat /\ b \in Nat /\ u \in Nat /\ v \in Nat
        /\ s = h + g + 0 /\ r.invoked <= h + g + 0 /\ r.completed <= h + 0 /\ r.error <= g + 0
        /\ r.invoked \in Nat /\ r.completed \in Nat /\ r.error \in Nat
    BY <2>2, <2>3, <2>4, <2>5
  <2> HIDE DEF s, h, g, s1, h1, g1, o, b, u, v, r
  <2>b. s1 = h1 + g1 + o /\ r.invoked <= h1 + g1 + b /\ r.completed <= h1 + u /\ r.error <= g1 + v
    BY <2>a
  <2> QED
    BY <2>b DEF s, h, g, s1, h1, g1, o, b, u, v, r
<1> QED
  BY <1>4, <1>5 DEF CallInv

(* What the bridge counted.                                                *)
LEMMA Recorded ==
  ASSUME session \in SessionState, NEW k \in Tools,
         NEW event \in {"invoked", "completed", "error"}, RecordToolEvent(k, event)
  PROVE  \A t \in Tools :
           /\ session'.tools[t].invoked = session.tools[t].invoked
                + IF t = k /\ event = "invoked" THEN 1 ELSE 0
           /\ session'.tools[t].completed = session.tools[t].completed
                + IF t = k /\ event = "completed" THEN 1 ELSE 0
           /\ session'.tools[t].error = session.tools[t].error
                + IF t = k /\ event = "error" THEN 1 ELSE 0
<1> DEFINE Counts == [invoked : Nat, completed : Nat, error : Nat]
<1>1. session.tools \in [Tools -> Counts]
  BY DEF SessionState
<1>2. session'.tools = [session.tools EXCEPT ![k] = [session.tools[k] EXCEPT ![event] = @ + 1]]
  BY <1>1 DEF RecordToolEvent, SessionState
<1>3. ASSUME NEW r \in Counts
      PROVE  /\ [r EXCEPT ![event] = @ + 1].invoked = r.invoked + IF event = "invoked" THEN 1 ELSE 0
             /\ [r EXCEPT ![event] = @ + 1].completed
                  = r.completed + IF event = "completed" THEN 1 ELSE 0
             /\ [r EXCEPT ![event] = @ + 1].error = r.error + IF event = "error" THEN 1 ELSE 0
  OBVIOUS
<1>4. ASSUME NEW t \in Tools
      PROVE  /\ session.tools[t] \in Counts
             /\ session'.tools[t] = IF t = k THEN [session.tools[t] EXCEPT ![event] = @ + 1]
                                    ELSE session.tools[t]
  BY <1>1, <1>2
<1>5. ASSUME NEW t \in Tools
      PROVE  /\ session.tools[t].invoked + 0 = session.tools[t].invoked
             /\ session.tools[t].completed + 0 = session.tools[t].completed
             /\ session.tools[t].error + 0 = session.tools[t].error
  BY <1>1
<1> HIDE DEF Counts
<1> QED
  BY <1>3, <1>4, <1>5

(* One call moves on: what was recorded of it is what the sets gained.     *)
LEMMA CallsMove ==
  ASSUME TurnTypeOK, CallInv, NEW c, InTools(c), Call(c).at \in {"pre", "post"}, UNCHANGED emitted,
         NEW where \in {"post", "log"}, NEW ok \in BOOLEAN,
         Moves(c, where, ok),
         \/ session'.tools = session.tools
         \/ Call(c).at = "pre" /\ Call(c).kind \in Tools /\ RecordToolEvent(Call(c).kind, "invoked")
         \/ /\ Call(c).at = "post" /\ where = "log" /\ Call(c).kind \in Tools
            /\ RecordToolEvent(Call(c).kind, IF ok THEN "completed" ELSE "error")
  PROVE  CallInv'
<1>1. turn'.at = turn.at /\ turn.at = "tools" /\ c \in DOMAIN turn.calls
  BY CallMoves DEF InTools, TurnAt
<1>2. ASSUME NEW t \in Tools
      PROVE  /\ Said(t)' = Heard(t, TRUE)' + Heard(t, FALSE)' + Cardinality(Open(t)')
             /\ session'.tools[t].invoked <= Heard(t, TRUE)' + Heard(t, FALSE)'
                   + Cardinality(Begun(t)')
             /\ session'.tools[t].completed <= Heard(t, TRUE)' + Cardinality(Unlogged(t, TRUE)')
             /\ session'.tools[t].error <= Heard(t, FALSE)' + Cardinality(Unlogged(t, FALSE)')
  <2> DEFINE mine == Call(c).kind = t
             s == Said(t) h == Heard(t, TRUE) g == Heard(t, FALSE)
             s1 == Said(t)' h1 == Heard(t, TRUE)' g1 == Heard(t, FALSE)'
             o == Cardinality(Open(t)) o1 == Cardinality(Open(t)')
             b == Cardinality(Begun(t)) b1 == Cardinality(Begun(t)')
             u == Cardinality(Unlogged(t, TRUE)) u1 == Cardinality(Unlogged(t, TRUE)')
             v == Cardinality(Unlogged(t, FALSE)) v1 == Cardinality(Unlogged(t, FALSE)')
             r == session.tools[t] r1 == session'.tools[t]
  <2>1. s1 = s /\ h1 = h /\ g1 = g
    BY DEF Said, Heard
  <2>2. h \in Nat /\ g \in Nat
    <3>1. [seq |-> 0, width |-> 1, kind |-> "end", value |-> "error"] \in Entry
      BY DEF Entry
    <3> QED
      BY <3>1, OccurrencesAppend DEF Heard, Results, TurnTypeOK
  <2>3. o \in Nat /\ b \in Nat /\ u \in Nat /\ v \in Nat
    BY SetsFinite
  <2>4. r.invoked \in Nat /\ r.completed \in Nat /\ r.error \in Nat
    BY DEF TurnTypeOK, SessionState
  <2>5. s = h + g + o /\ r.invoked <= h + g + b /\ r.completed <= h + u /\ r.error <= g + v
    BY DEF CallInv
  <2>6. ASSUME NEW x \in BOOLEAN
        PROVE  /\ Open(t)' = Open(t)
               /\ Begun(t)' = IF mine THEN Begun(t) \cup {c} ELSE Begun(t)
               /\ Unlogged(t, x)' = IF mine /\ where = "log" /\ ok = x
                                    THEN Unlogged(t, x) \cup {c} ELSE Unlogged(t, x)
    <3>1. Call(c).at # "over" /\ Call(c).at # "log" /\ where # "over"
          /\ where \in {"post", "log", "over"}
      OBVIOUS
    <3> HIDE DEF mine
    <3>3. /\ where # "over" =>
              /\ Open(t)' = Open(t)
              /\ Begun(t)' = IF Call(c).kind = t THEN Begun(t) \cup {c} ELSE Begun(t)
          /\ where # "over" /\ Call(c).at # "log" =>
              Unlogged(t, x)' = IF Call(c).kind = t /\ where = "log" /\ ok = x
                                THEN Unlogged(t, x) \cup {c} ELSE Unlogged(t, x)
      BY <3>1, SetsMove
    <3> QED
      BY <3>1, <3>3 DEF mine
  <2>7. /\ Call(c).at = "pre" => c \notin Begun(t)
        /\ c \notin Unlogged(t, TRUE) /\ c \notin Unlogged(t, FALSE)
    BY DEF Begun, Unlogged, Call
  <2>8. /\ o1 = o /\ b1 \in Nat /\ b <= b1
        /\ mine /\ Call(c).at = "pre" => b1 = b + 1
    <3>1. o1 = o
      BY <2>6
    <3>2. CASE mine
      <4>1. Begun(t)' = Begun(t) \cup {c}
        BY <2>6, <3>2
      <4>2. IsFiniteSet(Begun(t))
        BY SetsFinite
      <4>3. /\ c \notin Begun(t) => Cardinality(Begun(t) \cup {c}) = Cardinality(Begun(t)) + 1
            /\ Cardinality(Begun(t)) <= Cardinality(Begun(t) \cup {c})
            /\ Cardinality(Begun(t) \cup {c}) \in Nat
        BY <4>2, OneMore
      <4> QED
        BY <2>7, <3>1, <4>1, <4>3
    <3>3. CASE ~mine
      <4>1. b1 = b
        BY <2>6, <3>3
      <4> HIDE DEF b, b1
      <4> QED
        BY <2>3, <3>1, <3>3, <4>1
    <3> QED
      BY <3>2, <3>3
  <2>9. ASSUME NEW x \in BOOLEAN
        PROVE  /\ Cardinality(Unlogged(t, x)') \in Nat
               /\ Cardinality(Unlogged(t, x)) <= Cardinality(Unlogged(t, x)')
               /\ mine /\ where = "log" /\ ok = x =>
                    Cardinality(Unlogged(t, x)') = Cardinality(Unlogged(t, x)) + 1
    <3>1. c \notin Unlogged(t, x)
      BY DEF Unlogged, Call
    <3>2. CASE mine /\ where = "log" /\ ok = x
      <4>1. Unlogged(t, x)' = Unlogged(t, x) \cup {c}
        BY <2>6, <3>2
      <4>2. IsFiniteSet(Unlogged(t, x))
        BY SetsFinite
      <4>3. /\ Cardinality(Unlogged(t, x) \cup {c}) = Cardinality(Unlogged(t, x)) + 1
            /\ Cardinality(Unlogged(t, x)) <= Cardinality(Unlogged(t, x) \cup {c})
            /\ Cardinality(Unlogged(t, x) \cup {c}) \in Nat
        BY <3>1, <4>2, OneMore
      <4> QED
        BY <4>1, <4>3
    <3>3. CASE ~(mine /\ where = "log" /\ ok = x)
      <4>1. Unlogged(t, x)' = Unlogged(t, x)
        BY <2>6, <3>3
      <4>2. Cardinality(Unlogged(t, x)) \in Nat
        BY SetsFinite
      <4> QED
        BY <3>3, <4>1, <4>2
    <3> QED
      BY <3>2, <3>3
  <2>13. /\ u1 \in Nat /\ v1 \in Nat /\ u <= u1 /\ v <= v1
         /\ mine /\ where = "log" /\ ok => u1 = u + 1
         /\ mine /\ where = "log" /\ ~ok => v1 = v + 1
    BY <2>9
  <2>10. /\ r1.invoked \in {r.invoked,
                           IF mine /\ Call(c).at = "pre" THEN r.invoked + 1 ELSE r.invoked}
         /\ r1.completed \in {r.completed, IF mine /\ where = "log" /\ ok
                                           THEN r.completed + 1 ELSE r.completed}
         /\ r1.error \in {r.error, IF mine /\ where = "log" /\ ~ok THEN r.error + 1 ELSE r.error}
    <3>0. session \in SessionState
      BY DEF TurnTypeOK
    <3>1. CASE session'.tools = session.tools
      BY <3>1
    <3>2. CASE /\ Call(c).at = "pre" /\ Call(c).kind \in Tools
               /\ RecordToolEvent(Call(c).kind, "invoked")
      <4>1. PICK k \in Tools : k = Call(c).kind
        BY <3>2
      <4>2. RecordToolEvent(k, "invoked")
        BY <3>2, <4>1
      <4>3. /\ r1.invoked = r.invoked + IF t = k THEN 1 ELSE 0
            /\ r1.completed = r.completed + 0 /\ r1.error = r.error + 0
        BY <3>0, <4>2, Recorded
      <4> HIDE DEF r, r1
      <4> QED
        BY <2>4, <3>2, <4>1, <4>3
    <3>3. CASE /\ Call(c).at = "post" /\ where = "log" /\ Call(c).kind \in Tools
               /\ RecordToolEvent(Call(c).kind, IF ok THEN "completed" ELSE "error")
      <4>1. PICK k \in Tools : k = Call(c).kind
        BY <3>3
      <4>2. RecordToolEvent(k, IF ok THEN "completed" ELSE "error")
        BY <3>3, <4>1
      <4>3. /\ r1.invoked = r.invoked + 0
            /\ r1.completed = r.completed + IF t = k /\ ok THEN 1 ELSE 0
            /\ r1.error = r.error + IF t = k /\ ~ok THEN 1 ELSE 0
        BY <3>0, <4>2, Recorded
      <4> HIDE DEF r, r1
      <4> QED
        BY <2>4, <3>3, <4>1, <4>3
    <3> QED
      BY <3>1, <3>2, <3>3
  <2> HIDE DEF s, h, g, s1, h1, g1, o, o1, b, b1, u, u1, v, v1, r, r1, mine
  <2>11. s1 = h1 + g1 + o1 /\ r1.invoked <= h1 + g1 + b1
    BY <2>1, <2>2, <2>3, <2>4, <2>5, <2>8, <2>10
  <2>12. r1.completed <= h1 + u1 /\ r1.error <= g1 + v1
    BY <2>1, <2>2, <2>3, <2>4, <2>5, <2>10, <2>13
  <2> QED
    BY <2>11, <2>12 DEF s, h, g, s1, h1, g1, o, o1, b, b1, u, u1, v, v1, r, r1
<1> QED
  BY <1>1, <1>2 DEF CallInv

(* A set without one, which may not have been in it.                       *)
LEMMA OneLess ==
  ASSUME NEW S, IsFiniteSet(S), NEW x
  PROVE  Cardinality(S \ {x}) = Cardinality(S) - IF x \in S THEN 1 ELSE 0
<1>1. Cardinality(S) \in Nat
  BY FS_CardinalityType
<1>2. CASE x \in S
  BY <1>2, FS_RemoveElement
<1>3. CASE x \notin S
  <2>1. S \ {x} = S
    BY <1>3
  <2>2. Cardinality(S \ {x}) = Cardinality(S)
    BY <2>1
  <2>3. Cardinality(S) = Cardinality(S) - 0
    BY <1>1
  <2> QED
    BY <1>3, <2>2, <2>3
<1> QED
  BY <1>2, <1>3

(* A call whose result is in the turn is over.                             *)
LEMMA CallsLogged == ASSUME TurnTypeOK, CallInv, NEW c, LogResult(c) PROVE CallInv'
<1>1. PICK e \in Entry, kept \in BOOLEAN :
        e.kind = "result" /\ e.value = <<Call(c).kind, Call(c).ok>> /\ Emitted(e, kept)
  BY ResultRow DEF Logged
<1>2. InTools(c) /\ Call(c).at = "log" /\ Step(c, "over") /\ UNCHANGED session
  BY DEF LogResult
<1>3. Call(c) \in CallState /\ c \in DOMAIN turn.calls
  BY <1>2, CallType
<1>4. Call(c).ok \in BOOLEAN /\ Moves(c, "over", Call(c).ok)
  BY <1>2, <1>3 DEF Moves, CallState
<1>5. turn'.at = turn.at /\ turn.at = "tools"
  BY <1>2, <1>4, CallMoves DEF InTools, TurnAt
<1>6. ASSUME NEW t \in Tools
      PROVE  /\ Said(t)' = Heard(t, TRUE)' + Heard(t, FALSE)' + Cardinality(Open(t)')
             /\ session.tools[t].invoked <= Heard(t, TRUE)' + Heard(t, FALSE)'
                   + Cardinality(Begun(t)')
             /\ session.tools[t].completed <= Heard(t, TRUE)' + Cardinality(Unlogged(t, TRUE)')
             /\ session.tools[t].error <= Heard(t, FALSE)' + Cardinality(Unlogged(t, FALSE)')
  <2> DEFINE mine == Call(c).kind = t ok == Call(c).ok
             s == Said(t) h == Heard(t, TRUE) g == Heard(t, FALSE)
             s1 == Said(t)' h1 == Heard(t, TRUE)' g1 == Heard(t, FALSE)'
             o == Cardinality(Open(t)) o1 == Cardinality(Open(t)')
             b == Cardinality(Begun(t)) b1 == Cardinality(Begun(t)')
             u == Cardinality(Unlogged(t, TRUE)) u1 == Cardinality(Unlogged(t, TRUE)')
             v == Cardinality(Unlogged(t, FALSE)) v1 == Cardinality(Unlogged(t, FALSE)')
             r == session.tools[t]
  <2>1. ASSUME NEW x \in BOOLEAN
        PROVE  /\ Said(t) \in Nat /\ Said(t)' = Said(t) /\ Heard(t, x) \in Nat
               /\ Heard(t, x)' = Heard(t, x) + IF e.value = <<t, x>> THEN 1 ELSE 0
    BY <1>1, RowSays
  <2>2. ASSUME NEW x \in BOOLEAN
        PROVE  e.value = <<t, x>> <=> mine /\ ok = x
    BY <1>1
  <2>3. /\ s1 = s /\ h \in Nat /\ g \in Nat
        /\ h1 = h + (IF mine /\ ok = TRUE THEN 1 ELSE 0)
        /\ g1 = g + (IF mine /\ ok = FALSE THEN 1 ELSE 0)
    <3>1. s1 = s /\ h \in Nat /\ h1 = h + (IF mine /\ ok = TRUE THEN 1 ELSE 0)
      BY <2>1, <2>2
    <3>2. g \in Nat /\ g1 = g + (IF mine /\ ok = FALSE THEN 1 ELSE 0)
      BY <2>1, <2>2
    <3> QED
      BY <3>1, <3>2
  <2>4. o \in Nat /\ b \in Nat /\ u \in Nat /\ v \in Nat
    BY SetsFinite
  <2>5. r.invoked \in Nat /\ r.completed \in Nat /\ r.error \in Nat
    BY DEF TurnTypeOK, SessionState
  <2>6. s = h + g + o /\ r.invoked <= h + g + b /\ r.completed <= h + u /\ r.error <= g + v
    BY DEF CallInv
  <2>7. ASSUME NEW x \in BOOLEAN
        PROVE  /\ Open(t)' = Open(t) \ {c} /\ Begun(t)' = Begun(t) \ {c}
               /\ Unlogged(t, x)' = Unlogged(t, x) \ {c}
    <3>1. Call(c).at # "over" /\ "over" \in {"post", "log", "over"}
      BY <1>2
    <3> QED
      BY <1>2, <1>4, <3>1, SetsMove
  <2>8. /\ c \in Open(t) <=> mine
        /\ c \in Begun(t) <=> mine
        /\ \A x \in BOOLEAN : c \in Unlogged(t, x) <=> mine /\ ok = x
    BY <1>2, <1>3 DEF Open, Begun, Unlogged, Call
  <2>9. /\ o1 = o - (IF mine THEN 1 ELSE 0) /\ b1 = b - (IF mine THEN 1 ELSE 0)
    <3>1. IsFiniteSet(Open(t)) /\ IsFiniteSet(Begun(t))
      BY SetsFinite
    <3>2. Open(t)' = Open(t) \ {c} /\ Begun(t)' = Begun(t) \ {c}
      BY <2>7
    <3> HIDE DEF mine
    <3> QED
      BY <2>8, <3>1, <3>2, OneLess
  <2>10. ASSUME NEW x \in BOOLEAN
         PROVE  Cardinality(Unlogged(t, x)')
                  = Cardinality(Unlogged(t, x)) - (IF mine /\ ok = x THEN 1 ELSE 0)
    <3>1. IsFiniteSet(Unlogged(t, x))
      BY SetsFinite
    <3>2. Unlogged(t, x)' = Unlogged(t, x) \ {c}
      BY <2>7
    <3>3. c \in Unlogged(t, x) <=> mine /\ ok = x
      BY <2>8
    <3> HIDE DEF mine, ok
    <3> QED
      BY <3>1, <3>2, <3>3, OneLess
  <2>11. /\ u1 = u - (IF mine /\ ok = TRUE THEN 1 ELSE 0)
         /\ v1 = v - (IF mine /\ ok = FALSE THEN 1 ELSE 0)
    BY <2>10
  <2>12. ok = TRUE \/ ok = FALSE
    BY <1>4
  <2> HIDE DEF s, h, g, s1, h1, g1, o, o1, b, b1, u, u1, v, v1, r, mine, ok
  <2>13. s1 = h1 + g1 + o1 /\ r.invoked <= h1 + g1 + b1
    BY <2>3, <2>4, <2>5, <2>6, <2>9, <2>12
  <2>14. r.completed <= h1 + u1 /\ r.error <= g1 + v1
    BY <2>3, <2>4, <2>5, <2>6, <2>11, <2>12
  <2> QED
    BY <2>13, <2>14 DEF s, h, g, s1, h1, g1, o, o1, b, b1, u, u1, v, v1, r
<1> QED
  BY <1>2, <1>5, <1>6 DEF CallInv

(* A step ends with nothing open.                                          *)
LEMMA CallsOver == ASSUME TurnTypeOK, CallInv, StepEnds PROVE CallInv'
<1>1. turn'.calls = <<>> /\ UNCHANGED <<session, emitted>>
      /\ \A c \in DOMAIN turn.calls : turn.calls[c].at = "over"
  BY DEF StepEnds, Call, TurnTypeOK, TurnState
<1>2. \A t, ok : Open(t) = {} /\ Begun(t) = {} /\ Unlogged(t, ok) = {}
  BY <1>1 DEF Open, Begun, Unlogged
<1>3. \A t, ok : Open(t)' = {} /\ Begun(t)' = {} /\ Unlogged(t, ok)' = {}
  BY <1>1 DEF Open, Begun, Unlogged
<1>4. \A t, ok : Said(t)' = Said(t) /\ Heard(t, ok)' = Heard(t, ok)
  BY <1>1 DEF Said, Heard
<1>5. ASSUME NEW t
      PROVE  /\ Open(t)' = Open(t) /\ Begun(t)' = Begun(t) /\ Said(t)' = Said(t)
             /\ \A ok : Unlogged(t, ok)' = Unlogged(t, ok) /\ Heard(t, ok)' = Heard(t, ok)
  BY <1>2, <1>3, <1>4
<1> QED
  BY <1>1, <1>5 DEF CallInv

(* What the bridge has counted stays what the calls of the turn came to.   *)
LEMMA CallStep == TurnTypeOK /\ CallInv /\ [TurnNext]_turnVars => CallInv'
<1> SUFFICES ASSUME TurnTypeOK, CallInv, [TurnNext]_turnVars PROVE CallInv'
  OBVIOUS
<1>0. turn \in TurnState /\ session \in SessionState
  BY DEF TurnTypeOK
<1>1. CASE Reject \/ MiddlewareRejects \/ Conclude
  <2>1. turn.at # "tools" /\ UNCHANGED session
    BY <1>1 DEF Reject, MiddlewareRejects, Conclude, TurnAt
  <2>2. PICK reason : Ended(reason)
    BY <1>1, EndSteps DEF EndsTurn
  <2> QED
    BY <2>1, <2>2, CallsEnd
<1>2. CASE RunCordis \/ MiddlewareLooks \/ UNCHANGED turnVars
           \/ \E status \in {"zero", "nonzero"} : Judge(status)
  <2>1. UNCHANGED <<session, turn, emitted>>
    BY <1>2 DEF RunCordis, MiddlewareLooks, turnVars, Judge
  <2> QED
    BY <2>1, CallsRest DEF CallInv
<1>3. CASE Remind \/ SnapshotFails
  <2>1. UNCHANGED <<session, emitted>> /\ turn.at = "next" /\ turn' = [turn EXCEPT !.at = "model"]
    BY <1>3 DEF Remind, SnapshotFails, TurnAt
  <2>2. turn'.calls = turn.calls /\ turn.calls = <<>>
    BY <1>0, <2>1 DEF CallInv, TurnState
  <2> QED
    BY <2>1, <2>2, CallsRest
<1>9. CASE HookThrows
  <2>1. turn.at = "pre" /\ session'.tools = session.tools
    BY <1>9, HookStep
  <2>2. CASE \E reason \in {"completed", "rejected", "error"} : Ended(reason)
    BY <2>1, <2>2, CallsEnd
  <2>3. CASE UNCHANGED emitted /\ turn'.at = "model" /\ turn'.calls = turn.calls
    BY <2>1, <2>3, CallsRest DEF CallInv
  <2> QED
    BY <1>9, <2>2, <2>3, HookStep
<1>10. CASE RecordRequest
  BY <1>10, CallsRest DEF RecordRequest, CallInv
<1>4. CASE InvokeMiddlewares
  <2>1. /\ UNCHANGED emitted /\ turn.at = "pre"
           /\ turn' = [turn EXCEPT !.step = @ + 1, !.at = "next"]
        /\ session'.tools = session.tools
    BY <1>0, <1>4 DEF InvokeMiddlewares, TurnAt, SessionState
  <2>2. turn'.calls = turn.calls /\ turn.calls = <<>>
    BY <1>0, <2>1 DEF CallInv, TurnState
  <2> QED
    BY <2>1, <2>2, CallsRest
<1>5. ASSUME NEW m \in Middlewares, MiddlewareFails(m) PROVE CallInv'
  <2>1. UNCHANGED <<turn, emitted>> /\ session'.tools = session.tools
    BY <1>0, <1>5 DEF MiddlewareFails, SessionState
  <2> QED
    BY <2>1, CallsRest DEF CallInv
<1>6. CASE Answer
  <2>1. PICK calls \in Seq(CallKinds) : Answered(calls)
    BY <1>6, AnswerRow
  <2> QED
    BY <1>6, <2>1, CallsOpen DEF Answer, TurnAt
<1>7. CASE AnswerFails
  <2>1. turn.at # "tools" /\ UNCHANGED session
    BY <1>7 DEF AnswerFails, TurnAt
  <2>2. CASE EndTurn("error")
    BY <2>1, <2>2, EndRow, CallsEnd
  <2>3. CASE UNCHANGED <<turn, log, emitted>>
    BY <2>1, <2>3, CallsRest DEF CallInv
  <2> QED
    BY <1>7, <2>2, <2>3 DEF AnswerFails
<1>8. ASSUME NEW c, \/ Evaluate(c) \/ PreExecute(c) \/ PreExecuteFails(c)
                    \/ PostExecute(c) \/ PostExecuteFails(c)
      PROVE  CallInv'
  <2>1. InTools(c) /\ UNCHANGED emitted /\ Call(c).at \in {"pre", "post"}
    BY <1>8 DEF Evaluate, PreExecute, PreExecuteFails, PostExecute, PostExecuteFails
  <2>2. Call(c) \in CallState /\ Call(c).ok \in BOOLEAN
    BY <2>1, CallType DEF CallState
  <2>3. CASE Evaluate(c)
    <3>1. session'.tools = session.tools /\ Moves(c, "log", TRUE)
      BY <1>0, <2>3 DEF Evaluate, Moves, SessionState
    <3> QED
      BY <2>1, <3>1, CallsMove
  <2>4. CASE PreExecute(c)
    <3>1. Call(c).at = "pre" /\ Call(c).kind \in Tools /\ RecordToolEvent(Call(c).kind, "invoked")
          /\ Moves(c, "post", Call(c).ok)
      BY <2>4 DEF PreExecute, Moves
    <3> QED
      BY <2>1, <2>2, <3>1, CallsMove
  <2>5. CASE PreExecuteFails(c)
    <3>1. session'.tools = session.tools /\ \E where \in {"post", "log"} : Moves(c, where, FALSE)
      BY <2>5 DEF PreExecuteFails, Moves
    <3> QED
      BY <2>1, <3>1, CallsMove
  <2>6. CASE PostExecute(c)
    <3>1. PICK ok \in BOOLEAN :
            /\ RecordToolEvent(Call(c).kind, IF ok THEN "completed" ELSE "error")
            /\ Moves(c, "log", ok) /\ Call(c).at = "post"
      BY <2>2, <2>6 DEF PostExecute, Moves
    <3>2. CASE Call(c).kind \in Tools
      BY <2>1, <3>1, <3>2, CallsMove
    <3>3. CASE Call(c).kind \notin Tools
      <4>1. session'.tools = session.tools
        BY <1>0, <3>1, <3>3 DEF RecordToolEvent, SessionState
      <4> QED
        BY <2>1, <3>1, <4>1, CallsMove
    <3> QED
      BY <3>2, <3>3
  <2>7. CASE PostExecuteFails(c)
    <3>1. session'.tools = session.tools /\ \E ok \in BOOLEAN : Moves(c, "log", ok)
      BY <2>2, <2>7 DEF PostExecuteFails, Moves
    <3> QED
      BY <2>1, <3>1, CallsMove
  <2> QED
    BY <1>8, <2>3, <2>4, <2>5, <2>6, <2>7
<1> QED
  BY <1>1, <1>2, <1>3, <1>4, <1>5, <1>6, <1>7, <1>8, <1>9, <1>10, CallsLogged, CallsOver
     DEF TurnNext, Bridge, Candidate, Model, Dispatch

-------------------------------------------------------------------------------
(* A turn: the counts.                                                     *)

(* The score counts the gains.                                             *)
LEMMA ScoreCount ==
  ASSUME TurnTypeOK, session.best = Count(evaluated), [TurnNext]_turnVars
  PROVE  session'.best = Count(evaluated')
<1>0. session \in SessionState /\ evaluated \in Seq(BOOLEAN)
  BY DEF TurnTypeOK
<1>1. ASSUME NEW c \in Calls, Evaluate(c) PROVE session'.best = Count(evaluated')
  <2>1. CASE UNCHANGED <<session, evaluated>>
    BY <2>1
  <2>2. ASSUME NEW gain \in BOOLEAN,
               session' = [session EXCEPT !.evals = @ + 1, !.best = IF gain THEN @ + 1 ELSE @],
               evaluated' = Append(evaluated, gain)
        PROVE  session'.best = Count(evaluated')
    <3> DEFINE more == Append(evaluated, gain)
    <3>1. /\ more \in Seq(BOOLEAN) /\ Len(more) = Len(evaluated) + 1 /\ more[Len(more)] = gain
          /\ \A i \in 1 .. Len(evaluated) : evaluated[i] = more[i]
      BY <1>0
    <3> HIDE DEF more
    <3>2. Count(more) = Count(evaluated) + (IF more[Len(more)] THEN 1 ELSE 0)
      BY <1>0, <3>1, CountMore
    <3>3. Count(evaluated) \in Nat
      BY <1>0, CountNat
    <3>4. session'.best = IF gain THEN session.best + 1 ELSE session.best
      BY <1>0, <2>2 DEF SessionState
    <3>5. CASE gain
      BY <3>1, <3>2, <3>3, <3>4, <3>5, <2>2 DEF more
    <3>6. CASE ~gain
      BY <3>1, <3>2, <3>3, <3>4, <3>6, <2>2 DEF more
    <3> QED
      BY <3>5, <3>6
  <2> QED
    BY <1>1, <2>1, <2>2 DEF Evaluate
<1>2. ASSUME \A c \in Calls : ~Evaluate(c) PROVE session'.best = Count(evaluated')
  BY <1>2, ScoreStep
<1> QED
  BY <1>1, <1>2

(* An answer is a new row of the turn.                                     *)
LEMMA AnswerIsNew == TurnTypeOK /\ UNCHANGED emitted => ~Answer
<1>1. TurnTypeOK => emitted \in Seq(Entry)
  BY DEF TurnTypeOK
<1>2. Answer => \E e : emitted' = Append(emitted, e)
  BY DEF Answer, Emit
<1>3. emitted \in Seq(Entry) => \A e : Append(emitted, e) # emitted
  OBVIOUS
<1> QED
  BY <1>1, <1>2, <1>3

(* A try that fails has given Cordis no answer.                            *)
LEMMA AnswerIsUsed == TurnTypeOK /\ AnswerFails => ~Answer
<1> SUFFICES ASSUME TurnTypeOK, AnswerFails, Answer PROVE FALSE
  OBVIOUS
<1>1. turn'.at # "ended"
  BY AnswerRow DEF Answered, TurnTypeOK, TurnState
<1>2. CASE EndTurn("error")
  BY <1>1, <1>2 DEF EndTurn, TurnTypeOK, TurnState
<1>3. CASE UNCHANGED emitted
  BY <1>3, AnswerIsNew
<1> QED
  BY <1>2, <1>3 DEF AnswerFails

(* What is asked of the proxy, what it answers and what it records.        *)
LEMMA ProxyStep ==
  ASSUME TurnTypeOK, [TurnNext]_turnVars
  PROVE  \/ ~Answer /\ UNCHANGED proxy
         \/ /\ ~Answer /\ proxy'.sent = proxy.sent
            /\ proxy'.audit + proxy'.held = proxy.audit + proxy.held
         \/ \E payload \in Payloads, passed \in BOOLEAN :
              /\ proxy'.sent = proxy.sent \cup {Rewrite(payload)} /\ (Answer => passed)
              /\ proxy'.audit + proxy'.held
                   = proxy.audit + (IF passed THEN proxy.held + 1 ELSE proxy.held)
<1>1. CASE Answer
  <2>1. PICK payload \in Payloads : Forward(payload, TRUE, TRUE)
    BY <1>1 DEF Answer
  <2> QED
    BY <2>1, ForwardCounts
<1>2. CASE AnswerFails
  <2>1. PICK payload \in Payloads, passed \in BOOLEAN : Forward(payload, passed, FALSE)
    BY <1>2 DEF AnswerFails
  <2>2. proxy.tries <= MaxRetries /\ ~Answer
    BY <1>2, AnswerIsUsed DEF AnswerFails
  <2> QED
    BY <2>1, <2>2, ForwardCounts
<1>3. CASE RecordRequest
  <2>1. ~Answer
    BY <1>3, AnswerIsNew DEF RecordRequest
  <2> QED
    BY <1>3, <2>1, RecordCounts
<1>4. CASE HookThrows
  BY <1>4, HookStep DEF Answer, TurnAt
<1>5. CASE Reject \/ MiddlewareRejects \/ Conclude
  BY <1>5 DEF Reject, MiddlewareRejects, Conclude, TurnAt, Answer
<1>6. ASSUME NEW c, LogResult(c)
      PROVE  UNCHANGED proxy /\ ~Answer
  BY <1>6 DEF LogResult, InTools, TurnAt, Answer
<1>7. ASSUME \/ RunCordis \/ InvokeMiddlewares \/ MiddlewareLooks \/ Remind \/ SnapshotFails
                \/ StepEnds
             \/ \E m \in Middlewares : MiddlewareFails(m)
             \/ \E c \in Calls : \/ Evaluate(c) \/ PreExecute(c) \/ PreExecuteFails(c)
                                 \/ PostExecute(c) \/ PostExecuteFails(c)
             \/ \E status \in {"zero", "nonzero"} : Judge(status)
             \/ UNCHANGED turnVars
      PROVE  UNCHANGED proxy /\ ~Answer
  <2>1. UNCHANGED emitted /\ UNCHANGED proxy
    BY <1>7 DEF RunCordis, InvokeMiddlewares, MiddlewareLooks, Remind, SnapshotFails, StepEnds,
       MiddlewareFails, Evaluate, PreExecute, PreExecuteFails, PostExecute, PostExecuteFails,
       Judge, turnVars
  <2> QED
    BY <2>1, AnswerIsNew
<1> QED
  BY <1>1, <1>2, <1>3, <1>4, <1>5, <1>6, <1>7 DEF TurnNext, Bridge, Candidate, Model, Dispatch

(* Every request goes out under the seed of the campaign.                  *)
LEMMA SeedStep ==
  ASSUME TurnTypeOK, [TurnNext]_turnVars, Endpoint.seed # None,
         \A body \in proxy.sent : body.seed = Endpoint.seed
  PROVE  \A body \in proxy'.sent : body.seed = Endpoint.seed
<1>1. \A payload : Rewrite(payload).seed = Endpoint.seed
  <2>1. "seed" \in DOMAIN Sampling /\ Sampling["seed"] = Endpoint.seed
    BY DEF Sampling
  <2> QED
    BY <2>1 DEF Rewrite
<1> QED
  BY <1>1, ProxyStep

(* What a step adds to the turn.                                           *)
LEMMA EventStep ==
  ASSUME TurnTypeOK, [TurnNext]_turnVars
  PROVE  \/ UNCHANGED emitted /\ ~Answer
         \/ /\ ~Answer
            /\ \E e \in Entry : e.kind # "message" /\ emitted' = Append(emitted, e)
         \/ /\ Answer
            /\ \E e \in Entry : e.kind = "message" /\ emitted' = Append(emitted, e)
<1>1. Answer => \E e \in Entry : e.kind = "message" /\ emitted' = Append(emitted, e)
  BY AnswerRow DEF Answered, Emitted
<1>2. \A reason : Ended(reason) =>
        \E e \in Entry : e.kind # "message" /\ emitted' = Append(emitted, e)
  BY DEF Ended, Emitted
<1>3. Reject \/ MiddlewareRejects \/ Conclude => \E reason : Ended(reason)
  BY EndSteps DEF EndsTurn
<1>9. HookThrows => UNCHANGED emitted \/ \E reason : Ended(reason)
  BY HookStep
<1>10. RecordRequest => UNCHANGED emitted
  BY DEF RecordRequest
<1>4. AnswerFails => UNCHANGED emitted \/ \E reason : Ended(reason)
  BY EndRow DEF AnswerFails
<1>5. \A c : LogResult(c) => \E e \in Entry : e.kind # "message" /\ emitted' = Append(emitted, e)
  BY ResultRow DEF Logged, Emitted
<1>6. ASSUME \/ RunCordis \/ InvokeMiddlewares \/ MiddlewareLooks \/ Remind \/ SnapshotFails
                \/ StepEnds
             \/ \E m \in Middlewares : MiddlewareFails(m)
             \/ \E c \in Calls : \/ Evaluate(c) \/ PreExecute(c) \/ PreExecuteFails(c)
                                 \/ PostExecute(c) \/ PostExecuteFails(c)
             \/ \E status \in {"zero", "nonzero"} : Judge(status)
             \/ UNCHANGED turnVars
      PROVE  UNCHANGED emitted
  BY <1>6 DEF RunCordis, InvokeMiddlewares, MiddlewareLooks, Remind, SnapshotFails, StepEnds,
     MiddlewareFails, Evaluate, PreExecute, PreExecuteFails, PostExecute, PostExecuteFails,
     Judge, turnVars
<1>7. CASE Answer
  BY <1>1, <1>7
<1>8. CASE ~Answer
  BY <1>2, <1>3, <1>4, <1>5, <1>6, <1>8, <1>9, <1>10
     DEF TurnNext, Bridge, Candidate, Model, Dispatch
<1> QED
  BY <1>7, <1>8

(* What a step adds to the messages of the turn.                           *)
LEMMA MessageStep ==
  ASSUME TurnTypeOK, [TurnNext]_turnVars
  PROVE  /\ ModelCalls(emitted) \in Nat
         /\ ModelCalls(emitted') = IF Answer THEN ModelCalls(emitted) + 1 ELSE ModelCalls(emitted)
<1>1. emitted \in Seq(Entry)
  BY DEF TurnTypeOK
<1>2. ModelCalls(emitted) \in Nat
  <2>1. [seq |-> 0, width |-> 1, kind |-> "end", value |-> "error"] \in Entry
    BY DEF Entry
  <2> QED
    BY <1>1, <2>1, ModelCallsAppend
<1>3. ASSUME NEW e \in Entry, emitted' = Append(emitted, e)
      PROVE  ModelCalls(emitted') = IF e.kind = "message" THEN ModelCalls(emitted) + 1
                                    ELSE ModelCalls(emitted)
  <2>1. ModelCalls(emitted') = ModelCalls(emitted) + (IF e.kind = "message" THEN 1 ELSE 0)
    BY <1>1, <1>3, ModelCallsAppend
  <2> QED
    BY <1>2, <2>1
<1> QED
  BY <1>2, <1>3, EventStep

(* The proxy answered each message of the turn.                            *)
LEMMA AuditStep ==
  ASSUME TurnTypeOK, [TurnNext]_turnVars, ModelCalls(emitted) <= proxy.audit + proxy.held
  PROVE  ModelCalls(emitted') <= proxy'.audit + proxy'.held
<1>1. ModelCalls(emitted) \in Nat /\ proxy.audit \in Nat /\ proxy.held \in Nat
  BY MessageStep DEF TurnTypeOK, ProxyState
<1>2. CASE Answer
  <2>1. proxy'.audit + proxy'.held = proxy.audit + (proxy.held + 1)
    BY <1>2, ProxyStep
  <2> QED
    BY <1>1, <1>2, <2>1, MessageStep
<1>3. CASE ~Answer
  <2>1. proxy.audit + proxy.held <= proxy'.audit + proxy'.held
    BY <1>1, ProxyStep
  <2>2. ModelCalls(emitted') = ModelCalls(emitted)
    BY <1>3, MessageStep
  <2> DEFINE x == proxy'.audit + proxy'.held
  <2>3. x \in Int
    BY <1>1, ProxyStep
  <2> HIDE DEF x
  <2> QED
    BY <1>1, <2>1, <2>2, <2>3 DEF x
<1> QED
  BY <1>2, <1>3

(* What is lost stays lost.                                                *)
LEMMA LossStep ==
  ASSUME TurnTypeOK, [TurnNext]_turnVars
  PROVE  losses' \in Nat /\ losses' <= losses
<1>1. losses' = losses \/ Lose
  BY DEF TurnNext, Bridge, Candidate, Model, Dispatch, RunCordis, Reject, InvokeMiddlewares,
     HookThrows, MiddlewareLooks, MiddlewareFails, MiddlewareRejects, Remind, SnapshotFails,
     Answer, AnswerFails, RecordRequest, Evaluate, PreExecute, PreExecuteFails, PostExecute,
     PostExecuteFails, LogResult, StepEnds, Conclude, Judge, turnVars
<1>2. losses \in Nat
  BY AgentTurnAssumption DEF TurnTypeOK
<1> QED
  BY <1>1, <1>2 DEF Lose

(* The steps that leave the counts of the turn alone, and the others.      *)
LEMMA TurnStays ==
  ASSUME TurnTypeOK, StepInv, [TurnNext]_turnVars,
         turn'.step = turn.step, ModelCalls(emitted') = ModelCalls(emitted),
         \A m \in Middlewares : session'.middlewares[m].invoked = session.middlewares[m].invoked,
         \/ turn'.at = "ended" \/ turn'.at = turn.at
         \/ turn.at = "next" /\ turn'.at = "model"
         \/ turn.at = "tools" /\ turn'.at \in {"done", "pre"}
  PROVE  StepInv'
<1>1. turn.at \in {"pre", "next", "model", "tools", "done", "ended"} /\ turn.step \in Nat
      /\ \A m \in Middlewares : Reached(m) \in Nat
  BY AgentTurnAssumption DEF TurnTypeOK, TurnState, SessionState, Reached
<1>2. losses \in Nat /\ losses' \in Nat /\ losses' <= losses /\ MaxLosses \in Nat
  BY LossStep, AgentTurnAssumption DEF TurnTypeOK
<1>3. \A m \in Middlewares : Reached(m)' = Reached(m)
  BY DEF Reached
<1>4. ASSUME NEW m \in Middlewares
      PROVE  turn.step <= Reached(m) + (MaxLosses - losses')
  <2>1. turn.step <= Reached(m) + (MaxLosses - losses)
    BY DEF StepInv
  <2> QED
    BY <1>1, <1>2, <2>1
<1> QED
  BY <1>1, <1>3, <1>4 DEF StepInv

(* The middlewares keep up with the steps, up to what is lost.             *)
LEMMA StepStep ==
  ASSUME TurnTypeOK, StepInv, [TurnNext]_turnVars
  PROVE  StepInv'
<1>0. turn \in TurnState /\ session \in SessionState /\ ModelCalls(emitted) \in Nat
  BY MessageStep DEF TurnTypeOK
<1>a. /\ losses \in Nat /\ MaxLosses \in Nat /\ turn.step \in Nat
      /\ \A m \in Middlewares : Reached(m) \in Nat
  BY <1>0, AgentTurnAssumption DEF TurnTypeOK, TurnState, SessionState, Reached
<1>b. \A m \in Middlewares : /\ turn.step <= Reached(m) + (MaxLosses - losses)
                            /\ Reached(m) <= ModelCalls(emitted) + 1
  BY DEF StepInv
<1>1. CASE InvokeMiddlewares
  <2>1. turn.at = "pre" /\ turn'.step = turn.step + 1 /\ turn'.at = "next" /\ turn.step \in Nat
    BY <1>0, <1>1, AgentTurnAssumption DEF InvokeMiddlewares, TurnAt, TurnState
  <2>2. \A m \in Middlewares : Reached(m)' = Reached(m) + 1
    <3> DEFINE mw == [m \in Middlewares |-> [session.middlewares[m] EXCEPT !.invoked = @ + 1]]
    <3>1. session'.middlewares = mw
      BY <1>0, <1>1 DEF InvokeMiddlewares, SessionState
    <3>2. \A m \in Middlewares : mw[m].invoked = session.middlewares[m].invoked + 1
      BY <1>0 DEF SessionState
    <3> QED
      BY <3>1, <3>2 DEF Reached
  <2>3. emitted' = emitted /\ losses' = losses
    BY <1>1 DEF InvokeMiddlewares
  <2>4. turn.step = ModelCalls(emitted) /\ \A m \in Middlewares : Reached(m) <= turn.step
    BY <2>1 DEF StepInv
  <2> HIDE DEF Reached
  <2> QED
    BY <1>0, <1>a, <1>b, <2>1, <2>2, <2>3, <2>4 DEF StepInv
<1>4. CASE HookThrows
  <2>1. /\ turn.at = "pre" /\ losses' = losses - 1
        /\ \A m \in Middlewares : Reached(m)' \in {Reached(m), Reached(m) + 1}
    BY <1>4, HookStep DEF Reached
  <2>2. turn.step = ModelCalls(emitted) /\ \A m \in Middlewares : Reached(m) <= turn.step
    BY <2>1 DEF StepInv
  <2>3. ModelCalls(emitted') = ModelCalls(emitted)
    BY <2>1, MessageStep DEF Answer, TurnAt
  <2>4. \/ turn'.at = "ended" /\ turn'.step = turn.step
        \/ turn'.at = "model" /\ turn'.step = turn.step + 1
    BY <1>0, <1>4, HookStep DEF Ended, TurnState
  <2>5. ASSUME NEW m \in Middlewares
        PROVE  /\ turn'.step <= Reached(m)' + (MaxLosses - losses')
               /\ Reached(m)' <= ModelCalls(emitted') + 1
    <3>1. Reached(m)' = Reached(m) \/ Reached(m)' = Reached(m) + 1
      BY <2>1
    <3>2. turn.step <= Reached(m) + (MaxLosses - losses) /\ Reached(m) <= turn.step
      BY <1>b, <2>2
    <3> DEFINE after == Reached(m)'
               before == Reached(m)
    <3>3. after = before \/ after = before + 1
      BY <3>1
    <3>4. before \in Nat /\ turn.step <= before + (MaxLosses - losses) /\ before <= turn.step
      BY <1>a, <3>2
    <3>5. turn'.step <= turn.step + 1 /\ turn'.step \in Nat
      BY <1>a, <2>4
    <3> HIDE DEF after, before
    <3>6. turn'.step <= after + (MaxLosses - losses') /\ after <= ModelCalls(emitted') + 1
      BY <1>0, <1>a, <2>1, <2>2, <2>3, <3>3, <3>4, <3>5
    <3> QED
      BY <3>6 DEF after
  <2> QED
    BY <1>0, <2>2, <2>3, <2>4, <2>5 DEF StepInv
<1>2. CASE Answer
  <2>1. turn.at = "model" /\ UNCHANGED <<session, losses>>
    BY <1>2 DEF Answer, TurnAt
  <2>2. turn'.step = turn.step /\ turn'.at \in {"tools", "done"}
    <3>1. PICK calls \in Seq(CallKinds) : Answered(calls)
      BY <1>2, AnswerRow
    <3> QED
      BY <1>0, <3>1 DEF Answered, TurnState
  <2>3. ModelCalls(emitted') = ModelCalls(emitted) + 1
    BY <1>2, MessageStep
  <2>4. \A m \in Middlewares : Reached(m)' = Reached(m)
    BY <2>1 DEF Reached
  <2>5. turn.step = ModelCalls(emitted) + 1
    BY <2>1 DEF StepInv
  <2> QED
    BY <1>0, <1>a, <1>b, <2>1, <2>2, <2>3, <2>4, <2>5 DEF StepInv
<1>3. ASSUME ~InvokeMiddlewares, ~HookThrows, ~Answer PROVE StepInv'
  <2>1. ModelCalls(emitted') = ModelCalls(emitted)
    BY <1>3, MessageStep
  <2>2. \A reason : Ended(reason) => turn'.step = turn.step /\ turn'.at = "ended"
    BY <1>0 DEF Ended, TurnState
  <2>3. CASE Reject \/ MiddlewareRejects \/ Conclude \/ AnswerFails
    <3>1. UNCHANGED session
      BY <2>3 DEF Reject, MiddlewareRejects, Conclude, AnswerFails
    <3>2. UNCHANGED turn \/ \E reason : Ended(reason)
      BY <2>3, EndSteps, EndRow DEF EndsTurn, AnswerFails
    <3> QED
      BY <2>1, <2>2, <3>1, <3>2, TurnStays
  <2>4. CASE RunCordis \/ MiddlewareLooks \/ RecordRequest \/ UNCHANGED turnVars
             \/ \E status \in {"zero", "nonzero"} : Judge(status)
    <3>1. UNCHANGED <<session, turn>>
      BY <2>4 DEF RunCordis, MiddlewareLooks, RecordRequest, turnVars, Judge
    <3> QED
      BY <2>1, <3>1, TurnStays
  <2>5. CASE Remind \/ SnapshotFails
    <3>1. UNCHANGED session /\ turn.at = "next" /\ turn' = [turn EXCEPT !.at = "model"]
      BY <2>5 DEF Remind, SnapshotFails, TurnAt
    <3>2. turn'.step = turn.step /\ turn'.at = "model"
      BY <1>0, <3>1 DEF TurnState
    <3> QED
      BY <2>1, <3>1, <3>2, TurnStays
  <2>6. ASSUME NEW m \in Middlewares, MiddlewareFails(m) PROVE StepInv'
    <3>1. UNCHANGED turn /\ session' = [session EXCEPT !.middlewares[m].error = @ + 1]
      BY <2>6 DEF MiddlewareFails
    <3>2. \A n \in Middlewares : session'.middlewares[n].invoked = session.middlewares[n].invoked
      BY <1>0, <3>1 DEF SessionState
    <3> QED
      BY <2>1, <3>1, <3>2, TurnStays
  <2>7. ASSUME NEW c, \/ Evaluate(c) \/ PreExecute(c) \/ PreExecuteFails(c)
                      \/ PostExecute(c) \/ PostExecuteFails(c) \/ LogResult(c)
        PROVE  StepInv'
    <3>1. InTools(c)
      BY <2>7 DEF Evaluate, PreExecute, PreExecuteFails, PostExecute, PostExecuteFails, LogResult
    <3>2. \E where, ok : Step(c, where) \/ Ends(c, where, ok)
      BY <2>7 DEF Evaluate, PreExecute, PreExecuteFails, PostExecute, PostExecuteFails, LogResult
    <3>3. turn'.at = turn.at /\ turn'.step = turn.step
      BY <1>0, <3>2 DEF Step, Ends, TurnState
    <3>4. session'.middlewares = session.middlewares
      <4>1. CASE Evaluate(c)
        BY <1>0, <4>1 DEF Evaluate, SessionState
      <4>2. CASE PreExecute(c) \/ PostExecute(c)
        BY <4>2, SessionType DEF PreExecute, PostExecute
      <4>3. CASE PreExecuteFails(c) \/ PostExecuteFails(c) \/ LogResult(c)
        BY <4>3 DEF PreExecuteFails, PostExecuteFails, LogResult
      <4> QED
        BY <2>7, <4>1, <4>2, <4>3
    <3> QED
      BY <2>1, <3>3, <3>4, TurnStays
  <2>8. CASE StepEnds
    <3>1. UNCHANGED session /\ turn.at = "tools"
          /\ \E where \in {"done", "pre"} : turn' = [turn EXCEPT !.calls = <<>>, !.at = where]
      BY <2>8 DEF StepEnds, TurnAt
    <3>2. turn'.step = turn.step /\ turn'.at \in {"done", "pre"}
      BY <1>0, <3>1 DEF TurnState
    <3> QED
      BY <2>1, <3>1, <3>2, TurnStays
  <2> QED
    BY <1>3, <2>3, <2>4, <2>5, <2>6, <2>7, <2>8
       DEF TurnNext, Bridge, Candidate, Model, Dispatch
<1> QED
  BY <1>1, <1>2, <1>3, <1>4

(* The counts of a turn stay exact.                                        *)
LEMMA CountStep ==
  TurnTypeOK /\ CountInv /\ [TurnNext]_turnVars /\ UNCHANGED prompt => CountInv'
<1> SUFFICES ASSUME TurnTypeOK, CountInv, [TurnNext]_turnVars, UNCHANGED prompt PROVE CountInv'
  OBVIOUS
<1>1. session'.best = Count(evaluated')
  BY ScoreCount DEF CountInv
<1>2. Endpoint.seed # None => \A body \in proxy'.sent : body.seed = Endpoint.seed
  BY SeedStep DEF CountInv
<1>3. ModelCalls(emitted') <= proxy'.audit + proxy'.held
  BY AuditStep DEF CountInv
<1>4. StepInv'
  BY StepStep DEF CountInv
<1> QED
  BY <1>1, <1>2, <1>3, <1>4 DEF CountInv

-------------------------------------------------------------------------------
(* A turn: the row.                                                        *)

(* Only the log at depth zero is read, and only without a gap.             *)
LEMMA TopLevel ==
  ASSUME NEW rows, NEW other
  PROVE  LET files == {[depth |-> 0, created |-> 1, torn |-> FALSE, rows |-> rows],
                       [depth |-> 1, created |-> 2, torn |-> FALSE, rows |-> other]}
             top == FindTopLevel(files)
         IN top = None \/ (Readable(rows) /\ top.rows = rows)
<1> DEFINE mine == [depth |-> 0, created |-> 1, torn |-> FALSE, rows |-> rows]
           its == [depth |-> 1, created |-> 2, torn |-> FALSE, rows |-> other]
           top == {f \in {mine, its} : f.depth = 0 /\ ~f.torn /\ Readable(f.rows)}
<1>1. /\ mine.depth = 0 /\ mine.created = 1 /\ mine.torn = FALSE /\ mine.rows = rows
      /\ its.depth = 1
  OBVIOUS
<1>2. FindTopLevel({mine, its}) =
        IF top = {} THEN None ELSE CHOOSE f \in top : \A g \in top : g.created <= f.created
  BY DEF FindTopLevel
<1> HIDE DEF mine, its
<1>3. top \subseteq {mine} /\ (mine \in top => Readable(rows))
  BY <1>1
<1> HIDE DEF top
<1>4. CASE top = {}
  BY <1>2, <1>4 DEF mine, its
<1>5. CASE top # {}
  <2>1. top = {mine} /\ Readable(rows)
    BY <1>3, <1>5
  <2>2. mine.created <= mine.created
    BY <1>1
  <2>3. \E f \in top : \A g \in top : g.created <= f.created
    BY <2>1, <2>2
  <2>4. FindTopLevel({mine, its}) \in top
    BY <1>2, <1>5, <2>3
  <2>5. FindTopLevel({mine, its}) = mine
    BY <2>1, <2>4
  <2>6. FindTopLevel({mine, its}).rows = rows
    BY <1>1, <2>5
  <2> QED
    BY <2>1, <2>6 DEF mine, its
<1> QED
  BY <1>4, <1>5

(* A row that counts is made of a whole log of a turn that ended.          *)
LEMMA EligibleRow ==
  ASSUME TurnTypeOK, LogInv, NEW status \in {"zero", "nonzero"}, Judge(status), row'.eligible
  PROVE  /\ status = "zero" /\ turn.at = "ended" /\ log = emitted /\ Last(log).kind = "end"
         /\ MiddlewareIssues = {} /\ row' = Result("zero", emitted)
<1>1. PICK torn \in {status # "zero", FALSE} :
        LET end == [seq |-> 1, width |-> 1, kind |-> "end", value |-> "completed"]
            files == {[depth |-> 0, created |-> 1, torn |-> torn, rows |-> log],
                      [depth |-> 1, created |-> 2, torn |-> FALSE, rows |-> <<end>>]}
            top == FindTopLevel(files)
        IN row' = Result(status, IF top = None THEN <<>> ELSE top.rows)
  BY DEF Judge
<1>2. \A rows : Result(status, rows).eligible =>
        status = "zero" /\ CompletedTurn(rows) /\ MiddlewareIssues = {}
  BY DEF Result
<1>3. status = "zero" /\ MiddlewareIssues = {}
  BY <1>1, <1>2
<1>4. turn.at = "ended"
  BY <1>3 DEF Judge
<1>5. torn = FALSE
  BY <1>1, <1>3
<1> DEFINE end == [seq |-> 1, width |-> 1, kind |-> "end", value |-> "completed"]
           files == {[depth |-> 0, created |-> 1, torn |-> FALSE, rows |-> log],
                     [depth |-> 1, created |-> 2, torn |-> FALSE, rows |-> <<end>>]}
           top == FindTopLevel(files)
<1>6. row' = Result(status, IF top = None THEN <<>> ELSE top.rows)
  BY <1>1, <1>5
<1>7. PICK rows : rows = log
  OBVIOUS
<1>8. top = None \/ (Readable(log) /\ top.rows = log)
  <2>1. LET fs == {[depth |-> 0, created |-> 1, torn |-> FALSE, rows |-> rows],
                   [depth |-> 1, created |-> 2, torn |-> FALSE, rows |-> <<end>>]}
            tp == FindTopLevel(fs)
        IN tp = None \/ (Readable(rows) /\ tp.rows = rows)
    BY TopLevel
  <2> QED
    BY <1>7, <2>1
<1> HIDE DEF top
<1>9. ~CompletedTurn(<<>>)
  BY DEF CompletedTurn
<1>10. top # None /\ Readable(log) /\ row' = Result(status, log)
  BY <1>2, <1>6, <1>8, <1>9
<1>11. log = emitted /\ Last(log).kind = "end"
  BY <1>4, <1>10 DEF LogInv, Last
<1> QED
  BY <1>3, <1>4, <1>10, <1>11

(* What is left of the two counts.                                         *)
LEMMA LargerIsMax ==
  ASSUME NEW a \in Nat, NEW b \in Nat, a <= b
  PROVE  Max({a, b}) = b
<1>1. b \in {a, b} /\ \A y \in {a, b} : b >= y
  OBVIOUS
<1>2. \A x \in {a, b} : (\A y \in {a, b} : x >= y) => x = b
  OBVIOUS
<1> QED
  BY <1>1, <1>2 DEF Max

(* A reconciled count is the one of the log.                               *)
LEMMA ReconciledIsExact ==
  ASSUME TurnTypeOK, CallInv, turn.at = "ended", NEW t \in Tools
  PROVE  /\ Reconciled(Messages(emitted))[t].invoked = Said(t)
         /\ Reconciled(Messages(emitted))[t].completed + Reconciled(Messages(emitted))[t].error
               = Said(t)
<1> DEFINE r == session.tools[t]
<1>1. DOMAIN r = {"invoked", "completed", "error"}
      /\ r.invoked \in Nat /\ r.completed \in Nat /\ r.error \in Nat
  BY DEF TurnTypeOK, SessionState
<1>2. Heard(t, TRUE) \in Nat /\ Heard(t, FALSE) \in Nat /\ Said(t) \in Nat
  <2>1. [seq |-> 0, width |-> 1, kind |-> "end", value |-> "error"] \in Entry
    BY DEF Entry
  <2> QED
    BY <2>1, OccurrencesAppend DEF Said, Uses, Heard, Results, TurnTypeOK
<1>3. /\ Said(t) = Heard(t, TRUE) + Heard(t, FALSE) + 0
      /\ r.invoked <= Heard(t, TRUE) + Heard(t, FALSE) + 0
      /\ r.completed <= Heard(t, TRUE) + 0 /\ r.error <= Heard(t, FALSE) + 0
  <2>1. turn.calls = <<>>
    BY DEF CallInv
  <2>2. /\ Cardinality(Open(t)) = 0 /\ Cardinality(Begun(t)) = 0
        /\ Cardinality(Unlogged(t, TRUE)) = 0 /\ Cardinality(Unlogged(t, FALSE)) = 0
    BY <2>1, NothingOpen
  <2> QED
    BY <2>2 DEF CallInv
<1> DEFINE obs == Observed(Messages(emitted))[t]
           rec == Reconciled(Messages(emitted))[t]
<1>4. obs = [invoked |-> Said(t), completed |-> Heard(t, TRUE), error |-> Heard(t, FALSE)]
  BY DEF Observed, Said, Heard
<1>5. rec = [e \in DOMAIN r |-> Max({r[e], obs[e]})]
  BY DEF Reconciled
<1> HIDE DEF r, obs, rec
<1>a. obs.invoked = Said(t) /\ obs.completed = Heard(t, TRUE) /\ obs.error = Heard(t, FALSE)
  BY <1>4
<1>b. \A e \in DOMAIN r : rec[e] = Max({r[e], obs[e]})
  BY <1>5
<1>c. /\ rec.invoked = Max({r.invoked, obs.invoked})
      /\ rec.completed = Max({r.completed, obs.completed})
      /\ rec.error = Max({r.error, obs.error})
  BY <1>1, <1>b
<1>6. /\ Reconciled(Messages(emitted))[t].invoked = Max({r.invoked, Said(t)})
      /\ Reconciled(Messages(emitted))[t].completed = Max({r.completed, Heard(t, TRUE)})
      /\ Reconciled(Messages(emitted))[t].error = Max({r.error, Heard(t, FALSE)})
  BY <1>a, <1>c DEF rec
<1> DEFINE s == Said(t) h == Heard(t, TRUE) g == Heard(t, FALSE)
<1>7. s \in Nat /\ h \in Nat /\ g \in Nat /\ s = h + g + 0 /\ r.invoked <= h + g + 0
      /\ r.completed <= h + 0 /\ r.error <= g + 0
  BY <1>2, <1>3
<1> HIDE DEF s, h, g
<1>8. r.invoked <= s /\ r.completed <= h /\ r.error <= g /\ s = h + g
  BY <1>1, <1>7
<1>9. Max({r.invoked, s}) = s /\ Max({r.completed, h}) = h /\ Max({r.error, g}) = g
  BY <1>1, <1>7, <1>8, LargerIsMax
<1> QED
  BY <1>6, <1>8, <1>9 DEF s, h, g

(* The process and the row do not change any more once there is a row: all *)
(* that is left is a record of the proxy.                                  *)
LEMMA RowRests ==
  ASSUME TurnTypeOK, RowInv, [TurnNext]_turnVars, UNCHANGED prompt,
           ~\E status \in {"zero", "nonzero"} : Judge(status)
  PROVE  RowInv'
<1>1. CASE UNCHANGED turnVars
  BY <1>1 DEF turnVars, RowInv, AuditIsExact, EligibleIsWhole
<1>2. CASE RecordRequest
  <2>1. UNCHANGED <<session, turn, log, process, row, losses, evaluated, emitted>>
    BY <1>2 DEF RecordRequest
  <2>2. proxy'.sent = proxy.sent /\ proxy'.audit + proxy'.held = proxy.audit + proxy.held
    BY <1>2, RecordCounts
  <2>3. AuditIsExact'
    BY <2>1 DEF RowInv, AuditIsExact
  <2>4. EligibleIsWhole'
    BY <2>1, <2>2 DEF RowInv, EligibleIsWhole
  <2> QED
    BY <2>1, <2>3, <2>4 DEF RowInv
<1>3. CASE TurnNext /\ ~RecordRequest
  <2>1. row' = row /\ process \in {"new", "running"}
    BY <1>3 DEF TurnNext, Bridge, Candidate, Model, Dispatch, RunCordis, Reject, InvokeMiddlewares,
       HookThrows, MiddlewareLooks, MiddlewareFails, MiddlewareRejects, Remind, SnapshotFails,
       Answer, AnswerFails, InTools, Evaluate, PreExecute, PreExecuteFails, PostExecute,
       PostExecuteFails, LogResult, StepEnds, Conclude, TurnAt
  <2>2. row' = None
    BY <2>1 DEF RowInv
  <2> QED
    BY <2>2 DEF RowInv, AuditIsExact, EligibleIsWhole
<1> QED
  BY <1>1, <1>2, <1>3

(* A row that counts stays one of a whole turn.                            *)
LEMMA RowStep ==
  TurnTypeOK /\ LogInv /\ CallInv /\ CountInv /\ RowInv /\ [TurnNext]_turnVars /\ UNCHANGED prompt
    => RowInv'
<1> SUFFICES ASSUME TurnTypeOK, LogInv, CallInv, CountInv, RowInv, [TurnNext]_turnVars,
                    UNCHANGED prompt
             PROVE  RowInv'
  OBVIOUS
<1>1. ASSUME NEW status \in {"zero", "nonzero"}, Judge(status) PROVE RowInv'
  <2>1. process' = status
        /\ UNCHANGED <<session, turn, proxy, log, losses, evaluated, emitted, prompt>>
    BY <1>1 DEF Judge
  <2>2. CASE ~row'.eligible
    BY <2>1, <2>2 DEF RowInv, AuditIsExact, EligibleIsWhole
  <2>3. CASE row'.eligible
    <3>1. /\ status = "zero" /\ turn.at = "ended" /\ log = emitted /\ Last(log).kind = "end"
          /\ MiddlewareIssues = {} /\ row' = Result("zero", emitted)
      BY <1>1, <2>3, EligibleRow
    <3>2. /\ row'.tools = Reconciled(Messages(emitted)) /\ row'.best = session.best
          /\ row'.decodeSeed = Endpoint.seed /\ row'.middlewares = session.middlewares
          /\ row'.skills = [s \in Skills |-> [loaded |-> TRUE, required |-> s \in Required]]
          /\ row'.llmCalls = ModelCalls(emitted)
      BY <3>1 DEF Result
    <3>3. AuditIsExact'
      <4>1. \A t \in Tools :
              /\ row'.tools[t].invoked = Said(t)
              /\ row'.tools[t].completed + row'.tools[t].error = Said(t)
        BY <3>1, <3>2, ReconciledIsExact
      <4> QED
        BY <2>1, <4>1 DEF AuditIsExact, Said
    <3>4. prompt.baseline = 0 /\ Count(evaluated) \in Nat
      BY CountNat DEF CountInv, InitialMessage, TurnTypeOK
    <3>5. row'.best = prompt.baseline + Count(evaluated)
      BY <3>2, <3>4 DEF CountInv
    <3>6. row'.llmCalls <= proxy.audit + proxy.held
      BY <3>2 DEF CountInv
    <3>7. row'.decodeSeed # None => \A body \in proxy.sent : body.seed = row'.decodeSeed
      BY <3>2 DEF CountInv
    <3>8. \A s \in DOMAIN prompt.contract.enacted : row'.skills[s].loaded
      <4>1. DOMAIN prompt.contract.enacted = Skills
        BY DEF CountInv, InitialMessage, Contract
      <4>2. \A s \in Skills : row'.skills[s].loaded
        <5> DEFINE skill(s) == [loaded |-> TRUE, required |-> s \in Required]
        <5>1. \A s : skill(s).loaded
          OBVIOUS
        <5>2. row'.skills = [s \in Skills |-> skill(s)]
          BY <3>2
        <5> HIDE DEF skill
        <5>3. \A s \in Skills : row'.skills[s] = skill(s)
          BY <5>2
        <5> QED
          BY <5>1, <5>3
      <4> QED
        BY <4>1, <4>2
    <3>9. \A m \in prompt.contract.automatic :
            /\ row'.llmCalls <= row'.middlewares[m].invoked + (MaxLosses - losses)
            /\ row'.middlewares[m].invoked <= row'.llmCalls + 1
            /\ row'.middlewares[m].error = 0
      <4>1. prompt.contract.automatic = Middlewares
        BY DEF CountInv, InitialMessage, Contract
      <4>2. ASSUME NEW m \in Middlewares
            PROVE  session.middlewares[m].error = 0
                   /\ ModelCalls(emitted) <= session.middlewares[m].invoked + (MaxLosses - losses)
                   /\ session.middlewares[m].invoked <= ModelCalls(emitted) + 1
        <5>1. session.middlewares[m].error \in Nat
          BY DEF TurnTypeOK, SessionState
        <5>2. ~(session.middlewares[m].error > 0)
          BY <3>1 DEF MiddlewareIssues
        <5>3. /\ turn.step <= session.middlewares[m].invoked + (MaxLosses - losses)
              /\ session.middlewares[m].invoked <= ModelCalls(emitted) + 1
              /\ turn.step \in {ModelCalls(emitted), ModelCalls(emitted) + 1}
          BY DEF CountInv, StepInv, Reached
        <5>4. /\ ModelCalls(emitted) \in Nat /\ session.middlewares[m].invoked \in Nat
              /\ losses \in Nat /\ MaxLosses \in Nat
          BY MessageStep, AgentTurnAssumption DEF TurnTypeOK, SessionState
        <5> QED
          BY <5>1, <5>2, <5>3, <5>4
      <4> QED
        BY <3>2, <4>1, <4>2
    <3>10. EligibleIsWhole'
      BY <2>1, <3>1, <3>5, <3>6, <3>7, <3>8, <3>9 DEF EligibleIsWhole
    <3> QED
      BY <2>1, <3>3, <3>10 DEF RowInv
  <2> QED
    BY <2>2, <2>3
<1> QED
  BY <1>1, RowRests

-------------------------------------------------------------------------------
(* A turn: the theorems.                                                   *)

(* A turn begins with nothing said, counted or lost.                       *)
LEMMA TurnInitInv == TurnInit => TurnInv
<1> SUFFICES ASSUME TurnInit PROVE TurnInv
  OBVIOUS
<1>1. TurnTypeOK
  <2>1. session \in SessionState
    BY AgentTurnAssumption DEF TurnInit, SessionState
  <2>2. plugin \in PluginState
    BY AgentTurnAssumption DEF TurnInit, PluginState, NotesState
  <2>3. turn \in TurnState
    BY AgentTurnAssumption DEF TurnInit, TurnState
  <2>4. tracker \in TrackerState /\ tracker.seen = 0 /\ tracker.last = None /\ tracker.stalled = 0
        /\ session.evals = 0
    BY DEF TurnInit, TrackerState
  <2>5. proxy \in ProxyState
    BY AgentTurnAssumption DEF TurnInit, NewProxy, ProxyState
  <2>6. /\ log \in Seq(Entry) /\ emitted \in Seq(Entry) /\ evaluated \in Seq(BOOLEAN)
        /\ process = "new" /\ losses \in 0 .. MaxLosses
    BY AgentTurnAssumption DEF TurnInit
  <2> QED
    BY <2>1, <2>2, <2>3, <2>4, <2>5, <2>6 DEF TurnTypeOK
<1>2. NotesInv
  BY NoneAssumption DEF TurnInit, NotesInv, NotesAreTrue
<1>3. LogInv
  BY DEF TurnInit, LogInv
<1>4. CallInv
  <2>1. turn.calls = <<>> /\ emitted = <<>>
    BY DEF TurnInit
  <2>2. \A t \in Tools : /\ session.tools[t].invoked = 0 /\ session.tools[t].completed = 0
                         /\ session.tools[t].error = 0
    BY DEF TurnInit
  <2>3. \A t, ok : Said(t) = 0 /\ Heard(t, ok) = 0
    BY <2>1, EmptyLog DEF Said, Heard, Uses, Results
  <2>4. \A t, ok : /\ Cardinality(Open(t)) = 0 /\ Cardinality(Begun(t)) = 0
                   /\ Cardinality(Unlogged(t, ok)) = 0
    BY <2>1, NothingOpen
  <2>5. ASSUME NEW t \in Tools
        PROVE  /\ Said(t) = Heard(t, TRUE) + Heard(t, FALSE) + Cardinality(Open(t))
               /\ session.tools[t].invoked <= Heard(t, TRUE) + Heard(t, FALSE)
                     + Cardinality(Begun(t))
               /\ session.tools[t].completed <= Heard(t, TRUE) + Cardinality(Unlogged(t, TRUE))
               /\ session.tools[t].error <= Heard(t, FALSE) + Cardinality(Unlogged(t, FALSE))
    <3>1. /\ Said(t) = 0 /\ Heard(t, TRUE) = 0 /\ Heard(t, FALSE) = 0
          /\ Cardinality(Open(t)) = 0 /\ Cardinality(Begun(t)) = 0
          /\ Cardinality(Unlogged(t, TRUE)) = 0 /\ Cardinality(Unlogged(t, FALSE)) = 0
      BY <2>3, <2>4
    <3> DEFINE s == Said(t) h == Heard(t, TRUE) g == Heard(t, FALSE)
               o == Cardinality(Open(t)) b == Cardinality(Begun(t))
               u == Cardinality(Unlogged(t, TRUE)) v == Cardinality(Unlogged(t, FALSE))
               r == session.tools[t]
    <3>2. s = 0 /\ h = 0 /\ g = 0 /\ o = 0 /\ b = 0 /\ u = 0 /\ v = 0
      BY <3>1
    <3>3. r.invoked = 0 /\ r.completed = 0 /\ r.error = 0
      BY <2>2
    <3> HIDE DEF s, h, g, o, b, u, v, r
    <3>4. s = h + g + o /\ r.invoked <= h + g + b /\ r.completed <= h + u /\ r.error <= g + v
      BY <3>2, <3>3
    <3> QED
      BY <3>4 DEF s, h, g, o, b, u, v, r
  <2> QED
    BY <2>1, <2>5 DEF CallInv
<1>5. CountInv
  <2>1. Count(<<>>) = 0
    <3>1. <<>> \in Seq(BOOLEAN) /\ Len(<<>>) = 0
      OBVIOUS
    <3> QED
      BY <3>1, CountNat
  <2>2. /\ session.best = 0 /\ evaluated = <<>> /\ emitted = <<>> /\ proxy = NewProxy
        /\ prompt = InitialMessage(session.best)
        /\ turn.step = 0 /\ turn.at = "pre"
        /\ \A m \in Middlewares : session.middlewares[m].invoked = 0
    BY DEF TurnInit
  <2>3. proxy.sent = {} /\ proxy.audit = 0 /\ proxy.held = 0
    BY <2>2 DEF NewProxy
  <2>4. losses = MaxLosses /\ MaxLosses \in Nat
    BY AgentTurnAssumption DEF TurnInit
  <2>5. StepInv
    BY <2>2, <2>4, EmptyLog DEF StepInv, Reached
  <2> QED
    BY <2>1, <2>2, <2>3, <2>5, EmptyLog DEF CountInv
<1>6. RowInv
  BY DEF TurnInit, RowInv, AuditIsExact, EligibleIsWhole
<1> QED
  BY <1>1, <1>2, <1>3, <1>4, <1>5, <1>6 DEF TurnInv

(* The invariant holds throughout a turn.                                  *)
LEMMA TurnInvariant == TurnSpec => []TurnInv
<1>1. TurnInv /\ [TurnNext /\ UNCHANGED prompt]_turnVars => TurnInv'
  <2> SUFFICES ASSUME TurnInv, [TurnNext /\ UNCHANGED prompt]_turnVars PROVE TurnInv'
    OBVIOUS
  <2>1. [TurnNext]_turnVars /\ UNCHANGED prompt
    BY DEF turnVars
  <2> QED
    BY <2>1, TurnTypeStep, NotesStep, LogStep, CallStep, CountStep, RowStep DEF TurnInv
<1> QED
  BY <1>1, TurnInitInv, PTL DEF TurnSpec

(* Every variable of a turn has its type: no more evaluations, restarts    *)
(* and steps than the policies allow, a tracker that is not ahead of the   *)
(* session, and a log made of rows.                                        *)
THEOREM TurnTypeCorrect == TurnSpec => []TurnTypeOK
<1>1. TurnInv => TurnTypeOK
  BY DEF TurnInv
<1> QED
  BY <1>1, TurnInvariant, PTL

(* What sah-bridge.mjs tells the executor is so, whatever the hooks of the *)
(* candidate read in between and however many evaluations a step ran.      *)
THEOREM TheNotesAreTrue == TurnSpec => []NotesAreTrue
<1>1. TurnInv => NotesAreTrue
  BY DEF TurnInv, NotesInv
<1> QED
  BY <1>1, TurnInvariant, PTL

(* _record_cordis_tool_calls makes the audit of a row that counts exact.   *)
THEOREM TheAuditIsExact == TurnSpec => []AuditIsExact
<1>1. TurnInv => AuditIsExact
  BY DEF TurnInv, RowInv
<1> QED
  BY <1>1, TurnInvariant, PTL

(* run_task lets a row count only for a turn that lost nothing.            *)
THEOREM EligibleRowsAreWhole == TurnSpec => []EligibleIsWhole
<1>1. TurnInv => EligibleIsWhole
  BY DEF TurnInv, RowInv
<1> QED
  BY <1>1, TurnInvariant, PTL

-------------------------------------------------------------------------------
(***************************************************************************)
(* PART III. The driver of a task, its jobs and the command it runs.       *)
(***************************************************************************)

(* The inductive invariant.                                                *)

(* Where the driver has a step in hand, and where it waits for a job.      *)
InHand == {"submit", "record", "wait", "ensure", "topup", "topwait", "prepare", "preparing"}
AtTopUp == {"topup", "topwait"}

Writer(j) == jobs[j].writes
Covers(j) == jobs[j].first .. jobs[j].last

(* What is written down of a step comes from jobs that were accepted, and  *)
(* no step is begun before the one before it has named a parent.           *)
DriverInv ==
  /\ pc \in InHand \cup {"begin", "stopped", "done"}
  /\ pc # "done" => step <= Steps
  /\ pc \in {"record", "wait", "topwait"} => ej \in StepJobs(step)
  /\ pc \in {"record", "wait"} => Writer(ej)
  /\ pc \in AtTopUp => /\ plan.start \in Nat /\ plan.count \in Nat \ {0}
                       /\ plan.start + plan.count <= K + MaxSupplement
                       /\ ~fixed
  /\ pc \in InHand /\ step > 1 => parentFile[step - 1] # None
  /\ pc = "prepare" => manifest[step] # None
  /\ \A s \in 1 .. Steps : jobFile[s] # None => jobFile[s] \in StepJobs(s) /\ Writer(jobFile[s])

(* A job covers indices of its batch, the first one K of them; those it    *)
(* has passed have logs.                                                   *)
GoodJob(j) ==
  LET b == jobs[j] IN
  /\ b.first <= b.last /\ b.last < K + MaxSupplement
  /\ b.first <= b.next /\ b.next <= b.last + 1
  /\ b.writes => b.first = 0 /\ b.last = K - 1
  /\ ~b.writes => ~fixed
  /\ ~b.over => b.first .. b.next - 1 \subseteq logs[b.step]

JobInv ==
  /\ \A j \in DOMAIN jobs : GoodJob(j)
  /\ \A x \in running : x[2] \in jobs[x[1]].first .. jobs[x[1]].next - 1
  /\ \A s \in 1 .. Steps :
       /\ \A k \in Indices : summary[s][k] # None => k \in logs[s]
       /\ \A k \in logs[s] : \E j \in StepJobs(s) : k \in Covers(j)

(* The batches of state.json are the steps in order, and the curve is at   *)
(* most one row behind.                                                    *)
Numbered(batches) ==
  /\ \E T : batches \in Seq(T)
  /\ \A i \in 1 .. Len(batches) : batches[i].step = i /\ batches[i].launched \in Nat

StateInv ==
  /\ Numbered(state.batches) /\ Len(state.batches) <= Steps
  /\ state.cum = Charged(state, Steps)

CurveInv ==
  /\ \E T : curve \in Seq(T)
  /\ Len(curve) \in {Len(state.batches), Len(state.batches) - 1}
  /\ \A i \in 1 .. Len(curve) : curve[i] = CurveRow(state.batches[i], Charged(state, i))
  /\ \A s \in 1 .. Steps : parentFile[s] # None => s <= Len(curve)

(* The command has the batches of state.json; it adds the next one only    *)
(* when the curve is complete, and then its row.                           *)
PrepInv ==
  prep # None =>
    /\ DOMAIN prep = {"at", "step", "rows", "launched", "parent", "again", "st"}
    /\ pc = "preparing" /\ prep.step = step
    /\ prep.launched \in Nat
    /\ prep.st.batches = state.batches /\ prep.st.cum = state.cum
    /\ prep.at \in {"failed", "replay", "commit", "curve", "parent", "marker"}
    /\ prep.at \in {"replay", "commit"} =>
         step = Len(state.batches) + 1 /\ Len(curve) = Len(state.batches) /\ ~prep.again
    /\ prep.at = "curve" =>
         /\ step <= Len(state.batches)
         /\ ~prep.again => step = Len(state.batches) /\ Len(curve) = step - 1
    /\ prep.at \in {"parent", "marker"} => step <= Len(curve)

ChargeInv == StateInv /\ CurveInv /\ PrepInv

(* A manifest never says more than was launched, nor does what was         *)
(* charged.                                                                *)
LaunchedInv ==
  /\ \A s \in 1 .. Steps : manifest[s] # None =>
       manifest[s] <= Launched(s) /\ (fixed => StepJobs(s) # {})
  /\ \A i \in 1 .. Len(state.batches) : state.batches[i].launched <= Launched(i)
  /\ prep # None => prep.launched <= Launched(step)

(* Nothing more of a step will be launched.                                *)
Settled(s) == \A j \in StepJobs(s) : jobs[j].over \/ Covers(j) \subseteq logs[s]

(* What is charged for a plain and whole step is what was launched and     *)
(* will be.                                                                *)
Ready(s, launched, usable) ==
  Plain(s) /\ Whole(s) =>
    /\ Settled(s) /\ manifest[s] # None
    /\ launched = Launched(s) /\ usable <= launched
    /\ IF fixed THEN launched = K ELSE usable >= K /\ NUsable(s) >= K

(* A trajectory of a plain step runs once; its top-up is as large as what  *)
(* the first job left to do; a fixed one is charged when it is settled.    *)
Once(s) == \A x \in running : jobs[x[1]].step = s => summary[s][x[2]] = None

Fits(s) == \A j \in StepJobs(s) : ~Writer(j) => Cardinality(Usable(s) \cup Covers(j)) <= K

Exact(s) ==
  fixed /\ manifest[s] # None /\ Whole(s) => Settled(s) /\ manifest[s] = Launched(s)

(* The first job of a batch that is not fixed is done with when there is a *)
(* manifest: it is over, or all of its indices are usable and it was cut   *)
(* for it.  Before a top-up it is over.                                    *)
WriterOver(s) == \E j \in StepJobs(s) : Writer(j) /\ jobs[j].over
WriterDone(s) ==
  \E j \in StepJobs(s) : Writer(j) /\ (jobs[j].over \/ Covers(j) \subseteq Usable(s))

AfterFirst == {"ensure", "topup", "topwait", "prepare", "preparing"}

First(s) ==
  ~fixed =>
    /\ manifest[s] # None => WriterDone(s)
    /\ s = step /\ pc \in AfterFirst => WriterDone(s)
    /\ s = step /\ pc = "topup" => WriterOver(s)
    /\ \A j \in StepJobs(s) : ~Writer(j) => WriterOver(s)

PlainInv ==
  /\ \A s \in 1 .. Steps : Plain(s) => Once(s) /\ Fits(s) /\ Exact(s) /\ First(s)
  /\ pc = "topup" /\ Plain(step) /\ (\A j \in StepJobs(step) : Writer(j)) =>
       NUsable(step) + plan.count <= K

(* What is prepared and what is committed is ready; the driver does not    *)
(* submit jobs of a step that is committed.                                *)
ReadyInv ==
  /\ pc = "prepare" => Ready(step, manifest[step], NUsable(step))
  /\ prep # None => Ready(step, prep.launched, Len(prep.rows))
  /\ \A i \in 1 .. Len(state.batches) :
       Ready(i, state.batches[i].launched, state.batches[i].usable)
  /\ pc \in {"submit", "record", "wait", "topup", "topwait"} /\ Plain(step) /\ Whole(step) =>
       step > Len(state.batches)

ExecutorInv == TypeOK /\ DriverInv /\ JobInv /\ ChargeInv /\ LaunchedInv /\ PlainInv /\ ReadyInv

-------------------------------------------------------------------------------
(* The sizes.                                                              *)

(* The bounds are numbers, and the indices of a batch so many.             *)
LEMMA Sizes ==
  /\ Steps \in Nat \ {0} /\ K \in Nat \ {0} /\ MaxSupplement \in Nat /\ MaxFaults \in Nat
  /\ IsFiniteSet(Indices) /\ Cardinality(Indices) = K + MaxSupplement
  /\ Indices \subseteq Nat
<1>1. Steps \in Nat \ {0} /\ K \in Nat \ {0} /\ MaxSupplement \in Nat /\ MaxFaults \in Nat
  BY DiscoverAssumption, ExecutorAssumption
<1> DEFINE n == K + MaxSupplement - 1
<1>2. n \in Nat /\ 0 <= n /\ n - 0 + 1 = K + MaxSupplement
  BY <1>1
<1>3. IsFiniteSet(0 .. n) /\ Cardinality(0 .. n) = n - 0 + 1
  <2> HIDE DEF n
  <2> QED
    BY <1>2, FS_Interval
<1> QED
  BY <1>1, <1>2, <1>3 DEF Indices

(* What is launched of a step, and what is usable, are sets of indices.    *)
LEMMA Counted ==
  ASSUME TypeOK, NEW s \in 1 .. Steps
  PROVE  /\ logs[s] \subseteq Indices /\ IsFiniteSet(logs[s])
         /\ Launched(s) \in Nat /\ Launched(s) <= K + MaxSupplement
         /\ Usable(s) \subseteq Indices /\ IsFiniteSet(Usable(s)) /\ NUsable(s) \in Nat
<1>1. logs[s] \subseteq Indices
  BY DEF TypeOK
<1>2. Usable(s) \subseteq Indices
  BY DEF Usable
<1>3. IsFiniteSet(logs[s]) /\ IsFiniteSet(Usable(s))
  BY <1>1, <1>2, Sizes, FS_Subset
<1>4. Cardinality(logs[s]) \in Nat /\ Cardinality(Usable(s)) \in Nat
  BY <1>3, FS_CardinalityType
<1>5. Cardinality(logs[s]) <= Cardinality(Indices)
  BY <1>1, Sizes, FS_Subset
<1> QED
  BY <1>1, <1>2, <1>3, <1>4, <1>5, Sizes DEF Launched, NUsable

(* A larger set has no fewer members.                                      *)
LEMMA MoreOrSame ==
  ASSUME NEW T, IsFiniteSet(T), NEW S, S \subseteq T
  PROVE  /\ IsFiniteSet(S) /\ Cardinality(S) \in Nat /\ Cardinality(T) \in Nat
         /\ Cardinality(S) <= Cardinality(T)
         /\ Cardinality(S) = Cardinality(T) => S = T
<1>1. IsFiniteSet(S) /\ Cardinality(S) <= Cardinality(T)
  BY FS_Subset
<1>2. Cardinality(S) = Cardinality(T) => S = T
  BY FS_Subset
<1> QED
  BY <1>1, <1>2, FS_CardinalityType

(* While the driver is at work its step is one of the campaign.            *)
LEMMA StepIsOne ==
  ASSUME TypeOK, DriverInv, pc # "done"
  PROVE  step \in 1 .. Steps
  BY Sizes DEF TypeOK, DriverInv

-------------------------------------------------------------------------------
(* What a step does to the jobs.                                           *)

(* A job is replaced by one of the same batch and indices.                 *)
LEMMA JobChange ==
  ASSUME TypeOK, NEW j \in DOMAIN jobs, NEW b \in JobType, jobs' = [jobs EXCEPT ![j] = b]
  PROVE  /\ jobs' \in Seq(JobType) /\ DOMAIN jobs' = DOMAIN jobs /\ jobs'[j] = b
         /\ \A i \in DOMAIN jobs : i # j => jobs'[i] = jobs[i]
  BY DEF TypeOK

(* One is added at the end.                                                *)
LEMMA JobAdded ==
  ASSUME TypeOK, NEW b \in JobType, jobs' = Append(jobs, b)
  PROVE  /\ jobs' \in Seq(JobType) /\ Len(jobs) + 1 \in DOMAIN jobs' /\ jobs'[Len(jobs) + 1] = b
         /\ \A i \in DOMAIN jobs : i \in DOMAIN jobs' /\ jobs'[i] = jobs[i]
         /\ DOMAIN jobs' = DOMAIN jobs \cup {Len(jobs) + 1} /\ Len(jobs) + 1 \notin DOMAIN jobs
  BY DEF TypeOK

(* A job that is stopped, cut, passes an index or is over is still one.    *)
CutJob(b) == [b EXCEPT !.cut = b.cut \/ b.next <= b.last]

LEMMA JobMoved ==
  ASSUME TypeOK, NEW j \in DOMAIN jobs
  PROVE  LET b == jobs[j] IN
         /\ b \in JobType
         /\ [b EXCEPT !.over = TRUE] \in JobType /\ [b EXCEPT !.next = @ + 1] \in JobType
         /\ [b EXCEPT !.over = TRUE, !.next = b.last + 1] \in JobType
         /\ CutJob(b) \in JobType
         /\ [jobs EXCEPT ![j].cut = @ \/ jobs[j].next <= jobs[j].last]
              = [jobs EXCEPT ![j] = CutJob(b)]
         /\ [jobs EXCEPT ![j].over = TRUE] = [jobs EXCEPT ![j] = [b EXCEPT !.over = TRUE]]
         /\ [jobs EXCEPT ![j].next = @ + 1] = [jobs EXCEPT ![j] = [b EXCEPT !.next = @ + 1]]
         /\ Stopped(j) = [jobs EXCEPT ![j] = [b EXCEPT !.over = TRUE, !.next = b.last + 1]]
<1> DEFINE b == jobs[j]
<1>1. b \in JobType
  BY DEF TypeOK
<1>2. /\ [b EXCEPT !.over = TRUE] \in JobType /\ [b EXCEPT !.next = @ + 1] \in JobType
      /\ [b EXCEPT !.over = TRUE, !.next = b.last + 1] \in JobType
  <2>1. ASSUME NEW v \in BOOLEAN, NEW x \in Nat
        PROVE  /\ [b EXCEPT !.over = v] \in JobType /\ [b EXCEPT !.next = x] \in JobType
               /\ [b EXCEPT !.over = v, !.next = x] \in JobType
    BY <1>1 DEF JobType
  <2>2. b.next + 1 \in Nat /\ b.last + 1 \in Nat
    BY <1>1 DEF JobType
  <2> HIDE DEF b
  <2>3. [b EXCEPT !.next = @ + 1] = [b EXCEPT !.next = b.next + 1]
    OBVIOUS
  <2>4. /\ [b EXCEPT !.over = TRUE] \in JobType
        /\ [b EXCEPT !.over = TRUE, !.next = b.last + 1] \in JobType
    BY <2>1, <2>2, Zenon
  <2> QED
    BY <2>1, <2>2, <2>3, <2>4
<1>3. /\ [jobs EXCEPT ![j].over = TRUE] = [jobs EXCEPT ![j] = [b EXCEPT !.over = TRUE]]
      /\ [jobs EXCEPT ![j].next = @ + 1] = [jobs EXCEPT ![j] = [b EXCEPT !.next = @ + 1]]
  OBVIOUS
<1>4. Stopped(j) = [jobs EXCEPT ![j] = [b EXCEPT !.over = TRUE, !.next = b.last + 1]]
  BY DEF Stopped, TypeOK
<1>5. CutJob(b) \in JobType
  <2>1. b.cut \in BOOLEAN /\ (b.next <= b.last) \in BOOLEAN
    BY <1>1 DEF JobType
  <2>2. PICK v \in BOOLEAN : v = (b.cut \/ b.next <= b.last)
    BY <2>1
  <2>3. [b EXCEPT !.cut = v] \in JobType
    BY <1>1 DEF JobType
  <2> QED
    BY <2>2, <2>3 DEF CutJob
<1>6. [jobs EXCEPT ![j].cut = @ \/ jobs[j].next <= jobs[j].last]
        = [jobs EXCEPT ![j] = CutJob(b)]
  BY DEF CutJob, TypeOK
<1> QED
  BY <1>1, <1>2, <1>3, <1>4, <1>5, <1>6

(* The job a driver submits.                                               *)
LEMMA NewJobType ==
  ASSUME TypeOK, DriverInv, pc \in {"submit", "topup"}
  PROVE  /\ NewJob \in JobType /\ NewJob.step = step /\ NewJob.next = NewJob.first
         /\ NewJob.first <= NewJob.last /\ NewJob.last < K + MaxSupplement
         /\ ~NewJob.over
         /\ pc = "submit" => NewJob.writes /\ NewJob.first = 0 /\ NewJob.last = K - 1
         /\ pc = "topup" => ~NewJob.writes /\ NewJob.first = plan.start
            /\ NewJob.last = plan.start + plan.count - 1
<1>1. step \in 1 .. Steps
  BY StepIsOne
<1>2. CASE pc = "submit"
  <2>1. NewJob = [step |-> step, first |-> 0, next |-> 0, last |-> K - 1, writes |-> TRUE,
                  over |-> FALSE, cut |-> FALSE]
    BY <1>2 DEF NewJob
  <2> QED
    BY <1>1, <1>2, <2>1, Sizes DEF JobType
<1>3. CASE pc = "topup"
  <2>1. /\ plan.start \in Nat /\ plan.count \in Nat \ {0}
        /\ plan.start + plan.count <= K + MaxSupplement
    BY <1>3 DEF DriverInv, AtTopUp
  <2>2. NewJob = [step |-> step, first |-> plan.start, next |-> plan.start,
                  last |-> plan.start + plan.count - 1, writes |-> FALSE,
                  over |-> FALSE, cut |-> FALSE]
    BY <1>3 DEF NewJob
  <2> QED
    BY <1>1, <1>3, <2>1, <2>2, Sizes DEF JobType
<1> QED
  BY <1>2, <1>3

(* The ways in which the jobs, what runs and what they leave change.       *)
JobsRest == UNCHANGED <<jobs, running, logs, summary>>

JobStops(j) ==
  /\ jobs' = Stopped(j) /\ running' = running \ RunningOf(j)
  /\ UNCHANGED <<logs, summary>>

JobCut(j) ==
  /\ jobs' = [jobs EXCEPT ![j].cut = @ \/ jobs[j].next <= jobs[j].last]
  /\ UNCHANGED <<running, logs, summary>>

JobAccepted ==
  /\ pc \in {"submit", "topup"} /\ jobs' = Append(jobs, NewJob)
  /\ UNCHANGED <<running, logs, summary>>

JobsStep ==
  \/ JobsRest \/ JobAccepted
  \/ \E j \in DOMAIN jobs :
       Launch(j) \/ JobStops(j) \/ JobCut(j) \/ JobEnds(j) \/ \E k \in Indices : Finish(j, k)

(* Every step is one of them.                                              *)
LEMMA JobsSteps ==
  ASSUME TypeOK, DriverInv, [Next]_vars
  PROVE  JobsStep
<1> USE DEF JobsStep, JobsRest, JobAccepted, JobStops, JobCut
<1>1. CASE Begin \/ SubmitFails \/ Record \/ EnsureFixed \/ EnsureTarget \/ StepPrepare
           \/ RunPrepare \/ Prepared \/ Restart \/ Tick \/ UNCHANGED vars
  BY <1>1 DEF Begin, SubmitFails, Record, EnsureFixed, EnsureTarget, StepPrepare, Collect,
     RunPrepare, Prepared, Restart, Tick, Keep, vars, dirVars
<1>2. CASE Submit
  BY <1>2 DEF Submit, Keep, dirVars
<1>3. CASE Wait \/ TopUpWait
  <2>1. ej \in DOMAIN jobs
    BY <1>3 DEF Wait, TopUpWait, DriverInv, StepJobs
  <2>2. UNCHANGED <<logs, summary>>
    BY <1>3 DEF Wait, TopUpWait
  <2>3. UNCHANGED <<jobs, running>> \/ JobCut(ej)
    BY <1>3, <2>2 DEF Wait, TopUpWait, CancelAndCollect, Collect
  <2> QED
    BY <2>1, <2>2, <2>3
<1>4. CASE Cluster
  BY <1>4 DEF Cluster, JobDies
<1> QED
  BY <1>1, <1>2, <1>3, <1>4 DEF Next, Driver

(* Nothing is forgotten of a job, nor of what was launched.                *)
LEMMA JobsKeep ==
  ASSUME TypeOK, DriverInv, [Next]_vars
  PROVE  /\ jobs' \in Seq(JobType)
         /\ \A j \in DOMAIN jobs :
              /\ j \in DOMAIN jobs' /\ (jobs[j].over => jobs'[j].over)
              /\ jobs[j].cut => jobs'[j].cut
              /\ \A f \in {"step", "first", "last", "writes"} : jobs'[j][f] = jobs[j][f]
         /\ \A s \in 1 .. Steps : logs[s] \subseteq logs'[s]
<1> DEFINE Same(j) ==
      /\ j \in DOMAIN jobs' /\ (jobs[j].over => jobs'[j].over)
      /\ jobs[j].cut => jobs'[j].cut
      /\ \A f \in {"step", "first", "last", "writes"} : jobs'[j][f] = jobs[j][f]
<1>1. JobsStep
  BY JobsSteps
<1>2. \A s \in 1 .. Steps : logs[s] \subseteq logs'[s]
  <2>1. CASE UNCHANGED logs
    BY <2>1
  <2>2. ASSUME NEW j \in DOMAIN jobs, Launch(j)
        PROVE \A s \in 1 .. Steps : logs[s] \subseteq logs'[s]
    BY <2>2 DEF Launch, TypeOK
  <2> QED
    BY <1>1, <2>1, <2>2
       DEF JobsStep, JobsRest, JobAccepted, JobStops, JobCut, JobEnds, Finish, dirVars
<1>3. CASE UNCHANGED jobs
  BY <1>2, <1>3 DEF TypeOK
<1>4. CASE JobAccepted
  BY <1>2, <1>4, NewJobType, JobAdded DEF JobAccepted
<1>5. ASSUME NEW j \in DOMAIN jobs, Launch(j) \/ JobStops(j) \/ JobCut(j) \/ JobEnds(j)
      PROVE  jobs' \in Seq(JobType) /\ \A i \in DOMAIN jobs : Same(i)
  <2>1. PICK b \in JobType :
          /\ jobs' = [jobs EXCEPT ![j] = b] /\ (jobs[j].over => b.over)
          /\ jobs[j].cut => b.cut
          /\ \A f \in {"step", "first", "last", "writes"} : b[f] = jobs[j][f]
    <3> DEFINE b == jobs[j]
    <3>1. /\ b \in JobType
          /\ [b EXCEPT !.over = TRUE] \in JobType /\ [b EXCEPT !.next = @ + 1] \in JobType
          /\ [b EXCEPT !.over = TRUE, !.next = b.last + 1] \in JobType
          /\ CutJob(b) \in JobType
      BY JobMoved
    <3>2. CASE Launch(j)
      <4>1. jobs' = [jobs EXCEPT ![j] = [b EXCEPT !.next = @ + 1]]
        BY <3>2, JobMoved DEF Launch
      <4> QED
        BY <3>1, <4>1 DEF JobType
    <3>3. CASE JobStops(j)
      <4>1. jobs' = [jobs EXCEPT ![j] = [b EXCEPT !.over = TRUE, !.next = b.last + 1]]
        BY <3>3, JobMoved DEF JobStops
      <4> QED
        BY <3>1, <4>1 DEF JobType
    <3>4. CASE JobEnds(j)
      <4>1. jobs' = [jobs EXCEPT ![j] = [b EXCEPT !.over = TRUE]]
        BY <3>4, JobMoved DEF JobEnds
      <4> QED
        BY <3>1, <4>1 DEF JobType
    <3>5. CASE JobCut(j)
      <4>1. jobs' = [jobs EXCEPT ![j] = CutJob(b)]
        BY <3>5, JobMoved DEF JobCut
      <4>2. /\ b.cut => CutJob(b).cut
            /\ CutJob(b).over = b.over
            /\ \A f \in {"step", "first", "last", "writes"} : CutJob(b)[f] = b[f]
        BY <3>1 DEF JobType, CutJob
      <4> QED
        BY <3>1, <4>1, <4>2
    <3> QED
      BY <1>5, <3>2, <3>3, <3>4, <3>5
  <2> QED
    BY <2>1, JobChange
<1> QED
  BY <1>1, <1>2, <1>3, <1>4, <1>5 DEF JobsStep, JobsRest, Finish

(* The fields of a job.                                                    *)
LEMMA JobFields ==
  ASSUME TypeOK, NEW j \in DOMAIN jobs
  PROVE  /\ jobs[j] \in JobType /\ jobs[j].step \in 1 .. Steps
         /\ jobs[j].first \in Nat /\ jobs[j].next \in Nat /\ jobs[j].last \in Nat
         /\ jobs[j].writes \in BOOLEAN /\ jobs[j].over \in BOOLEAN
<1>1. jobs[j] \in JobType
  BY DEF TypeOK
<1> QED
  BY <1>1 DEF JobType

(* What a step changes of a job, beyond what it keeps.                     *)
LEMMA OneJob ==
  ASSUME TypeOK, NEW j \in DOMAIN jobs
  PROVE  /\ Launch(j) \/ JobStops(j) \/ JobCut(j) \/ JobEnds(j) =>
              /\ DOMAIN jobs' = DOMAIN jobs
              /\ \A i \in DOMAIN jobs : i # j => jobs'[i] = jobs[i]
         /\ Launch(j) => jobs'[j].next = jobs[j].next + 1 /\ jobs'[j].over = jobs[j].over
         /\ JobStops(j) => jobs'[j].next = jobs[j].last + 1 /\ jobs'[j].over
         /\ JobEnds(j) => jobs'[j].next = jobs[j].next /\ jobs'[j].over
         /\ JobCut(j) => /\ jobs'[j].next = jobs[j].next /\ jobs'[j].over = jobs[j].over
                         /\ jobs[j].next <= jobs[j].last => jobs'[j].cut
<1> DEFINE b == jobs[j]
           Rest == /\ DOMAIN jobs' = DOMAIN jobs
                   /\ \A i \in DOMAIN jobs : i # j => jobs'[i] = jobs[i]
<1>0. b \in JobType
  BY JobFields
<1>1. ASSUME Launch(j) PROVE Rest /\ jobs'[j].next = b.next + 1 /\ jobs'[j].over = b.over
  <2>1. jobs' = [jobs EXCEPT ![j] = [b EXCEPT !.next = @ + 1]]
        /\ [b EXCEPT !.next = @ + 1] \in JobType
    BY <1>1, JobMoved DEF Launch
  <2>2. jobs'[j] = [b EXCEPT !.next = @ + 1]
    BY <2>1, JobChange
  <2>3. jobs'[j].next = b.next + 1 /\ jobs'[j].over = b.over
    BY <1>0, <2>2 DEF JobType
  <2>4. DOMAIN jobs' = DOMAIN jobs /\ \A i \in DOMAIN jobs : i # j => jobs'[i] = jobs[i]
    BY <2>1
  <2> QED
    BY <2>3, <2>4
<1>2. ASSUME JobStops(j) PROVE Rest /\ jobs'[j].next = b.last + 1 /\ jobs'[j].over
  <2>1. /\ jobs' = [jobs EXCEPT ![j] = [b EXCEPT !.over = TRUE, !.next = b.last + 1]]
        /\ [b EXCEPT !.over = TRUE, !.next = b.last + 1] \in JobType
    BY <1>2, JobMoved DEF JobStops
  <2>2. jobs'[j] = [b EXCEPT !.over = TRUE, !.next = b.last + 1]
    BY <2>1, JobChange
  <2>3. jobs'[j].next = b.last + 1 /\ jobs'[j].over
    BY <1>0, <2>2 DEF JobType
  <2>4. DOMAIN jobs' = DOMAIN jobs /\ \A i \in DOMAIN jobs : i # j => jobs'[i] = jobs[i]
    BY <2>1
  <2> QED
    BY <2>3, <2>4
<1>3. ASSUME JobEnds(j) PROVE Rest /\ jobs'[j].next = b.next /\ jobs'[j].over
  <2>1. jobs' = [jobs EXCEPT ![j] = [b EXCEPT !.over = TRUE]]
        /\ [b EXCEPT !.over = TRUE] \in JobType
    BY <1>3, JobMoved DEF JobEnds
  <2>2. jobs'[j] = [b EXCEPT !.over = TRUE]
    BY <2>1, JobChange
  <2>3. jobs'[j].next = b.next /\ jobs'[j].over
    BY <1>0, <2>2 DEF JobType
  <2>4. DOMAIN jobs' = DOMAIN jobs /\ \A i \in DOMAIN jobs : i # j => jobs'[i] = jobs[i]
    BY <2>1
  <2> QED
    BY <2>3, <2>4
<1>4. ASSUME JobCut(j)
      PROVE  /\ Rest /\ jobs'[j].next = b.next /\ jobs'[j].over = b.over
             /\ b.next <= b.last => jobs'[j].cut
  <2>1. jobs' = [jobs EXCEPT ![j] = CutJob(b)] /\ CutJob(b) \in JobType
    BY <1>4, JobMoved DEF JobCut
  <2>2. jobs'[j] = CutJob(b)
    BY <2>1, JobChange
  <2>3. /\ jobs'[j].next = b.next /\ jobs'[j].over = b.over
        /\ b.next <= b.last => jobs'[j].cut
    BY <1>0, <2>2 DEF JobType, CutJob
  <2>4. DOMAIN jobs' = DOMAIN jobs /\ \A i \in DOMAIN jobs : i # j => jobs'[i] = jobs[i]
    BY <2>1
  <2> QED
    BY <2>3, <2>4
<1> QED
  BY <1>1, <1>2, <1>3, <1>4

(* What runs and what is left of it.                                       *)
LEMMA DirType ==
  ASSUME TypeOK, DriverInv, JobInv, [Next]_vars
  PROVE  /\ running' \subseteq {j \in DOMAIN jobs' : ~jobs'[j].over} \X Indices
         /\ logs' \in [1 .. Steps -> SUBSET Indices]
         /\ summary' \in [1 .. Steps -> [Indices -> Programs \cup {Unusable, None}]]
<1> DEFINE Goal == /\ running' \subseteq {j \in DOMAIN jobs' : ~jobs'[j].over} \X Indices
                   /\ logs' \in [1 .. Steps -> SUBSET Indices]
                   /\ summary' \in [1 .. Steps -> [Indices -> Programs \cup {Unusable, None}]]
<1>0. /\ running \subseteq {j \in DOMAIN jobs : ~jobs[j].over} \X Indices
      /\ logs \in [1 .. Steps -> SUBSET Indices]
      /\ summary \in [1 .. Steps -> [Indices -> Programs \cup {Unusable, None}]]
  BY DEF TypeOK
<1>1. CASE JobsRest
  BY <1>0, <1>1 DEF JobsRest
<1>2. CASE JobAccepted
  <2>1. \A i \in DOMAIN jobs : i \in DOMAIN jobs' /\ jobs'[i] = jobs[i]
    BY <1>2, NewJobType, JobAdded DEF JobAccepted
  <2> QED
    BY <1>0, <1>2, <2>1 DEF JobAccepted
<1>3. ASSUME NEW j \in DOMAIN jobs, Launch(j) PROVE Goal
  <2>1. /\ DOMAIN jobs' = DOMAIN jobs /\ jobs'[j].over = jobs[j].over
        /\ \A i \in DOMAIN jobs : i # j => jobs'[i] = jobs[i]
    BY <1>3, OneJob
  <2>2. jobs[j].next \in Indices /\ jobs[j].step \in 1 .. Steps
    <3>1. jobs[j].last < K + MaxSupplement /\ jobs[j].next <= jobs[j].last
      BY <1>3 DEF Launch, JobInv, GoodJob
    <3> QED
      BY <3>1, JobFields, Sizes DEF Indices
  <2>3. ~jobs[j].over /\ summary' = summary
    BY <1>3 DEF Launch
  <2>4. running' = running \/ running' = running \cup {<<j, jobs[j].next>>}
    BY <1>3 DEF Launch
  <2>5. logs' = logs \/ logs' = [logs EXCEPT ![jobs[j].step] = @ \cup {jobs[j].next}]
    BY <1>3 DEF Launch
  <2>6. logs' \in [1 .. Steps -> SUBSET Indices]
    BY <1>0, <2>2, <2>5
  <2>7. {i \in DOMAIN jobs' : ~jobs'[i].over} = {i \in DOMAIN jobs : ~jobs[i].over}
    BY <2>1
  <2>8. <<j, jobs[j].next>> \in {i \in DOMAIN jobs : ~jobs[i].over} \X Indices
    BY <2>2, <2>3
  <2> QED
    BY <1>0, <2>3, <2>4, <2>6, <2>7, <2>8
<1>4. ASSUME NEW j \in DOMAIN jobs, JobStops(j) \/ JobEnds(j) PROVE Goal
  <2>1. /\ DOMAIN jobs' = DOMAIN jobs
        /\ \A i \in DOMAIN jobs : i # j => jobs'[i] = jobs[i]
    BY <1>4, OneJob
  <2>2. running' \subseteq running /\ UNCHANGED <<logs, summary>>
    BY <1>4 DEF JobStops, JobEnds, dirVars
  <2>3. \A x \in running' : x[1] # j
    BY <1>4 DEF JobStops, JobEnds, RunningOf, dirVars
  <2>4. \A x \in running : x = <<x[1], x[2]>> /\ x[1] \in DOMAIN jobs /\ ~jobs[x[1]].over
        /\ x[2] \in Indices
    BY <1>0
  <2>5. \A x \in running' : x = <<x[1], x[2]>> /\ x[1] \in DOMAIN jobs' /\ ~jobs'[x[1]].over
        /\ x[2] \in Indices
    BY <2>1, <2>2, <2>3, <2>4
  <2> QED
    BY <1>0, <2>2, <2>5
<1>5. ASSUME NEW j \in DOMAIN jobs, NEW k \in Indices, Finish(j, k) PROVE Goal
  <2>1. running' \subseteq running /\ UNCHANGED <<jobs, logs>>
    BY <1>5 DEF Finish
  <2>2. \/ \E outcome \in Programs \cup {Unusable} :
            summary' = [summary EXCEPT ![jobs[j].step][k] = outcome]
        \/ UNCHANGED summary
    BY <1>5 DEF Finish
  <2>3. ASSUME NEW outcome \in Programs \cup {Unusable},
               summary' = [summary EXCEPT ![jobs[j].step][k] = outcome]
        PROVE  summary' \in [1 .. Steps -> [Indices -> Programs \cup {Unusable, None}]]
    <3> DEFINE s == jobs[j].step
               f == [summary[s] EXCEPT ![k] = outcome]
    <3>1. s \in 1 .. Steps
      BY JobFields
    <3>2. summary[s] \in [Indices -> Programs \cup {Unusable, None}]
      BY <1>0, <3>1
    <3>3. f \in [Indices -> Programs \cup {Unusable, None}]
      BY <3>2
    <3>4. summary' = [summary EXCEPT ![s] = f]
      BY <1>0, <2>3
    <3> HIDE DEF f, s
    <3> QED
      BY <1>0, <3>1, <3>3, <3>4
  <2> QED
    BY <1>0, <2>1, <2>2, <2>3
<1>8. ASSUME NEW j \in DOMAIN jobs, JobCut(j) PROVE Goal
  <2>1. /\ DOMAIN jobs' = DOMAIN jobs /\ jobs'[j].over = jobs[j].over
        /\ \A i \in DOMAIN jobs : i # j => jobs'[i] = jobs[i]
    BY <1>8, OneJob
  <2>2. {i \in DOMAIN jobs' : ~jobs'[i].over} = {i \in DOMAIN jobs : ~jobs[i].over}
    BY <2>1
  <2> QED
    BY <1>0, <1>8, <2>2 DEF JobCut
<1>6. JobsStep
  BY JobsSteps
<1> HIDE DEF Goal
<1>7. Goal
  BY <1>1, <1>2, <1>3, <1>4, <1>5, <1>6, <1>8 DEF JobsStep, Goal
<1> QED
  BY <1>7 DEF Goal

-------------------------------------------------------------------------------
(* What a step does to the driver and its files.                           *)

(* The ways in which a manifest changes.                                   *)
Collected ==
  /\ manifest' = [manifest EXCEPT ![step] = Launched(step)]
  /\ UNCHANGED <<step, logs, summary>>
  /\ \/ /\ pc \in {"wait", "topwait"} /\ pc' = "ensure" /\ JobCut(ej)
        /\ fixed \/ NUsable(step) >= K
     \/ /\ pc = "wait" /\ pc' = "ensure" /\ fixed /\ Launched(step) = K
        /\ UNCHANGED <<jobs, running>>
     \/ /\ pc = "ensure" /\ pc' = "prepare" /\ ~fixed /\ NUsable(step) >= K
        /\ UNCHANGED <<jobs, running>>

Reopened ==
  /\ pc = "ensure" /\ ~fixed /\ NUsable(step) < K /\ pc' = "topup"
  /\ manifest' = [manifest EXCEPT ![step] = None]
     /\ UNCHANGED <<jobs, running, logs, summary, step>>

ManifestStep ==
  \/ UNCHANGED manifest \/ Collected \/ Reopened
  \/ \E j \in DOMAIN jobs : JobEnds(j)

(* Every step is one of them.                                              *)
LEMMA ManifestSteps ==
  ASSUME TypeOK, DriverInv, [Next]_vars
  PROVE  ManifestStep
<1> USE DEF ManifestStep
<1>1. CASE Begin \/ SubmitFails \/ Record \/ EnsureFixed \/ StepPrepare \/ Submit
           \/ RunPrepare \/ Prepared \/ Restart \/ Tick \/ UNCHANGED vars
  BY <1>1 DEF Begin, SubmitFails, Record, EnsureFixed, StepPrepare, Submit,
     RunPrepare, Prepared, Restart, Tick, Keep, vars
<1>2. CASE EnsureTarget
  <2>1. pc = "ensure" /\ ~fixed /\ UNCHANGED <<logs, summary, step>>
    BY <1>2 DEF EnsureTarget
  <2>2. CASE NUsable(step) >= K
    BY <1>2, <2>1, <2>2 DEF EnsureTarget, Goto, Collect, Collected
  <2>3. CASE ~(NUsable(step) >= K)
    <3>1. NUsable(step) < K
      BY <2>1, <2>3, Counted, StepIsOne, Sizes
    <3> QED
      BY <1>2, <2>1, <2>3, <3>1 DEF EnsureTarget, Goto, Reopened
  <2> QED
    BY <2>2, <2>3
<1>3. CASE Wait \/ TopUpWait
  BY <1>3 DEF Wait, TopUpWait, Goto, Local, CancelAndCollect, Collect, Collected, JobCut
<1>4. CASE Cluster
  BY <1>4 DEF Cluster, JobDies, Launch, Finish
<1> QED
  BY <1>1, <1>2, <1>3, <1>4 DEF Next, Driver

(* A manifest says a number or is not there.                               *)
LEMMA ManifestType ==
  ASSUME TypeOK, DriverInv, [Next]_vars
  PROVE  manifest' \in [1 .. Steps -> Nat \cup {None}]
<1>1. CASE UNCHANGED manifest
  BY <1>1 DEF TypeOK
<1>2. CASE Collected \/ Reopened
  <2>1. step \in 1 .. Steps /\ Launched(step) \in Nat
    BY <1>2, StepIsOne, Counted DEF Collected, Reopened
  <2> QED
    BY <1>2, <2>1 DEF Collected, Reopened, TypeOK
<1>3. ASSUME NEW j \in DOMAIN jobs, JobEnds(j)
      PROVE  manifest' \in [1 .. Steps -> Nat \cup {None}]
  BY <1>3, Sizes DEF JobEnds, TypeOK
<1> QED
  BY <1>1, <1>2, <1>3, ManifestSteps DEF ManifestStep

(* Only the command writes the files it publishes.                         *)
LEMMA FilesRest ==
  ASSUME [Next]_vars
  PROVE  (pc = "preparing" /\ Prepare) \/ UNCHANGED <<state, replay, curve, parentFile, marker>>
<1>1. CASE Begin \/ SubmitFails \/ Record \/ EnsureFixed \/ EnsureTarget
           \/ Submit \/ Wait \/ TopUpWait \/ UNCHANGED vars
  BY <1>1 DEF Begin, SubmitFails, Record, EnsureFixed, EnsureTarget,
     Submit, Wait, TopUpWait, Keep, vars, discoverVars
<1>2. CASE Cluster \/ Tick \/ Restart
  BY <1>2 DEF Cluster, Tick, Restart, Launch, JobEnds, JobDies, Finish, discoverVars
<1>3. CASE StepPrepare \/ RunPrepare \/ Prepared
  BY <1>3 DEF StepPrepare, StartPrepare, RunPrepare, Prepared, discoverVars
<1> QED
  BY <1>1, <1>2, <1>3 DEF Next, Driver

(* Every step keeps every variable in its type.                            *)
LEMMA TypeStep ==
  ASSUME TypeOK, DriverInv, JobInv, [Next]_vars
  PROVE  TypeOK'
<1>0. /\ fixed \in BOOLEAN /\ clock \in {"open", "closing", "past"} /\ step \in 1 .. Steps + 1
      /\ faults \in 0 .. MaxFaults /\ MaxFaults \in Nat /\ Steps \in Nat \ {0}
  BY Sizes DEF TypeOK
<1>1. fixed' \in BOOLEAN /\ clock' \in {"open", "closing", "past"}
  <2>1. CASE Begin \/ SubmitFails \/ Record \/ EnsureFixed \/ EnsureTarget \/ StepPrepare
           \/ RunPrepare \/ Prepared \/ Submit \/ Wait \/ TopUpWait \/ UNCHANGED vars
    BY <1>0, <2>1 DEF Begin, SubmitFails, Record, EnsureFixed, EnsureTarget, StepPrepare,
       RunPrepare, Prepared, Submit, Wait, TopUpWait, Keep, vars
  <2>2. CASE Cluster \/ Tick \/ Restart
    BY <1>0, <2>2 DEF Cluster, Tick, Restart, Launch, JobEnds, JobDies, Finish
  <2> QED
    BY <2>1, <2>2 DEF Next, Driver
<1>2. step' \in 1 .. Steps + 1
  <2>1. step' = step \/ step' = 1 \/ (pc # "done" /\ step' = step + 1)
    <3>1. CASE Begin \/ SubmitFails \/ Record \/ EnsureFixed \/ EnsureTarget \/ StepPrepare
             \/ RunPrepare \/ Prepared \/ Submit \/ Wait \/ TopUpWait \/ UNCHANGED vars
      BY <3>1 DEF Begin, SubmitFails, Record, EnsureFixed, EnsureTarget, StepPrepare,
         RunPrepare, Prepared, Submit, Wait, TopUpWait, Local, NextStep, vars, driverVars
    <3>2. CASE Cluster \/ Tick \/ Restart
      BY <3>2 DEF Cluster, Tick, Restart, Launch, JobEnds, JobDies, Finish, driverVars
    <3> QED
      BY <3>1, <3>2 DEF Next, Driver
  <2>2. pc # "done" => step <= Steps
    BY DEF DriverInv
  <2> QED
    BY <1>0, <2>1, <2>2
<1>3. faults' \in 0 .. MaxFaults
  <2>1. faults' = faults \/ (faults < MaxFaults /\ faults' = faults + 1)
    <3>1. CASE Begin \/ SubmitFails \/ Record \/ EnsureFixed \/ EnsureTarget \/ StepPrepare
             \/ RunPrepare \/ Prepared \/ Submit \/ Wait \/ TopUpWait \/ UNCHANGED vars
      BY <3>1 DEF Begin, SubmitFails, Record, EnsureFixed, EnsureTarget, StepPrepare,
         RunPrepare, Prepared, Submit, Wait, TopUpWait, Local, vars, driverVars
    <3>2. CASE Cluster \/ Tick \/ Restart
      BY <3>2 DEF Cluster, Tick, Restart, Launch, JobEnds, JobDies, Finish, driverVars
    <3> QED
      BY <3>1, <3>2 DEF Next, Driver
  <2> QED
    BY <1>0, <2>1
<1>4. jobFile' \in [1 .. Steps -> (DOMAIN jobs') \cup {None}]
  <2>1. \A j \in DOMAIN jobs : j \in DOMAIN jobs'
    BY JobsKeep
  <2>2. jobFile' = jobFile \/ (ej \in DOMAIN jobs /\ jobFile' = [jobFile EXCEPT ![step] = ej])
    <3>1. CASE Begin \/ SubmitFails \/ EnsureFixed \/ EnsureTarget \/ StepPrepare
             \/ RunPrepare \/ Prepared \/ Submit \/ Wait \/ TopUpWait \/ UNCHANGED vars
      BY <3>1 DEF Begin, SubmitFails, EnsureFixed, EnsureTarget, StepPrepare,
         RunPrepare, Prepared, Submit, Wait, TopUpWait, vars
    <3>2. CASE Cluster \/ Tick \/ Restart
      BY <3>2 DEF Cluster, Tick, Restart, Launch, JobEnds, JobDies, Finish
    <3>3. CASE Record
      BY <3>3 DEF Record, DriverInv, StepJobs
    <3> QED
      BY <3>1, <3>2, <3>3 DEF Next, Driver
  <2> QED
    BY <2>1, <2>2 DEF TypeOK
<1>5. /\ DOMAIN parentFile' = 1 .. Steps /\ DOMAIN replay' = 1 .. Steps
      /\ marker' \in [1 .. Steps -> BOOLEAN]
  <2>1. CASE Prepare
    BY <2>1 DEF TypeOK, Prepare, WriteReplay, CommitState, AppendCurve, WriteParent, WriteMarker
  <2>2. CASE UNCHANGED <<parentFile, replay, marker>>
    BY <2>2 DEF TypeOK
  <2> QED
    BY <2>1, <2>2, FilesRest
<1> QED
  BY <1>1, <1>2, <1>3, <1>4, <1>5, ManifestType, DirType, JobsKeep DEF TypeOK

(* Jobs stay with their step.                                              *)
LEMMA StepJobsKeep ==
  ASSUME TypeOK, DriverInv, [Next]_vars
  PROVE  \A s : \A j \in StepJobs(s) : j \in StepJobs(s)' /\ Writer(j)' = Writer(j)
  BY JobsKeep DEF StepJobs, Writer

(* A parent file of another step than the driver's is let alone.           *)
LEMMA ParentsKeep ==
  ASSUME TypeOK, PrepInv, [Next]_vars
  PROVE  \A s \in 1 .. Steps : s # step => parentFile'[s] = parentFile[s]
<1>1. CASE pc = "preparing" /\ Prepare
  BY <1>1 DEF PrepInv, Prepare, WriteReplay, CommitState, AppendCurve, WriteParent,
     WriteMarker, At, TypeOK
<1> QED
  BY <1>1, FilesRest

(* The smaller of two numbers.                                             *)
LEMMA Smaller ==
  ASSUME NEW x \in Int, NEW y \in Int
  PROVE  Min({x, y}) \in {x, y} /\ Min({x, y}) <= x /\ Min({x, y}) <= y
<1>1. \E z \in {x, y} : \A w \in {x, y} : z <= w
  OBVIOUS
<1> QED
  BY <1>1 DEF Min

(* The top-up fits in what is left.                                        *)
LEMMA PlanFits ==
  ASSUME TypeOK, NEW s \in 1 .. Steps, NUsable(s) < K, K + MaxSupplement - Launched(s) > 0
  PROVE  LET count == Min({K - NUsable(s), K + MaxSupplement - Launched(s)}) IN
         /\ count \in Nat \ {0} /\ Launched(s) + count <= K + MaxSupplement
         /\ NUsable(s) + count <= K
<1> DEFINE x == K - NUsable(s)
           y == K + MaxSupplement - Launched(s)
<1>1. NUsable(s) \in Nat /\ Launched(s) \in Nat /\ K \in Nat /\ MaxSupplement \in Nat
  BY Counted, Sizes
<1>2. x \in Nat \ {0} /\ y \in Nat \ {0}
  BY <1>1
<1> HIDE DEF x, y
<1>3. Min({x, y}) \in Nat \ {0} /\ Min({x, y}) <= x /\ Min({x, y}) <= y
  <2>1. Min({x, y}) \in {x, y} /\ Min({x, y}) <= x /\ Min({x, y}) <= y
    <3>1. x \in Int /\ y \in Int
      BY <1>2
    <3> QED
      BY <3>1, Smaller, Zenon
  <2>2. \A z \in {x, y} : z \in Nat \ {0}
    BY <1>2
  <2> QED
    BY <2>1, <2>2, Zenon
<1> USE DEF x, y
<1> DEFINE m == Min({x, y})
<1> HIDE DEF m
<1>4. m \in Nat \ {0} /\ m <= K - NUsable(s) /\ m <= K + MaxSupplement - Launched(s)
  BY <1>3 DEF m
<1>5. m \in Nat \ {0} /\ Launched(s) + m <= K + MaxSupplement /\ NUsable(s) + m <= K
  BY <1>1, <1>4
<1> QED
  BY <1>5 DEF m

(* Every step leaves the driver where it may be.                           *)
LEMMA DriverStep ==
  ASSUME TypeOK, DriverInv, PrepInv, [Next]_vars
  PROVE  DriverInv'
<1> DEFINE Where ==
             /\ pc \in InHand \cup {"begin", "stopped", "done"}
             /\ pc # "done" => step <= Steps
             /\ pc \in {"record", "wait", "topwait"} => ej \in StepJobs(step)
             /\ pc \in {"record", "wait"} => Writer(ej)
             /\ pc \in AtTopUp => /\ plan.start \in Nat /\ plan.count \in Nat \ {0}
                                  /\ plan.start + plan.count <= K + MaxSupplement
                                  /\ ~fixed
             /\ pc \in InHand /\ step > 1 => parentFile[step - 1] # None
             /\ pc = "prepare" => manifest[step] # None
           Kept == \A s \in 1 .. Steps : jobFile[s] # None =>
                     jobFile[s] \in StepJobs(s) /\ Writer(jobFile[s])
<1>1. Where /\ Kept
  BY DEF DriverInv
<1>2. \A s : \A j \in StepJobs(s) : j \in StepJobs(s)' /\ Writer(j)' = Writer(j)
  BY StepJobsKeep
<1>3. \A s \in 1 .. Steps : s # step => parentFile'[s] = parentFile[s]
  BY ParentsKeep
<1>4. step \in Nat /\ step >= 1 /\ Steps \in Nat \ {0}
  BY Sizes DEF TypeOK
<1>5. Kept'
  <2>1. CASE UNCHANGED jobFile
    BY <1>1, <1>2, <2>1
  <2>2. CASE Record
    <3>1. ej \in StepJobs(step) /\ Writer(ej)
      BY <1>1, <2>2 DEF Record
    <3>2. jobFile' = [jobFile EXCEPT ![step] = ej]
      BY <2>2 DEF Record
    <3> QED
      BY <1>1, <1>2, <3>1, <3>2 DEF TypeOK
  <2>3. CASE Begin \/ SubmitFails \/ EnsureFixed \/ EnsureTarget \/ StepPrepare
             \/ RunPrepare \/ Prepared \/ Submit \/ Wait \/ TopUpWait \/ UNCHANGED vars
    BY <2>1, <2>3 DEF Begin, SubmitFails, EnsureFixed, EnsureTarget, StepPrepare,
         RunPrepare, Prepared, Submit, Wait, TopUpWait, vars
  <2>4. CASE Cluster \/ Tick \/ Restart
    BY <2>1, <2>4 DEF Cluster, Tick, Restart, Launch, JobEnds, JobDies, Finish
  <2> QED
    BY <2>2, <2>3, <2>4 DEF Next, Driver
<1>6. Where'
  <2>1. CASE UNCHANGED <<pc, step, ej, plan, fixed>>
             /\ (pc = "prepare" /\ manifest[step] # None => manifest'[step] # None)
    BY <1>1, <1>2, <1>3, <1>4, <2>1 DEF InHand
  <2>2. CASE Cluster
    <3>1. UNCHANGED <<pc, step, ej, plan, fixed>>
      BY <2>2 DEF Cluster, Launch, JobEnds, JobDies, Finish, driverVars
    <3>2. ASSUME pc = "prepare", manifest[step] # None PROVE manifest'[step] # None
      <4>1. UNCHANGED manifest \/ \E j \in DOMAIN jobs : JobEnds(j)
        BY <2>2 DEF Cluster, Launch, JobDies, Finish
      <4>2. K # None
        BY Sizes, NoneAssumption
      <4> QED
        BY <3>2, <4>1, <4>2, <1>1, <1>4 DEF JobEnds, TypeOK
    <3> QED
      BY <2>1, <3>1, <3>2
  <2>3. CASE Tick \/ RunPrepare \/ UNCHANGED vars
    BY <2>1, <2>3 DEF Tick, RunPrepare, driverVars, vars
  <2>4. CASE Restart
    BY <1>4, <2>4 DEF Restart, Goto, InHand, AtTopUp
  <2>5. CASE Begin
    <3>1. step \in 1 .. Steps
      BY <2>5, StepIsOne DEF Begin
    <3>2. UNCHANGED parentFile
      BY <2>5 DEF Begin, Keep, discoverVars
    <3>3. CASE NextStep
      BY <1>4, <3>1, <3>3 DEF NextStep, Goto, InHand, AtTopUp
    <3>4. CASE pc' \in {"done", "stopped", "ensure", "submit"} /\ UNCHANGED step
               /\ (pc' \in InHand /\ step > 1 => parentFile[step - 1] # None)
      BY <1>4, <3>1, <3>2, <3>4 DEF InHand, AtTopUp
    <3>5. CASE /\ pc' = "wait" /\ ej' = jobFile[step] /\ UNCHANGED step
               /\ jobFile[step] # None /\ (step > 1 => parentFile[step - 1] # None)
      <4>1. jobFile[step] \in StepJobs(step) /\ Writer(jobFile[step])
        BY <1>1, <3>1, <3>5
      <4>2. jobFile[step] \in StepJobs(step)' /\ Writer(jobFile[step])'
        <5> DEFINE s == step
                   j == jobFile[s]
        <5>1. j \in StepJobs(s) /\ Writer(j) /\ UNCHANGED jobs
          BY <2>5, <4>1 DEF Begin
        <5> QED
          BY <5>1, <3>5, <2>5 DEF StepJobs, Writer, Begin
      <4>3. ej' \in StepJobs(step)' /\ Writer(ej)'
        BY <2>5, <3>5, <4>1 DEF StepJobs, Writer, Begin
      <4> QED
        BY <1>4, <3>1, <3>2, <3>5, <4>3 DEF InHand, AtTopUp
    <3> QED
      BY <2>5, <3>3, <3>4, <3>5 DEF Begin, Goto, InHand
  <2>6. CASE Submit
    <3>1. UNCHANGED <<step, plan, fixed, parentFile>> /\ pc \in {"submit", "topup"}
      BY <2>6 DEF Submit, Keep, discoverVars
    <3>2. CASE UNCHANGED pc
      BY <1>1, <1>4, <3>1, <3>2 DEF InHand
    <3>3. CASE ej' = Len(jobs) + 1 /\ pc' = IF pc = "submit" THEN "record" ELSE "topwait"
      <4>1. /\ Len(jobs) + 1 \in DOMAIN jobs' /\ jobs'[Len(jobs) + 1] = NewJob
            /\ NewJob.step = step /\ (pc = "submit" => NewJob.writes)
        BY <2>6, NewJobType, JobAdded DEF Submit
      <4>2. ej' \in StepJobs(step)' /\ (pc' = "record" => Writer(ej)')
        BY <3>1, <3>3, <4>1 DEF StepJobs, Writer
      <4> QED
        BY <1>1, <1>4, <3>1, <3>3, <4>2 DEF InHand, AtTopUp
    <3> QED
      BY <2>6, <3>2, <3>3 DEF Submit, Goto
  <2>7. CASE SubmitFails \/ EnsureFixed
    BY <1>1, <1>4, <2>7 DEF SubmitFails, EnsureFixed, Goto, Local, Keep, discoverVars, InHand,
       AtTopUp
  <2>8. CASE Record
    BY <1>1, <1>2, <1>4, <2>8 DEF Record, Goto, Local, Keep, discoverVars, InHand, AtTopUp
  <2>9. CASE Wait \/ TopUpWait
    BY <1>1, <1>4, <2>9 DEF Wait, TopUpWait, Goto, Local, discoverVars, InHand, AtTopUp
  <2>10. CASE EnsureTarget
    <3>0. /\ pc = "ensure" /\ ~fixed /\ UNCHANGED <<step, ej, fixed, parentFile>>
          /\ step \in 1 .. Steps
      BY <2>10, StepIsOne DEF EnsureTarget, discoverVars
    <3>1. Launched(step) \in Nat /\ NUsable(step) \in Nat /\ Launched(step) # None
      BY <3>0, Counted, NoneAssumption
    <3>2. CASE NUsable(step) >= K
      BY <1>1, <1>4, <2>10, <3>0, <3>1, <3>2 DEF EnsureTarget, Goto, Collect, InHand, AtTopUp,
         TypeOK
    <3>3. CASE pc' = "stopped"
      BY <1>4, <3>0, <3>3 DEF InHand, AtTopUp
    <3>4. CASE ~(NUsable(step) >= K) /\ ~(K + MaxSupplement - Launched(step) <= 0)
      <4>1. NUsable(step) < K /\ K + MaxSupplement - Launched(step) > 0
        BY <3>1, <3>4, Sizes
      <4>2. /\ pc' = "topup"
            /\ plan' = [start |-> Launched(step),
                 count |-> Min({K - NUsable(step), K + MaxSupplement - Launched(step)})]
        BY <2>10, <3>4 DEF EnsureTarget, Goto
      <4>3. plan'.start \in Nat /\ plan'.count \in Nat \ {0}
            /\ plan'.start + plan'.count <= K + MaxSupplement
        BY <3>0, <3>1, <4>1, <4>2, PlanFits
      <4> QED
        BY <1>1, <1>4, <3>0, <4>2, <4>3 DEF InHand, AtTopUp
    <3> QED
      BY <2>10, <3>2, <3>3, <3>4 DEF EnsureTarget, Goto
  <2>11. CASE StepPrepare \/ Prepared
    <3>1. step \in 1 .. Steps /\ pc \in InHand
      BY <2>11, StepIsOne DEF StepPrepare, Prepared, InHand
    <3>2. CASE NextStep
      BY <1>4, <3>1, <3>2 DEF NextStep, Goto, InHand, AtTopUp
    <3>3. CASE pc' \in {"preparing", "stopped"} /\ UNCHANGED <<step, parentFile>>
      BY <1>1, <1>4, <3>1, <3>3 DEF InHand, AtTopUp
    <3> QED
      BY <2>11, <3>2, <3>3 DEF StepPrepare, Prepared, StartPrepare, Goto
  <2> QED
    BY <2>2, <2>3, <2>4, <2>5, <2>6, <2>7, <2>8, <2>9, <2>10, <2>11 DEF Next, Driver
<1> QED
  BY <1>5, <1>6 DEF DriverInv

(* The mode of the campaign does not change.                               *)
LEMMA FixedStays ==
  ASSUME [Next]_vars
  PROVE  fixed' = fixed
<1>1. CASE Begin \/ SubmitFails \/ Record \/ EnsureFixed \/ EnsureTarget \/ StepPrepare
           \/ RunPrepare \/ Prepared \/ Submit \/ Wait \/ TopUpWait \/ UNCHANGED vars
  BY <1>1 DEF Begin, SubmitFails, Record, EnsureFixed, EnsureTarget, StepPrepare,
     RunPrepare, Prepared, Submit, Wait, TopUpWait, Keep, vars
<1>2. CASE Cluster \/ Tick \/ Restart
  BY <1>2 DEF Cluster, Tick, Restart, Launch, JobEnds, JobDies, Finish
<1> QED
  BY <1>1, <1>2 DEF Next, Driver

(* A trajectory that ends writes its own summary.                          *)
LEMMA FinishWrites ==
  ASSUME TypeOK, NEW j \in DOMAIN jobs, NEW k \in Indices, Finish(j, k)
  PROVE  \A s \in 1 .. Steps : \A l \in Indices :
           summary'[s][l] = summary[s][l] \/ (s = jobs[j].step /\ l = k)
<1>1. \/ \E outcome \in Programs \cup {Unusable} :
           summary' = [summary EXCEPT ![jobs[j].step][k] = outcome]
      \/ UNCHANGED summary
  BY DEF Finish
<1>2. summary \in [1 .. Steps -> [Indices -> Programs \cup {Unusable, None}]]
  BY DEF TypeOK
<1>3. ASSUME NEW outcome \in Programs \cup {Unusable}, NEW r \in 1 .. Steps,
             summary' = [summary EXCEPT ![r][k] = outcome]
      PROVE  \A s \in 1 .. Steps : \A l \in Indices :
               summary'[s][l] = summary[s][l] \/ (s = r /\ l = k)
  <2>1. summary[r] \in [Indices -> Programs \cup {Unusable, None}]
    BY <1>2
  <2>2. PICK f : f = [summary[r] EXCEPT ![k] = outcome]
    OBVIOUS
  <2>3. summary' = [summary EXCEPT ![r] = f]
    BY <1>2, <1>3, <2>2
  <2>4. \A l \in Indices : f[l] = summary[r][l] \/ l = k
    BY <2>1, <2>2
  <2> QED
    BY <1>2, <2>3, <2>4
<1> QED
  BY <1>1, <1>3, JobFields

(* Every step leaves the jobs with the indices they cover.                 *)
LEMMA JobStep ==
  ASSUME TypeOK, DriverInv, JobInv, [Next]_vars
  PROVE  JobInv'
<1> DEFINE LogsCovered == \A s \in 1 .. Steps :
                     /\ \A k \in Indices : summary[s][k] # None => k \in logs[s]
                     /\ \A k \in logs[s] : \E j \in StepJobs(s) : k \in Covers(j)
           RunsPassed == \A x \in running : x[2] \in jobs[x[1]].first .. jobs[x[1]].next - 1
           Good == \A j \in DOMAIN jobs : GoodJob(j)
<1>1. Good /\ RunsPassed /\ LogsCovered
  BY DEF JobInv
<1>2. /\ fixed' = fixed /\ DOMAIN jobs \subseteq DOMAIN jobs'
      /\ \A s \in 1 .. Steps : logs[s] \subseteq logs'[s]
      /\ \A s : \A j \in StepJobs(s) : j \in StepJobs(s)' /\ Covers(j)' = Covers(j)
  <2>1. \A j \in DOMAIN jobs :
              /\ j \in DOMAIN jobs' /\ jobs'[j].step = jobs[j].step
              /\ jobs'[j].first = jobs[j].first /\ jobs'[j].last = jobs[j].last
    BY JobsKeep
  <2> QED
    BY <2>1, JobsKeep, FixedStays DEF StepJobs, Covers
<1>3. \A j \in DOMAIN jobs :
        /\ jobs'[j].first = jobs[j].first /\ jobs'[j].last = jobs[j].last
        /\ jobs'[j].step = jobs[j].step /\ jobs'[j].writes = jobs[j].writes
        /\ jobs[j].over => jobs'[j].over
        /\ jobs[j].step \in 1 .. Steps /\ jobs[j].first \in Nat /\ jobs[j].last \in Nat
        /\ jobs[j].next \in Nat
  BY JobsKeep, JobFields
<1>4. ASSUME NEW i \in DOMAIN jobs, jobs'[i] = jobs[i] PROVE GoodJob(i)'
  BY <1>1, <1>2, <1>3, <1>4 DEF GoodJob
<1>5. \A x \in running : x = <<x[1], x[2]>> /\ x[1] \in DOMAIN jobs /\ ~jobs[x[1]].over
                         /\ x[2] \in Indices
  BY DEF TypeOK
<1>a. logs \in [1 .. Steps -> SUBSET Indices]
  BY DEF TypeOK
<1>6. CASE JobsRest
  BY <1>1, <1>2, <1>4, <1>6 DEF JobsRest, JobInv
<1>7. CASE JobAccepted
  <2>1. PICK n \in DOMAIN jobs' :
          /\ jobs'[n] = NewJob /\ DOMAIN jobs' = DOMAIN jobs \cup {n}
          /\ \A i \in DOMAIN jobs : jobs'[i] = jobs[i]
    BY <1>7, NewJobType, JobAdded DEF JobAccepted
  <2>2. /\ NewJob \in JobType /\ NewJob.next = NewJob.first
        /\ NewJob.first <= NewJob.last /\ NewJob.last < K + MaxSupplement
        /\ NewJob.writes => NewJob.first = 0 /\ NewJob.last = K - 1
        /\ ~NewJob.writes => ~fixed
    BY <1>7, NewJobType DEF JobAccepted, DriverInv, AtTopUp
  <2>3. GoodJob(n)'
    <3> DEFINE b == NewJob
    <3>1. /\ b \in JobType /\ b = jobs'[n]
          /\ b.next = b.first /\ b.first <= b.last /\ b.last < K + MaxSupplement
          /\ b.writes => b.first = 0 /\ b.last = K - 1
          /\ ~b.writes => ~fixed'
      BY <1>2, <2>1, <2>2
    <3> HIDE DEF b
    <3>2. b.first \in Nat /\ b.last \in Nat /\ b.next \in Nat
      BY <3>1 DEF JobType
    <3>3. b.first .. b.next - 1 = {} /\ b.next <= b.last + 1 /\ b.first <= b.next
      BY <3>1, <3>2
    <3> QED
      BY <3>1, <3>3 DEF GoodJob
  <2>4. Good'
    BY <1>4, <2>1, <2>3
  <2>5. RunsPassed'
    BY <1>1, <1>5, <1>7, <2>1 DEF JobAccepted
  <2>6. LogsCovered'
    BY <1>1, <1>2, <1>7 DEF JobAccepted
  <2> QED
    BY <2>4, <2>5, <2>6 DEF JobInv
<1>8. ASSUME NEW j \in DOMAIN jobs, Launch(j) PROVE JobInv'
  <2> DEFINE s == jobs[j].step
             k == jobs[j].next
  <2>1. /\ DOMAIN jobs' = DOMAIN jobs /\ jobs'[j].next = k + 1 /\ jobs'[j].over = jobs[j].over
        /\ \A i \in DOMAIN jobs : i # j => jobs'[i] = jobs[i]
    BY <1>8, OneJob
  <2>2. /\ k \in Nat /\ k <= jobs[j].last /\ s \in 1 .. Steps /\ ~jobs[j].over
        /\ UNCHANGED summary
    BY <1>3, <1>8 DEF Launch
  <2>3. k \in Indices
    BY <1>1, <1>3, <2>2, Sizes DEF GoodJob, Indices
  <2>4. /\ running' \subseteq running \cup {<<j, k>>}
        /\ logs' = logs \/ logs' = [logs EXCEPT ![s] = @ \cup {k}]
        /\ summary[s][k] = None => logs' = [logs EXCEPT ![s] = @ \cup {k}]
    BY <1>8 DEF Launch
  <2> HIDE DEF s, k
  <2>5. k \in logs'[s]
    <3>1. CASE summary[s][k] = None
      BY <1>a, <2>2, <2>4, <3>1
    <3>2. CASE summary[s][k] # None
      BY <1>1, <1>2, <2>2, <2>3, <3>2
    <3> QED
      BY <3>1, <3>2
  <2>6. GoodJob(j)'
    <3>1. jobs[j].first .. k - 1 \subseteq logs[s]
      BY <1>1, <2>2 DEF GoodJob, s, k
    <3>2. jobs[j].first .. k \subseteq logs'[s]
      BY <1>2, <1>3, <2>2, <2>5, <3>1
    <3>3. jobs[j].first <= k
      BY <1>1 DEF GoodJob, k
    <3> QED
      BY <1>1, <1>2, <1>3, <2>1, <2>2, <3>2, <3>3 DEF GoodJob, s
  <2>7. Good'
    BY <1>4, <2>1, <2>6
  <2>8. RunsPassed'
    <3>1. ASSUME NEW x \in running' PROVE x[2] \in jobs'[x[1]].first .. jobs'[x[1]].next - 1
      <4>1. CASE x = <<j, k>>
        BY <1>1, <1>3, <2>1, <2>2, <4>1 DEF GoodJob, k
      <4>2. CASE x \in running
        <5>1. x[2] \in jobs[x[1]].first .. jobs[x[1]].next - 1 /\ x[1] \in DOMAIN jobs
          BY <1>1, <1>5, <4>2
        <5>2. jobs'[x[1]].first = jobs[x[1]].first /\ jobs[x[1]].next \in Nat
          BY <1>3, <5>1
        <5>3. jobs'[x[1]].next = jobs[x[1]].next \/ jobs'[x[1]].next = jobs[x[1]].next + 1
          BY <2>1, <5>1 DEF k
        <5> QED
          BY <1>3, <5>1, <5>2, <5>3
      <4> QED
        BY <2>4, <4>1, <4>2
    <3> QED
      BY <3>1
  <2>9. LogsCovered'
    <3>1. ASSUME NEW r \in 1 .. Steps, NEW l \in logs'[r]
          PROVE  \E i \in StepJobs(r)' : l \in Covers(i)'
      <4>1. CASE l \in logs[r]
        BY <1>1, <1>2, <4>1
      <4>2. CASE r = s /\ l = k
        <5>1. j \in StepJobs(r) /\ k \in Covers(j)
          BY <1>1, <1>3, <2>2, <4>2 DEF StepJobs, Covers, GoodJob, s, k
        <5> QED
          BY <1>2, <4>2, <5>1
      <4> QED
        BY <1>a, <2>2, <2>4, <4>1, <4>2
    <3>2. \A r \in 1 .. Steps : \A l \in Indices : summary'[r][l] # None => l \in logs'[r]
      BY <1>1, <1>2, <2>2
    <3> QED
      BY <3>1, <3>2
  <2> QED
    BY <2>7, <2>8, <2>9 DEF JobInv
<1>9. ASSUME NEW j \in DOMAIN jobs, JobStops(j) \/ JobEnds(j) PROVE JobInv'
  <2>1. /\ DOMAIN jobs' = DOMAIN jobs /\ jobs'[j].over
        /\ jobs'[j].next \in {jobs[j].next, jobs[j].last + 1}
        /\ \A i \in DOMAIN jobs : i # j => jobs'[i] = jobs[i]
    BY <1>9, OneJob
  <2>2. running' \subseteq running /\ UNCHANGED <<logs, summary>>
    BY <1>9 DEF JobStops, JobEnds, dirVars
  <2>3. \A x \in running' : x[1] # j
    BY <1>9 DEF JobStops, JobEnds, RunningOf, dirVars
  <2>4. GoodJob(j)'
    BY <1>1, <1>2, <1>3, <2>1 DEF GoodJob
  <2>5. Good'
    BY <1>4, <2>1, <2>4
  <2>6. RunsPassed'
    BY <1>1, <1>5, <2>1, <2>2, <2>3
  <2>7. LogsCovered'
    BY <1>1, <1>2, <2>2
  <2> QED
    BY <2>5, <2>6, <2>7 DEF JobInv
<1>10. ASSUME NEW j \in DOMAIN jobs, NEW k \in Indices, Finish(j, k) PROVE JobInv'
  <2>1. running' \subseteq running /\ UNCHANGED <<jobs, logs>> /\ <<j, k>> \in running
    BY <1>10 DEF Finish
  <2>2. Good' /\ RunsPassed'
    BY <1>1, <1>4, <2>1
  <2>3. k \in logs[jobs[j].step]
    BY <1>1, <1>5, <2>1 DEF GoodJob
  <2>4. \A s \in 1 .. Steps : \A l \in Indices :
          summary'[s][l] = summary[s][l] \/ (s = jobs[j].step /\ l = k)
    BY <1>10, FinishWrites
  <2>5. LogsCovered'
    BY <1>1, <1>2, <2>1, <2>3, <2>4
  <2> QED
    BY <2>2, <2>5 DEF JobInv
<1>11. ASSUME NEW j \in DOMAIN jobs, JobCut(j) PROVE JobInv'
  <2>1. /\ DOMAIN jobs' = DOMAIN jobs /\ jobs'[j].over = jobs[j].over
        /\ jobs'[j].next = jobs[j].next
        /\ \A i \in DOMAIN jobs : i # j => jobs'[i] = jobs[i]
    BY <1>11, OneJob
  <2>2. UNCHANGED <<running, logs, summary>>
    BY <1>11 DEF JobCut
  <2>3. GoodJob(j)'
    BY <1>1, <1>2, <1>3, <2>1, <2>2 DEF GoodJob
  <2>4. Good'
    BY <1>4, <2>1, <2>3
  <2>5. RunsPassed'
    BY <1>1, <1>3, <1>5, <2>1, <2>2
  <2>6. LogsCovered'
    BY <1>1, <1>2, <2>2
  <2> QED
    BY <2>4, <2>5, <2>6 DEF JobInv
<1> QED
  BY <1>6, <1>7, <1>8, <1>9, <1>10, <1>11, JobsSteps DEF JobsStep

-------------------------------------------------------------------------------
(* What is charged.                                                        *)

(* What the batches launched, as the sequence that is summed.              *)
LEMMA ChargedSeq ==
  ASSUME NEW st, Numbered(st.batches), NEW k \in Nat
  PROVE  LET f == [i \in DOMAIN st.batches |->
                     IF st.batches[i].step <= k THEN st.batches[i].launched ELSE 0]
         IN /\ f \in Seq(Nat) /\ Len(f) = Len(st.batches) /\ Charged(st, k) = Total(f)
            /\ Len(st.batches) \in Nat /\ DOMAIN st.batches = 1 .. Len(st.batches)
            /\ \A i \in 1 .. Len(st.batches) : f[i] = IF i <= k THEN st.batches[i].launched ELSE 0
<1> DEFINE f == [i \in DOMAIN st.batches |->
                   IF st.batches[i].step <= k THEN st.batches[i].launched ELSE 0]
           n == Len(st.batches)
<1>1. n \in Nat /\ DOMAIN st.batches = 1 .. n
  <2>1. PICK T : st.batches \in Seq(T)
    BY DEF Numbered
  <2> QED
    BY <2>1
<1>2. \A i \in 1 .. n : st.batches[i].step = i /\ st.batches[i].launched \in Nat
  BY DEF Numbered
<1> HIDE DEF n
<1>3. \A i \in 1 .. n : f[i] = (IF i <= k THEN st.batches[i].launched ELSE 0) /\ f[i] \in Nat
  BY <1>1, <1>2
<1>4. f = [i \in 1 .. n |-> f[i]]
  BY <1>1
<1>5. Charged(st, k) = Total(f)
  BY DEF Charged
<1> HIDE DEF f
<1>6. f \in Seq(Nat) /\ Len(f) = n
  BY <1>1, <1>3, <1>4
<1> QED
  BY <1>1, <1>3, <1>5, <1>6 DEF f, n

(* It is a number, and the same from the last batch on.                    *)
LEMMA ChargedNat ==
  ASSUME NEW st, Numbered(st.batches)
  PROVE  /\ \A k \in Nat : Charged(st, k) \in Nat
         /\ st.batches = <<>> => \A k \in Nat : Charged(st, k) = 0
         /\ \A k, m \in Nat : Len(st.batches) <= k /\ Len(st.batches) <= m =>
              Charged(st, k) = Charged(st, m)
<1> DEFINE f(k) == [i \in DOMAIN st.batches |->
                      IF st.batches[i].step <= k THEN st.batches[i].launched ELSE 0]
<1>1. \A k \in Nat : f(k) \in Seq(Nat) /\ Len(f(k)) = Len(st.batches)
      /\ Charged(st, k) = Total(f(k))
  BY ChargedSeq
<1>2. ASSUME NEW k \in Nat, NEW m \in Nat, Len(st.batches) <= k, Len(st.batches) <= m
      PROVE  f(k) = f(m)
  <2>1. /\ DOMAIN st.batches = 1 .. Len(st.batches) /\ Len(st.batches) \in Nat
        /\ \A i \in 1 .. Len(st.batches) : st.batches[i].step = i
    BY ChargedSeq DEF Numbered
  <2>2. \A i \in DOMAIN st.batches : st.batches[i].step <= k /\ st.batches[i].step <= m
    BY <1>2, <2>1
  <2> QED
    BY <2>2
<1> HIDE DEF f
<1>3. \A k \in Nat : Total(f(k)) \in Nat /\ (Len(f(k)) = 0 => Total(f(k)) = 0)
  BY <1>1, TotalNat
<1>4. st.batches = <<>> => Len(st.batches) = 0
  OBVIOUS
<1> QED
  BY <1>1, <1>2, <1>3, <1>4

(* A batch is added at the end.                                            *)
Added(st, u, b) ==
  /\ Numbered(st.batches) /\ u.batches = Append(st.batches, b)
  /\ b.step = Len(st.batches) + 1 /\ b.launched \in Nat

(* The batches are still numbered.                                         *)
LEMMA BatchAdded ==
  ASSUME NEW st, NEW u, NEW b, Added(st, u, b)
  PROVE  /\ Numbered(u.batches) /\ Len(u.batches) = Len(st.batches) + 1
         /\ u.batches[Len(st.batches) + 1] = b
         /\ \A i \in 1 .. Len(st.batches) : u.batches[i] = st.batches[i]
<1> DEFINE n == Len(st.batches)
<1> USE DEF Added
<1>1. PICK T : st.batches \in Seq(T)
  BY DEF Numbered
<1>2. /\ u.batches \in Seq(T \cup {b}) /\ Len(u.batches) = n + 1 /\ n \in Nat
      /\ u.batches[n + 1] = b /\ \A i \in 1 .. n : u.batches[i] = st.batches[i]
  BY <1>1
<1> HIDE DEF n
<1>3. \A i \in 1 .. n : st.batches[i].step = i /\ st.batches[i].launched \in Nat
  BY DEF Numbered, n
<1>4. \A i \in 1 .. n + 1 : u.batches[i].step = i /\ u.batches[i].launched \in Nat
  BY <1>2, <1>3 DEF n
<1>5. Numbered(u.batches)
  BY <1>2, <1>4 DEF Numbered
<1> QED
  BY <1>2, <1>5 DEF n

(* What it launched is charged from its own step on.                       *)
LEMMA ChargedMore ==
  ASSUME NEW st, NEW u, NEW b, Added(st, u, b)
  PROVE  /\ \A k \in 0 .. Len(st.batches) : Charged(u, k) = Charged(st, k)
         /\ \A k \in Nat : k > Len(st.batches) => Charged(u, k) = Charged(st, k) + b.launched
<1> DEFINE n == Len(st.batches)
<1>1. /\ Numbered(u.batches) /\ Len(u.batches) = Len(st.batches) + 1
      /\ u.batches[Len(st.batches) + 1] = b
      /\ \A i \in 1 .. Len(st.batches) : u.batches[i] = st.batches[i]
  BY BatchAdded
<1>2. /\ Len(u.batches) = n + 1 /\ n \in Nat
      /\ u.batches[n + 1] = b /\ \A i \in 1 .. n : u.batches[i] = st.batches[i]
  BY <1>1, ChargedSeq DEF Added
<1>3. Numbered(st.batches) /\ b.launched \in Nat
  BY DEF Added
<1>4. n \in Nat
  BY <1>2
<1> HIDE DEF n
<1>5. Numbered(u.batches)
  BY <1>1
<1>6. ASSUME NEW k \in Nat
      PROVE  Charged(u, k) = Charged(st, k) + (IF n + 1 <= k THEN b.launched ELSE 0)
  <2>1. PICK f \in Seq(Nat) :
          /\ Len(f) = n /\ Charged(st, k) = Total(f)
          /\ \A i \in 1 .. n : f[i] = IF i <= k THEN st.batches[i].launched ELSE 0
    BY <1>3, ChargedSeq DEF n
  <2>2. PICK g \in Seq(Nat) :
          /\ Len(g) = n + 1 /\ Charged(u, k) = Total(g)
          /\ \A i \in 1 .. n + 1 : g[i] = IF i <= k THEN u.batches[i].launched ELSE 0
    <3>1. \E g \in Seq(Nat) :
            /\ Len(g) = Len(u.batches) /\ Charged(u, k) = Total(g)
            /\ \A i \in 1 .. Len(u.batches) : g[i] = IF i <= k THEN u.batches[i].launched ELSE 0
      BY <1>5, ChargedSeq
    <3> QED
      BY <1>2, <3>1
  <2>3. \A i \in 1 .. Len(f) : f[i] = g[i]
    <3>1. ASSUME NEW i \in 1 .. n PROVE f[i] = g[i]
      <4>1. i \in 1 .. n + 1 /\ u.batches[i] = st.batches[i]
        BY <1>2
      <4> QED
        BY <2>1, <2>2, <4>1
    <3> QED
      BY <2>1, <3>1
  <2>4. Total(g) = Total(f) + g[n + 1]
    BY <2>1, <2>2, <2>3, TotalMore
  <2>5. g[n + 1] = IF n + 1 <= k THEN b.launched ELSE 0
    BY <1>2, <2>2
  <2> QED
    BY <2>1, <2>2, <2>4, <2>5
<1>7. \A k \in Nat : Charged(st, k) \in Nat
  BY <1>3, ChargedNat
<1>8. \A k \in 0 .. n : Charged(u, k) = Charged(st, k)
  BY <1>3, <1>4, <1>6, <1>7
<1>9. \A k \in Nat : k > n => Charged(u, k) = Charged(st, k) + b.launched
  BY <1>3, <1>4, <1>6, <1>7
<1> QED
  BY <1>8, <1>9 DEF n

(* What is charged depends on the batches alone.                           *)
LEMMA ChargedSame ==
  ASSUME NEW st, NEW u, st.batches = u.batches
  PROVE  /\ \A k : Charged(st, k) = Charged(u, k)
         /\ \A s : Batch(st, s) = Batch(u, s)
  BY DEF Charged, Batch, Range

(* The batch of a step is the one of its place.                            *)
LEMMA BatchOf ==
  ASSUME NEW st, Numbered(st.batches), NEW s \in Nat \ {0}
  PROVE  /\ s <= Len(st.batches) => Batch(st, s) = {st.batches[s]}
         /\ Batch(st, s) # {} => s <= Len(st.batches)
<1>1. DOMAIN st.batches = 1 .. Len(st.batches) /\ Len(st.batches) \in Nat
  BY ChargedSeq
<1>2. \A i \in 1 .. Len(st.batches) : st.batches[i].step = i
  BY DEF Numbered
<1>3. Batch(st, s) = {st.batches[i] : i \in {i \in 1 .. Len(st.batches) : i = s}}
  BY <1>1, <1>2 DEF Batch, Range
<1> QED
  BY <1>1, <1>3

(* The ways in which the command and what it publishes change.             *)
Started ==
  /\ pc = "prepare" /\ pc' = "preparing" /\ ~marker[step] /\ UNCHANGED step
  /\ StartPrepare(step, LoadBatch(step), manifest[step],
                  IF step = 1 THEN Root ELSE parentFile[step - 1])

PrepStep ==
  \/ Prepare /\ UNCHANGED driverVars
  \/ /\ UNCHANGED <<state, replay, curve, parentFile, marker>>
     /\ prep' = None \/ (prep' = prep /\ (prep # None => UNCHANGED <<pc, step>>)) \/ Started

(* Every step is one of them.                                              *)
LEMMA PrepSteps ==
  ASSUME PrepInv, [Next]_vars
  PROVE  PrepStep
<1> USE DEF PrepStep
<1>1. CASE Begin \/ SubmitFails \/ Record \/ EnsureFixed \/ EnsureTarget
           \/ Submit \/ Wait \/ TopUpWait
  BY <1>1 DEF PrepInv, Begin, SubmitFails, Record, EnsureFixed, EnsureTarget,
     Submit, Wait, TopUpWait, Keep, discoverVars
<1>2. CASE Cluster \/ Tick \/ Restart \/ UNCHANGED vars
  BY <1>2 DEF Cluster, Tick, Restart, Launch, JobEnds, JobDies, Finish, discoverVars, driverVars,
     vars
<1>3. CASE StepPrepare
  <2>1. CASE marker[step]
    BY <1>3, <2>1 DEF StepPrepare, PrepInv, discoverVars
  <2>2. CASE ~marker[step]
    <3>1. Started
      BY <1>3, <2>2 DEF StepPrepare, Goto, Started
    <3> QED
      BY <3>1 DEF Started, StartPrepare
  <2> QED
    BY <2>1, <2>2
<1>4. CASE RunPrepare \/ Prepared
  BY <1>4 DEF RunPrepare, Prepared
<1> QED
  BY <1>1, <1>2, <1>3, <1>4 DEF Next, Driver

(* What the commit adds to the state.                                      *)
LEMMA CommitAdds ==
  ASSUME NEW st, NEW p
  PROVE  /\ UpdatedState(st, p).cum = st.cum + p.launched
         /\ \E b : /\ UpdatedState(st, p).batches = Append(st.batches, b)
                   /\ b.step = p.step /\ b.launched = p.launched /\ b.usable = Len(p.rows)
                   /\ b.trained = Len(TrainRows(p.rows)) /\ b.parent = p.parent
<1> DEFINE best == IF p.rows = <<>> THEN st.best ELSE Max({st.best, BatchBest(p.rows)})
           b == [step |-> p.step, launched |-> p.launched, usable |-> Len(p.rows),
                 trained |-> Len(TrainRows(p.rows)), best |-> best, parent |-> p.parent]
<1>1. UpdatedState(st, p).batches = Append(st.batches, b)
  BY DEF UpdatedState
<1>2. UpdatedState(st, p).cum = st.cum + p.launched
  BY DEF UpdatedState
<1>3. /\ b.step = p.step /\ b.launched = p.launched /\ b.usable = Len(p.rows)
      /\ b.trained = Len(TrainRows(p.rows)) /\ b.parent = p.parent
  OBVIOUS
<1> QED
  BY <1>1, <1>2, <1>3

(* The rows of the curve are the batches', in order.                       *)
LEMMA CurveSteps ==
  ASSUME StateInv, CurveInv
  PROVE  /\ Len(curve) \in Nat /\ Len(state.batches) \in Nat /\ DOMAIN curve = 1 .. Len(curve)
         /\ Len(curve) <= Len(state.batches)
         /\ \A i \in 1 .. Len(curve) : curve[i].step = i /\ i \in 1 .. Len(state.batches)
<1>1. Len(state.batches) \in Nat
  BY ChargedSeq DEF StateInv
<1>2. Len(curve) \in Nat /\ DOMAIN curve = 1 .. Len(curve)
  <2>1. PICK T : curve \in Seq(T)
    BY DEF CurveInv
  <2> QED
    BY <2>1
<1>3. Len(curve) <= Len(state.batches)
  BY <1>1, <1>2 DEF CurveInv
<1>4. ASSUME NEW i \in 1 .. Len(curve) PROVE curve[i].step = i /\ i \in 1 .. Len(state.batches)
  <2>1. i \in 1 .. Len(state.batches)
    BY <1>1, <1>2, <1>3
  <2>2. state.batches[i].step = i
    BY <2>1 DEF StateInv, Numbered
  <2>3. curve[i] = CurveRow(state.batches[i], Charged(state, i))
    BY DEF CurveInv
  <2> QED
    BY <2>1, <2>2, <2>3 DEF CurveRow
<1> QED
  BY <1>1, <1>2, <1>3, <1>4

(* The commit charges the batch once, and the row of the curve is due.     *)
LEMMA CommitStep ==
  ASSUME TypeOK, DriverInv, ChargeInv, CommitState, UNCHANGED driverVars
  PROVE  ChargeInv'
<1> DEFINE n == Len(state.batches)
<1>1. /\ prep # None /\ prep.at = "commit" /\ pc = "preparing" /\ prep.step = step
      /\ prep.launched \in Nat /\ prep.st.batches = state.batches /\ prep.st.cum = state.cum
      /\ step = n + 1 /\ Len(curve) = n /\ ~prep.again
      /\ DOMAIN prep = {"at", "step", "rows", "launched", "parent", "again", "st"}
  BY DEF CommitState, At, ChargeInv, PrepInv
<1>2. /\ state' = UpdatedState(prep.st, prep) /\ UNCHANGED <<replay, curve, parentFile, marker>>
      /\ prep' = [prep EXCEPT !.at = "curve", !.st = state']
  BY DEF CommitState
<1>3. step \in 1 .. Steps /\ Steps \in Nat
  BY <1>1, StepIsOne, Sizes
<1>4. PICK b : /\ state'.batches = Append(state.batches, b) /\ b.step = step
               /\ b.launched = prep.launched
  BY <1>1, <1>2, CommitAdds
<1>5. state'.cum = state.cum + b.launched
  BY <1>1, <1>2, <1>4, CommitAdds
<1>6. Numbered(state.batches) /\ n \in Nat
  BY CurveSteps DEF ChargeInv, StateInv
<1> HIDE DEF n
<1>7. /\ Numbered(state'.batches) /\ Len(state'.batches) = n + 1
      /\ \A i \in 1 .. n : state'.batches[i] = state.batches[i]
      /\ \A k \in 0 .. n : Charged(state', k) = Charged(state, k)
      /\ \A k \in Nat : k > n => Charged(state', k) = Charged(state, k) + b.launched
  <2>1. PICK u : u = state'
    OBVIOUS
  <2>2. Added(state, u, b)
    BY <1>1, <1>4, <1>6, <2>1 DEF n, Added
  <2>3. /\ Numbered(u.batches) /\ Len(u.batches) = Len(state.batches) + 1
        /\ \A i \in 1 .. Len(state.batches) : u.batches[i] = state.batches[i]
    BY <2>2, BatchAdded
  <2>4. /\ \A k \in 0 .. Len(state.batches) : Charged(u, k) = Charged(state, k)
        /\ \A k \in Nat : k > Len(state.batches) =>
             Charged(u, k) = Charged(state, k) + b.launched
    BY <2>2, ChargedMore
  <2> QED
    BY <2>1, <2>3, <2>4 DEF n
<1>8. StateInv'
  <2>1. Steps > n
    BY <1>1, <1>3, <1>6
  <2>2. Charged(state', Steps) = Charged(state, Steps) + b.launched
    BY <1>3, <1>7, <2>1
  <2>3. state.cum = Charged(state, Steps)
    BY DEF ChargeInv, StateInv
  <2> QED
    BY <1>1, <1>3, <1>5, <1>7, <2>2, <2>3 DEF StateInv
<1>9. CurveInv'
  <2>1. ASSUME NEW i \in 1 .. Len(curve)
        PROVE  curve[i] = CurveRow(state'.batches[i], Charged(state', i))
    <3>1. i \in 1 .. n /\ i \in 0 .. n
      BY <1>1, <1>6
    <3>2. curve[i] = CurveRow(state.batches[i], Charged(state, i))
      BY DEF ChargeInv, CurveInv
    <3> QED
      BY <1>7, <3>1, <3>2
  <2>2. Len(curve) \in {n + 1, n + 1 - 1}
    BY <1>1, <1>6
  <2>3. /\ \E T : curve \in Seq(T)
        /\ \A s \in 1 .. Steps : parentFile[s] # None => s <= Len(curve)
    BY DEF ChargeInv, CurveInv
  <2>4. Len(state'.batches) = n + 1 /\ UNCHANGED <<curve, parentFile>>
    BY <1>2, <1>7
  <2>5. Len(curve') \in {Len(state'.batches), Len(state'.batches) - 1}
    BY <1>6, <2>2, <2>4
  <2>6. \A i \in 1 .. Len(curve') : curve'[i] = CurveRow(state'.batches[i], Charged(state', i))
    BY <2>1, <2>4
  <2>7. /\ \E T : curve' \in Seq(T)
        /\ \A s \in 1 .. Steps : parentFile'[s] # None => s <= Len(curve')
    BY <2>3, <2>4
  <2> QED
    BY <2>5, <2>6, <2>7 DEF CurveInv
<1>10. PrepInv'
  <2>1. /\ prep'.at = "curve" /\ prep'.st = state' /\ prep'.step = prep.step
        /\ prep'.launched = prep.launched /\ prep'.again = prep.again
        /\ DOMAIN prep' = DOMAIN prep
    BY <1>1, <1>2
  <2>2. step' = step /\ pc' = pc /\ curve' = curve
    BY <1>2 DEF driverVars
  <2>3. step <= n + 1 /\ n = step - 1
    BY <1>1, <1>6
  <2> QED
    BY <1>1, <1>7, <2>1, <2>2, <2>3 DEF PrepInv
<1> QED
  BY <1>8, <1>9, <1>10 DEF ChargeInv

(* The row that is due is the one appended.                                *)
LEMMA CurveStep ==
  ASSUME TypeOK, DriverInv, ChargeInv, AppendCurve, UNCHANGED driverVars
  PROVE  ChargeInv'
<1> DEFINE n == Len(state.batches)
           due == CurveRow(state.batches[step], Charged(state, step))
<1>1. /\ prep # None /\ prep.at = "curve" /\ pc = "preparing" /\ prep.step = step
      /\ prep.launched \in Nat /\ prep.st.batches = state.batches /\ prep.st.cum = state.cum
      /\ step <= n /\ (~prep.again => step = n /\ Len(curve) = step - 1)
      /\ DOMAIN prep = {"at", "step", "rows", "launched", "parent", "again", "st"}
  BY DEF AppendCurve, At, ChargeInv, PrepInv
<1>2. UNCHANGED <<state, parentFile>> /\ prep' = [prep EXCEPT !.at = "parent"]
  BY DEF AppendCurve
<1>3. step \in 1 .. Steps /\ Steps \in Nat
  BY <1>1, StepIsOne, Sizes
<1>4. /\ Len(curve) \in Nat /\ n \in Nat /\ DOMAIN curve = 1 .. Len(curve)
      /\ Len(curve) \in {n, n - 1} /\ n <= Steps /\ Numbered(state.batches)
      /\ state.cum = Charged(state, Steps)
      /\ \A i \in 1 .. Len(curve) : curve[i].step = i
  BY CurveSteps DEF ChargeInv, StateInv, CurveInv
<1>5. (CHOOSE x \in Batch(prep.st, prep.step) : TRUE) = state.batches[step]
  <2>1. Batch(prep.st, prep.step) = {state.batches[step]}
    BY <1>1, <1>3, <1>4, BatchOf, ChargedSame
  <2> QED
    BY <2>1
<1>6. ASSUME ~prep.again PROVE state.cum = Charged(state, step)
  <2>1. Len(state.batches) <= step /\ Len(state.batches) <= Steps /\ step \in Nat
    BY <1>1, <1>3, <1>4, <1>6
  <2>2. Charged(state, Steps) = Charged(state, step)
    BY <1>3, <1>4, <2>1, ChargedNat
  <2> QED
    BY <1>4, <2>2
<1>7. CurveRow(CHOOSE x \in Batch(prep.st, prep.step) : TRUE,
               IF prep.again THEN Charged(prep.st, prep.step) ELSE prep.st.cum) = due
  <2>1. Charged(prep.st, prep.step) = Charged(state, step)
    BY <1>1, ChargedSame
  <2>2. (IF prep.again THEN Charged(prep.st, prep.step) ELSE prep.st.cum) = Charged(state, step)
    BY <1>1, <1>6, <2>1
  <2> QED
    BY <1>5, <2>2
<1>8. \/ step <= Len(curve) /\ curve' = curve
      \/ step = n /\ Len(curve) = step - 1 /\ curve' = Append(curve, due)
  <2>1. CASE prep.again /\ \E i \in DOMAIN curve : curve[i].step = prep.step
    <3>1. curve' = curve
      BY <2>1 DEF AppendCurve
    <3>2. PICK i \in 1 .. Len(curve) : curve[i].step = step
      BY <1>1, <1>4, <2>1
    <3>3. step <= Len(curve)
      BY <1>4, <3>2
    <3> QED
      BY <3>1, <3>3
  <2>2. CASE ~(prep.again /\ \E i \in DOMAIN curve : curve[i].step = prep.step)
    <3>1. curve' = Append(curve, due)
      BY <1>7, <2>2 DEF AppendCurve
    <3>2. prep.again => ~(step <= Len(curve))
      BY <1>1, <1>3, <1>4, <2>2
    <3>3. step = n /\ Len(curve) = step - 1
      BY <1>1, <1>3, <1>4, <3>2
    <3> QED
      BY <3>1, <3>3
  <2> QED
    BY <2>1, <2>2
<1>9. /\ \E T : curve' \in Seq(T)
      /\ Len(curve') \in {n, n - 1} /\ Len(curve') >= Len(curve) /\ step <= Len(curve')
      /\ \A i \in 1 .. Len(curve') : curve'[i] = CurveRow(state.batches[i], Charged(state, i))
  <2> HIDE DEF n, due
  <2>1. PICK T : curve \in Seq(T)
    BY DEF ChargeInv, CurveInv
  <2>2. \A i \in 1 .. Len(curve) : curve[i] = CurveRow(state.batches[i], Charged(state, i))
    BY DEF ChargeInv, CurveInv
  <2>3. CASE step <= Len(curve) /\ curve' = curve
    <3>1. curve' \in Seq(T) /\ Len(curve') = Len(curve)
      BY <2>1, <2>3
    <3>2. \A i \in 1 .. Len(curve') : curve'[i] = CurveRow(state.batches[i], Charged(state, i))
      BY <2>2, <2>3
    <3>3. \E S : curve' \in Seq(S)
      BY <3>1
    <3>4. Len(curve) \in Nat /\ Len(curve) \in {n, n - 1}
      BY <1>4
    <3>5. Len(curve) >= Len(curve) /\ step <= Len(curve)
      BY <2>3, <3>4
    <3>6. Len(curve') = Len(curve)
      BY <2>3
    <3>7. Len(curve') \in {n, n - 1} /\ Len(curve') >= Len(curve) /\ step <= Len(curve')
      BY <3>4, <3>5, <3>6, Zenon
    <3> QED
      BY <3>2, <3>3, <3>7
  <2>4. CASE step = n /\ Len(curve) = step - 1 /\ curve' = Append(curve, due)
    <3>1. /\ curve' \in Seq(T \cup {due}) /\ Len(curve') = Len(curve) + 1
          /\ \A i \in 1 .. Len(curve) : curve'[i] = curve[i]
          /\ curve'[Len(curve) + 1] = due
      BY <2>1, <2>4
    <3>2. Len(curve) + 1 = step /\ Len(curve') = step
      BY <1>3, <2>4, <3>1
    <3>3. \A i \in 1 .. step : i \in 1 .. Len(curve) \/ i = step
      <4>1. PICK c \in Nat : c = Len(curve) /\ c + 1 = step
        BY <1>4, <3>2
      <4>2. \A i \in 1 .. c + 1 : i \in 1 .. c \/ i = c + 1
        BY <4>1
      <4> QED
        BY <4>1, <4>2
    <3>4. ASSUME NEW i \in 1 .. step
          PROVE  curve'[i] = CurveRow(state.batches[i], Charged(state, i))
      <4>1. CASE i \in 1 .. Len(curve)
        BY <2>2, <3>1, <4>1
      <4>2. CASE i = step
        BY <3>1, <3>2, <4>2 DEF due
      <4> QED
        BY <3>3, <4>1, <4>2
    <3> QED
      BY <1>3, <1>4, <2>4, <3>1, <3>2, <3>4
  <2> QED
    BY <1>8, <2>3, <2>4
<1>10. StateInv'
  BY <1>2 DEF ChargeInv, StateInv
<1>11. CurveInv'
  <2>1. \A s \in 1 .. Steps : parentFile[s] # None => s <= Len(curve)
    BY DEF ChargeInv, CurveInv
  <2>2. Len(curve') \in Nat
    BY <1>9
  <2> QED
    BY <1>2, <1>3, <1>4, <1>9, <2>1, <2>2 DEF CurveInv
<1>12. PrepInv'
  <2>1. /\ prep'.at = "parent" /\ prep'.st = prep.st /\ prep'.step = prep.step
        /\ prep'.launched = prep.launched /\ DOMAIN prep' = DOMAIN prep
    BY <1>1, <1>2
  <2>2. step' = step /\ pc' = pc
    BY DEF driverVars
  <2> QED
    BY <1>1, <1>2, <1>9, <2>1, <2>2 DEF PrepInv
<1> QED
  BY <1>10, <1>11, <1>12 DEF ChargeInv

(* The command begins with the batch that is next, or one that is there.   *)
LEMMA StartStep ==
  ASSUME TypeOK, DriverInv, ChargeInv, Started
  PROVE  PrepInv'
<1> DEFINE st == [state EXCEPT !.archive = Migrated(@)]
           again == Batch(st, step) # {}
           n == Len(state.batches)
<1>1. /\ UNCHANGED <<state, replay, curve, parentFile, marker>> /\ pc = "prepare"
      /\ pc' = "preparing" /\ UNCHANGED step
  BY DEF Started, StartPrepare
<1>2. PICK where \in {"failed", "curve", "replay"} : \E rows, parent :
        /\ prep' = [at |-> where, step |-> step, rows |-> rows, launched |-> manifest[step],
                    parent |-> parent, again |-> again, st |-> st]
        /\ where = "curve" => again
        /\ where = "replay" => ~again
  BY DEF Started, StartPrepare
<1>3. st.batches = state.batches /\ st.cum = state.cum
  OBVIOUS
<1> HIDE DEF st
<1>4. step \in 1 .. Steps /\ manifest[step] \in Nat
  BY <1>1, StepIsOne DEF DriverInv, TypeOK
<1>5. /\ Len(curve) \in Nat /\ n \in Nat /\ Len(curve) <= n /\ Numbered(state.batches)
      /\ \A s \in 1 .. Steps : parentFile[s] # None => s <= Len(curve)
      /\ Len(curve) \in {n, n - 1}
  BY CurveSteps DEF ChargeInv, StateInv, CurveInv
<1>6. again => step <= n
  BY <1>3, <1>4, <1>5, BatchOf, ChargedSame
<1>7. ~again => step = n + 1 /\ Len(curve) = n
  <2>1. ASSUME ~again PROVE ~(step <= n)
    <3>1. Batch(state, step) = {}
      BY <1>3, <2>1, ChargedSame
    <3>2. step <= Len(state.batches) => Batch(state, step) = {state.batches[step]}
      BY <1>4, <1>5, BatchOf
    <3> QED
      BY <3>1, <3>2
  <2>2. step > 1 => parentFile[step - 1] # None
    BY <1>1 DEF DriverInv, InHand
  <2>3. step > 1 => step - 1 <= Len(curve)
    BY <1>4, <1>5, <2>2, Sizes
  <2> HIDE DEF again, n
  <2> QED
    BY <1>4, <1>5, <2>1, <2>3
<1> HIDE DEF again, n
<1>8. /\ prep'.at = where /\ prep'.step = step /\ prep'.launched = manifest[step]
      /\ prep'.again = again /\ prep'.st = st
      /\ DOMAIN prep' = {"at", "step", "rows", "launched", "parent", "again", "st"}
  BY <1>2
<1> QED
  BY <1>1, <1>2, <1>3, <1>4, <1>6, <1>7, <1>8 DEF PrepInv, n

(* Every step charges what it must.                                        *)
LEMMA ChargeStep ==
  ASSUME TypeOK, DriverInv, ChargeInv, [Next]_vars
  PROVE  ChargeInv'
<1>1. CASE Prepare /\ UNCHANGED driverVars
  <2>0. /\ prep # None => prep.step = step
        /\ pc' = pc /\ step' = step
    BY <1>1 DEF ChargeInv, PrepInv, driverVars
  <2>1. CASE WriteReplay
    <3>1. StateInv' /\ CurveInv'
      BY <2>1 DEF WriteReplay, ChargeInv, StateInv, CurveInv
    <3>2. PrepInv'
      BY <2>0, <2>1 DEF WriteReplay, At, ChargeInv, PrepInv
    <3> QED
      BY <3>1, <3>2 DEF ChargeInv
  <2>2. CASE WriteParent
    <3>1. /\ StateInv' /\ UNCHANGED <<state, curve>> /\ At("parent") /\ step <= Len(curve)
          /\ prep.step = step
      BY <2>2 DEF WriteParent, At, ChargeInv, StateInv, PrepInv
    <3>2. CurveInv'
      <4>1. \A s \in 1 .. Steps : parentFile'[s] # None => parentFile[s] # None \/ s = step
        BY <2>2, <3>1 DEF WriteParent, TypeOK
      <4> QED
        BY <3>1, <4>1 DEF ChargeInv, CurveInv
    <3>3. PrepInv'
      BY <2>0, <2>2, <3>1 DEF WriteParent, At, ChargeInv, PrepInv
    <3> QED
      BY <3>1, <3>2, <3>3 DEF ChargeInv
  <2>3. CASE WriteMarker
    BY <2>3 DEF WriteMarker, ChargeInv, StateInv, CurveInv, PrepInv
  <2> QED
    BY <1>1, <2>1, <2>2, <2>3, CommitStep, CurveStep DEF Prepare
<1>2. CASE Started
  <2>1. PrepInv'
    BY <1>2, StartStep
  <2> QED
    BY <1>2, <2>1 DEF Started, StartPrepare, ChargeInv, StateInv, CurveInv
<1>3. CASE /\ UNCHANGED <<state, replay, curve, parentFile, marker>>
           /\ prep' = None \/ (prep' = prep /\ (prep # None => UNCHANGED <<pc, step>>))
  <2>1. StateInv' /\ CurveInv'
    BY <1>3 DEF ChargeInv, StateInv, CurveInv
  <2>2. PrepInv'
    BY <1>3 DEF ChargeInv, PrepInv
  <2> QED
    BY <2>1, <2>2 DEF ChargeInv
<1>4. PrepStep
  BY PrepSteps DEF ChargeInv
<1> QED
  BY <1>1, <1>2, <1>3, <1>4 DEF PrepStep

-------------------------------------------------------------------------------
(* What is launched.                                                       *)

(* What is launched stays so, and a first job that is over.                *)
LEMMA LaunchedKeeps ==
  ASSUME TypeOK, DriverInv, JobInv, [Next]_vars, NEW s \in 1 .. Steps
  PROVE  /\ Launched(s) \in Nat /\ Launched(s)' \in Nat /\ Launched(s) <= Launched(s)'
         /\ StepJobs(s) # {} => StepJobs(s)' # {}
         /\ WriterOver(s) => WriterOver(s)'
<1>1. TypeOK'
  BY TypeStep
<1>2. PICK T : T = logs'[s]
  OBVIOUS
<1>3. IsFiniteSet(T) /\ logs[s] \subseteq T
  <2>1. T \subseteq Indices
    BY <1>1, <1>2 DEF TypeOK
  <2> QED
    BY <1>2, <2>1, Sizes, FS_Subset, JobsKeep
<1>4. /\ Cardinality(logs[s]) \in Nat /\ Cardinality(T) \in Nat
      /\ Cardinality(logs[s]) <= Cardinality(T)
  BY <1>3, MoreOrSame
<1>5. Launched(s)' = Cardinality(T) /\ Launched(s) = Cardinality(logs[s])
  BY <1>2 DEF Launched
<1>6. \A j \in StepJobs(s) : j \in StepJobs(s)'
  BY StepJobsKeep
<1>7. ASSUME WriterOver(s) PROVE WriterOver(s)'
  <2>1. PICK j \in StepJobs(s) : Writer(j) /\ jobs[j].over
    BY <1>7 DEF WriterOver
  <2>2. j \in StepJobs(s)' /\ Writer(j)' /\ jobs'[j].over
    BY <2>1, StepJobsKeep, JobsKeep DEF StepJobs
  <2> QED
    BY <2>2 DEF WriterOver
<1> QED
  BY <1>4, <1>5, <1>6, <1>7

(* A first job that has passed its indices has launched K.                 *)
LEMMA WriterLaunched ==
  ASSUME TypeOK, JobInv, NEW j \in DOMAIN jobs, jobs[j].writes, ~jobs[j].over,
         jobs[j].next > jobs[j].last
  PROVE  Covers(j) = 0 .. K - 1 /\ Covers(j) \subseteq logs[jobs[j].step]
         /\ K <= Launched(jobs[j].step)
<1> DEFINE s == jobs[j].step
<1>1. /\ s \in 1 .. Steps /\ jobs[j].first = 0 /\ jobs[j].last = K - 1
      /\ jobs[j].next = K /\ 0 .. K - 1 \subseteq logs[s]
  <2>1. /\ jobs[j].first = 0 /\ jobs[j].last = K - 1 /\ jobs[j].next <= jobs[j].last + 1
        /\ jobs[j].first .. jobs[j].next - 1 \subseteq logs[s]
    BY DEF JobInv, GoodJob
  <2>2. s \in 1 .. Steps /\ jobs[j].next \in Nat
    BY JobFields
  <2>3. jobs[j].next = K
    BY <2>1, <2>2, Sizes
  <2> QED
    BY <2>1, <2>2, <2>3
<1>2. K - 1 \in Nat /\ K - 1 - 0 + 1 = K /\ K \in Nat
  BY Sizes
<1>3. Cardinality(0 .. K - 1) = K
  <2>1. PICK n \in Nat : n = K - 1 /\ n - 0 + 1 = K /\ 0 <= n
    BY <1>2
  <2>2. Cardinality(0 .. n) = n - 0 + 1
    BY <2>1, FS_Interval
  <2> QED
    BY <2>1, <2>2
<1> HIDE DEF s
<1>4. IsFiniteSet(logs[s])
  BY <1>1, Counted
<1>5. K <= Cardinality(logs[s])
  BY <1>1, <1>3, <1>4, MoreOrSame
<1> QED
  BY <1>1, <1>5 DEF Covers, Launched, s

(* What state.json holds changes only when it is committed.                *)
LEMMA BatchesStep ==
  ASSUME TypeOK, DriverInv, ChargeInv, [Next]_vars
  PROVE  \/ UNCHANGED state
         \/ /\ prep # None /\ pc = "preparing" /\ UNCHANGED driverVars
            /\ prep.step = step /\ step = Len(state.batches) + 1
            /\ prep'.launched = prep.launched /\ prep'.rows = prep.rows
            /\ Len(state'.batches) = Len(state.batches) + 1
            /\ \A i \in 1 .. Len(state.batches) : state'.batches[i] = state.batches[i]
            /\ state'.batches[step].launched = prep.launched
            /\ state'.batches[step].usable = Len(prep.rows)
<1>1. CASE CommitState /\ UNCHANGED driverVars
  <2>1. /\ prep # None /\ pc = "preparing" /\ prep.step = step /\ prep.launched \in Nat
        /\ prep.st.batches = state.batches /\ step = Len(state.batches) + 1
        /\ DOMAIN prep = {"at", "step", "rows", "launched", "parent", "again", "st"}
    BY <1>1 DEF CommitState, At, ChargeInv, PrepInv
  <2>2. /\ state' = UpdatedState(prep.st, prep)
        /\ prep' = [prep EXCEPT !.at = "curve", !.st = state']
    BY <1>1 DEF CommitState
  <2>3. PICK b : /\ state'.batches = Append(state.batches, b) /\ b.step = step
                 /\ b.launched = prep.launched /\ b.usable = Len(prep.rows)
    BY <2>1, <2>2, CommitAdds
  <2>4. PICK u : u = state'
    OBVIOUS
  <2>5. Added(state, u, b)
    BY <2>1, <2>3, <2>4 DEF Added, ChargeInv, StateInv
  <2>6. /\ Len(u.batches) = Len(state.batches) + 1
        /\ u.batches[Len(state.batches) + 1] = b
        /\ \A i \in 1 .. Len(state.batches) : u.batches[i] = state.batches[i]
    BY <2>5, BatchAdded
  <2>7. prep'.launched = prep.launched /\ prep'.rows = prep.rows
    BY <2>1, <2>2
  <2> QED
    BY <1>1, <2>1, <2>3, <2>4, <2>6, <2>7
<1>2. CASE ~CommitState
  BY <1>2, PrepSteps DEF PrepStep, Prepare, WriteReplay, AppendCurve, WriteParent, WriteMarker,
     ChargeInv
<1> QED
  BY <1>1, <1>2, PrepSteps DEF PrepStep, ChargeInv, CommitState

(* How the manifest of one step comes to say what it says.                 *)
LEMMA ManifestOf ==
  ASSUME TypeOK, DriverInv, [Next]_vars, NEW s \in 1 .. Steps, manifest'[s] # None
  PROVE  \/ manifest'[s] = manifest[s] \/ (Collected /\ s = step)
         \/ \E j \in DOMAIN jobs : JobEnds(j) /\ s = jobs[j].step /\ jobs[j].writes
<1>0. manifest \in [1 .. Steps -> Nat \cup {None}]
  BY DEF TypeOK
<1>1. CASE UNCHANGED manifest
  BY <1>1
<1>2. CASE Collected
  BY <1>0, <1>2 DEF Collected
<1>3. CASE Reopened
  BY <1>0, <1>3 DEF Reopened
<1>4. ASSUME NEW j \in DOMAIN jobs, JobEnds(j)
      PROVE  manifest'[s] = manifest[s] \/ (s = jobs[j].step /\ jobs[j].writes)
  BY <1>0, <1>4 DEF JobEnds
<1> QED
  BY <1>1, <1>2, <1>3, <1>4, ManifestSteps DEF ManifestStep

(* A manifest never says more than was launched, and there is a job.       *)
LEMMA ManifestLaunched ==
  ASSUME TypeOK, DriverInv, JobInv, LaunchedInv, [Next]_vars, NEW s \in 1 .. Steps,
         manifest'[s] # None
  PROVE  manifest'[s] <= Launched(s)' /\ (fixed => StepJobs(s)' # {})
<1>0. manifest \in [1 .. Steps -> Nat \cup {None}]
  BY DEF TypeOK
<1>1. /\ Launched(s) \in Nat /\ Launched(s)' \in Nat /\ Launched(s) <= Launched(s)'
      /\ StepJobs(s) # {} => StepJobs(s)' # {}
  BY LaunchedKeeps
<1>2. CASE manifest'[s] = manifest[s]
  <2>1. manifest[s] \in Nat
    BY <1>0, <1>2
  <2>2. manifest[s] <= Launched(s) /\ (fixed => StepJobs(s) # {})
    BY <1>2 DEF LaunchedInv
  <2> QED
    BY <1>1, <1>2, <2>1, <2>2
<1>3. CASE Collected /\ s = step
  <2>1. manifest'[s] = Launched(s)
    BY <1>0, <1>3 DEF Collected
  <2>2. pc \in {"wait", "topwait"} => ej \in StepJobs(s)
    BY <1>3 DEF DriverInv
  <2> QED
    BY <1>1, <1>3, <2>1, <2>2 DEF Collected
<1>4. ASSUME NEW j \in DOMAIN jobs, JobEnds(j), s = jobs[j].step, jobs[j].writes
      PROVE  manifest'[s] <= Launched(s)' /\ StepJobs(s)' # {}
  <2>1. manifest'[s] = K /\ ~jobs[j].over /\ jobs[j].next > jobs[j].last
    BY <1>0, <1>4 DEF JobEnds
  <2>2. K <= Launched(s)
    BY <1>4, <2>1, WriterLaunched
  <2>3. j \in StepJobs(s)
    BY <1>4 DEF StepJobs
  <2> QED
    BY <1>1, <2>1, <2>2, <2>3, Sizes
<1> QED
  BY <1>2, <1>3, <1>4, ManifestOf

(* Every step that comes to what follows the first wait waited for a first job that is over, or the *)
(* batch is fixed.                                                         *)
LEMMA AfterFirstSteps ==
  ASSUME TypeOK, DriverInv, [Next]_vars, pc' \in AfterFirst
  PROVE  /\ UNCHANGED step
         /\ pc \in AfterFirst \/ manifest[step] # None \/ (pc = "wait" /\ manifest'[step] # None)
<1> USE DEF AfterFirst
<1>1. CASE Begin
  BY <1>1 DEF Begin, NextStep, Goto
<1>2. CASE Wait
  <2>1. step \in 1 .. Steps /\ Launched(step) # None
    BY <1>2, StepIsOne, Counted, NoneAssumption DEF Wait
  <2>2. UNCHANGED step /\ pc = "wait"
    BY <1>2 DEF Wait, Local
  <2>3. manifest[step] # None \/ manifest'[step] # None
    BY <1>2, <2>1 DEF Wait, Goto, CancelAndCollect, Collect, TypeOK
  <2> QED
    BY <2>2, <2>3
<1>3. CASE EnsureFixed \/ EnsureTarget \/ TopUpWait \/ StepPrepare \/ Prepared
  BY <1>3 DEF EnsureFixed, EnsureTarget, TopUpWait, StepPrepare, Prepared, Local, NextStep, Goto
<1>4. CASE Submit \/ SubmitFails \/ Record
  BY <1>4 DEF Submit, SubmitFails, Record, Goto
<1>5. CASE Cluster \/ Tick \/ Restart \/ RunPrepare \/ UNCHANGED vars
  BY <1>5 DEF Cluster, Tick, Restart, Launch, JobEnds, JobDies, Finish, RunPrepare, Goto,
     driverVars, vars
<1> QED
  BY <1>1, <1>2, <1>3, <1>4, <1>5 DEF Next, Driver

(* Every step leaves what is charged within what is launched.              *)
LEMMA LaunchedStep ==
  ASSUME TypeOK, DriverInv, JobInv, ChargeInv, LaunchedInv, [Next]_vars
  PROVE  LaunchedInv'
<1>1. \A s \in 1 .. Steps : manifest'[s] # None =>
        manifest'[s] <= Launched(s)' /\ (fixed => StepJobs(s)' # {})
  BY ManifestLaunched
<1>2. \A s \in 1 .. Steps :
        /\ Launched(s) \in Nat /\ Launched(s)' \in Nat /\ Launched(s) <= Launched(s)'
  BY LaunchedKeeps
<1>3. /\ Numbered(state.batches) /\ Len(state.batches) \in Nat /\ Len(state.batches) <= Steps
      /\ \A i \in 1 .. Len(state.batches) : state.batches[i].launched \in Nat
      /\ Steps \in Nat /\ fixed' = fixed
  BY CurveSteps, Sizes, FixedStays DEF ChargeInv, StateInv, Numbered
<1>4. \A i \in 1 .. Len(state'.batches) : state'.batches[i].launched <= Launched(i)'
  <2>1. ASSUME NEW i \in 1 .. Len(state.batches)
        PROVE  state.batches[i].launched <= Launched(i)'
    <3>1. i \in 1 .. Steps
      BY <1>3
    <3>2. state.batches[i].launched <= Launched(i)
      BY DEF LaunchedInv
    <3>3. Launched(i) \in Nat /\ Launched(i)' \in Nat /\ Launched(i) <= Launched(i)'
      BY <1>2, <3>1
    <3>4. state.batches[i].launched \in Nat
      BY <1>3
    <3> QED
      BY <3>2, <3>3, <3>4
  <2>2. CASE UNCHANGED state
    BY <2>1, <2>2
  <2>3. CASE /\ prep # None /\ step = Len(state.batches) + 1
             /\ Len(state'.batches) = Len(state.batches) + 1
             /\ \A i \in 1 .. Len(state.batches) : state'.batches[i] = state.batches[i]
             /\ state'.batches[step].launched = prep.launched
    <3>1. step \in 1 .. Steps /\ prep.launched \in Nat /\ prep.launched <= Launched(step)
      BY <2>3, StepIsOne DEF ChargeInv, PrepInv, LaunchedInv
    <3>2. PICK s \in 1 .. Steps : s = step
      BY <3>1
    <3>3. state'.batches[s].launched <= Launched(s)'
      BY <1>2, <2>3, <3>1, <3>2
    <3>4. \A i \in 1 .. Len(state'.batches) : i \in 1 .. Len(state.batches) \/ i = s
      <4>1. PICK n \in Nat : n = Len(state.batches) /\ s = n + 1 /\ Len(state'.batches) = n + 1
        BY <1>3, <2>3, <3>2
      <4>2. \A i \in 1 .. n + 1 : i \in 1 .. n \/ i = n + 1
        BY <4>1
      <4> QED
        BY <4>1, <4>2
    <3> QED
      BY <2>1, <2>3, <3>3, <3>4
  <2> QED
    BY <2>2, <2>3, BatchesStep
<1>5. prep' # None => prep'.launched <= Launched(step)'
  <2>1. CASE UNCHANGED step /\ prep # None /\ prep'.launched = prep.launched
    <3>1. step \in 1 .. Steps /\ prep.launched \in Nat /\ prep.launched <= Launched(step)
      BY <2>1, StepIsOne DEF ChargeInv, PrepInv, LaunchedInv
    <3>2. PICK s \in 1 .. Steps : s = step
      BY <3>1
    <3>3. Launched(step)' = Launched(s)' /\ Launched(step) = Launched(s)
      BY <2>1, <3>2
    <3> QED
      BY <1>2, <2>1, <3>1, <3>2, <3>3
  <2>2. CASE Started
    <3>1. /\ step \in 1 .. Steps /\ manifest[step] \in Nat /\ UNCHANGED step
          /\ manifest[step] <= Launched(step)
      BY <2>2, StepIsOne DEF Started, DriverInv, TypeOK, LaunchedInv
    <3>2. prep'.launched = manifest[step]
      BY <2>2 DEF Started, StartPrepare
    <3>3. PICK s \in 1 .. Steps : s = step
      BY <3>1
    <3>4. Launched(step)' = Launched(s)' /\ Launched(step) = Launched(s)
      BY <3>1, <3>3
    <3> QED
      BY <1>2, <3>1, <3>2, <3>3, <3>4
  <2>3. CASE Prepare /\ UNCHANGED driverVars
    <3>1. /\ prep # None /\ UNCHANGED step
          /\ DOMAIN prep = {"at", "step", "rows", "launched", "parent", "again", "st"}
      BY <2>3 DEF Prepare, WriteReplay, CommitState, AppendCurve, WriteParent, WriteMarker, At,
         driverVars, ChargeInv, PrepInv
    <3>2. prep' # None => prep'.launched = prep.launched
      BY <2>3, <3>1 DEF Prepare, WriteReplay, CommitState, AppendCurve, WriteParent, WriteMarker
    <3> QED
      BY <2>1, <3>1, <3>2
  <2> QED
    BY <2>1, <2>2, <2>3, PrepSteps DEF PrepStep, ChargeInv
<1> QED
  BY <1>1, <1>3, <1>4, <1>5 DEF LaunchedInv

-------------------------------------------------------------------------------
(* Plain steps.                                                            *)

(* A step that is plain was so before.                                     *)
LEMMA PlainBefore ==
  ASSUME TypeOK, DriverInv, [Next]_vars, NEW s, Plain(s)'
  PROVE  Plain(s)
<1>1. ASSUME NEW i \in StepJobs(s), NEW j \in StepJobs(s), i # j
      PROVE  /\ jobs[i].last < jobs[j].first \/ jobs[j].last < jobs[i].first
             /\ jobs[i].writes \/ jobs[j].writes
  <2>1. i \in StepJobs(s)' /\ j \in StepJobs(s)'
    BY StepJobsKeep
  <2>2. /\ jobs'[i].first = jobs[i].first /\ jobs'[i].last = jobs[i].last
        /\ jobs'[j].first = jobs[j].first /\ jobs'[j].last = jobs[j].last
        /\ jobs'[i].writes = jobs[i].writes /\ jobs'[j].writes = jobs[j].writes
    BY JobsKeep DEF StepJobs
  <2>3. /\ jobs'[i].last < jobs'[j].first \/ jobs'[j].last < jobs'[i].first
        /\ jobs'[i].writes \/ jobs'[j].writes
    BY <1>1, <2>1 DEF Plain
  <2> QED
    BY <2>2, <2>3
<1> QED
  BY <1>1 DEF Plain

(* A step that is whole was so before.                                     *)
LEMMA WholeBefore ==
  ASSUME TypeOK, DriverInv, [Next]_vars, NEW s, Whole(s)'
  PROVE  Whole(s)
<1>1. ASSUME fixed, NEW j \in StepJobs(s) PROVE ~jobs[j].cut
  <2>1. j \in StepJobs(s)' /\ fixed'
    BY <1>1, StepJobsKeep, FixedStays
  <2>2. ~jobs'[j].cut
    BY <2>1 DEF Whole
  <2> QED
    BY <2>2, JobsKeep DEF StepJobs
<1> QED
  BY <1>1 DEF Whole

(* Its indices are covered once, and it has one first job.                 *)
LEMMA OneCover ==
  ASSUME TypeOK, JobInv, NEW s, Plain(s), NEW i \in StepJobs(s), NEW j \in StepJobs(s)
  PROVE  /\ \A k \in Covers(i) : k \in Covers(j) => i = j
         /\ Writer(i) /\ Writer(j) => i = j
         /\ ~Writer(i) /\ ~Writer(j) => i = j
<1>1. i \in DOMAIN jobs /\ j \in DOMAIN jobs
  BY DEF StepJobs
<1>2. /\ jobs[i].first \in Nat /\ jobs[i].last \in Nat
      /\ jobs[j].first \in Nat /\ jobs[j].last \in Nat
  BY <1>1, JobFields
<1>3. i # j => /\ jobs[i].last < jobs[j].first \/ jobs[j].last < jobs[i].first
               /\ jobs[i].writes \/ jobs[j].writes
  BY DEF Plain
<1>4. \A k \in Covers(i) : k \in Covers(j) => i = j
  BY <1>2, <1>3 DEF Covers
<1>5. ASSUME Writer(i), Writer(j) PROVE i = j
  <2>1. jobs[i].first = 0 /\ jobs[i].last = K - 1 /\ jobs[j].first = 0 /\ jobs[j].last = K - 1
    BY <1>1, <1>5 DEF Writer, JobInv, GoodJob
  <2>2. 0 \in Covers(i) /\ 0 \in Covers(j)
    BY <2>1, Sizes DEF Covers
  <2> QED
    BY <1>4, <2>2
<1> QED
  BY <1>3, <1>4, <1>5 DEF Writer

(* What runs is of a job that is not over, at an index it covers.          *)
LEMMA RunningCovered ==
  ASSUME TypeOK, JobInv, NEW x \in running
  PROVE  /\ x = <<x[1], x[2]>> /\ x[1] \in DOMAIN jobs /\ x[1] \in StepJobs(jobs[x[1]].step)
         /\ ~jobs[x[1]].over /\ x[2] \in Covers(x[1]) /\ x[2] \in Indices
<1>1. x = <<x[1], x[2]>> /\ x[1] \in DOMAIN jobs /\ ~jobs[x[1]].over /\ x[2] \in Indices
  BY DEF TypeOK
<1>2. /\ x[2] \in jobs[x[1]].first .. jobs[x[1]].next - 1
      /\ jobs[x[1]].next <= jobs[x[1]].last + 1
  BY <1>1 DEF JobInv, GoodJob
<1>3. /\ jobs[x[1]].first \in Nat /\ jobs[x[1]].last \in Nat /\ jobs[x[1]].next \in Nat
  BY <1>1, JobFields
<1>4. x[2] \in Covers(x[1])
  BY <1>2, <1>3 DEF Covers
<1> QED
  BY <1>1, <1>4 DEF StepJobs

(* What is usable was launched.                                            *)
LEMMA UsableLaunched ==
  ASSUME TypeOK, JobInv, NEW s \in 1 .. Steps
  PROVE  Usable(s) \subseteq logs[s] /\ NUsable(s) <= Launched(s)
<1>1. Usable(s) \subseteq logs[s]
  BY DEF Usable, JobInv
<1> QED
  BY <1>1, Counted, MoreOrSame DEF NUsable, Launched

(* Where a new job comes from.                                             *)
LEMMA NewJobOf ==
  ASSUME TypeOK, DriverInv, [Next]_vars, NEW s, NEW j \in StepJobs(s)', j \notin StepJobs(s)
  PROVE  /\ JobAccepted /\ s = step /\ jobs'[j] = NewJob
         /\ \A i \in StepJobs(s)' : i = j \/ i \in StepJobs(s)
<1>1. \A i \in DOMAIN jobs : jobs'[i].step = jobs[i].step
  BY JobsKeep
<1>2. j \notin DOMAIN jobs
  BY <1>1 DEF StepJobs
<1>3. JobAccepted
  BY <1>2, JobsSteps, OneJob DEF JobsStep, JobsRest, Finish, StepJobs
<1>4. jobs'[j] = NewJob /\ NewJob.step = step /\ DOMAIN jobs' = DOMAIN jobs \cup {j}
  BY <1>2, <1>3, NewJobType, JobAdded DEF JobAccepted, StepJobs
<1>5. \A i \in StepJobs(s)' : i = j \/ i \in StepJobs(s)
  BY <1>1, <1>4 DEF StepJobs
<1> QED
  BY <1>3, <1>4, <1>5 DEF StepJobs

(* Nothing is launched of a settled step.                                  *)
LEMMA SettledLogs ==
  ASSUME TypeOK, DriverInv, JobInv, [Next]_vars, NEW s \in 1 .. Steps, Settled(s)
  PROVE  logs'[s] = logs[s] /\ Launched(s)' = Launched(s)
<1>1. CASE UNCHANGED logs
  BY <1>1 DEF Launched
<1>2. ASSUME NEW j \in DOMAIN jobs, Launch(j) PROVE logs'[s] = logs[s]
  <2>1. ~jobs[j].over /\ jobs[j].next <= jobs[j].last
    BY <1>2 DEF Launch
  <2>2. logs' = logs \/ logs' = [logs EXCEPT ![jobs[j].step] = @ \cup {jobs[j].next}]
    BY <1>2 DEF Launch
  <2>3. CASE jobs[j].step = s
    <3>1. Covers(j) \subseteq logs[s]
      BY <2>1, <2>3 DEF Settled, StepJobs
    <3>2. jobs[j].next \in Covers(j)
      BY <2>1, JobFields DEF JobInv, GoodJob, Covers
    <3>3. logs[s] \cup {jobs[j].next} = logs[s]
      BY <3>1, <3>2
    <3> QED
      BY <2>2, <2>3, <3>3 DEF TypeOK
  <2>4. CASE jobs[j].step # s
    BY <2>2, <2>4 DEF TypeOK
  <2> QED
    BY <2>3, <2>4
<1>3. logs'[s] = logs[s]
  BY <1>1, <1>2, JobsSteps DEF JobsStep, JobsRest, JobAccepted, JobStops, JobCut, JobEnds, Finish,
     dirVars
<1> QED
  BY <1>3 DEF Launched

(* It stays settled while it has no new job.                               *)
LEMMA SettledStep ==
  ASSUME TypeOK, DriverInv, JobInv, [Next]_vars, NEW s \in 1 .. Steps, Settled(s),
         StepJobs(s)' \subseteq StepJobs(s)
  PROVE  Settled(s)'
<1>1. ASSUME NEW j \in StepJobs(s)' PROVE jobs'[j].over \/ Covers(j)' \subseteq logs'[s]
  <2>1. j \in StepJobs(s) /\ j \in DOMAIN jobs
    BY DEF StepJobs
  <2>2. /\ jobs'[j].first = jobs[j].first /\ jobs'[j].last = jobs[j].last
        /\ jobs[j].over => jobs'[j].over
    BY <2>1, JobsKeep
  <2>3. jobs[j].over \/ Covers(j) \subseteq logs[s]
    BY <2>1 DEF Settled
  <2>4. Covers(j)' = Covers(j)
    BY <2>2 DEF Covers
  <2> QED
    BY <2>2, <2>3, <2>4, SettledLogs
<1> QED
  BY <1>1 DEF Settled

(* What is usable stays so where a trajectory runs once, and one more is   *)
(* where one that runs ends.                                               *)
LEMMA UsableStep ==
  ASSUME TypeOK, DriverInv, JobInv, [Next]_vars, NEW s \in 1 .. Steps, Once(s)
  PROVE  /\ Usable(s) \subseteq Usable(s)'
         /\ \/ Usable(s)' = Usable(s)
            \/ \E x \in running : /\ jobs[x[1]].step = s /\ UNCHANGED jobs
                                  /\ Usable(s)' \subseteq Usable(s) \cup {x[2]}
<1>1. CASE UNCHANGED summary
  BY <1>1 DEF Usable
<1>2. ASSUME NEW j \in DOMAIN jobs, NEW k \in Indices, Finish(j, k)
      PROVE  /\ Usable(s) \subseteq Usable(s)'
             /\ \/ Usable(s)' = Usable(s)
                \/ \E x \in running : /\ jobs[x[1]].step = s /\ UNCHANGED jobs
                                      /\ Usable(s)' \subseteq Usable(s) \cup {x[2]}
  <2>1. <<j, k>> \in running /\ UNCHANGED jobs
    BY <1>2 DEF Finish
  <2>2. \A r \in 1 .. Steps : \A l \in Indices :
          summary'[r][l] = summary[r][l] \/ (r = jobs[j].step /\ l = k)
    BY <1>2, FinishWrites
  <2>3. CASE jobs[j].step = s
    <3>1. summary[s][k] = None
      BY <2>1, <2>3 DEF Once
    <3>2. Usable(s) \subseteq Usable(s)' /\ Usable(s)' \subseteq Usable(s) \cup {k}
      BY <2>2, <3>1 DEF Usable
    <3> QED
      BY <2>1, <2>3, <3>2
  <2>4. CASE jobs[j].step # s
    BY <2>2, <2>4 DEF Usable
  <2> QED
    BY <2>3, <2>4
<1> QED
  BY <1>1, <1>2, JobsSteps DEF JobsStep, JobsRest, JobAccepted, Launch, JobStops, JobCut, JobEnds,
     dirVars

(* How many indices a first job covers.                                    *)
LEMMA FirstCovers ==
  /\ IsFiniteSet(0 .. K - 1) /\ Cardinality(0 .. K - 1) = K
  /\ \A x, n \in Nat : n > 0 => IsFiniteSet(x .. x + n - 1) /\ Cardinality(x .. x + n - 1) = n
<1>1. ASSUME NEW x \in Nat, NEW n \in Nat, n > 0
      PROVE  IsFiniteSet(x .. x + n - 1) /\ Cardinality(x .. x + n - 1) = n
  <2>1. PICK y \in Nat : y = x + n - 1 /\ x <= y /\ y - x + 1 = n
    BY <1>1
  <2>2. IsFiniteSet(x .. y) /\ Cardinality(x .. y) = y - x + 1
    BY <2>1, FS_Interval
  <2> QED
    BY <2>1, <2>2
<1>2. K \in Nat /\ K > 0 /\ 0 + K - 1 = K - 1
  BY Sizes
<1> QED
  BY <1>1, <1>2

(* The indices a job covers are so many.                                   *)
LEMMA CoversFinite ==
  ASSUME TypeOK, NEW s \in 1 .. Steps, NEW j \in DOMAIN jobs
  PROVE  IsFiniteSet(Covers(j)) /\ IsFiniteSet(Usable(s) \cup Covers(j))
<1>1. jobs[j].first \in Nat /\ jobs[j].last \in Nat
  BY JobFields
<1>2. IsFiniteSet(Covers(j))
  <2>1. PICK x \in Int, y \in Int : x = jobs[j].first /\ y = jobs[j].last
    BY <1>1
  <2>2. IsFiniteSet(x .. y)
    BY FS_Interval
  <2> QED
    BY <2>1, <2>2 DEF Covers
<1> QED
  BY <1>2, Counted, FS_Union

(* Where the first job is alone, only its indices are launched.            *)
LEMMA LoneWriter ==
  ASSUME TypeOK, JobInv, NEW s \in 1 .. Steps, NEW j \in StepJobs(s), Writer(j),
         StepJobs(s) = {j}
  PROVE  /\ Covers(j) = 0 .. K - 1 /\ logs[s] \subseteq 0 .. K - 1
         /\ Launched(s) \in Nat /\ Launched(s) <= K
         /\ NUsable(s) >= K => Covers(j) \subseteq Usable(s)
<1>1. Covers(j) = 0 .. K - 1
  BY DEF JobInv, GoodJob, Writer, Covers, StepJobs
<1>2. logs[s] \subseteq 0 .. K - 1
  BY <1>1 DEF JobInv
<1>3. Launched(s) \in Nat /\ Launched(s) <= K
  BY <1>2, FirstCovers, MoreOrSame DEF Launched
<1>4. ASSUME NUsable(s) >= K PROVE Covers(j) \subseteq Usable(s)
  <2>1. Usable(s) \subseteq 0 .. K - 1
    BY <1>2, UsableLaunched
  <2>2. NUsable(s) \in Nat /\ NUsable(s) <= K /\ (NUsable(s) = K => Usable(s) = 0 .. K - 1)
    BY <2>1, FirstCovers, MoreOrSame DEF NUsable
  <2> QED
    BY <1>1, <1>4, <2>2, Sizes
<1> QED
  BY <1>1, <1>2, <1>3, <1>4

(* A plain step of a fixed campaign has one job, the first.                *)
LEMMA FixedOne ==
  ASSUME TypeOK, JobInv, fixed, NEW s \in 1 .. Steps, Plain(s), NEW j \in StepJobs(s)
  PROVE  /\ StepJobs(s) = {j} /\ Writer(j) /\ Covers(j) = 0 .. K - 1 /\ j \in DOMAIN jobs
         /\ logs[s] \subseteq 0 .. K - 1
         /\ Launched(s) = K => logs[s] = 0 .. K - 1
<1>1. ASSUME NEW i \in StepJobs(s) PROVE Writer(i) /\ i \in DOMAIN jobs
  BY DEF StepJobs, JobInv, GoodJob, Writer
<1>2. StepJobs(s) = {j}
  BY <1>1, OneCover
<1>3. Covers(j) = 0 .. K - 1
  BY <1>1 DEF JobInv, GoodJob, Writer, Covers
<1>4. logs[s] \subseteq 0 .. K - 1
  BY <1>2, <1>3 DEF JobInv
<1>5. Launched(s) = K => logs[s] = 0 .. K - 1
  BY <1>4, FirstCovers, MoreOrSame DEF Launched
<1> QED
  BY <1>1, <1>2, <1>3, <1>4, <1>5

(* Where the first job is over, only a top-up can run.                     *)
LEMMA OverOnce ==
  ASSUME TypeOK, JobInv, NEW s, Plain(s), WriterOver(s)
  PROVE  \A j \in StepJobs(s) : Writer(j) => jobs[j].over
  BY OneCover DEF WriterOver

(* A step that is done with is so from then on.                            *)
LEMMA DoneStep ==
  ASSUME TypeOK, DriverInv, JobInv, [Next]_vars, NEW s \in 1 .. Steps, Once(s), WriterDone(s)
  PROVE  WriterDone(s)'
<1>1. PICK j \in StepJobs(s) : Writer(j) /\ (jobs[j].over \/ Covers(j) \subseteq Usable(s))
  BY DEF WriterDone
<1>2. j \in StepJobs(s)' /\ Writer(j)' /\ j \in DOMAIN jobs
  BY <1>1, StepJobsKeep DEF StepJobs
<1>3. /\ jobs[j].over => jobs'[j].over
      /\ Covers(j)' = Covers(j)
  BY <1>2, JobsKeep DEF Covers
<1>4. Usable(s) \subseteq Usable(s)'
  BY UsableStep
<1>5. jobs'[j].over \/ Covers(j)' \subseteq Usable(s)'
  BY <1>1, <1>3, <1>4
<1> QED
  BY <1>2, <1>5 DEF WriterDone

(* Where not enough is usable, a first job that is done with is over.      *)
LEMMA DoneIsOver ==
  ASSUME TypeOK, JobInv, NEW s \in 1 .. Steps, WriterDone(s), NUsable(s) < K
  PROVE  WriterOver(s)
<1>1. PICK j \in StepJobs(s) : Writer(j) /\ (jobs[j].over \/ Covers(j) \subseteq Usable(s))
  BY DEF WriterDone
<1>2. ASSUME Covers(j) \subseteq Usable(s) PROVE FALSE
  <2>1. Covers(j) = 0 .. K - 1
    BY <1>1 DEF JobInv, GoodJob, Writer, Covers, StepJobs
  <2>2. PICK C : C = 0 .. K - 1 /\ Cardinality(C) = K /\ C \subseteq Usable(s)
    BY <1>2, <2>1, FirstCovers
  <2>3. IsFiniteSet(Usable(s)) /\ NUsable(s) \in Nat
    BY Counted
  <2>4. Cardinality(C) <= Cardinality(Usable(s))
    BY <2>2, <2>3, MoreOrSame
  <2> QED
    BY <2>2, <2>3, <2>4, Sizes DEF NUsable
<1> QED
  BY <1>1, <1>2 DEF WriterOver

(* A trajectory of a plain step runs once.                                 *)
LEMMA OnceStep ==
  ASSUME TypeOK, DriverInv, JobInv, [Next]_vars, NEW s \in 1 .. Steps, Plain(s), Once(s)
  PROVE  Once(s)'
<1> DEFINE Goal == \A x \in running' : jobs'[x[1]].step = s => summary'[s][x[2]] = None
<1>1. \A x \in running : x[1] \in DOMAIN jobs /\ jobs'[x[1]].step = jobs[x[1]].step
  BY RunningCovered, JobsKeep
<1>2. ASSUME running' \subseteq running, UNCHANGED summary PROVE Goal
  BY <1>1, <1>2 DEF Once
<1>3. ASSUME NEW j \in DOMAIN jobs, Launch(j) PROVE Goal
  <2>1. CASE summary[jobs[j].step][jobs[j].next] # None
    <3>1. running' = running /\ UNCHANGED summary
      BY <1>3, <2>1 DEF Launch
    <3> QED
      BY <1>2, <3>1
  <2>2. CASE summary[jobs[j].step][jobs[j].next] = None
    <3>1. running' = running \cup {<<j, jobs[j].next>>} /\ UNCHANGED summary
      BY <1>3, <2>2 DEF Launch
    <3>2. jobs'[j].step = jobs[j].step
      BY JobsKeep
    <3> QED
      BY <1>1, <2>2, <3>1, <3>2 DEF Once
  <2> QED
    BY <2>1, <2>2
<1>4. ASSUME NEW j \in DOMAIN jobs, NEW k \in Indices, Finish(j, k) PROVE Goal
  <2>1. running' = running \ {<<j, k>>} /\ UNCHANGED jobs /\ <<j, k>> \in running
    BY <1>4 DEF Finish
  <2>2. ASSUME NEW x \in running', jobs[x[1]].step = s PROVE summary'[s][x[2]] = None
    <3>1. x \in running /\ x # <<j, k>> /\ x = <<x[1], x[2]>> /\ x[2] \in Covers(x[1])
          /\ x[1] \in StepJobs(s) /\ x[2] \in Indices
      BY <2>1, <2>2, RunningCovered
    <3>2. k \in Covers(j) /\ j \in StepJobs(jobs[j].step)
      <4>1. PICK y \in running : y = <<j, k>>
        BY <2>1
      <4> QED
        BY <4>1, RunningCovered
    <3>3. ~(s = jobs[j].step /\ x[2] = k)
      BY <3>1, <3>2, OneCover
    <3>4. summary'[s][x[2]] = summary[s][x[2]]
      BY <1>4, <3>1, <3>3, FinishWrites
    <3> QED
      BY <2>2, <3>1, <3>4 DEF Once
  <2> QED
    BY <2>1, <2>2
<1> HIDE DEF Goal
<1>5. ASSUME JobsRest \/ JobAccepted
             \/ \E j \in DOMAIN jobs : JobStops(j) \/ JobCut(j) \/ JobEnds(j)
      PROVE  Goal
  <2>1. running' \subseteq running /\ UNCHANGED summary
    BY <1>5 DEF JobsRest, JobAccepted, JobStops, JobCut, JobEnds, dirVars
  <2> QED
    BY <1>2, <2>1
<1>6. Goal
  <2>1. JobsStep
    BY JobsSteps
  <2>2. ASSUME JobsRest \/ JobAccepted PROVE Goal
    BY <1>5, <2>2
  <2>3. ASSUME NEW j \in DOMAIN jobs, JobStops(j) \/ JobCut(j) \/ JobEnds(j) PROVE Goal
    BY <1>5, <2>3
  <2> QED
    BY <1>3, <1>4, <2>1, <2>2, <2>3 DEF JobsStep
<1> QED
  BY <1>6 DEF Goal, Once

(* A top-up has no more indices than the first job left to do.             *)
LEMMA FitsStep ==
  ASSUME TypeOK, DriverInv, JobInv, LaunchedInv, PlainInv, [Next]_vars,
         NEW s \in 1 .. Steps, Plain(s)'
  PROVE  Fits(s)'
<1>1. Plain(s) /\ Once(s) /\ Fits(s) /\ First(s)
  BY PlainBefore DEF PlainInv
<1>2. ASSUME NEW j \in StepJobs(s), ~Writer(j)
      PROVE  Cardinality(Usable(s)' \cup Covers(j)) <= K
  <2>1. j \in DOMAIN jobs
    BY DEF StepJobs
  <2>2. Cardinality(Usable(s) \cup Covers(j)) <= K
    BY <1>1, <1>2 DEF Fits
  <2>3. CASE Usable(s)' = Usable(s)
    BY <2>2, <2>3
  <2>4. ASSUME NEW x \in running, jobs[x[1]].step = s,
               Usable(s)' \subseteq Usable(s) \cup {x[2]}
        PROVE  Cardinality(Usable(s)' \cup Covers(j)) <= K
    <3>1. x[1] \in StepJobs(s) /\ ~jobs[x[1]].over /\ x[2] \in Covers(x[1])
      BY <2>4, RunningCovered
    <3>2. ~fixed
      BY <1>2, <2>1 DEF JobInv, GoodJob, Writer
    <3>3. WriterOver(s)
      BY <1>1, <1>2, <3>2 DEF First
    <3>4. x[1] = j
      BY <1>1, <1>2, <3>1, <3>3, OverOnce, OneCover
    <3>5. Usable(s)' \cup Covers(j) \subseteq Usable(s) \cup Covers(j)
      BY <2>4, <3>1, <3>4
    <3>6. PICK U : U = Usable(s)'
      OBVIOUS
    <3>7. IsFiniteSet(Usable(s) \cup Covers(j))
      BY <2>1, CoversFinite
    <3>8. /\ Cardinality(U \cup Covers(j)) \in Nat
          /\ Cardinality(Usable(s) \cup Covers(j)) \in Nat
          /\ Cardinality(U \cup Covers(j)) <= Cardinality(Usable(s) \cup Covers(j))
      BY <3>5, <3>6, <3>7, MoreOrSame
    <3> QED
      BY <2>2, <3>6, <3>8, Sizes
  <2> QED
    BY <1>1, <2>3, <2>4, UsableStep
<1>3. ASSUME NEW j \in StepJobs(s)', j \notin StepJobs(s), ~Writer(j)'
      PROVE  Cardinality(Usable(s)' \cup Covers(j)') <= K
  <2>1. /\ JobAccepted /\ s = step /\ jobs'[j] = NewJob
        /\ \A i \in StepJobs(s)' : i = j \/ i \in StepJobs(s)
    BY <1>3, NewJobOf
  <2>2. /\ pc = "topup" /\ NewJob.first = plan.start
        /\ NewJob.last = plan.start + plan.count - 1
        /\ plan.start \in Nat /\ plan.count \in Nat \ {0}
    BY <1>3, <2>1, NewJobType DEF JobAccepted, Writer, DriverInv, AtTopUp
  <2>3. ASSUME NEW i \in StepJobs(s) PROVE Writer(i)
    <3>1. i \in StepJobs(s)' /\ Writer(i)' = Writer(i)
      BY StepJobsKeep
    <3> QED
      BY <1>3, <3>1 DEF Plain, Writer
  <2>4. NUsable(s) + plan.count <= K
    BY <1>1, <2>1, <2>2, <2>3 DEF PlainInv
  <2>5. Covers(j)' = plan.start .. plan.start + plan.count - 1 /\ Usable(s)' = Usable(s)
    BY <2>1, <2>2 DEF Covers, Usable, JobAccepted
  <2>6. PICK C : C = plan.start .. plan.start + plan.count - 1
    OBVIOUS
  <2>7. IsFiniteSet(C) /\ Cardinality(C) = plan.count
    <3>1. PICK x \in Nat, n \in Nat : x = plan.start /\ n = plan.count /\ n > 0
      BY <2>2
    <3>2. IsFiniteSet(x .. x + n - 1) /\ Cardinality(x .. x + n - 1) = n
      BY <3>1, FirstCovers
    <3> QED
      BY <2>6, <3>1, <3>2
  <2>8. /\ IsFiniteSet(Usable(s)) /\ NUsable(s) \in Nat
    BY Counted
  <2>9. /\ Cardinality(Usable(s) \cup C) = Cardinality(Usable(s)) + Cardinality(C)
                - Cardinality(Usable(s) \cap C)
        /\ Cardinality(Usable(s) \cap C) \in Nat
    <3>1. IsFiniteSet(Usable(s) \cap C)
      BY <2>7, FS_Subset
    <3> QED
      BY <2>7, <2>8, <3>1, FS_Union, FS_CardinalityType
  <2>10. Cardinality(Usable(s) \cup C) <= NUsable(s) + plan.count
    BY <2>2, <2>7, <2>8, <2>9 DEF NUsable
  <2>11. Cardinality(Usable(s) \cup C) \in Int
    BY <2>2, <2>7, <2>8, <2>9 DEF NUsable
  <2>12. Cardinality(Usable(s) \cup C) <= K
    BY <2>2, <2>4, <2>8, <2>10, <2>11, Sizes
  <2> QED
    BY <2>5, <2>6, <2>12
<1>4. ASSUME NEW j \in StepJobs(s) PROVE Writer(j)' = Writer(j) /\ Covers(j)' = Covers(j)
  BY JobsKeep DEF StepJobs, Writer, Covers
<1>5. ASSUME NEW j \in StepJobs(s)', ~Writer(j)'
      PROVE  Cardinality(Usable(s)' \cup Covers(j)') <= K
  <2>1. CASE j \in StepJobs(s)
    BY <1>2, <1>4, <1>5, <2>1
  <2>2. CASE j \notin StepJobs(s)
    BY <1>3, <1>5, <2>2
  <2> QED
    BY <2>1, <2>2
<1> QED
  BY <1>5 DEF Fits

(* A fixed batch is collected when it is settled, and for what was         *)
(* launched.                                                               *)
LEMMA ExactStep ==
  ASSUME TypeOK, DriverInv, JobInv, LaunchedInv, PlainInv, [Next]_vars,
         NEW s \in 1 .. Steps, Plain(s)', Whole(s)', fixed, manifest'[s] # None
  PROVE  Settled(s)' /\ manifest'[s] = Launched(s)'
<1>0. manifest \in [1 .. Steps -> Nat \cup {None}] /\ Plain(s) /\ Whole(s)
  BY PlainBefore, WholeBefore DEF TypeOK
<1>1. CASE manifest'[s] = manifest[s]
  <2>1. Settled(s) /\ manifest[s] = Launched(s) /\ StepJobs(s) # {}
    BY <1>0, <1>1 DEF PlainInv, LaunchedInv, Exact
  <2>2. ASSUME NEW j \in StepJobs(s)', j \notin StepJobs(s) PROVE FALSE
    <3>1. JobAccepted /\ jobs'[j] = NewJob
      BY <2>2, NewJobOf
    <3>2. pc = "submit" /\ NewJob.first = 0 /\ NewJob.last = K - 1
      BY <3>1, NewJobType DEF JobAccepted, DriverInv, AtTopUp
    <3>3. PICK i \in StepJobs(s) : TRUE
      BY <2>1
    <3>4. jobs[i].first = 0 /\ jobs[i].last = K - 1 /\ i \in DOMAIN jobs
      BY <3>3 DEF StepJobs, JobInv, GoodJob
    <3>5. i \in StepJobs(s)' /\ jobs'[i].first = 0 /\ jobs'[i].last = K - 1
      BY <3>4, StepJobsKeep, JobsKeep
    <3>6. jobs'[i].last < jobs'[j].first \/ jobs'[j].last < jobs'[i].first
      BY <2>2, <3>5 DEF Plain
    <3> QED
      BY <3>1, <3>2, <3>5, <3>6, Sizes
  <2>3. StepJobs(s)' \subseteq StepJobs(s)
    BY <2>2
  <2>4. Settled(s)' /\ Launched(s)' = Launched(s)
    BY <2>1, <2>3, SettledStep, SettledLogs
  <2> QED
    BY <1>1, <2>1, <2>4
<1>2. ASSUME NEW j \in StepJobs(s), jobs'[j].over, UNCHANGED logs, DOMAIN jobs' = DOMAIN jobs
      PROVE  Settled(s)' /\ Launched(s)' = Launched(s)
  <2>1. StepJobs(s) = {j}
    BY <1>0, FixedOne
  <2>2. \A i \in DOMAIN jobs : jobs'[i].step = jobs[i].step
    BY JobsKeep
  <2>3. StepJobs(s)' = StepJobs(s)
    BY <1>2, <2>2 DEF StepJobs
  <2> QED
    BY <1>2, <2>1, <2>3 DEF Settled, Launched
<1>3. CASE Collected /\ s = step
  <2>1. manifest'[s] = Launched(s) /\ UNCHANGED logs
    BY <1>0, <1>3 DEF Collected
  <2>2. CASE pc = "wait"
    <3>1. ej \in StepJobs(s) /\ ej \in DOMAIN jobs
      BY <1>3, <2>2 DEF DriverInv, StepJobs
    <3>2. PICK j \in StepJobs(s) : j = ej /\ j \in DOMAIN jobs
      BY <3>1
    <3>3. CASE JobCut(j)
      <4>1. /\ DOMAIN jobs' = DOMAIN jobs
            /\ jobs[j].next <= jobs[j].last => jobs'[j].cut
        BY <3>2, <3>3, OneJob
      <4>2. ~jobs'[j].cut
        BY <3>2, StepJobsKeep, FixedStays DEF Whole
      <4>3. /\ StepJobs(s) = {j} /\ Writer(j)
        BY <1>0, FixedOne
      <4>4. jobs[j].over \/ Covers(j) \subseteq logs[s]
        <5>1. jobs[j].next > jobs[j].last
          BY <3>2, <4>1, <4>2, JobFields
        <5> QED
          BY <3>2, <4>3, <5>1, WriterLaunched DEF Writer, StepJobs
      <4>5. Settled(s)
        BY <4>3, <4>4 DEF Settled
      <4>6. StepJobs(s)' \subseteq StepJobs(s)
        <5>1. \A i \in DOMAIN jobs : jobs'[i].step = jobs[i].step
          BY JobsKeep
        <5> QED
          BY <4>1, <5>1 DEF StepJobs
      <4> QED
        BY <2>1, <4>5, <4>6, SettledStep, SettledLogs
    <3>4. CASE UNCHANGED <<jobs, running>> /\ Launched(s) = K
      <4>1. /\ StepJobs(s) = {j} /\ Covers(j) = 0 .. K - 1 /\ logs[s] = 0 .. K - 1
        BY <1>0, <3>4, FixedOne
      <4>2. Settled(s)
        BY <4>1 DEF Settled
      <4>3. StepJobs(s)' \subseteq StepJobs(s)
        BY <3>4 DEF StepJobs
      <4> QED
        BY <2>1, <4>2, <4>3, SettledStep, SettledLogs
    <3> QED
      BY <1>3, <2>2, <3>2, <3>3, <3>4 DEF Collected
  <2>3. pc # "topwait"
    BY DEF DriverInv, AtTopUp
  <2> QED
    BY <1>3, <2>2, <2>3 DEF Collected
<1>4. ASSUME NEW j \in DOMAIN jobs, JobEnds(j), s = jobs[j].step, jobs[j].writes
      PROVE  Settled(s)' /\ manifest'[s] = Launched(s)'
  <2>1. /\ manifest'[s] = K /\ ~jobs[j].over /\ jobs[j].next > jobs[j].last /\ UNCHANGED logs
    BY <1>0, <1>4 DEF JobEnds, dirVars
  <2>2. j \in StepJobs(s)
    BY <1>4 DEF StepJobs
  <2>3. Covers(j) = 0 .. K - 1 /\ Covers(j) \subseteq logs[s]
    BY <1>4, <2>1, WriterLaunched
  <2>4. logs[s] = 0 .. K - 1
    BY <1>0, <2>2, <2>3, FixedOne
  <2>5. Launched(s) = K
    BY <2>4, FirstCovers DEF Launched
  <2>6. jobs'[j].over /\ DOMAIN jobs' = DOMAIN jobs
    BY <1>4, OneJob
  <2> QED
    BY <1>2, <2>1, <2>2, <2>5, <2>6
<1> QED
  BY <1>1, <1>3, <1>4, ManifestOf

(* How the driver comes to submit a top-up.                                *)
LEMMA TopUpSteps ==
  ASSUME [Next]_vars, pc' = "topup"
  PROVE  /\ UNCHANGED step
         /\ \/ pc = "topup" /\ UNCHANGED plan
            \/ /\ pc = "ensure" /\ ~(NUsable(step) >= K) /\ UNCHANGED summary
               /\ ~(K + MaxSupplement - Launched(step) <= 0)
               /\ plan' = [start |-> Launched(step),
                    count |-> Min({K - NUsable(step), K + MaxSupplement - Launched(step)})]
<1>1. CASE Begin \/ Wait \/ TopUpWait
  BY <1>1 DEF Begin, NextStep, Wait, TopUpWait, Goto
<1>2. CASE EnsureTarget
  BY <1>2 DEF EnsureTarget, Goto
<1>3. CASE EnsureFixed \/ StepPrepare \/ Prepared
  BY <1>3 DEF EnsureFixed, StepPrepare, Prepared, NextStep, Goto
<1>4. CASE Submit \/ SubmitFails \/ Record
  BY <1>4 DEF Submit, SubmitFails, Record, Goto
<1>5. CASE Cluster \/ Tick \/ Restart \/ RunPrepare \/ UNCHANGED vars
  BY <1>5 DEF Cluster, Tick, Restart, Launch, JobEnds, JobDies, Finish, RunPrepare, Goto,
     driverVars, vars
<1> QED
  BY <1>1, <1>2, <1>3, <1>4, <1>5 DEF Next, Driver

(* The first job of a batch that is not fixed is done with before what     *)
(* comes after it.                                                         *)
LEMMA FirstStep ==
  ASSUME TypeOK, DriverInv, JobInv, PlainInv, [Next]_vars, NEW s \in 1 .. Steps, Plain(s)'
  PROVE  First(s)'
<1> SUFFICES ASSUME ~fixed
             PROVE  /\ manifest'[s] # None => WriterDone(s)'
                    /\ s = step' /\ pc' \in AfterFirst => WriterDone(s)'
                    /\ s = step' /\ pc' = "topup" => WriterOver(s)'
                    /\ \A j \in StepJobs(s)' : ~Writer(j)' => WriterOver(s)'
  BY FixedStays DEF First
<1>0. manifest \in [1 .. Steps -> Nat \cup {None}]
  BY DEF TypeOK
<1>1. Plain(s) /\ Once(s) /\ First(s)
  BY PlainBefore DEF PlainInv
<1>2. /\ WriterOver(s) => WriterOver(s)' /\ WriterDone(s)'
      /\ WriterDone(s) => WriterDone(s)'
      /\ WriterOver(s)' => WriterDone(s)'
  BY <1>1, LaunchedKeeps, DoneStep DEF WriterOver, WriterDone
<1>3. ASSUME manifest'[s] # None PROVE WriterDone(s)'
  <2>1. CASE manifest'[s] = manifest[s]
    BY <1>1, <1>2, <1>3, <2>1 DEF First
  <2>2. CASE Collected /\ s = step /\ pc # "wait"
    BY <1>1, <1>2, <2>2 DEF First, Collected, AfterFirst
  <2>3. CASE Collected /\ s = step /\ pc = "wait"
    <3>1. ej \in StepJobs(s) /\ Writer(ej) /\ NUsable(s) >= K
      BY <2>3 DEF DriverInv, Collected
    <3>2. CASE \E j \in StepJobs(s) : ~Writer(j)
      BY <1>1, <1>2, <3>2 DEF First
    <3>3. CASE \A j \in StepJobs(s) : Writer(j)
      <4>1. StepJobs(s) = {ej}
        BY <1>1, <3>1, <3>3, OneCover
      <4>2. Covers(ej) \subseteq Usable(s)
        BY <3>1, <4>1, LoneWriter
      <4> QED
        BY <1>2, <3>1, <4>2 DEF WriterDone
    <3> QED
      BY <3>2, <3>3
  <2>4. ASSUME NEW j \in DOMAIN jobs, JobEnds(j), s = jobs[j].step, jobs[j].writes
        PROVE  WriterDone(s)'
    <3>1. j \in StepJobs(s) /\ Writer(j)
      BY <2>4 DEF StepJobs, Writer
    <3>2. j \in StepJobs(s)' /\ Writer(j)' /\ jobs'[j].over
      BY <2>4, <3>1, OneJob, StepJobsKeep
    <3> QED
      BY <3>2 DEF WriterDone
  <2> QED
    BY <1>3, <2>1, <2>2, <2>3, <2>4, ManifestOf
<1>4. ASSUME s = step', pc' \in AfterFirst PROVE WriterDone(s)'
  <2>1. /\ s = step
        /\ pc \in AfterFirst \/ manifest[s] # None \/ manifest'[s] # None
    BY <1>4, AfterFirstSteps
  <2> QED
    BY <1>1, <1>2, <1>3, <2>1 DEF First
<1>5. ASSUME s = step', pc' = "topup" PROVE WriterOver(s)'
  <2>1. /\ s = step
        /\ pc = "topup" \/ (pc = "ensure" /\ ~(NUsable(s) >= K))
    BY <1>5, TopUpSteps
  <2>2. CASE pc = "topup"
    BY <1>1, <1>2, <2>1, <2>2 DEF First
  <2>3. CASE pc = "ensure" /\ ~(NUsable(s) >= K)
    <3>1. WriterDone(s) /\ NUsable(s) < K
      BY <1>1, <2>1, <2>3, Counted, Sizes DEF First, AfterFirst
    <3> QED
      BY <1>2, <3>1, DoneIsOver
  <2> QED
    BY <2>1, <2>2, <2>3
<1>6. ASSUME NEW j \in StepJobs(s)', ~Writer(j)' PROVE WriterOver(s)'
  <2>1. CASE j \in StepJobs(s)
    <3>1. ~Writer(j)
      BY <1>6, <2>1, StepJobsKeep
    <3> QED
      BY <1>1, <1>2, <2>1, <3>1 DEF First
  <2>2. CASE j \notin StepJobs(s)
    <3>1. JobAccepted /\ s = step /\ jobs'[j] = NewJob
      BY <1>6, <2>2, NewJobOf
    <3>2. pc = "topup"
      BY <1>6, <3>1, NewJobType DEF JobAccepted, Writer
    <3> QED
      BY <1>1, <1>2, <3>1, <3>2 DEF First
  <2> QED
    BY <2>1, <2>2
<1> QED
  BY <1>3, <1>4, <1>5, <1>6

(* Every step leaves the plain steps as they must be.                      *)
LEMMA PlainStep ==
  ASSUME TypeOK, DriverInv, JobInv, ChargeInv, LaunchedInv, PlainInv, [Next]_vars
  PROVE  PlainInv'
<1>1. ASSUME NEW s \in 1 .. Steps, Plain(s)'
      PROVE  Once(s)' /\ Fits(s)' /\ Exact(s)' /\ First(s)'
  <2>1. Once(s)' /\ Fits(s)'
    BY <1>1, PlainBefore, OnceStep, FitsStep DEF PlainInv
  <2>2. fixed /\ manifest'[s] # None /\ Whole(s)' => Settled(s)' /\ manifest'[s] = Launched(s)'
    BY <1>1, ExactStep
  <2> QED
    BY <1>1, <2>1, <2>2, FixedStays, FirstStep DEF Exact
<1>2. ASSUME pc' = "topup", Plain(step)', \A j \in StepJobs(step)' : Writer(j)'
      PROVE  NUsable(step)' + plan'.count <= K
  <2>1. UNCHANGED step
    BY <1>2, TopUpSteps
  <2>2. step \in 1 .. Steps
    BY <1>2, <2>1, StepIsOne, TopUpSteps
  <2>3. PICK s \in 1 .. Steps : s = step
    BY <2>2
  <2>4. Plain(s)' /\ \A j \in StepJobs(s)' : Writer(j)'
    BY <1>2, <2>1, <2>3
  <2>5. Plain(s) /\ \A j \in StepJobs(s) : Writer(j)
    BY <2>4, PlainBefore, StepJobsKeep
  <2>6. CASE pc = "topup" /\ UNCHANGED plan
    <3>1. NUsable(s) + plan.count <= K /\ Once(s) /\ WriterOver(s)
      BY <2>3, <2>5, <2>6 DEF PlainInv, First, DriverInv, AtTopUp
    <3>2. ASSUME NEW x \in running, jobs[x[1]].step = s PROVE FALSE
      BY <2>5, <3>1, <3>2, RunningCovered, OverOnce
    <3>3. Usable(s)' = Usable(s)
      BY <3>1, <3>2, UsableStep
    <3> QED
      BY <2>1, <2>3, <2>6, <3>1, <3>3 DEF NUsable
  <2>7. CASE /\ ~(NUsable(step) >= K) /\ UNCHANGED summary
             /\ ~(K + MaxSupplement - Launched(step) <= 0)
             /\ plan' = [start |-> Launched(step),
                  count |-> Min({K - NUsable(step), K + MaxSupplement - Launched(step)})]
    <3>1. NUsable(s) < K /\ K + MaxSupplement - Launched(s) > 0
      BY <2>3, <2>7, Counted, Sizes
    <3>2. NUsable(s) + plan'.count <= K
      BY <2>3, <2>7, <3>1, PlanFits
    <3>3. NUsable(step)' = NUsable(s)
      BY <2>1, <2>3, <2>7 DEF NUsable, Usable
    <3> QED
      BY <3>2, <3>3
  <2> QED
    BY <1>2, <2>6, <2>7, TopUpSteps
<1> QED
  BY <1>1, <1>2 DEF PlainInv

(* What is ready stays so while the step has no new job.                   *)
LEMMA ReadyStep ==
  ASSUME TypeOK, DriverInv, JobInv, PlainInv, [Next]_vars,
         NEW s \in 1 .. Steps, NEW launched, NEW usable, Ready(s, launched, usable),
         Plain(s)' /\ Whole(s)' => StepJobs(s)' \subseteq StepJobs(s)
  PROVE  Ready(s, launched, usable)'
<1> SUFFICES ASSUME Plain(s)', Whole(s)'
             PROVE  /\ Settled(s)' /\ manifest'[s] # None
                    /\ launched = Launched(s)' /\ usable <= launched
                    /\ IF fixed' THEN launched = K ELSE usable >= K /\ NUsable(s)' >= K
  BY DEF Ready
<1>1. /\ Settled(s) /\ manifest[s] # None
      /\ launched = Launched(s) /\ usable <= launched
      /\ IF fixed THEN launched = K ELSE usable >= K /\ NUsable(s) >= K
  BY PlainBefore, WholeBefore DEF Ready
<1>2. Settled(s)' /\ Launched(s)' = Launched(s) /\ fixed' = fixed
  BY <1>1, SettledStep, SettledLogs, FixedStays
<1>3. NUsable(s) >= K => NUsable(s)' >= K
  <2>1. Usable(s) \subseteq Usable(s)'
    BY PlainBefore, UsableStep DEF PlainInv
  <2>2. PICK U : U = Usable(s)'
    OBVIOUS
  <2>3. IsFiniteSet(U)
    <3>1. U \subseteq Indices
      BY <2>2 DEF Usable
    <3> QED
      BY <3>1, Sizes, FS_Subset
  <2>4. /\ Cardinality(Usable(s)) \in Nat /\ Cardinality(U) \in Nat
        /\ Cardinality(Usable(s)) <= Cardinality(U)
    BY <2>1, <2>2, <2>3, MoreOrSame
  <2>5. NUsable(s) = Cardinality(Usable(s)) /\ NUsable(s)' = Cardinality(U)
    BY <2>2 DEF NUsable
  <2> QED
    BY <2>4, <2>5, Sizes
<1>4. manifest'[s] # None
  <2>0. manifest \in [1 .. Steps -> Nat \cup {None}] /\ K # None
    BY Sizes, NoneAssumption DEF TypeOK
  <2>1. CASE UNCHANGED manifest
    BY <1>1, <2>1
  <2>2. CASE Collected
    <3>1. Launched(s) # None
      BY Counted, NoneAssumption
    <3> QED
      BY <1>1, <2>0, <2>2, <3>1 DEF Collected
  <2>3. CASE Reopened
    <3>1. s # step
      BY <1>1, <2>3, Counted, Sizes DEF Reopened
    <3> QED
      BY <1>1, <2>0, <2>3, <3>1 DEF Reopened
  <2>4. ASSUME NEW j \in DOMAIN jobs, JobEnds(j) PROVE manifest'[s] # None
    BY <1>1, <2>0, <2>4 DEF JobEnds
  <2> QED
    BY <2>1, <2>2, <2>3, <2>4, ManifestSteps DEF ManifestStep
<1> QED
  BY <1>1, <1>2, <1>3, <1>4

(* How the driver comes to the command.                                    *)
LEMMA PrepareSteps ==
  ASSUME TypeOK, DriverInv, [Next]_vars, pc' = "prepare"
  PROVE  /\ UNCHANGED step
         /\ \/ pc = "prepare"
            \/ /\ pc = "ensure" /\ fixed /\ manifest[step] # None /\ Launched(step) = K
               /\ UNCHANGED <<jobs, logs, summary, manifest>>
            \/ /\ pc = "ensure" /\ ~fixed /\ NUsable(step) >= K
               /\ manifest' = [manifest EXCEPT ![step] = Launched(step)]
               /\ UNCHANGED <<jobs, logs, summary>>
<1>1. CASE Begin \/ Wait \/ TopUpWait
  BY <1>1 DEF Begin, NextStep, Wait, TopUpWait, Goto
<1>2. CASE EnsureTarget
  BY <1>2 DEF EnsureTarget, Goto, Collect
<1>3. CASE EnsureFixed
  BY <1>3 DEF EnsureFixed, Goto, Local, Keep, dirVars
<1>4. CASE StepPrepare \/ Prepared
  BY <1>4 DEF StepPrepare, Prepared, NextStep, Goto
<1>5. CASE Submit \/ SubmitFails \/ Record
  BY <1>5 DEF Submit, SubmitFails, Record, Goto
<1>6. CASE Cluster \/ Tick \/ Restart \/ RunPrepare \/ UNCHANGED vars
  BY <1>6 DEF Cluster, Tick, Restart, Launch, JobEnds, JobDies, Finish, RunPrepare, Goto,
     driverVars, vars
<1> QED
  BY <1>1, <1>2, <1>3, <1>4, <1>5, <1>6 DEF Next, Driver

(* How it comes to submit and to wait.                                     *)
Early == {"submit", "record", "wait", "topup", "topwait"}

(* Every step that comes there comes from the head of the loop, or was     *)
(* there.                                                                  *)
LEMMA EarlySteps ==
  ASSUME [Next]_vars, pc' \in Early
  PROVE  /\ UNCHANGED step
         /\ \/ pc \in Early \/ (pc = "begin" /\ manifest[step] = None)
            \/ (pc = "ensure" /\ ~fixed /\ ~(NUsable(step) >= K))
<1> USE DEF Early
<1>1. CASE Begin
  BY <1>1 DEF Begin, NextStep, Goto
<1>2. CASE EnsureTarget
  BY <1>2 DEF EnsureTarget, Goto
<1>3. CASE Wait \/ TopUpWait \/ EnsureFixed \/ StepPrepare \/ Prepared
  BY <1>3 DEF Wait, TopUpWait, EnsureFixed, StepPrepare, Prepared, NextStep, Goto, Local
<1>4. CASE Submit \/ SubmitFails \/ Record
  BY <1>4 DEF Submit, SubmitFails, Record, Goto, Local
<1>5. CASE Cluster \/ Tick \/ Restart \/ RunPrepare \/ UNCHANGED vars
  BY <1>5 DEF Cluster, Tick, Restart, Launch, JobEnds, JobDies, Finish, RunPrepare, Goto,
     driverVars, vars
<1> QED
  BY <1>1, <1>2, <1>3, <1>4, <1>5 DEF Next, Driver

(* Where the first job is done with and enough is usable, the step is      *)
(* settled.                                                                *)
LEMMA EnoughIsSettled ==
  ASSUME TypeOK, JobInv, PlainInv, NEW s \in 1 .. Steps, Plain(s), WriterDone(s), NUsable(s) >= K
  PROVE  Settled(s)
<1>1. ASSUME NEW j \in StepJobs(s), ~Writer(j) PROVE Covers(j) \subseteq logs[s]
  <2>1. Cardinality(Usable(s) \cup Covers(j)) <= K
    BY <1>1 DEF PlainInv, Fits
  <2>2. IsFiniteSet(Usable(s) \cup Covers(j))
    BY CoversFinite DEF StepJobs
  <2>3. /\ Cardinality(Usable(s)) \in Nat /\ Cardinality(Usable(s) \cup Covers(j)) \in Nat
        /\ Cardinality(Usable(s)) <= Cardinality(Usable(s) \cup Covers(j))
        /\ Cardinality(Usable(s)) = Cardinality(Usable(s) \cup Covers(j)) =>
             Usable(s) = Usable(s) \cup Covers(j)
    <3>1. PICK U : U = Usable(s) \cup Covers(j)
      OBVIOUS
    <3> QED
      BY <2>2, <3>1, MoreOrSame
  <2>4. Usable(s) = Usable(s) \cup Covers(j)
    BY <2>1, <2>3, Sizes DEF NUsable
  <2> QED
    BY <2>4, UsableLaunched
<1>2. ASSUME NEW j \in StepJobs(s), Writer(j) PROVE jobs[j].over \/ Covers(j) \subseteq logs[s]
  <2>1. PICK i \in StepJobs(s) : Writer(i) /\ (jobs[i].over \/ Covers(i) \subseteq Usable(s))
    BY DEF WriterDone
  <2>2. i = j
    BY <1>2, <2>1, OneCover
  <2> QED
    BY <2>1, <2>2, UsableLaunched
<1> QED
  BY <1>1, <1>2 DEF Settled

(* Every step leaves what is prepared, committed or not begun as it must   *)
(* be.                                                                     *)
LEMMA ReadyInvStep ==
  ASSUME TypeOK, DriverInv, JobInv, ChargeInv, LaunchedInv, PlainInv, ReadyInv, [Next]_vars
  PROVE  ReadyInv'
<1>0. /\ TypeOK' /\ JobInv' /\ fixed' = fixed
      /\ manifest \in [1 .. Steps -> Nat \cup {None}] /\ K # None
  BY TypeStep, JobStep, FixedStays, Sizes, NoneAssumption DEF TypeOK
<1>1. ASSUME pc \notin {"submit", "topup"}, NEW s \in 1 .. Steps
      PROVE  StepJobs(s)' \subseteq StepJobs(s)
  BY <1>1, NewJobOf DEF JobAccepted
<1>2. ASSUME NEW s \in 1 .. Steps PROVE NUsable(s)' <= Launched(s)'
  <2>1. PICK U, T : U = Usable(s)' /\ T = logs'[s]
    OBVIOUS
  <2>2. U \subseteq T
    BY <1>0, <2>1 DEF Usable, JobInv
  <2>3. T \subseteq Indices
    BY <1>0, <2>1 DEF TypeOK
  <2>4. IsFiniteSet(T)
    BY <2>3, Sizes, FS_Subset
  <2>5. Cardinality(U) <= Cardinality(T)
    BY <2>2, <2>4, MoreOrSame
  <2> QED
    BY <2>1, <2>5 DEF NUsable, Launched
<1>3. ASSUME pc' = "prepare" PROVE Ready(step, manifest[step], NUsable(step))'
  <2>1. UNCHANGED step /\ step \in 1 .. Steps
    BY <1>3, PrepareSteps, StepIsOne
  <2>2. PICK s \in 1 .. Steps : s = step
    BY <2>1
  <2>3. ASSUME Plain(s)', Whole(s)' PROVE Ready(s, manifest[s], NUsable(s))'
    <3>0. Plain(s) /\ Whole(s)
      BY <2>3, PlainBefore, WholeBefore
    <3>1. CASE pc = "prepare"
      <4>1. PICK l, u : l = manifest[s] /\ u = NUsable(s)
        OBVIOUS
      <4>2. Ready(s, l, u)
        BY <2>2, <3>1, <4>1 DEF ReadyInv
      <4>3. Ready(s, l, u)'
        BY <1>1, <3>1, <4>2, ReadyStep
      <4>4. manifest'[s] = l
        <5>1. manifest'[s] # None
          BY <2>3, <4>3 DEF Ready
        <5>2. ASSUME NEW j \in DOMAIN jobs, JobEnds(j), s = jobs[j].step, jobs[j].writes
              PROVE  manifest'[s] = l
          <6>1. /\ manifest'[s] = K /\ ~jobs[j].over /\ j \in StepJobs(s) /\ Writer(j)
                /\ jobs[j].next > jobs[j].last
            BY <1>0, <5>2 DEF JobEnds, StepJobs, Writer
          <6>2. CASE fixed
            BY <3>0, <4>2, <6>1, <6>2 DEF Ready
          <6>3. CASE ~fixed
            <7>1. \A i \in StepJobs(s) : Writer(i)
              BY <3>0, <6>1, <6>3, OverOnce DEF PlainInv, First
            <7>2. StepJobs(s) = {j}
              BY <3>0, <6>1, <7>1, OneCover
            <7>3. Launched(s) <= K /\ Launched(s) \in Nat /\ K <= Launched(s)
              BY <5>2, <6>1, <7>2, LoneWriter, WriterLaunched
            <7>4. l = Launched(s)
              BY <3>0, <4>2 DEF Ready
            <7> QED
              BY <6>1, <7>3, <7>4, Sizes
          <6> QED
            BY <6>2, <6>3
        <5> QED
          BY <3>1, <4>1, <5>1, <5>2, ManifestOf DEF Collected
      <4>5. NUsable(s)' <= l
        BY <1>2, <2>3, <4>3 DEF Ready
      <4>6. ~fixed => NUsable(s)' >= K
        BY <1>0, <2>3, <4>3 DEF Ready
      <4> QED
        BY <1>0, <2>3, <4>3, <4>4, <4>5, <4>6 DEF Ready
    <3>2. CASE /\ fixed /\ manifest[s] # None /\ Launched(s) = K
               /\ UNCHANGED <<jobs, logs, summary, manifest>>
      <4>1. Settled(s) /\ manifest[s] = Launched(s)
        BY <3>0, <3>2 DEF PlainInv, Exact
      <4>2. Settled(s)' /\ Launched(s)' = Launched(s)
        BY <3>2, <4>1 DEF Settled, StepJobs, Covers, Launched
      <4> QED
        BY <1>0, <1>2, <3>2, <4>1, <4>2 DEF Ready
    <3>3. CASE /\ pc = "ensure" /\ ~fixed /\ NUsable(s) >= K
               /\ manifest' = [manifest EXCEPT ![s] = Launched(s)]
               /\ UNCHANGED <<jobs, logs, summary>>
      <4>1. Settled(s)
        BY <2>2, <3>0, <3>3, EnoughIsSettled DEF PlainInv, First, AfterFirst
      <4>2. Settled(s)' /\ Launched(s)' = Launched(s) /\ NUsable(s)' = NUsable(s)
        BY <3>3, <4>1 DEF Settled, StepJobs, Covers, Launched, NUsable, Usable
      <4>3. manifest'[s] = Launched(s) /\ Launched(s) # None
        BY <1>0, <3>3, Counted, NoneAssumption
      <4> QED
        BY <1>0, <1>2, <3>3, <4>2, <4>3 DEF Ready
    <3> QED
      BY <1>3, <2>2, <3>1, <3>2, <3>3, PrepareSteps
  <2>4. Ready(s, manifest[s], NUsable(s))'
    BY <2>3 DEF Ready
  <2> QED
    BY <2>1, <2>2, <2>4
<1>4. ASSUME prep' # None PROVE Ready(step, prep.launched, Len(prep.rows))'
  <2>1. CASE UNCHANGED step /\ prep # None /\ prep'.launched = prep.launched
             /\ prep'.rows = prep.rows
    <3>1. step \in 1 .. Steps /\ pc = "preparing"
      BY <2>1, StepIsOne DEF ChargeInv, PrepInv
    <3>2. PICK s, l, u : s \in 1 .. Steps /\ s = step /\ l = prep.launched /\ u = Len(prep.rows)
      BY <3>1
    <3>3. Ready(s, l, u)
      BY <2>1, <3>2 DEF ReadyInv
    <3>4. Ready(s, l, u)'
      BY <1>1, <3>1, <3>2, <3>3, ReadyStep
    <3>5. s = step' /\ l = prep'.launched /\ u = Len(prep'.rows)
      BY <2>1, <3>2
    <3> QED
      BY <3>4, <3>5
  <2>2. CASE Started
    <3>1. /\ pc = "prepare" /\ step \in 1 .. Steps /\ UNCHANGED step
      BY <2>2, StepIsOne DEF Started
    <3>2. prep'.launched = manifest[step] /\ prep'.rows = LoadBatch(step)
      BY <2>2 DEF Started, StartPrepare
    <3>3. PICK s, l, u : s \in 1 .. Steps /\ s = step /\ l = manifest[step] /\ u = NUsable(step)
      BY <3>1
    <3>4. Len(LoadBatch(s)) = u
      <4>1. NUsable(s) \in Nat
        BY <3>3, Counted
      <4> QED
        BY <3>3, <4>1 DEF LoadBatch
    <3>5. Ready(s, l, u)
      BY <3>1, <3>3 DEF ReadyInv
    <3>6. Ready(s, l, u)'
      BY <1>1, <3>1, <3>3, <3>5, ReadyStep
    <3>7. s = step' /\ l = prep'.launched /\ u = Len(prep'.rows)
      BY <3>1, <3>2, <3>3, <3>4
    <3> QED
      BY <3>6, <3>7
  <2>3. CASE Prepare /\ UNCHANGED driverVars
    <3>1. /\ prep # None /\ UNCHANGED step
          /\ DOMAIN prep = {"at", "step", "rows", "launched", "parent", "again", "st"}
      BY <2>3 DEF Prepare, WriteReplay, CommitState, AppendCurve, WriteParent, WriteMarker, At,
         driverVars, ChargeInv, PrepInv
    <3>2. prep'.launched = prep.launched /\ prep'.rows = prep.rows
      BY <1>4, <2>3, <3>1
         DEF Prepare, WriteReplay, CommitState, AppendCurve, WriteParent, WriteMarker
    <3> QED
      BY <2>1, <3>1, <3>2
  <2> QED
    BY <1>4, <2>1, <2>2, <2>3, PrepSteps DEF PrepStep, ChargeInv
<1>5. Len(state.batches) \in Nat /\ Len(state.batches) <= Steps /\ Steps \in Nat
  BY CurveSteps, Sizes DEF ChargeInv, StateInv
<1>6. ASSUME NEW i \in 1 .. Len(state'.batches)
      PROVE  Ready(i, state.batches[i].launched, state.batches[i].usable)'
  <2>1. ASSUME i \in 1 .. Len(state.batches), state'.batches[i] = state.batches[i]
        PROVE  Ready(i, state.batches[i].launched, state.batches[i].usable)'
    <3>1. i \in 1 .. Steps
      BY <1>5, <2>1
    <3>2. PICK l, u : l = state.batches[i].launched /\ u = state.batches[i].usable
      OBVIOUS
    <3>3. Ready(i, l, u)
      BY <2>1, <3>2 DEF ReadyInv
    <3>4. Plain(i)' /\ Whole(i)' => StepJobs(i)' \subseteq StepJobs(i)
      <4>1. ASSUME Plain(i)', Whole(i)', NEW j \in StepJobs(i)', j \notin StepJobs(i) PROVE FALSE
        <5>1. pc \in {"submit", "topup"} /\ i = step /\ Plain(i) /\ Whole(i)
          BY <3>1, <4>1, NewJobOf, PlainBefore, WholeBefore DEF JobAccepted
        <5>2. step > Len(state.batches)
          BY <5>1 DEF ReadyInv
        <5> QED
          BY <1>5, <2>1, <5>1, <5>2
      <4> QED
        BY <4>1
    <3>5. Ready(i, l, u)'
      BY <3>1, <3>3, <3>4, ReadyStep
    <3> QED
      BY <2>1, <3>2, <3>5
  <2>2. CASE UNCHANGED state
    BY <2>1, <2>2
  <2>3. CASE /\ prep # None /\ pc = "preparing" /\ step = Len(state.batches) + 1
             /\ Len(state'.batches) = Len(state.batches) + 1
             /\ \A k \in 1 .. Len(state.batches) : state'.batches[k] = state.batches[k]
             /\ state'.batches[step].launched = prep.launched
             /\ state'.batches[step].usable = Len(prep.rows)
    <3>1. CASE i \in 1 .. Len(state.batches)
      BY <2>1, <2>3, <3>1
    <3>2. CASE i = step
      <4>1. i \in 1 .. Steps
        BY <2>3, <3>2, StepIsOne
      <4>2. PICK l, u : l = prep.launched /\ u = Len(prep.rows)
        OBVIOUS
      <4>3. Ready(i, l, u)
        BY <2>3, <3>2, <4>2 DEF ReadyInv
      <4>4. Ready(i, l, u)'
        BY <1>1, <2>3, <4>1, <4>3, ReadyStep
      <4> QED
        BY <2>3, <3>2, <4>2, <4>4
    <3>3. i \in 1 .. Len(state.batches) \/ i = step
      <4>1. PICK n \in Nat : n = Len(state.batches) /\ step = n + 1 /\ i \in 1 .. n + 1
        BY <1>5, <2>3
      <4>2. i \in 1 .. n \/ i = n + 1
        BY <4>1
      <4> QED
        BY <4>1, <4>2
    <3> QED
      BY <3>1, <3>2, <3>3
  <2> QED
    BY <2>2, <2>3, BatchesStep
<1>7. ASSUME pc' \in Early, Plain(step)', Whole(step)' PROVE step' > Len(state'.batches)
  <2>1. /\ UNCHANGED step
        /\ \/ pc \in Early \/ (pc = "begin" /\ manifest[step] = None)
           \/ (pc = "ensure" /\ ~fixed /\ ~(NUsable(step) >= K))
    BY <1>7, EarlySteps
  <2>2. step \in 1 .. Steps /\ UNCHANGED state
    BY <2>1, StepIsOne, BatchesStep DEF Early
  <2>3. PICK s \in 1 .. Steps : s = step
    BY <2>2
  <2>4. Plain(s) /\ Whole(s)
    <3>1. Plain(s)' /\ Whole(s)'
      BY <1>7, <2>1, <2>3
    <3> QED
      BY <3>1, PlainBefore, WholeBefore
  <2>5. CASE pc \in Early
    BY <2>1, <2>2, <2>3, <2>4, <2>5 DEF ReadyInv, Early
  <2>6. CASE manifest[step] = None \/ (~fixed /\ ~(NUsable(step) >= K))
    <3>1. ASSUME s \in 1 .. Len(state.batches) PROVE FALSE
      <4>1. Ready(s, state.batches[s].launched, state.batches[s].usable)
        BY <3>1 DEF ReadyInv
      <4> QED
        BY <2>3, <2>4, <2>6, <4>1 DEF Ready
    <3> QED
      BY <1>5, <2>1, <2>2, <2>3, <3>1
  <2> QED
    BY <2>1, <2>5, <2>6
<1> QED
  BY <1>3, <1>4, <1>6, <1>7 DEF ReadyInv, Early

-------------------------------------------------------------------------------
(* The theorems.                                                           *)

(* The first state is one.                                                 *)
LEMMA StartInv ==
  ASSUME ExecutorInit
  PROVE  ExecutorInv
<1> USE DEF ExecutorInit, DiscoverInit
<1>1. state.batches = <<>> /\ state.cum = 0
  BY DEF FirstState
<1>2. TypeOK
  BY Sizes DEF TypeOK
<1>3. DriverInv
  BY Sizes DEF DriverInv, InHand, AtTopUp
<1>4. JobInv
  BY DEF JobInv
<1>5. ChargeInv
  <2>1. Numbered(state.batches) /\ Len(state.batches) = 0
    <3>1. state.batches \in Seq({})
      BY <1>1
    <3> QED
      BY <1>1, <3>1 DEF Numbered
  <2>2. Charged(state, Steps) = 0
    BY <1>1, <2>1, ChargedNat, Sizes
  <2>3. \E T : curve \in Seq(T)
    <3>1. curve \in Seq({})
      OBVIOUS
    <3> QED
      BY <3>1
  <2>4. Len(curve) = 0
    OBVIOUS
  <2>5. StateInv
    BY <1>1, <2>1, <2>2, Sizes DEF StateInv
  <2>6. CurveInv
    BY <2>1, <2>3, <2>4 DEF CurveInv
  <2> QED
    BY <2>5, <2>6 DEF ChargeInv, PrepInv
<1>6. LaunchedInv /\ PlainInv /\ ReadyInv
  <2>1. \A s : StepJobs(s) = {}
    BY DEF StepJobs
  <2>2. Len(state.batches) = 0
    BY <1>1
  <2>3. LaunchedInv
    BY <2>1, <2>2 DEF LaunchedInv
  <2>4. PlainInv
    BY <2>1 DEF PlainInv, Once, Fits, Exact, First, AfterFirst
  <2>5. ReadyInv
    BY <2>2 DEF ReadyInv
  <2> QED
    BY <2>3, <2>4, <2>5
<1> QED
  BY <1>2, <1>3, <1>4, <1>5, <1>6 DEF ExecutorInv

(* It is an invariant.                                                     *)
LEMMA ExecutorInvariant == Spec => []ExecutorInv
<1>1. ASSUME ExecutorInv, [Next]_vars PROVE ExecutorInv'
  <2>1. TypeOK' /\ DriverInv' /\ JobInv'
    BY <1>1, TypeStep, DriverStep, JobStep DEF ExecutorInv, ChargeInv
  <2>2. ChargeInv' /\ LaunchedInv'
    BY <1>1, ChargeStep, LaunchedStep DEF ExecutorInv
  <2>3. PlainInv' /\ ReadyInv'
    BY <1>1, PlainStep, ReadyInvStep DEF ExecutorInv
  <2> QED
    BY <2>1, <2>2, <2>3 DEF ExecutorInv
<1> QED
  BY <1>1, StartInv, PTL DEF Spec

(* Every variable of the driver, of the jobs and of their files keeps its  *)
(* type: what runs belongs to a job that is not over, what is recorded is  *)
(* a job that was accepted.                                                *)
THEOREM ExecutorTypeCorrect == Spec => []TypeOK
<1>1. ExecutorInv => TypeOK
  BY DEF ExecutorInv
<1> QED
  BY <1>1, ExecutorInvariant, PTL

(* Every batch is charged once and the curve is the running sum of what    *)
(* was launched, wherever the command or the driver was killed and however *)
(* often it was run again.                                                 *)
THEOREM EveryBatchChargedOnce == Spec => []ChargeIsConserved
<1>1. ASSUME ExecutorInv PROVE ChargeIsConserved
  <2>1. /\ Numbered(state.batches) /\ state.cum = Charged(state, Steps)
        /\ DOMAIN state.batches = 1 .. Len(state.batches) /\ Len(state.batches) \in Nat
        /\ \A i \in 1 .. Len(state.batches) : state.batches[i].step = i
    BY <1>1, ChargedSeq, Sizes DEF ExecutorInv, ChargeInv, StateInv, Numbered
  <2>2. Len(state.batches) = Cardinality({b.step : b \in Range(state.batches)})
    <3>1. PICK n \in Nat : n = Len(state.batches)
      BY <2>1
    <3>2. {b.step : b \in Range(state.batches)} = 1 .. n
      BY <2>1, <3>1 DEF Range
    <3>3. Cardinality(1 .. n) = n
      BY FS_Interval
    <3> QED
      BY <3>1, <3>2, <3>3
  <2>3. ASSUME NEW i \in DOMAIN curve
        PROVE  /\ curve[i].step = i /\ Batch(state, i) # {}
               /\ curve[i] \in {CurveRow(b, Charged(state, i)) : b \in Batch(state, i)}
    <3>1. /\ i \in 1 .. Len(curve) /\ curve[i].step = i /\ i \in 1 .. Len(state.batches)
      BY <1>1, CurveSteps DEF ExecutorInv, ChargeInv
    <3>2. curve[i] = CurveRow(state.batches[i], Charged(state, i))
      BY <1>1, <3>1 DEF ExecutorInv, ChargeInv, CurveInv
    <3>3. Batch(state, i) = {state.batches[i]}
      BY <2>1, <3>1, BatchOf
    <3> QED
      BY <3>1, <3>2, <3>3
  <2> QED
    BY <2>1, <2>2, <2>3 DEF ChargeIsConserved
<1> QED
  BY <1>1, ExecutorInvariant, PTL

(* "A failed trajectory is charged, not silently replaced": unless a job   *)
(* was submitted twice, or one of a fixed batch was cut before it had      *)
(* begun all, a committed step charges every index launched for it, and    *)
(* nothing more of it is ever launched, though a scancel take its time.    *)
THEOREM EveryLaunchCharged == Spec => []LaunchesAreCharged
<1>1. ASSUME ExecutorInv PROVE LaunchesAreCharged
  <2>1. /\ Numbered(state.batches) /\ Len(state.batches) \in Nat /\ Len(state.batches) <= Steps
        /\ DOMAIN state.batches = 1 .. Len(state.batches) /\ Steps \in Nat
    BY <1>1, ChargedSeq, Sizes DEF ExecutorInv, ChargeInv, StateInv
  <2>2. ASSUME NEW b \in Range(state.batches)
        PROVE  /\ b.launched <= Launched(b.step) /\ b.launched <= K + MaxSupplement
               /\ Plain(b.step) /\ Whole(b.step) =>
                    /\ b.launched = Launched(b.step) /\ b.usable <= b.launched
                    /\ IF fixed THEN b.launched = K ELSE b.usable >= K
    <3>1. PICK i \in 1 .. Len(state.batches) : b = state.batches[i]
      BY <2>1 DEF Range
    <3>2. /\ b.step = i /\ b.launched \in Nat /\ i \in 1 .. Steps
          /\ b.launched <= Launched(i) /\ Ready(i, b.launched, b.usable)
      BY <1>1, <2>1, <3>1 DEF Numbered, ExecutorInv, LaunchedInv, ReadyInv
    <3>3. Launched(i) \in Nat /\ Launched(i) <= K + MaxSupplement
      BY <1>1, <3>2, Counted DEF ExecutorInv
    <3>4. b.launched <= K + MaxSupplement
      BY <3>2, <3>3, Sizes
    <3> QED
      BY <3>2, <3>4 DEF Ready
  <2> QED
    BY <2>2 DEF LaunchesAreCharged
<1> QED
  BY <1>1, ExecutorInvariant, PTL

-------------------------------------------------------------------------------
(* What is published.                                                      *)

(* What a batch is made of.                                                *)
RowType == [k : Indices, program : Programs]

(* A replay has the rows its batch was credited with, grown from its       *)
(* parent, the better of two taught more.                                  *)
Taught(s, trained, parent) ==
  LET r == replay[s] IN
    /\ DOMAIN r = 1 .. trained /\ Len(r) = trained
    /\ \A i, j \in DOMAIN r :
         /\ r[i].parent = parent
         /\ Score[r[i].program] < Score[r[j].program] => r[i].advantage < r[j].advantage

(* What the batch after that of a step grows from, or is to grow from.     *)
Heir(s) == IF s = Len(state.batches) THEN state.selected ELSE state.batches[s + 1].parent

TaughtInv ==
  \A s \in 1 .. Len(state.batches) :
    Taught(s, state.batches[s].trained, state.batches[s].parent)

(* A parent file names it from when it is written, before the marker and   *)
(* before the next batch.                                                  *)
HeirInv ==
  /\ \A s \in 1 .. Len(state.batches) :
       /\ parentFile[s] # None => parentFile[s] = Heir(s)
       /\ s < Len(state.batches) => parentFile[s] # None
  /\ \A s \in 1 .. Steps : marker[s] => s <= Len(curve) /\ parentFile[s] = Heir(s)

(* What the command has in hand.                                           *)
HandInv ==
  prep # None =>
    /\ prep.rows \in Seq(RowType) /\ prep.st.selected = state.selected
    /\ prep.at \in {"replay", "commit"} =>
         prep.parent = IF step = 1 THEN Root ELSE parentFile[step - 1]
    /\ prep.at = "commit" => Taught(step, Len(TrainRows(prep.rows)), prep.parent)
    /\ prep.at \in {"curve", "parent", "marker"} /\ ~prep.again => step = Len(state.batches)
    /\ prep.at = "marker" => parentFile[step] = Heir(step)

PublishInv == TaughtInv /\ HeirInv /\ HandInv

(* The rows trained on are the first ones, MaxTrain of them at most.       *)
LEMMA TrainRowsAre ==
  ASSUME NEW rows \in Seq(RowType)
  PROVE  TrainRows(rows) \in Seq(RowType) /\ Len(TrainRows(rows)) <= MaxTrain
<1> DEFINE upTo == Min({Len(rows), MaxTrain})
           cap == upTo - (upTo % Ways)
<1>1. MaxTrain \in Nat /\ MinTrain \in Nat \ {0} /\ Ways \in Nat \ {0} /\ Len(rows) \in Nat
  BY DiscoverAssumption
<1>2. upTo \in Nat /\ upTo <= Len(rows) /\ upTo <= MaxTrain
  <2>1. PICK x \in Nat : x = Len(rows)
    BY <1>1
  <2>2. PICK y \in Nat : y = MaxTrain
    BY <1>1
  <2>3. Min({x, y}) \in {x, y} /\ Min({x, y}) <= x /\ Min({x, y}) <= y
    <3>1. \A a, b \in Int : Min({a, b}) \in {a, b} /\ Min({a, b}) <= a /\ Min({a, b}) <= b
      BY Smaller
    <3>2. x \in Int /\ y \in Int
      OBVIOUS
    <3> QED
      BY <3>1, <3>2, Zenon
  <2>4. Min({x, y}) \in Nat
    BY <2>3
  <2> QED
    BY <2>1, <2>2, <2>3, <2>4, Zenon
<1> HIDE DEF upTo
<1>3. upTo % Ways \in 0 .. Ways - 1
  BY <1>1, <1>2
<1>4. cap \in Int /\ cap <= upTo
  BY <1>1, <1>2, <1>3
<1>5. TrainRows(rows) = IF cap >= MinTrain THEN SubSeq(rows, 1, cap) ELSE <<>>
  BY DEF TrainRows, upTo
<1> HIDE DEF cap
<1>6. CASE cap >= MinTrain
  <2>1. cap \in Nat /\ cap <= Len(rows) /\ cap <= MaxTrain
    BY <1>1, <1>2, <1>4, <1>6
  <2>2. SubSeq(rows, 1, cap) \in Seq(RowType) /\ Len(SubSeq(rows, 1, cap)) = cap
    BY <2>1
  <2> QED
    BY <1>5, <1>6, <2>1, <2>2
<1>7. CASE ~(cap >= MinTrain)
  <2>1. TrainRows(rows) = <<>>
    BY <1>5, <1>7
  <2> QED
    BY <1>1, <2>1
<1> QED
  BY <1>6, <1>7

(* The replay made of them is what it should be.                           *)
LEMMA ReplayTeaches ==
  ASSUME NEW train \in Seq(RowType), Len(train) <= MaxTrain, NEW parent
  PROVE  LET r == MakeReplay(train, parent) IN
         /\ DOMAIN r = 1 .. Len(train) /\ Len(r) = Len(train)
         /\ \A i, j \in DOMAIN r :
              /\ r[i].parent = parent
              /\ Score[r[i].program] < Score[r[j].program] => r[i].advantage < r[j].advantage
<1> DEFINE n == Len(train)
           f == [i \in 1 .. n |-> train[i].program]
           advantages == Entropic([i \in 1 .. n |-> Score[f[i]]])
           r == [i \in 1 .. n |-> [k |-> train[i].k, program |-> train[i].program,
                                   parent |-> parent, advantage |-> advantages[i]]]
<1>1. n \in Nat /\ n <= MaxTrain /\ DOMAIN train = 1 .. n /\ MaxTrain \in Nat
  BY DiscoverAssumption
<1>2. \A i \in 1 .. n : train[i].program \in Programs
  <2>1. \A i \in 1 .. n : train[i] \in RowType
    BY <1>1
  <2> QED
    BY <2>1 DEF RowType
<1>3. MakeReplay(train, parent) = r
  <2>1. [i \in DOMAIN train |-> Score[train[i].program]] = [i \in 1 .. n |-> Score[f[i]]]
    BY <1>1
  <2>2. Entropic([i \in DOMAIN train |-> Score[train[i].program]]) = advantages
    BY <2>1
  <2> HIDE DEF advantages
  <2> QED
    BY <1>1, <2>2 DEF MakeReplay
<1>4. \A i, j \in 1 .. n : Score[f[i]] < Score[f[j]] => advantages[i] < advantages[j]
  <2>1. f \in [1 .. n -> Programs]
    BY <1>2
  <2>2. CASE n = 0
    BY <2>2
  <2>3. CASE n # 0
    <3>1. n \in 1 .. MaxTrain
      BY <1>1, <2>3
    <3> HIDE DEF f, n
    <3> QED
      BY <2>1, <3>1, AdvantageAssumption
  <2> QED
    BY <2>2, <2>3
<1> HIDE DEF advantages
<1>5. \A i \in 1 .. n : /\ r[i].parent = parent /\ r[i].program = train[i].program
                       /\ r[i].advantage = advantages[i] /\ f[i] = train[i].program
  OBVIOUS
<1>6. DOMAIN r = 1 .. n /\ Len(r) = n
  BY <1>1
<1> HIDE DEF r, f, n
<1>7. \A i, j \in DOMAIN r :
        /\ r[i].parent = parent
        /\ Score[r[i].program] < Score[r[j].program] => r[i].advantage < r[j].advantage
  BY <1>4, <1>5, <1>6
<1> QED
  BY <1>3, <1>6, <1>7 DEF n

(* The rows the command is given are of the batch.                         *)
LEMMA BatchRowsAre ==
  ASSUME TypeOK, NEW s \in 1 .. Steps
  PROVE  LoadBatch(s) \in Seq(RowType)
<1> DEFINE n == NUsable(s)
           U == Usable(s)
           rank == [k \in U |-> Cardinality({l \in U : l < k})]
<1>1. n \in Nat /\ IsFiniteSet(U) /\ U \subseteq Nat /\ n = Cardinality(U) /\ U \subseteq Indices
  BY Counted, Sizes DEF NUsable
<1>2. \A k \in U : rank[k] = Cardinality({l \in U : l < k})
  OBVIOUS
<1> HIDE DEF n, U
<1>3. ASSUME NEW k \in U
      PROVE  /\ IsFiniteSet({l \in U : l < k}) /\ rank[k] \in 0 .. n - 1
             /\ \A m \in U : k < m => rank[k] < rank[m]
  <2>1. \A T : T \subseteq U => IsFiniteSet(T) /\ Cardinality(T) \in Nat
    BY <1>1, MoreOrSame
  <2>2. ASSUME NEW T, T \subseteq U, {l \in U : l < k} \subseteq T, k \in T
        PROVE  rank[k] < Cardinality(T)
    <3>1. ~(k \in {l \in U : l < k})
      BY <1>1
    <3>2. /\ Cardinality({l \in U : l < k}) <= Cardinality(T)
          /\ Cardinality({l \in U : l < k}) = Cardinality(T) => {l \in U : l < k} = T
      BY <2>1, <2>2, MoreOrSame
    <3>3. rank[k] \in Nat /\ Cardinality(T) \in Nat
      BY <1>2, <2>1, <2>2
    <3> HIDE DEF rank
    <3> QED
      BY <1>2, <2>2, <3>1, <3>2, <3>3
  <2>3. rank[k] \in Nat /\ rank[k] < n
    BY <1>1, <1>2, <2>1, <2>2
  <2>4. ASSUME NEW m \in U, k < m PROVE rank[k] < rank[m]
    <3>1. {l \in U : l < k} \subseteq {l \in U : l < m}
      <4>1. ASSUME NEW l \in U, l < k PROVE l < m
        <5>1. l \in Nat /\ k \in Nat /\ m \in Nat
          BY <1>1
        <5> QED
          BY <2>4, <4>1, <5>1
      <4> QED
        BY <4>1
    <3>2. k \in {l \in U : l < m} /\ {l \in U : l < m} \subseteq U
      BY <2>4
    <3>3. rank[k] < Cardinality({l \in U : l < m})
      BY <2>2, <3>1, <3>2
    <3> QED
      BY <1>2, <3>3
  <2> HIDE DEF rank
  <2> QED
    BY <1>1, <2>1, <2>3, <2>4
<1> HIDE DEF rank
<1>4. rank \in [U -> 0 .. n - 1]
  BY <1>3 DEF rank
<1>5. rank \in Injection(U, 0 .. n - 1)
  <2>1. ASSUME NEW k \in U, NEW m \in U, rank[k] = rank[m] PROVE k = m
    <3>1. k \in Nat /\ m \in Nat /\ rank[k] \in Int /\ rank[m] \in Int
      BY <1>1, <1>4
    <3>2. k < m => rank[k] < rank[m]
      BY <1>3
    <3>3. m < k => rank[m] < rank[k]
      BY <1>3
    <3>4. ~(rank[k] < rank[m]) /\ ~(rank[m] < rank[k])
      BY <2>1, <3>1
    <3> QED
      BY <3>1, <3>2, <3>3, <3>4
  <2> QED
    BY <1>4, <2>1, Zenon DEF Injection, IsInjective
<1>6. IsFiniteSet(0 .. n - 1) /\ Cardinality(0 .. n - 1) = n
  <2>1. \A a, b \in Int : IsFiniteSet(a .. b) /\ Cardinality(a .. b) = IF a > b THEN 0 ELSE b - a + 1
    BY FS_Interval
  <2>2. 0 \in Int /\ n - 1 \in Int
    BY <1>1
  <2>3. /\ IsFiniteSet(0 .. n - 1)
        /\ Cardinality(0 .. n - 1) = IF 0 > n - 1 THEN 0 ELSE n - 1 - 0 + 1
    BY <2>1, <2>2, Zenon
  <2>4. (IF 0 > n - 1 THEN 0 ELSE n - 1 - 0 + 1) = n
    BY <1>1
  <2> QED
    BY <2>3, <2>4
<1>7. rank \in Surjection(U, 0 .. n - 1)
  BY <1>1, <1>5, <1>6, FS_Injection
<1>8. ASSUME NEW i \in 1 .. n
      PROVE  \E k \in U : Cardinality({l \in U : l < k}) = i - 1
  <2>1. i - 1 \in 0 .. n - 1
    BY <1>1
  <2>2. \E k \in U : rank[k] = i - 1
    BY <1>7, <2>1 DEF Surjection
  <2> QED
    BY <1>2, <2>2
<1> DEFINE at(i) == CHOOSE k \in U : Cardinality({l \in U : l < k}) = i - 1
<1>9. \A i \in 1 .. n : at(i) \in U
  BY <1>8
<1>10. LoadBatch(s) = [i \in 1 .. n |-> [k |-> at(i), program |-> summary[s][at(i)]]]
  BY DEF LoadBatch, n, U
<1> HIDE DEF at
<1>11. \A k \in U : k \in Indices /\ summary[s][k] \in Programs
  BY <1>1 DEF U, Usable, TypeOK
<1> DEFINE loaded(i) == [k |-> at(i), program |-> summary[s][at(i)]]
<1>12. \A i \in 1 .. n : loaded(i) \in RowType
  BY <1>9, <1>11 DEF RowType
<1>13. LoadBatch(s) = [i \in 1 .. n |-> loaded(i)]
  BY <1>10
<1> HIDE DEF loaded
<1> QED
  BY <1>1, <1>12, <1>13

(* The curve only grows.                                                   *)
LEMMA CurveGrows ==
  ASSUME CurveInv, AppendCurve
  PROVE  Len(curve) \in Nat /\ Len(curve') \in Nat /\ Len(curve) <= Len(curve')
<1>1. PICK T : curve \in Seq(T)
  BY DEF CurveInv
<1>2. curve' = curve \/ \E x : curve' = Append(curve, x)
  BY DEF AppendCurve
<1> QED
  BY <1>1, <1>2

(* The commit gives the batch before it its heir.                          *)
LEMMA PublishCommit ==
  ASSUME TypeOK, DriverInv, ChargeInv, PublishInv, CommitState, UNCHANGED driverVars
  PROVE  PublishInv'
<1> DEFINE n == Len(state.batches)
<1>1. /\ prep # None /\ prep.at = "commit" /\ pc = "preparing" /\ prep.step = step
      /\ prep.st.batches = state.batches /\ step = n + 1 /\ Len(curve) = n
      /\ DOMAIN prep = {"at", "step", "rows", "launched", "parent", "again", "st"}
  BY DEF CommitState, At, ChargeInv, PrepInv
<1>2. /\ state' = UpdatedState(prep.st, prep) /\ UNCHANGED <<replay, curve, parentFile, marker>>
      /\ prep' = [prep EXCEPT !.at = "curve", !.st = state'] /\ step' = step
  BY DEF CommitState, driverVars
<1>3. step \in 1 .. Steps /\ Steps \in Nat
  BY <1>1, StepIsOne, Sizes
<1>4. PICK b : /\ state'.batches = Append(state.batches, b)
               /\ b.trained = Len(TrainRows(prep.rows)) /\ b.parent = prep.parent
  BY <1>1, <1>2, CommitAdds
<1>5. Numbered(state.batches) /\ n \in Nat
  BY CurveSteps DEF ChargeInv, StateInv
<1> HIDE DEF n
<1>6. /\ Len(state'.batches) = n + 1 /\ state'.batches[n + 1] = b
      /\ \A i \in 1 .. n : state'.batches[i] = state.batches[i]
  <2>1. PICK T : state.batches \in Seq(T)
    BY <1>5 DEF Numbered
  <2> QED
    BY <1>4, <2>1 DEF n
<1>7. TaughtInv'
  <2>1. ASSUME NEW s \in 1 .. n + 1
        PROVE  Taught(s, state'.batches[s].trained, state'.batches[s].parent)
    <3>1. CASE s \in 1 .. n
      BY <1>6, <3>1 DEF PublishInv, TaughtInv, n
    <3>2. CASE s = n + 1
      BY <1>1, <1>4, <1>6, <3>2 DEF PublishInv, HandInv
    <3> QED
      BY <1>5, <3>1, <3>2
  <2> QED
    BY <1>2, <1>6, <2>1 DEF TaughtInv, Taught
<1>8. /\ n > 0 => parentFile[n] # None /\ state'.batches[n + 1].parent = parentFile[n]
      /\ \A s \in 1 .. Steps : parentFile[s] # None => s <= n
      /\ \A s \in 1 .. Steps : marker[s] => s <= n /\ parentFile[s] = Heir(s)
  <2>1. n > 0 => step > 1 /\ step - 1 = n /\ step # 1
    BY <1>1, <1>5
  <2>2. n > 0 => parentFile[n] # None
    BY <1>1, <2>1 DEF DriverInv, InHand
  <2>3. n > 0 => b.parent = parentFile[n]
    BY <1>1, <1>4, <2>1 DEF PublishInv, HandInv
  <2> QED
    BY <1>1, <1>6, <2>2, <2>3 DEF PublishInv, HeirInv, ChargeInv, CurveInv
<1>9. ASSUME NEW s \in 1 .. n, parentFile[s] = Heir(s) \/ s = n
      PROVE  parentFile[s] = Heir(s)'
  <2>1. s # n + 1 /\ s + 1 \in 1 .. n + 1
    BY <1>5
  <2>2. Heir(s)' = state'.batches[s + 1].parent
    BY <1>6, <2>1 DEF Heir
  <2>3. CASE s = n
    BY <1>5, <1>8, <2>2, <2>3
  <2>4. CASE s # n
    <3>1. s + 1 \in 1 .. n
      BY <1>5, <2>4
    <3>2. Heir(s) = state.batches[s + 1].parent
      BY <2>4 DEF Heir, n
    <3> QED
      BY <1>6, <1>9, <2>2, <2>4, <3>1, <3>2
  <2> QED
    BY <2>3, <2>4
<1>10. HeirInv'
  <2>1. ASSUME NEW s \in 1 .. n + 1
        PROVE  /\ parentFile[s] # None => parentFile[s] = Heir(s)'
               /\ s < n + 1 => parentFile[s] # None
    <3>1. CASE s \in 1 .. n
      <4>1. /\ parentFile[s] # None => parentFile[s] = Heir(s)
            /\ s < n => parentFile[s] # None
        BY <3>1 DEF PublishInv, HeirInv, n
      <4>2. s < n \/ s = n
        BY <1>5, <3>1
      <4> QED
        BY <1>5, <1>8, <1>9, <3>1, <4>1, <4>2
    <3>2. CASE s = n + 1
      <4>1. s \in 1 .. Steps /\ ~(s <= n) /\ ~(s < n + 1)
        BY <1>1, <1>3, <1>5, <3>2
      <4> QED
        BY <1>8, <4>1
    <3> QED
      BY <1>5, <3>1, <3>2
  <2>2. ASSUME NEW s \in 1 .. Steps, marker[s]
        PROVE  s <= n /\ parentFile[s] = Heir(s)'
    <3>1. s <= n /\ parentFile[s] = Heir(s)
      BY <1>8, <2>2
    <3>2. s \in 1 .. n
      BY <1>3, <1>5, <3>1
    <3> QED
      BY <1>9, <3>1, <3>2
  <2> QED
    BY <1>1, <1>2, <1>6, <2>1, <2>2 DEF HeirInv
<1>11. HandInv'
  <2>1. /\ prep'.at = "curve" /\ prep'.st = state' /\ prep'.rows = prep.rows
    BY <1>1, <1>2
  <2>2. prep.rows \in Seq(RowType)
    BY <1>1 DEF PublishInv, HandInv
  <2> QED
    BY <1>1, <1>2, <1>6, <2>1, <2>2 DEF HandInv
<1> QED
  BY <1>7, <1>10, <1>11 DEF PublishInv

(* The parent file is written once, before the next batch.                 *)
LEMMA PublishParent ==
  ASSUME TypeOK, DriverInv, ChargeInv, PublishInv, WriteParent, UNCHANGED driverVars
  PROVE  PublishInv'
<1> DEFINE n == Len(state.batches)
<1>1. /\ prep # None /\ prep.at = "parent" /\ pc = "preparing" /\ prep.step = step
      /\ step <= Len(curve)
      /\ DOMAIN prep = {"at", "step", "rows", "launched", "parent", "again", "st"}
  BY DEF WriteParent, At, ChargeInv, PrepInv
<1>2. /\ UNCHANGED <<state, replay, curve, marker>> /\ step' = step
      /\ parentFile' = [parentFile EXCEPT ![step] =
           IF prep.again /\ @ # None THEN @ ELSE prep.st.selected]
      /\ prep' = [prep EXCEPT !.at = "marker"]
  BY <1>1 DEF WriteParent, driverVars
<1>3. step \in 1 .. Steps /\ Steps \in Nat /\ n \in Nat /\ Len(curve) \in Nat /\ Len(curve) <= n
  BY <1>1, StepIsOne, Sizes, CurveSteps DEF ChargeInv
<1>4. step \in 1 .. n
  BY <1>1, <1>3
<1>5. /\ prep.st.selected = state.selected
      /\ ~prep.again => step = n
      /\ parentFile[step] # None => parentFile[step] = Heir(step)
      /\ step < n => parentFile[step] # None
  BY <1>1, <1>4 DEF PublishInv, HandInv, HeirInv
<1> HIDE DEF n
<1>6. /\ parentFile'[step] = Heir(step)
      /\ \A s \in 1 .. Steps : s # step => parentFile'[s] = parentFile[s]
      /\ parentFile[step] # None => parentFile'[step] = parentFile[step]
  <2>1. /\ parentFile'[step] = IF prep.again /\ parentFile[step] # None THEN parentFile[step]
                              ELSE prep.st.selected
        /\ \A s \in 1 .. Steps : s # step => parentFile'[s] = parentFile[s]
    BY <1>2, <1>3 DEF TypeOK
  <2>2. step = n => Heir(step) = state.selected
    BY DEF Heir, n
  <2>3. step < n \/ step = n
    BY <1>3, <1>4
  <2> QED
    BY <1>5, <2>1, <2>2, <2>3
<1>7. \A s : Heir(s)' = Heir(s)
  BY <1>2 DEF Heir
<1>8. HeirInv'
  <2>1. Steps >= n
    BY DEF ChargeInv, StateInv, n
  <2>2. ASSUME NEW s \in 1 .. n
        PROVE  /\ parentFile'[s] # None => parentFile'[s] = Heir(s)
               /\ s < n => parentFile'[s] # None
    <3>1. s \in 1 .. Steps
      BY <1>3, <2>1
    <3>2. /\ parentFile[s] # None => parentFile[s] = Heir(s)
          /\ s < n => parentFile[s] # None
      BY DEF PublishInv, HeirInv, n
    <3> QED
      BY <1>6, <3>1, <3>2
  <2>3. ASSUME NEW s \in 1 .. Steps, marker[s]
        PROVE  s <= Len(curve) /\ parentFile'[s] = Heir(s)
    BY <1>6, <2>3 DEF PublishInv, HeirInv
  <2> QED
    BY <1>2, <1>7, <2>2, <2>3 DEF HeirInv, n
<1>9. TaughtInv'
  BY <1>2 DEF PublishInv, TaughtInv, Taught
<1>10. HandInv'
  <2>1. /\ prep'.at = "marker" /\ prep'.st = prep.st /\ prep'.rows = prep.rows
        /\ prep'.again = prep.again
    BY <1>1, <1>2
  <2>2. prep.rows \in Seq(RowType)
    BY <1>1 DEF PublishInv, HandInv
  <2> QED
    BY <1>2, <1>5, <1>6, <1>7, <2>1, <2>2 DEF HandInv, n
<1> QED
  BY <1>8, <1>9, <1>10 DEF PublishInv

(* A replay is written before its batch is committed.                      *)
LEMMA PublishReplay ==
  ASSUME TypeOK, DriverInv, ChargeInv, PublishInv, WriteReplay, UNCHANGED driverVars
  PROVE  PublishInv'
<1>1. /\ prep # None /\ prep.at = "replay" /\ pc = "preparing" /\ prep.step = step
      /\ step = Len(state.batches) + 1
      /\ DOMAIN prep = {"at", "step", "rows", "launched", "parent", "again", "st"}
  BY DEF WriteReplay, At, ChargeInv, PrepInv
<1>2. /\ UNCHANGED <<state, curve, parentFile, marker>> /\ step' = step
      /\ replay' = [replay EXCEPT ![step] = MakeReplay(TrainRows(prep.rows), prep.parent)]
      /\ prep' = [prep EXCEPT !.at = "commit"]
  BY <1>1 DEF WriteReplay, driverVars
<1>3. step \in 1 .. Steps /\ Len(state.batches) \in Nat
  BY <1>1, StepIsOne, CurveSteps DEF ChargeInv
<1>4. HeirInv'
  BY <1>2 DEF PublishInv, HeirInv, Heir
<1>5. \A s : s # step => replay'[s] = replay[s] \/ s \notin 1 .. Steps
  BY <1>2 DEF TypeOK
<1>6. TaughtInv'
  <2>1. ASSUME NEW s \in 1 .. Len(state.batches)
        PROVE  Taught(s, state.batches[s].trained, state.batches[s].parent)'
    <3>1. s # step /\ s \in 1 .. Steps
      BY <1>1, <1>3, Sizes
    <3>2. replay'[s] = replay[s]
      BY <1>5, <3>1
    <3>3. Taught(s, state.batches[s].trained, state.batches[s].parent)
      BY DEF PublishInv, TaughtInv
    <3> QED
      BY <1>2, <3>2, <3>3 DEF Taught
  <2> QED
    BY <1>2, <2>1 DEF TaughtInv
<1>7. Taught(step, Len(TrainRows(prep.rows)), prep.parent)'
  <2>1. prep.rows \in Seq(RowType)
    BY <1>1 DEF PublishInv, HandInv
  <2>2. TrainRows(prep.rows) \in Seq(RowType) /\ Len(TrainRows(prep.rows)) <= MaxTrain
    BY <2>1, TrainRowsAre
  <2>3. replay'[step] = MakeReplay(TrainRows(prep.rows), prep.parent)
    BY <1>2, <1>3 DEF TypeOK
  <2>4. PICK train \in Seq(RowType) : train = TrainRows(prep.rows) /\ Len(train) <= MaxTrain
    BY <2>2
  <2>5. PICK parent : parent = prep.parent
    OBVIOUS
  <2>6. LET r == MakeReplay(train, parent) IN
        /\ DOMAIN r = 1 .. Len(train) /\ Len(r) = Len(train)
        /\ \A i, j \in DOMAIN r :
             /\ r[i].parent = parent
             /\ Score[r[i].program] < Score[r[j].program] => r[i].advantage < r[j].advantage
    BY <2>4, ReplayTeaches
  <2>7. replay'[step] = MakeReplay(train, parent)
    BY <2>3, <2>4, <2>5
  <2>8. TrainRows(prep'.rows) = train /\ prep'.parent = parent
    <3>1. prep'.rows = prep.rows /\ prep'.parent = prep.parent
      BY <1>1, <1>2
    <3> QED
      BY <2>4, <2>5, <3>1
  <2> QED
    BY <1>2, <2>6, <2>7, <2>8 DEF Taught
<1>8. HandInv'
  <2>1. /\ prep'.at = "commit" /\ prep'.st = prep.st /\ prep'.rows = prep.rows
        /\ prep'.parent = prep.parent
    BY <1>1, <1>2
  <2>2. /\ prep.rows \in Seq(RowType) /\ prep.st.selected = state.selected
        /\ prep.parent = IF step = 1 THEN Root ELSE parentFile[step - 1]
    BY <1>1 DEF PublishInv, HandInv
  <2> QED
    BY <1>2, <1>7, <2>1, <2>2 DEF HandInv
<1> QED
  BY <1>4, <1>6, <1>8 DEF PublishInv

(* Every step keeps what is published whole.                               *)
LEMMA PublishStep ==
  ASSUME TypeOK, DriverInv, ChargeInv, PublishInv, [Next]_vars
  PROVE  PublishInv'
<1>1. CASE Prepare /\ UNCHANGED driverVars
  <2>1. CASE AppendCurve
    <3>1. /\ prep # None /\ prep.at = "curve" /\ step' = step
          /\ UNCHANGED <<state, replay, parentFile, marker>>
          /\ prep' = [prep EXCEPT !.at = "parent"]
          /\ DOMAIN prep = {"at", "step", "rows", "launched", "parent", "again", "st"}
      BY <1>1, <2>1 DEF AppendCurve, At, ChargeInv, PrepInv, driverVars
    <3>2. /\ prep'.at = "parent" /\ prep'.st = prep.st /\ prep'.rows = prep.rows
          /\ prep'.again = prep.again
      BY <3>1
    <3>3. TaughtInv'
      BY <3>1 DEF PublishInv, TaughtInv, Taught
    <3>4. HandInv'
      BY <3>1, <3>2 DEF PublishInv, HandInv
    <3>5. HeirInv'
      <4>1. Len(curve) \in Nat /\ Len(curve') \in Nat /\ Len(curve) <= Len(curve')
        BY <2>1, CurveGrows DEF ChargeInv
      <4>2. \A s \in 1 .. Steps : s <= Len(curve) => s <= Len(curve')
        BY <4>1, Sizes
      <4> QED
        BY <3>1, <4>2 DEF PublishInv, HeirInv, Heir
    <3> QED
      BY <3>3, <3>4, <3>5 DEF PublishInv
  <2>2. CASE WriteMarker
    <3>1. /\ prep # None /\ prep.at = "marker" /\ prep.step = step /\ step <= Len(curve)
          /\ prep' = None /\ marker' = [marker EXCEPT ![step] = TRUE]
          /\ UNCHANGED <<state, replay, curve, parentFile>> /\ pc = "preparing"
      BY <2>2 DEF WriteMarker, At, ChargeInv, PrepInv
    <3>2. parentFile[step] = Heir(step)
      BY <3>1 DEF PublishInv, HandInv
    <3>3. \A s \in 1 .. Steps : marker'[s] => marker[s] \/ s = step
      BY <3>1 DEF TypeOK
    <3>4. HeirInv'
      BY <3>1, <3>2, <3>3 DEF PublishInv, HeirInv, Heir
    <3>5. TaughtInv' /\ HandInv'
      BY <3>1 DEF PublishInv, TaughtInv, Taught, HandInv
    <3> QED
      BY <3>4, <3>5 DEF PublishInv
  <2> QED
    BY <1>1, <2>1, <2>2, PublishReplay, PublishCommit, PublishParent DEF Prepare
<1>2. CASE UNCHANGED <<state, replay, curve, parentFile, marker>> /\ Started
  <2>1. TaughtInv' /\ HeirInv'
    BY <1>2 DEF PublishInv, TaughtInv, Taught, HeirInv, Heir
  <2>2. LoadBatch(step) \in Seq(RowType)
    BY <1>2, StepIsOne, BatchRowsAre DEF Started
  <2>3. /\ prep'.rows = LoadBatch(step) /\ prep'.st.selected = state.selected
        /\ prep'.parent = IF step = 1 THEN Root ELSE parentFile[step - 1]
        /\ prep'.at \in {"failed", "curve", "replay"}
        /\ prep'.at = "curve" => prep'.again
    <3> DEFINE st == [state EXCEPT !.archive = Migrated(@)]
               again == Batch(st, step) # {}
    <3>1. PICK where \in {"failed", "curve", "replay"} :
            /\ prep' = [at |-> where, step |-> step, rows |-> LoadBatch(step),
                        launched |-> manifest[step],
                        parent |-> IF step = 1 THEN Root ELSE parentFile[step - 1],
                        again |-> again, st |-> st]
            /\ where = "curve" => again
      BY <1>2 DEF Started, StartPrepare
    <3>2. st.selected = state.selected
      OBVIOUS
    <3> HIDE DEF st, again
    <3> QED
      BY <3>1, <3>2
  <2>4. HandInv'
    BY <1>2, <2>2, <2>3 DEF Started, HandInv
  <2> QED
    BY <2>1, <2>4 DEF PublishInv
<1>3. CASE /\ UNCHANGED <<state, replay, curve, parentFile, marker>>
           /\ prep' = None \/ (prep' = prep /\ (prep # None => UNCHANGED <<pc, step>>))
  <2>1. TaughtInv' /\ HeirInv'
    BY <1>3 DEF PublishInv, TaughtInv, Taught, HeirInv, Heir
  <2>2. HandInv'
    BY <1>3 DEF PublishInv, HandInv, Taught, Heir
  <2> QED
    BY <2>1, <2>2 DEF PublishInv
<1>4. PrepStep
  BY PrepSteps DEF ChargeInv
<1> QED
  BY <1>1, <1>2, <1>3, <1>4 DEF PrepStep

(* It is an invariant.                                                     *)
LEMMA PublishInvariant == Spec => []PublishInv
<1>1. ExecutorInit => PublishInv
  BY Sizes DEF ExecutorInit, DiscoverInit, FirstState, PublishInv, TaughtInv, HeirInv, HandInv
<1>2. ASSUME ExecutorInv, PublishInv, [Next]_vars PROVE PublishInv'
  BY <1>2, PublishStep DEF ExecutorInv
<1> QED
  BY <1>1, <1>2, ExecutorInvariant, PTL DEF Spec

(* A published step is whole, wherever the command was killed and however  *)
(* often it was run again: its row is on the curve, its parent file names  *)
(* what the next batch grew from or is to grow from, and its replay is of  *)
(* the rows its batch was credited with.                                   *)
THEOREM PublishedStepsAreWhole == Spec => []PublishedAgree
<1>1. ASSUME ExecutorInv, PublishInv PROVE PublishedAgree
  <2>1. /\ Numbered(state.batches) /\ Len(state.batches) \in Nat
        /\ Len(curve) \in Nat /\ DOMAIN curve = 1 .. Len(curve) /\ Len(curve) <= Len(state.batches)
        /\ \A i \in 1 .. Len(curve) : curve[i].step = i
    BY <1>1, CurveSteps DEF ExecutorInv, ChargeInv, StateInv
  <2>2. ASSUME NEW s \in 1 .. Steps, marker[s]
        PROVE  \E b \in Batch(state, s) :
                 /\ \E i \in DOMAIN curve : curve[i].step = s
                 /\ Batch(state, s + 1) = {} => parentFile[s] = state.selected
                 /\ \A m \in Batch(state, s + 1) : m.parent = parentFile[s]
                 /\ b.trained = Len(replay[s])
                 /\ \A i, j \in DOMAIN replay[s] :
                      /\ replay[s][i].parent = b.parent
                      /\ Score[replay[s][i].program] < Score[replay[s][j].program]
                           => replay[s][i].advantage < replay[s][j].advantage
    <3>1. s <= Len(curve) /\ parentFile[s] = Heir(s)
      BY <1>1, <2>2 DEF PublishInv, HeirInv
    <3>2. s \in 1 .. Len(curve) /\ s \in 1 .. Len(state.batches) /\ s \in Nat \ {0}
          /\ s + 1 \in Nat \ {0}
      BY <2>1, <3>1, Sizes
    <3>3. Batch(state, s) = {state.batches[s]}
      BY <2>1, <3>2, BatchOf
    <3>4. Taught(s, state.batches[s].trained, state.batches[s].parent)
      BY <1>1, <3>2 DEF PublishInv, TaughtInv
    <3>5. CASE s = Len(state.batches)
      <4>1. Batch(state, s + 1) = {}
        <5>1. ~(s + 1 <= Len(state.batches))
          BY <2>1, <3>5
        <5> QED
          BY <2>1, <3>2, <5>1, BatchOf
      <4>2. parentFile[s] = state.selected
        BY <3>1, <3>5 DEF Heir
      <4> QED
        BY <2>1, <3>2, <3>3, <3>4, <4>1, <4>2 DEF Taught
    <3>6. CASE s # Len(state.batches)
      <4>1. s + 1 <= Len(state.batches)
        BY <2>1, <3>2, <3>6
      <4>2. Batch(state, s + 1) = {state.batches[s + 1]}
        BY <2>1, <3>2, <4>1, BatchOf
      <4>3. state.batches[s + 1].parent = parentFile[s]
        BY <3>1, <3>6 DEF Heir
      <4> QED
        BY <2>1, <3>2, <3>3, <3>4, <4>2, <4>3 DEF Taught
    <3> QED
      BY <3>5, <3>6
  <2> QED
    BY <2>2 DEF PublishedAgree
<1> QED
  BY <1>1, ExecutorInvariant, PublishInvariant, PTL

===============================================================================
