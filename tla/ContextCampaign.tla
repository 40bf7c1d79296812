---------------------------- MODULE ContextCampaign ----------------------------
(***************************************************************************)
(* The context-only campaign (scripts/context_ablation.sh): the rounds of  *)
(* Campaign without training, where what changes from round to round is    *)
(* what the proposer reads.  A collect writes task_feedback.json twice, in *)
(* place: the digest of the rollouts before the ratchets judge, and again  *)
(* with their verdict.  The driver copies the committed file to its        *)
(* workspace, strips the curator's note, and the next propose reads it,    *)
(* has it analysed and, since a brief is required, fails without one.      *)
(*                                                                         *)
(* The driver runs once in a fresh namespace (the reward-route controller  *)
(* refuses an old one), its copies succeed, and the task texts match their *)
(* registry.  A committed round leaves best_programs.json behind, so the   *)
(* checks for a missing one never fail.                                    *)
(***************************************************************************)
EXTENDS Campaign, Sequences

CONSTANTS
  RowCap, FindingCap, OtherCap,   \* the caps of ProposerText
  Replies,   \* what a specialist may answer: None, or three lists of lines
  SeedScore  \* the score of the task's initial program in the first bases file

ASSUME ContextAssumption ==
  /\ RowCap \in Nat \ {0} /\ FindingCap \in Nat \ {0} /\ OtherCap \in Nat \ {0}
  /\ SeedScore \in Nat /\ BaseScore >= SeedScore

INSTANCE ProposerText

(* The task's entry of a feedback file.                                    *)
Feedback ==
  [round : Rounds, base : Nat, best : Scores \cup {None}, stuck : Nat,
   rows : [1 .. Cardinality(Slots) -> [k : Slots, score : Scores \cup {None}]],
   note : Lines \cup {None}, accepted : {"unset", "yes", "no"}, outgoing : Nat]

(* Slots are numbered in the order the digest lists them.                  *)
ASSUME FeedbackAssumption ==
  /\ Cardinality(Slots) \in Nat /\ Slots = 1 .. Cardinality(Slots)
  /\ None \notin Feedback /\ Torn \notin Feedback /\ None \notin Nat

VARIABLES
  feedback,  \* $OUT/task_feedback.json: None, Torn, or the task's entry
  context,   \* $WS/task_feedback.json
  digest,    \* per collect: what it has yet to write of the feedback
  message    \* history: what the proposer of each round was told

contextVars == <<feedback, context, digest, message>>
allVars == <<vars, contextVars>>

NoDigest == [at |-> "none", entry |-> None]

ContextInit ==
  /\ Init
  /\ feedback = None /\ context = None
  /\ digest = [a \in Actors |-> NoDigest]
  /\ message = [r \in Rounds |-> None]

-------------------------------------------------------------------------------
(* The job's propose.  An unreadable or missing file leaves no feedback,   *)
(* and without feedback nothing is analysed or required.                   *)

Known == context \notin {None, Torn}

Seed ==
  IF workspace.program = None THEN [program |-> None, score |-> SeedScore] ELSE workspace

Told == IF Known THEN RenderFeedback(context) ELSE None

(* Variant for mutation: a failed analysis is skipped.                     *)
Briefs_Optional ==
  IF ~Known THEN {None}
  ELSE {Brief(context, perf, design) : perf \in Replies, design \in Replies}

(* The briefs a propose can go on with.                                    *)
Briefs ==
  IF ~Known THEN {None}
  ELSE {Brief(context, perf, design) : perf \in Replies, design \in Replies} \ {None}

ContextPropose ==
  /\ Propose
  /\ \E brief \in Briefs :
       message' = [message EXCEPT ![step] = UserMessage(Seed, bases, Told, brief)]
  /\ UNCHANGED <<feedback, context, digest>>

(* The required brief is missing: the job ends before its round.json.      *)
ProposeRaises ==
  /\ worker = "proposing" /\ Known
  /\ \E perf, design \in Replies : Brief(context, perf, design) = None
  /\ worker' = "dead"
  /\ UNCHANGED <<driverVars, input, rows, failed, refused, collector, fileVars,
                 contextVars>>

ContextKilled ==
  /\ JobKilled
  /\ digest' = [digest EXCEPT !["worker"] = NoDigest]
  /\ UNCHANGED <<feedback, context, message>>

-------------------------------------------------------------------------------
(* The collect of the job or of the driver.                                *)

Row(k) == [k |-> k, score |-> IF rows[k] = None THEN None ELSE rows[k].score]

BestScore ==
  IF Scored = {} THEN None ELSE rows[CHOOSE k \in Slots : IsBest(k)].score

StuckRows == Cardinality({k \in Scored : rows[k].score = input.base.score})

(* The curator's note survives a collect, through the guard; an unreadable *)
(* file has none.                                                          *)
PriorNote == IF feedback \in {None, Torn} THEN None ELSE SanitizedNote(feedback.note)

Digest ==
  [round |-> step, base |-> input.base.score, best |-> BestScore, stuck |-> StuckRows,
   rows |-> [i \in 1 .. Cardinality(Slots) |-> Row(i)], note |-> PriorNote,
   accepted |-> "unset", outgoing |-> input.base.score]

(* Write_text truncates the file first.                                    *)
BeginDigest(a) ==
  /\ At(a, "idle") /\ digest[a] = NoDigest
  /\ digest' = [digest EXCEPT ![a] = [at |-> "digesting", entry |-> Digest]]
  /\ feedback' = Torn
  /\ UNCHANGED <<vars, context, message>>

WriteDigest(a) ==
  /\ digest[a].at = "digesting" /\ Runs(a)
  /\ feedback' = digest[a].entry
  /\ digest' = [digest EXCEPT ![a].at = "digested"]
  /\ UNCHANGED <<vars, context, message>>

(* The ratchets' verdict; a registry that cannot be read ends the collect. *)
ContextJudge(a) ==
  /\ digest[a].at = "digested"
  /\ Judge(a)
  /\ digest' = IF Readable.known THEN digest ELSE [digest EXCEPT ![a] = NoDigest]
  /\ UNCHANGED <<feedback, context, message>>

(* Variant for mutation: a raw improvement counts as accepted.             *)
Settled_Raw(a) ==
  [digest[a].entry EXCEPT !.accepted = IF collector[a].improved THEN "yes" ELSE "no",
                          !.outgoing = collector[a].next.score]

Settled(a) ==
  [digest[a].entry EXCEPT
     !.accepted = IF collector[a].next.package \in {step} \X Slots THEN "yes" ELSE "no",
     !.outgoing = collector[a].next.score]

BeginSettle(a) ==
  /\ At(a, "recorded") /\ digest[a].at = "digested"
  /\ digest' = [digest EXCEPT ![a] = [at |-> "settling", entry |-> Settled(a)]]
  /\ feedback' = Torn
  /\ UNCHANGED <<vars, context, message>>

WriteSettled(a) ==
  /\ digest[a].at = "settling" /\ Runs(a)
  /\ feedback' = digest[a].entry
  /\ digest' = [digest EXCEPT ![a].at = "settled"]
  /\ UNCHANGED <<vars, context, message>>

ContextCommit(a) ==
  \/ /\ OpenRegistry(a) \/ WriteRegistry(a) \/ WriteNextBases(a)
     /\ UNCHANGED contextVars
  \/ /\ WriteBatch(a) /\ digest[a].at = "settled"
     /\ UNCHANGED contextVars
  \/ /\ WriteSummary(a)
     /\ digest' = [digest EXCEPT ![a] = NoDigest]
     /\ UNCHANGED <<feedback, context, message>>

-------------------------------------------------------------------------------
(* The driver, and a curator who may add a note whenever there is a file.  *)

(* Unlike the training driver it collects until there is a summary.        *)
ContextWaitJob ==
  /\ driver = "waiting" /\ JobOver
  /\ driver' = IF input # None /\ summary[step] = "absent" THEN "collecting"
               ELSE "checking"
  /\ UNCHANGED <<step, bases, workspace, stall, phi, workerVars, collector, fileVars,
                 contextVars>>

(* The base never falls below the one it follows.                          *)
Rechecked == IF next_bases[step].score < bases.score THEN bases ELSE next_bases[step]

Stripped(entry) ==
  IF entry \in {None, Torn} THEN entry ELSE [entry EXCEPT !.note = None]

ContextInherit ==
  /\ driver = "checking" /\ summary[step] # "absent"
  /\ next_bases' = [next_bases EXCEPT ![step] = Rechecked]
  /\ bases' = Rechecked /\ workspace' = registry
  /\ context' = Stripped(feedback)
  /\ driver' = "training"
  /\ UNCHANGED <<step, stall, phi, workerVars, collector, registry, batch, summary,
                 feedback, digest, message>>

Curate ==
  /\ feedback \notin {None, Torn} /\ feedback.note = None
  /\ \E note \in Lines : feedback' = [feedback EXCEPT !.note = note]
  /\ UNCHANGED <<vars, context, digest, message>>

ContextNext ==
  \/ ContextPropose \/ ProposeRaises \/ ContextKilled
  \/ /\ \/ \E k \in Slots, out \in Outcome : RolloutEnds(k, out)
        \/ \E k \in Slots : RolloutFails(k)
        \/ RolloutsFinish
        \/ Submit \/ EndCampaign \/ NoSummary \/ SkipTraining
     /\ UNCHANGED contextVars
  \/ \E a \in Actors :
       \/ BeginDigest(a) \/ WriteDigest(a) \/ ContextJudge(a)
       \/ BeginSettle(a) \/ WriteSettled(a) \/ ContextCommit(a)
  \/ ContextWaitJob \/ ContextInherit
  \/ Curate

ContextSpec == ContextInit /\ [][ContextNext]_allVars

(***************************************************************************)
(* Properties.                                                             *)
(***************************************************************************)

(* The canonical context arm "fails closed after the cold round": whatever *)
(* was killed, collected twice or unreadable before, every later proposer  *)
(* is given a brief, and of the round before its own.                      *)
RequiredBriefIsThere ==
  \A r \in Rounds : r > 1 /\ message[r] # None =>
    message[r].brief # None /\ message[r].brief.dossier.round = r - 1

(* "The next context sees the accepted state, not merely a noisy/raw       *)
(* candidate maximum": a gain is told as reached only if the base the      *)
(* proposer is shown is the candidate that reached it, and an incumbent    *)
(* that is said to remain is the base it is shown.                         *)
HeadlineIsTrue ==
  \A r \in Rounds : message[r] # None /\ message[r].told # None =>
    LET told == message[r].told  head == told.headline  base == message[r].base IN
    /\ head.says = "reached" /\ head.to > head.from =>
         base.package \in {told.round} \X Slots /\ base.score = head.to
    /\ head.says = "refused" =>
         base.package \notin {told.round} \X Slots /\ base.score = head.from
===============================================================================
