----------------------------- MODULE ProposeSlot ------------------------------
(***************************************************************************)
(* One proposal slot: the trained proposer (phi) edits, validates and      *)
(* submits a private draft harness; a slot it fails may be taken over by   *)
(* the frozen model on the same draft, or finished for it                  *)
(* (src/outer/proposing/propose.py, src/outer/workspace/propose_session.py)*)
(*                                                                         *)
(* Each session has its own bridge, so its calls exclude one another but   *)
(* not those of the other session: phi's handler threads outlive a turn    *)
(* that failed.  A draft is one of Contents with the sessions that edited  *)
(* it; what validation and the submission guards say of it is given by     *)
(* three sets.  Which file an edit touches is abstracted: the read-before- *)
(* edit and prompt-cap refusals only narrow what an edit can reach.        *)
(***************************************************************************)
EXTENDS Missing

CONSTANTS
  Contents,      \* harness packages a draft can hold
  InitialDraft,  \* the materialized base, with its scaffold
  Valid,         \* pass validate_workspace and the slot's contract
  Barred,        \* refused by a slot guard (parameters, component, starter)
  Repeats,       \* contain a component signature known to be futile
  Calls          \* tool calls of the slot: a bound

ASSUME ContentsAssumption ==
  /\ InitialDraft \in Contents
  /\ Valid \subseteq Contents
  /\ Barred \subseteq Valid
  /\ Repeats \subseteq Valid

ASSUME CallsAssumption == Calls \subseteq Nat

Sessions == {"phi", "repair"}
RefusalLimit == 2

VARIABLES
  draft,       \* the files, and who has edited them
  session,     \* the two ProposeSessions
  preload,     \* SAH_H1_PRELOAD: the workspace is part of the first message
  call,        \* where each tool call is
  owner,       \* the session whose bridge serves it
  concluded,   \* sessions whose turn a submit_harness has concluded
  err,         \* sessions whose run_cordis reported an error
  phase,       \* where run_once is
  attempted,   \* repair_info.attempted
  auto,        \* auto_finalized
  record,      \* the CandidateRecord, or NoRecord
  passed       \* history: drafts each session's validation accepted

vars == <<draft, session, preload, call, owner, concluded, err, phase,
          attempted, auto, record, passed>>

Draft == [content : Contents, by : SUBSET Sessions]

Session == [inspected : BOOLEAN, submitted : BOOLEAN, errors : BOOLEAN,
            revision : Nat, validated_revision : Nat \cup {None},
            check : Draft \cup {None}, effective : Draft \cup {None},
            refusals : 0..RefusalLimit, flagged : BOOLEAN]

NewSession(preloaded) ==
  [inspected |-> preloaded, submitted |-> FALSE, errors |-> FALSE,
   revision |-> 0, validated_revision |-> None, check |-> None,
   effective |-> None, refusals |-> 0, flagged |-> FALSE]

NoRecord == [valid |-> FALSE, effective |-> None, from |-> None]

CallStates == {"unsent", "queued", "submitting", "served"}
Phases == {"phi", "judging", "repair", "repaired", "finalizing", "finalized",
           "done"}

Init ==
  /\ draft = [content |-> InitialDraft, by |-> {}]
  /\ preload \in BOOLEAN
  /\ session = [s \in Sessions |-> NewSession(preload)]
  /\ call = [c \in Calls |-> "unsent"]
  /\ owner = [c \in Calls |-> "phi"]
  /\ concluded = {}
  /\ err = {}
  /\ phase = "phi"
  /\ attempted = FALSE
  /\ auto = FALSE
  /\ record = NoRecord
  /\ passed = [s \in Sessions |-> {}]

-----------------------------------------------------------------------------
(* ProposeSession operations.                                              *)

Fresh(s) == session[s].validated_revision = session[s].revision

(* The test run_once applies to a session, three times over.               *)
Accepted(s) ==
  /\ session[s].submitted
  /\ session[s].effective # None
  /\ ~session[s].errors

(* A recorded mutation invalidates what was validated before.              *)
Mutated(rec) == [rec EXCEPT !.revision = @ + 1, !.validated_revision = None,
                            !.check = None]

ValidateHarness(s) ==
  IF session[s].inspected /\ draft.content \in Valid
    THEN /\ session' = [session EXCEPT
              ![s].validated_revision = session[s].revision, ![s].check = draft]
         /\ passed' = [passed EXCEPT ![s] = @ \cup {draft}]
    ELSE UNCHANGED <<session, passed>>

(* What submit_harness decides, once it has set submitted and cleared      *)
(* errors: a draft changed since its validation is an error; a guard or a  *)
(* futile repeat is refused while refusals last, from one shared count;    *)
(* anything else is accepted as the object validation produced.            *)
Stale(s) == ~Fresh(s) \/ session[s].check = None

(* Variant for mutation: refusals never run out.                           *)
Refusable_Unlimited(s) == session[s].check.content \in Barred \cup Repeats

Refusable(s) ==
  /\ session[s].check.content \in Barred \cup Repeats
  /\ session[s].refusals < RefusalLimit

(* Variant for mutation: the draft is read again, not the validated object.*)
Decided_Rereads(s) ==
  LET rec == session[s] IN
  IF Stale(s) THEN [rec EXCEPT !.submitted = TRUE, !.errors = TRUE]
  ELSE IF Refusable(s)
    THEN [rec EXCEPT !.submitted = FALSE, !.errors = FALSE, !.refusals = @ + 1]
  ELSE [rec EXCEPT !.submitted = TRUE, !.errors = FALSE, !.effective = draft,
                   !.flagged = @ \/ draft.content \in Repeats]

Decided(s) ==
  LET rec == session[s] IN
  IF Stale(s) THEN [rec EXCEPT !.submitted = TRUE, !.errors = TRUE]
  ELSE IF Refusable(s)
    THEN [rec EXCEPT !.submitted = FALSE, !.errors = FALSE, !.refusals = @ + 1]
  ELSE [rec EXCEPT !.submitted = TRUE, !.errors = FALSE, !.effective = rec.check,
                   !.flagged = @ \/ rec.check.content \in Repeats]

-----------------------------------------------------------------------------
(* The Cordis process of session s, and its bridge.                        *)

Send(s, c) ==
  /\ phase = s
  /\ s \notin concluded
  /\ call[c] = "unsent"
  /\ \A d \in Calls : d < c => call[d] # "unsent"
  /\ call' = [call EXCEPT ![c] = "queued"]
  /\ owner' = [owner EXCEPT ![c] = s]
  /\ UNCHANGED <<draft, session, preload, concluded, err, phase, attempted,
                 auto, record, passed>>

(* The dispatch lock of a bridge: one call of the session at a time, and   *)
(* only a submission takes two steps.                                      *)
Serve(s, c) ==
  /\ phase # "done"
  /\ call[c] = "queued"
  /\ owner[c] = s
  /\ \A d \in Calls : owner[d] = s => call[d] # "submitting"

Settle(c) == call' = [call EXCEPT ![c] = "served"]

HarnessShell(s, c) ==
  /\ Serve(s, c)
  /\ \E reads_cordis_yml \in BOOLEAN :
       session' = [session EXCEPT ![s].inspected = @ \/ reads_cordis_yml]
  /\ Settle(c)
  /\ UNCHANGED <<draft, preload, owner, concluded, err, phase, attempted, auto,
                 record, passed>>

(* write, edit and delete; a refused or failed one changes nothing, which  *)
(* HarnessShell with FALSE covers.                                         *)
EditHarnessFile(s, c, x) ==
  /\ Serve(s, c)
  /\ session[s].inspected
  /\ draft' = [content |-> x, by |-> draft.by \cup {s}]
  /\ session' = [session EXCEPT ![s] = Mutated(@)]
  /\ Settle(c)
  /\ UNCHANGED <<preload, owner, concluded, err, phase, attempted, auto,
                 record, passed>>

Validate(s, c) ==
  /\ Serve(s, c)
  /\ ValidateHarness(s)
  /\ Settle(c)
  /\ UNCHANGED <<draft, preload, owner, concluded, err, phase, attempted, auto,
                 record>>

(* submit_harness first claims the submission and clears the old errors;   *)
(* run_once may look at a session in that instant.                         *)
SubmitOpens(s, c) ==
  /\ Serve(s, c)
  /\ session' = [session EXCEPT ![s].submitted = TRUE, ![s].errors = FALSE]
  /\ call' = [call EXCEPT ![c] = "submitting"]
  /\ UNCHANGED <<draft, preload, owner, concluded, err, phase, attempted, auto,
                 record, passed>>

(* The plugin concludes the turn whatever the answer says.                 *)
SubmitDecides(s, c) ==
  /\ phase # "done"
  /\ call[c] = "submitting"
  /\ owner[c] = s
  /\ session' = [session EXCEPT ![s] = Decided(s)]
  /\ concluded' = concluded \cup {s}
  /\ Settle(c)
  /\ UNCHANGED <<draft, preload, owner, err, phase, attempted, auto, record,
                 passed>>

InFlight(s) == {c \in Calls : owner[c] = s /\ call[c] \in {"queued", "submitting"}}

AfterTurn(s) == IF s = "phi" THEN "judging" ELSE "repaired"

TurnCompletes(s) ==
  /\ phase = s
  /\ InFlight(s) = {}
  /\ phase' = AfterTurn(s)
  /\ UNCHANGED <<draft, session, preload, call, owner, concluded, err,
                 attempted, auto, record, passed>>

(* Variant for mutation: run_cordis waits for the calls it has taken in.   *)
TurnFails_Joins(s) ==
  /\ phase = s
  /\ InFlight(s) = {}
  /\ err' = err \cup {s}
  /\ phase' = AfterTurn(s)
  /\ UNCHANGED <<draft, session, preload, call, owner, concluded, attempted,
                 auto, record, passed>>

(* Timeout, crash, rejected step: an error, and calls in flight go on.     *)
TurnFails(s) ==
  /\ phase = s
  /\ err' = err \cup {s}
  /\ phase' = AfterTurn(s)
  /\ UNCHANGED <<draft, session, preload, call, owner, concluded, attempted,
                 auto, record, passed>>

-----------------------------------------------------------------------------
(* run_once after phi's turn.                                              *)

StartRepair ==
  /\ phase = "judging"
  /\ ~Accepted("phi")
  /\ attempted' = TRUE
  /\ phase' = "repair"
  /\ UNCHANGED <<draft, session, preload, call, owner, concluded, err, auto,
                 record, passed>>

(* phi's draft was accepted, or no repair endpoint is configured.          *)
SkipRepair ==
  /\ phase = "judging"
  /\ phase' = "finalizing"
  /\ UNCHANGED <<draft, session, preload, call, owner, concluded, err,
                 attempted, auto, record, passed>>

(* A repair that was accepted takes the slot over.                         *)
JudgeRepair ==
  /\ phase = "repaired"
  /\ record' = [record EXCEPT !.from = IF Accepted("repair") THEN "repair" ELSE None]
  /\ phase' = "finalizing"
  /\ UNCHANGED <<draft, session, preload, call, owner, concluded, err,
                 attempted, auto, passed>>

(* Variant for mutation: a failed repair does not keep auto-finalize away. *)
MayFinalize_AfterRepair ==
  "phi" \notin err /\ record.from # "repair" /\ ~session["phi"].submitted

MayFinalize == "phi" \notin err /\ ~attempted /\ ~session["phi"].submitted

(* maybe_auto_finalize, first half: validate what is stale; a generated    *)
(* tool that failed may be dropped from the draft, once, and the rest      *)
(* validated again (_salvage_once counts a revision of its own).           *)
FinalizeValidates ==
  /\ phase = "finalizing"
  /\ MayFinalize
  /\ ~Fresh("phi")
  /\ \/ UNCHANGED draft /\ ValidateHarness("phi")
     \/ /\ draft.content \notin Valid
        /\ session["phi"].inspected
        /\ \E x \in Contents :
             /\ draft' = [draft EXCEPT !.content = x]
             /\ LET rev == session["phi"].revision + 1 IN
                IF x \in Valid
                  THEN /\ session' = [session EXCEPT !["phi"].revision = rev,
                            !["phi"].validated_revision = rev, !["phi"].check = draft']
                       /\ passed' = [passed EXCEPT !["phi"] = @ \cup {draft'}]
                  ELSE /\ session' = [session EXCEPT !["phi"].revision = rev]
                       /\ UNCHANGED passed
  /\ phase' = IF session'["phi"].validated_revision = session'["phi"].revision
                THEN "finalizing" ELSE "finalized"
  /\ UNCHANGED <<preload, call, owner, concluded, err, attempted, auto, record>>

(* Second half: the ordinary submission, every guard live.                 *)
FinalizeSubmits ==
  /\ phase = "finalizing"
  /\ MayFinalize
  /\ Fresh("phi")
  /\ session' = [session EXCEPT !["phi"] = Decided("phi")]
  /\ auto' = ~(Stale("phi") \/ Refusable("phi"))
  /\ phase' = "finalized"
  /\ UNCHANGED <<draft, preload, call, owner, concluded, err, attempted, record,
                 passed>>

SkipFinalize ==
  /\ phase = "finalizing"
  /\ ~MayFinalize
  /\ phase' = "finalized"
  /\ UNCHANGED <<draft, session, preload, call, owner, concluded, err,
                 attempted, auto, record, passed>>

(* The record is built from the session that ended up with the slot.       *)
BuildRecord ==
  /\ phase = "finalized"
  /\ LET s == IF record.from = "repair" THEN "repair" ELSE "phi" IN
       record' = [valid |-> Accepted(s), effective |-> session[s].effective,
                  from |-> s]
  /\ phase' = "done"
  /\ UNCHANGED <<draft, session, preload, call, owner, concluded, err,
                 attempted, auto, passed>>

-----------------------------------------------------------------------------
Handler(s, c) ==
  \/ HarnessShell(s, c)
  \/ \E x \in Contents : EditHarnessFile(s, c, x)
  \/ Validate(s, c)
  \/ SubmitOpens(s, c)
  \/ SubmitDecides(s, c)

RunOnce ==
  \/ \E s \in Sessions : TurnFails(s)
  \/ StartRepair
  \/ SkipRepair
  \/ JudgeRepair
  \/ FinalizeValidates
  \/ FinalizeSubmits
  \/ SkipFinalize
  \/ BuildRecord

Next ==
  \/ \E s \in Sessions, c \in Calls : Send(s, c) \/ Handler(s, c)
  \/ \E s \in Sessions : TurnCompletes(s)
  \/ RunOnce

Spec == Init /\ [][Next]_vars
FairSpec == Spec /\ WF_vars(RunOnce)

-----------------------------------------------------------------------------
TypeOK ==
  /\ draft \in Draft
  /\ session \in [Sessions -> Session]
  /\ preload \in BOOLEAN
  /\ call \in [Calls -> CallStates]
  /\ owner \in [Calls -> Sessions]
  /\ concluded \in SUBSET Sessions
  /\ err \in SUBSET Sessions
  /\ phase \in Phases
  /\ attempted \in BOOLEAN
  /\ auto \in BOOLEAN
  /\ record \in [valid : BOOLEAN, effective : Draft \cup {None},
                 from : Sessions \cup {None}]
  /\ passed \in [Sessions -> SUBSET Draft]

(***************************************************************************)
(* Properties.                                                             *)
(***************************************************************************)

(* A slot that counts carries exactly an object its own session validated, *)
(* although the draft may have moved on, or be moved by a call of the      *)
(* other session between its validation and its submission                 *)
(* (submit_harness: "Reuse the exact validated object").                   *)
ValidRecordWasValidated ==
  record.valid => record.effective \in passed[record.from]

(* phi is credited only for drafts the frozen model never edited, whenever *)
(* its own turn ended without an error (run_once, CREDIT-002).             *)
CreditFollowsAuthor ==
  record.valid /\ record.from = "phi" /\ "phi" \notin err =>
    "repair" \notin record.effective.by

(* A repeat of a futile component gets through only after the session has  *)
(* been refused as often as it can be, and carries the flag (NOVELTY-001). *)
RepeatsAreFlagged ==
  record.valid /\ record.effective.content \in Repeats =>
    /\ session[record.from].flagged
    /\ session[record.from].refusals = RefusalLimit

(* Neither a hanging call nor a refusal keeps a slot from ending.          *)
SlotEnds == <>(phase = "done")

(* CREDIT-002 as its comment states it, for every way phi's turn can end:  *)
(* the frozen model's files are never submitted under phi's identity.  The *)
(* code breaks it: calls of a turn that timed out are still served while   *)
(* the repair session edits the draft they validate.                       *)
FrozenWorkNeverCredited ==
  record.valid /\ record.from = "phi" => "repair" \notin record.effective.by

(* What a refusal tells the proposer: edit, validate, submit again; so a   *)
(* submission that concludes the turn was not refused.  The code breaks    *)
(* it: the plugin concludes the turn on any answer.                        *)
RefusalLeavesTurnOpen == \A s \in concluded : session[s].submitted
=============================================================================
