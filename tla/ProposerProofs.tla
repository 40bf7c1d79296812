---------------------------- MODULE ProposerProofs ----------------------------
(***************************************************************************)
(* Theorems about the proposer: reading before editing and the mandate of  *)
(* a session (DraftFiles), for any plugins, parent, slots, futile          *)
(* signatures and number of edits; and what a slot with its two sessions   *)
(* records (ProposeSlot), for every set of packages, whatever validation   *)
(* and the guards say of them, and any number of calls.                    *)
(***************************************************************************)
EXTENDS DraftFiles, ProposeSlot, TLAPS

-------------------------------------------------------------------------------
(***************************************************************************)
(* PART I.  One session and the files of its draft.                        *)
(***************************************************************************)

(* The inductive invariant.                                                *)

(* A file that is there and counts as read was read whole, or the first    *)
(* message could not hold it.                                              *)
ReadInv ==
  \A p \in inspected : p \in Files => p \in known \/ (slot.preload /\ p \in Overlong)

(* What is checked at the present revision is what the files declare.      *)
CheckInv ==
  validated_revision = revision /\ check # None =>
    /\ composition.mounts \subseteq Plugins /\ ContractKept(composition)
    /\ check = [changes |-> Changes(composition, body), body |-> body]

(* What a slot was given to measure, of a draft with these changes.        *)
KeepsMandate(changes, text) ==
  /\ slot.kind \in {"tool", "skill", "middleware"} =>
       /\ changes \subseteq OfKind(slot.kind, changes) \cup {<<"system_prompt">>}
       /\ \E ch \in OfKind(slot.kind, changes) :
            Len(ch) = 3 \/ text[ch[2]] # "placeholder"
  /\ slot.kind = "params" => <<"params">> \in changes
  /\ slot.forced => \E ch \in OfKind("tool", changes) : ch[2] \notin Parent

(* Refusals only grow: while one is left, nothing was ever let through.    *)
AcceptedInv ==
  effective # None /\ refusals < DraftRefusals =>
    KeepsMandate(effective.changes, effective.body)

DraftInv == DraftTypeOK /\ ReadInv /\ CheckInv /\ AcceptedInv

-------------------------------------------------------------------------------
(* The mandate.                                                            *)

(* A change of the persona, of a parameter, or of a plugin of its kind:    *)
(* added or rewritten where it is mounted, or removed.                     *)
LEMMA ChangeForms ==
  ASSUME NEW c, NEW b, NEW ch \in Changes(c, b)
  PROVE  \/ ch = <<"system_prompt">>
         \/ ch = <<"params">>
         \/ \E p \in c.mounts : ch = <<KindOf[p], p>>
         \/ \E p \in Parent : ch = <<KindOf[p], p, "removed">>
  BY DEF Changes

(* The fields of a change.                                                 *)
LEMMA ChangeFields ==
  /\ <<"params">>[1] = "params" /\ <<"system_prompt">>[1] = "system_prompt"
  /\ \A k, p : <<k, p>>[1] = k /\ <<k, p>>[2] = p
  /\ \A k, p : LET ch == <<k, p, "removed">> IN ch[1] = k /\ ch[2] = p /\ Len(ch) = 3
  OBVIOUS

(* What is accepted while a refusal is left keeps the mandate.             *)
LEMMA AcceptedKeepsMandate ==
  ASSUME DraftInv, SubmitAccepted, refusals < DraftRefusals
  PROVE  KeepsMandate(check.changes, check.body)
<1> DEFINE changes == Changes(composition, body)
<1> USE DEF DraftInv, CheckInv
<1>1. check = [changes |-> changes, body |-> body] /\ ContractKept(composition)
  BY DEF SubmitAccepted
<1>2. ~ParamsMissing(changes) /\ ~OutOfScope(changes) /\ ~NoComponent(changes)
  BY <1>1 DEF SubmitAccepted, Refused
<1>a. \A ch \in changes :
        \/ ch = <<"system_prompt">> \/ ch = <<"params">>
        \/ \E p \in composition.mounts : ch = <<KindOf[p], p>>
        \/ \E p \in Parent : ch = <<KindOf[p], p, "removed">>
  BY ChangeForms
<1>b. \A p \in composition.mounts \ Parent : <<KindOf[p], p>> \in changes
  BY DEF Changes
<1>c. composition.mounts \subseteq Plugins /\ Parent \subseteq Plugins
  BY DraftAssumption DEF SubmitAccepted
<1> HIDE DEF changes
<1>3. ASSUME slot.kind \in {"tool", "skill", "middleware"}
      PROVE  /\ changes \subseteq OfKind(slot.kind, changes) \cup {<<"system_prompt">>}
             /\ \E ch \in OfKind(slot.kind, changes) :
                  Len(ch) = 3 \/ body[ch[2]] # "placeholder"
  <2>1. changes \subseteq OfKind(slot.kind, changes) \cup {<<"system_prompt">>}
    BY <1>2, <1>3 DEF OutOfScope
  <2>2. PICK ch \in changes : /\ ch # <<"system_prompt">>
                              /\ \A p \in UnchangedStarters : ch # <<KindOf[p], p>>
    BY <1>2, <1>3 DEF NoComponent, Signature
  <2>3. ch \in OfKind(slot.kind, changes)
    BY <2>1, <2>2
  <2>4. ch # <<"params">>
    BY <1>3, <2>3, ChangeFields DEF OfKind
  <2>5. CASE \E p \in composition.mounts : ch = <<KindOf[p], p>>
    <3>1. PICK p \in composition.mounts : ch = <<KindOf[p], p>>
      BY <2>5
    <3>2. body[p] # "placeholder" /\ ch[2] = p
      BY <2>2, <3>1, ChangeFields, <1>c DEF UnchangedStarters
    <3> QED
      BY <2>1, <2>3, <3>2
  <2>6. CASE \E p \in Parent : ch = <<KindOf[p], p, "removed">>
    <3>1. Len(ch) = 3
      BY <2>6, ChangeFields
    <3> QED
      BY <2>1, <2>3, <3>1
  <2> QED
    BY <2>2, <2>4, <2>5, <2>6, <1>a
<1>4. ASSUME slot.kind = "params" PROVE <<"params">> \in changes
  <2>1. PICK ch \in changes : ch[1] = "params"
    BY <1>2, <1>4 DEF ParamsMissing, OfKind
  <2>2. \A p \in Plugins : KindOf[p] # "params"
    BY DraftAssumption
  <2>3. ch = <<"params">>
    BY <2>1, <2>2, <1>a, <1>c, ChangeFields
  <2> QED
    BY <2>1, <2>3
<1>5. ASSUME slot.forced PROVE \E ch \in OfKind("tool", changes) : ch[2] \notin Parent
  <2>1. PICK p \in composition.mounts \ Parent : KindOf[p] = "tool"
    BY <1>1, <1>5 DEF ContractKept
  <2>2. <<KindOf[p], p>> \in changes
    BY <2>1, <1>b
  <2> QED
    BY <2>1, <2>2, ChangeFields DEF OfKind
<1> QED
  BY <1>1, <1>3, <1>4, <1>5 DEF KeepsMandate

-------------------------------------------------------------------------------
(* Every step preserves it.                                                *)

(* A parent package, with a scaffold or without, is a draft.               *)
LEMMA DraftType ==
  ASSUME NEW s \in Mandates
  PROVE  SeededDraft(s).composition \in Composition /\ SeededDraft(s).body \in File
<1>1. ParentDraft = [composition |-> [mounts |-> Parent, tuned |-> FALSE, persona |-> "parent"],
                     body |-> [p \in Plugins |-> IF p \in Parent THEN "parent" ELSE Absent]]
  BY DEF ParentDraft
<1>2. /\ ParentDraft.composition \in Composition /\ ParentDraft.body \in File
  BY <1>1, DraftAssumption DEF Composition, Personas, File, Bodies
<1>3. ASSUME NEW kind \in {"tool", "middleware"}, NEW text \in Bodies
      PROVE  /\ Seeded(kind, text, ParentDraft).composition \in Composition
             /\ Seeded(kind, text, ParentDraft).body \in File
  <2>1. Starter[kind] \in Plugins
    BY DraftAssumption
  <2> QED
    BY <1>1, <2>1, DraftAssumption DEF Seeded, Composition, Personas, File, Bodies
<1>4. ToolText(TRUE) \in Bodies /\ ToolText(FALSE) \in Bodies /\ "placeholder" \in Bodies
  BY DEF ToolText, Bodies
<1> QED
  BY <1>2, <1>3, <1>4, DraftAssumption DEF SeededDraft, SeedTool, SeedMiddleware

(* A draft starts as rendered.                                             *)
LEMMA DraftInitInv == DraftInit => DraftInv
<1> SUFFICES ASSUME DraftInit PROVE DraftInv
  OBVIOUS
<1>1. DraftTypeOK
  <2>1. MaxEdits \in Nat
    BY DraftAssumption
  <2>2. Files \subseteq Paths
    BY DEF Files, Paths
  <2>3. slot \in Mandates /\ composition \in Composition /\ body \in File
    BY DraftType DEF DraftInit
  <2>4. inspected \subseteq Paths /\ known \subseteq Paths
    BY <2>2 DEF DraftInit, Rendered
  <2>5. /\ revision \in 0 .. MaxEdits /\ validated_revision \in Nat \cup {None}
        /\ refusals \in 0 .. DraftRefusals
    BY <2>1 DEF DraftInit, DraftRefusals
  <2> QED
    BY <2>3, <2>4, <2>5 DEF DraftInit, DraftTypeOK
<1> QED
  BY <1>1 DEF DraftInit, DraftInv, ReadInv, CheckInv, AcceptedInv, Rendered

(* Every step keeps every variable in its type.                            *)
LEMMA DraftTypeStep == DraftTypeOK /\ [DraftNext]_draftVars => DraftTypeOK'
<1> SUFFICES ASSUME DraftTypeOK, [DraftNext]_draftVars PROVE DraftTypeOK'
  OBVIOUS
<1> USE DEF DraftTypeOK, AsBefore, RecordMutation
<1>0. MaxEdits \in Nat
  BY DraftAssumption
<1>1. ASSUME NEW op, NEW p \in Paths, InspectHarness(op, p) PROVE DraftTypeOK'
  BY <1>1 DEF InspectHarness, Shown, Files, Paths
<1>2. ASSUME NEW c \in Composition, NEW spelled, revision < MaxEdits,
             WriteComposition(c, spelled) \/ EditComposition(c, spelled)
      PROVE  DraftTypeOK'
  BY <1>0, <1>2 DEF WriteComposition, EditComposition, Paths
<1>3. ASSUME NEW p \in Plugins, NEW text \in Bodies, revision < MaxEdits,
             WritePlugin(p, text) \/ EditPlugin(p, text)
      PROVE  DraftTypeOK'
  BY <1>0, <1>3 DEF WritePlugin, EditPlugin, File, Paths
<1>4. ASSUME NEW p \in Plugins, revision < MaxEdits, DeletePlugin(p) PROVE DraftTypeOK'
  BY <1>0, <1>4 DEF DeletePlugin, File
<1>5. CASE ValidateDraft
  BY <1>0, <1>5 DEF ValidateDraft
<1>6. CASE SubmitStale \/ SubmitRefused
  <2>1. submitted' \in BOOLEAN /\ errors' \in BOOLEAN /\ UNCHANGED flagged
    BY <1>6 DEF SubmitStale, SubmitRefused, Answered
  <2>2. refusals' \in 0 .. DraftRefusals
    <3>1. CASE SubmitRefused
      <4>1. refusals < DraftRefusals /\ refusals' = refusals + 1
        BY <3>1, Zenon DEF SubmitRefused, Refused
      <4> QED
        BY <4>1 DEF DraftRefusals
    <3>2. CASE SubmitStale
      BY <3>2 DEF SubmitStale
    <3> QED
      BY <1>6, <3>1, <3>2
  <2> QED
    BY <1>6, <2>1, <2>2 DEF SubmitStale, SubmitRefused, Answered
<1>7. CASE SubmitAccepted
  <2>1. flagged' \in BOOLEAN
    BY <1>7, Zenon DEF SubmitAccepted
  <2> QED
    BY <1>7, <2>1 DEF SubmitAccepted, Answered
<1>8. CASE UNCHANGED draftVars
  BY <1>8 DEF draftVars, sessionVars
<1> QED
  BY <1>1, <1>2, <1>3, <1>4, <1>5, <1>6, <1>7, <1>8 DEF DraftNext, Change

(* What is marked as read and what is had in full stay together.           *)
LEMMA ReadStep == DraftTypeOK /\ ReadInv /\ [DraftNext]_draftVars => ReadInv'
<1> SUFFICES ASSUME DraftTypeOK, ReadInv, [DraftNext]_draftVars PROVE ReadInv'
  OBVIOUS
<1> USE DEF ReadInv, Files, AsBefore
<1>0. DOMAIN body = Plugins /\ body = [p \in Plugins |-> body[p]]
  BY DEF DraftTypeOK, File
<1>1. ASSUME NEW op, NEW p, InspectHarness(op, p) PROVE ReadInv'
  BY <1>1 DEF InspectHarness, Shown
<1>2. ASSUME NEW c, NEW spelled, WriteComposition(c, spelled) \/ EditComposition(c, spelled)
      PROVE  ReadInv'
  BY <1>2 DEF WriteComposition, EditComposition
<1>3. ASSUME NEW p \in Plugins, NEW text, WritePlugin(p, text) \/ EditPlugin(p, text)
      PROVE  ReadInv'
  <2>1. \A q \in Files' : q = p \/ q \in Files
    BY <1>0, <1>3 DEF WritePlugin, EditPlugin
  <2>2. p \in known' \/ p \in Files
    BY <1>3 DEF WritePlugin, EditPlugin
  <2>3. known \subseteq known' /\ UNCHANGED <<inspected, slot>>
    BY <1>3 DEF WritePlugin, EditPlugin
  <2> QED
    BY <2>1, <2>2, <2>3
<1>4. ASSUME NEW p \in Plugins, DeletePlugin(p) PROVE ReadInv'
  <2>1. Files' \subseteq Files
    BY <1>0, <1>4 DEF DeletePlugin
  <2>2. p \notin Files'
    BY <1>0, <1>4, DraftAssumption DEF DeletePlugin
  <2> QED
    BY <1>4, <2>1, <2>2 DEF DeletePlugin
<1>5. CASE \/ ValidateDraft \/ SubmitStale \/ SubmitRefused \/ SubmitAccepted
           \/ UNCHANGED draftVars
  BY <1>5 DEF ValidateDraft, SubmitStale, SubmitRefused, SubmitAccepted,
     Answered, draftVars, sessionVars
<1> QED
  BY <1>1, <1>2, <1>3, <1>4, <1>5 DEF DraftNext, Change

(* A change forgets the check, and only a valid draft is checked.          *)
LEMMA CheckStep == CheckInv /\ [DraftNext]_draftVars => CheckInv'
<1> SUFFICES ASSUME CheckInv, [DraftNext]_draftVars PROVE CheckInv'
  OBVIOUS
<1> USE DEF CheckInv
<1>1. CASE Change
  BY <1>1 DEF Change, WriteComposition, EditComposition, WritePlugin, EditPlugin,
     DeletePlugin, RecordMutation
<1>2. CASE ValidateDraft
  <2>1. composition.mounts \subseteq Plugins /\ ContractKept(composition)
    BY <1>2 DEF ValidateDraft, ValidWorkspace, Coherent
  <2> QED
    BY <1>2, <2>1 DEF ValidateDraft, ContractKept, Changes
<1>3. CASE \/ \E op \in {"cat", "ls"}, p \in Paths : InspectHarness(op, p)
           \/ SubmitStale \/ SubmitRefused \/ SubmitAccepted \/ UNCHANGED draftVars
  <2>1. UNCHANGED <<slot, composition, body, revision, validated_revision, check>>
    BY <1>3 DEF InspectHarness, SubmitStale, SubmitRefused, SubmitAccepted,
       Answered, draftVars, sessionVars
  <2> QED
    BY <2>1 DEF ContractKept, Changes
<1> QED
  BY <1>1, <1>2, <1>3 DEF DraftNext

(* Only an acceptance changes what is effective.                           *)
LEMMA AcceptedStep == DraftInv /\ [DraftNext]_draftVars => AcceptedInv'
<1> SUFFICES ASSUME DraftInv, [DraftNext]_draftVars PROVE AcceptedInv'
  OBVIOUS
<1> USE DEF DraftInv, DraftTypeOK, AcceptedInv, KeepsMandate, DraftRefusals
<1>1. CASE SubmitAccepted
  <2>1. UNCHANGED <<slot, refusals>> /\ effective' = check
    BY <1>1 DEF SubmitAccepted, Answered
  <2> QED
    BY <1>1, <2>1, AcceptedKeepsMandate
<1>2. CASE SubmitRefused
  BY <1>2 DEF SubmitRefused, Answered
<1>3. CASE \/ \E op \in {"cat", "ls"}, p \in Paths : InspectHarness(op, p)
           \/ Change \/ ValidateDraft \/ SubmitStale \/ UNCHANGED draftVars
  <2>1. UNCHANGED <<slot, refusals, effective>>
    BY <1>3 DEF InspectHarness, Change, WriteComposition, EditComposition,
       WritePlugin, EditPlugin, DeletePlugin, ValidateDraft, SubmitStale,
       AsBefore, Answered, draftVars, sessionVars
  <2> QED
    BY <2>1
<1> QED
  BY <1>1, <1>2, <1>3 DEF DraftNext

(* The invariant holds throughout a session.                               *)
LEMMA DraftInvariant == DraftSpec => []DraftInv
<1>1. DraftInv /\ [DraftNext]_draftVars => DraftInv'
  BY DraftTypeStep, ReadStep, CheckStep, AcceptedStep DEF DraftInv
<1> QED
  BY <1>1, DraftInitInv, PTL DEF DraftSpec

-------------------------------------------------------------------------------
(* Every variable of a session keeps its type.                             *)
THEOREM DraftTypeCorrect == DraftSpec => []DraftTypeOK
<1>1. DraftInv => DraftTypeOK
  BY DEF DraftInv
<1> QED
  BY <1>1, DraftInvariant, PTL

(* Nothing is changed unread but what the first message could not hold.    *)
THEOREM EditsAreNotBlind == DraftSpec => NoBlindEdits
<1> DEFINE Seen(p) == p \in known \/ (slot.preload /\ p \in Overlong)
<1>1. ASSUME DraftInv, [DraftNext]_draftVars
      PROVE  /\ composition' # composition => Seen(Composed)
             /\ \A p \in Plugins : body[p] # Absent /\ body'[p] # body[p] => Seen(p)
  <2>1. \A p : MayChange(p) /\ p \in Files => Seen(p)
    BY <1>1 DEF DraftInv, ReadInv, MayChange
  <2>2. CASE Change
    <3>1. ASSUME NEW c, NEW spelled,
                 WriteComposition(c, spelled) \/ EditComposition(c, spelled)
          PROVE  Seen(Composed) /\ UNCHANGED body
      BY <2>1, <3>1 DEF WriteComposition, EditComposition, Files
    <3>2. ASSUME NEW p \in Plugins, NEW text,
                 WritePlugin(p, text) \/ EditPlugin(p, text) \/ DeletePlugin(p)
          PROVE  /\ UNCHANGED composition
                 /\ \A q \in Plugins : body[q] # Absent /\ body'[q] # body[q] => Seen(q)
      <4>1. \A q \in Plugins : body'[q] # body[q] => q = p
        BY <1>1, <3>2 DEF WritePlugin, EditPlugin, DeletePlugin, DraftInv, DraftTypeOK, File
      <4> QED
        BY <2>1, <3>2, <4>1 DEF WritePlugin, EditPlugin, DeletePlugin, Files
    <3> QED
      BY <2>2, <3>1, <3>2 DEF Change
  <2>3. CASE ~Change
    BY <1>1, <2>3 DEF DraftNext, InspectHarness, ValidateDraft, SubmitStale,
       SubmitRefused, SubmitAccepted, Answered, draftVars
  <2> QED
    BY <2>2, <2>3
<1> QED
  BY <1>1, DraftInvariant, PTL DEF DraftSpec, NoBlindEdits

(* What a slot gets accepted while a refusal is left is what it was given. *)
THEOREM MandateIsKept == DraftSpec => []HeldToItsMandate
<1>1. DraftInv => HeldToItsMandate
  BY DEF DraftInv, AcceptedInv, KeepsMandate, HeldToItsMandate
<1> QED
  BY <1>1, DraftInvariant, PTL

-------------------------------------------------------------------------------
(***************************************************************************)
(* PART II.  The slot, and the two sessions that may have it.              *)
(***************************************************************************)

(* The inductive invariant, in named parts.                                *)

(* What a session holds it has validated, and an accepted repeat has       *)
(* exhausted its refusals.                                                 *)
Honest(rec, seen) ==
  /\ rec.check # None => rec.check \in seen
  /\ rec.effective # None =>
       /\ rec.effective \in seen
       /\ rec.effective.content \in Repeats =>
            rec.flagged /\ rec.refusals = RefusalLimit

SessionInv == \A s \in Sessions : Honest(session[s], passed[s])

(* The record counts only at the end, and then it is its session's.        *)
RecordInv ==
  /\ phase # "done" => ~record.valid
  /\ record.valid =>
       /\ record.from \in Sessions
       /\ record.effective # None
       /\ record.effective = session[record.from].effective

(* The repair session acts only in a slot that was handed to it.           *)
HandoverInv ==
  /\ phase = "phi" => ~attempted
  /\ ~attempted => /\ phase \notin {"repair", "repaired"}
                   /\ \A c \in Calls : owner[c] # "repair"
                   /\ "repair" \notin draft.by

(* phi leaves no call behind when its turn completes.                      *)
TurnInv == phase # "phi" /\ "phi" \notin err => InFlight("phi") = {}

(* What phi validated is its own, unless its turn failed.                  *)
AuthorInv == "phi" \notin err => \A d \in passed["phi"] : "repair" \notin d.by

IInv == TypeOK /\ SessionInv /\ RecordInv /\ HandoverInv /\ TurnInv /\ AuthorInv

-------------------------------------------------------------------------------
USE ContentsAssumption, CallsAssumption, NoneAssumption DEF Sessions, RefusalLimit

(* The initial state satisfies the invariant.                              *)
LEMMA InvInit == Init => IInv
<1> SUFFICES ASSUME Init PROVE IInv
  OBVIOUS
<1>1. TypeOK
  <2>1. NewSession(preload) \in Session
    BY DEF Init, NewSession, Session
  <2>2. session \in [Sessions -> Session] /\ draft \in Draft
    BY <2>1 DEF Init, Draft
  <2>3. record \in [valid : BOOLEAN, effective : Draft \cup {None},
                   from : Sessions \cup {None}]
    BY DEF Init, NoRecord
  <2> QED
    BY <2>2, <2>3 DEF Init, TypeOK, CallStates, Phases
<1>2. SessionInv
  BY DEF Init, SessionInv, Honest, NewSession
<1>3. RecordInv /\ HandoverInv /\ TurnInv /\ AuthorInv
  BY DEF Init, RecordInv, HandoverInv, TurnInv, AuthorInv, NoRecord
<1> QED
  BY <1>1, <1>2, <1>3 DEF IInv

-------------------------------------------------------------------------------
(* ProposeSession operations.                                              *)

(* What submit_harness makes of a session is a session, and an honest one. *)
LEMMA DecidedIsHonest ==
  ASSUME TypeOK, NEW s \in Sessions
  PROVE  /\ Decided(s) \in Session
         /\ Honest(session[s], passed[s]) => Honest(Decided(s), passed[s])
<1> DEFINE rec == session[s]
<1>1. rec \in Session
  BY DEF TypeOK
<1>2. CASE Stale(s)
  BY <1>1, <1>2 DEF Decided, Session, Honest
<1>3. CASE ~Stale(s) /\ Refusable(s)
  <2>1. rec.refusals + 1 \in 0..RefusalLimit
    BY <1>1, <1>3 DEF Refusable, Session
  <2>2. Decided(s) = [rec EXCEPT !.submitted = FALSE, !.errors = FALSE, !.refusals = @ + 1]
    BY <1>3 DEF Decided
  <2>3. rec.refusals # RefusalLimit
    BY <1>1, <1>3 DEF Refusable, Session
  <2>4. Decided(s) \in Session
    BY <1>1, <2>1, <2>2 DEF Session
  <2> QED
    BY <1>1, <2>2, <2>3, <2>4 DEF Session, Honest
<1>4. CASE ~Stale(s) /\ ~Refusable(s)
  <2>1. Decided(s) = [rec EXCEPT !.submitted = TRUE, !.errors = FALSE, !.effective = rec.check,
                             !.flagged = @ \/ rec.check.content \in Repeats]
    BY <1>4 DEF Decided
  <2>2. rec.check # None
    BY <1>4 DEF Stale
  <2>3. rec.check.content \in Repeats => rec.refusals = RefusalLimit
    BY <1>1, <1>4 DEF Refusable, Session
  <2>4. Decided(s) \in Session
    BY <1>1, <2>1 DEF Session
  <2> QED
    BY <1>1, <2>1, <2>2, <2>3, <2>4 DEF Session, Honest
<1> QED
  BY <1>2, <1>3, <1>4

(* A validation adds only the draft of the moment to what has passed.      *)
LEMMA ValidateIsHonest ==
  ASSUME TypeOK, SessionInv, NEW s \in Sessions, ValidateHarness(s)
  PROVE  /\ session' \in [Sessions -> Session]
         /\ passed' \in [Sessions -> SUBSET Draft]
         /\ SessionInv'
         /\ \A r \in Sessions : passed'[r] \subseteq
              IF r = s THEN passed[r] \cup {draft} ELSE passed[r]
<1>1. session[s] \in Session /\ passed[s] \in SUBSET Draft /\ draft \in Draft
  BY DEF TypeOK
<1>2. CASE session[s].inspected /\ draft.content \in Valid
  <2>1. /\ session' = [session EXCEPT ![s].validated_revision = session[s].revision,
                                      ![s].check = draft]
        /\ passed' = [passed EXCEPT ![s] = @ \cup {draft}]
    BY <1>2 DEF ValidateHarness
  <2>2. session' \in [Sessions -> Session] /\ passed' \in [Sessions -> SUBSET Draft]
    BY <1>1, <2>1 DEF TypeOK, Session
  <2>3. ASSUME NEW r \in Sessions PROVE Honest(session'[r], passed'[r])
    <3>1. CASE r = s
      BY <1>1, <2>1, <3>1 DEF TypeOK, SessionInv, Honest, Session
    <3>2. CASE r # s
      BY <2>1, <3>2 DEF TypeOK, SessionInv
    <3> QED
      BY <3>1, <3>2
  <2>4. SessionInv'
    BY <2>3 DEF SessionInv, Honest
  <2> QED
    BY <2>1, <2>2, <2>4 DEF TypeOK
<1>3. CASE ~(session[s].inspected /\ draft.content \in Valid)
  <2>1. UNCHANGED <<session, passed>>
    BY <1>3 DEF ValidateHarness
  <2> QED
    BY <2>1 DEF TypeOK, SessionInv, Honest
<1> QED
  BY <1>2, <1>3

(* One session replaced by an honest one, with nothing newly passed.       *)
LEMMA OneSessionChanges ==
  ASSUME TypeOK, SessionInv, NEW s \in Sessions, NEW rec \in Session,
         Honest(rec, passed[s]),
         session' = [session EXCEPT ![s] = rec], UNCHANGED passed
  PROVE  session' \in [Sessions -> Session] /\ SessionInv'
<1>1. session' \in [Sessions -> Session]
  BY DEF TypeOK
<1>2. ASSUME NEW r \in Sessions PROVE Honest(session'[r], passed'[r])
  <2>1. CASE r = s
    BY <2>1 DEF TypeOK
  <2>2. CASE r # s
    BY <2>2 DEF TypeOK, SessionInv
  <2> QED
    BY <2>1, <2>2
<1> QED
  BY <1>1, <1>2 DEF SessionInv, Honest

-------------------------------------------------------------------------------
(* The calls.                                                              *)

(* What every handler step has in common: the slot goes on, and the calls  *)
(* in flight only become fewer.                                            *)
HandlerFrame(s, c) ==
  /\ phase # "done"
  /\ owner[c] = s /\ call[c] \in {"queued", "submitting"}
  /\ \E state \in {"submitting", "served"} : call' = [call EXCEPT ![c] = state]
  /\ UNCHANGED <<preload, owner, err, phase, attempted, auto, record>>

(* So the record and the ended turn are untouched, and a call of phi is    *)
(* served after its turn only if that turn failed.                         *)
LEMMA InvHandlerFrame ==
  ASSUME IInv, NEW s \in Sessions, NEW c \in Calls, HandlerFrame(s, c)
  PROVE  /\ call' \in [Calls -> CallStates]
         /\ RecordInv' /\ TurnInv'
         /\ attempted \/ s = "phi"
         /\ s = "phi" /\ "phi" \notin err => phase = "phi" /\ ~attempted
<1> USE DEF HandlerFrame
<1>1. PICK state \in {"submitting", "served"} : call' = [call EXCEPT ![c] = state]
  OBVIOUS
<1>2. call' \in [Calls -> CallStates]
  BY <1>1 DEF IInv, TypeOK, CallStates
<1>3. RecordInv'
  BY DEF IInv, RecordInv
<1>4. InFlight("phi")' \subseteq InFlight("phi")
  BY <1>1 DEF IInv, TypeOK, InFlight
<1>5. TurnInv'
  BY <1>4 DEF IInv, TurnInv
<1>6. attempted \/ s = "phi"
  BY DEF IInv, HandoverInv
<1>7. s = "phi" /\ "phi" \notin err => phase = "phi" /\ ~attempted
  BY DEF IInv, TurnInv, HandoverInv, InFlight
<1> QED
  BY <1>2, <1>3, <1>5, <1>6, <1>7

(* A handler that changes one session and neither draft nor passed.        *)
LEMMA InvOneSession ==
  ASSUME IInv, NEW s \in Sessions, NEW c \in Calls, HandlerFrame(s, c),
         NEW rec \in Session, Honest(rec, passed[s]),
         session' = [session EXCEPT ![s] = rec], UNCHANGED <<draft, passed>>,
         concluded' \in SUBSET Sessions
  PROVE  IInv'
<1>1. TypeOK /\ SessionInv
  BY DEF IInv
<1>2. session' \in [Sessions -> Session] /\ SessionInv'
  BY <1>1, OneSessionChanges
<1>3. call' \in [Calls -> CallStates] /\ RecordInv' /\ TurnInv'
  BY InvHandlerFrame
<1>4. TypeOK'
  BY <1>1, <1>2, <1>3 DEF TypeOK, HandlerFrame
<1>5. HandoverInv' /\ AuthorInv'
  BY DEF IInv, HandoverInv, AuthorInv, HandlerFrame
<1> QED
  BY <1>2, <1>3, <1>4, <1>5 DEF IInv

(* Reading the workspace changes one flag of one session.                  *)
LEMMA InvHarnessShell ==
  ASSUME IInv, NEW s \in Sessions, NEW c \in Calls, HarnessShell(s, c)
  PROVE  IInv'
<1>1. HandlerFrame(s, c)
  BY DEF HarnessShell, Serve, Settle, HandlerFrame
<1>2. PICK reads \in BOOLEAN : session' = [session EXCEPT ![s].inspected = @ \/ reads]
  BY DEF HarnessShell
<1> DEFINE rec == [session[s] EXCEPT !.inspected = @ \/ reads]
<1>3. session[s] \in Session /\ Honest(session[s], passed[s])
  BY DEF IInv, TypeOK, SessionInv
<1>4. rec \in Session /\ Honest(rec, passed[s])
  BY <1>3 DEF Session, Honest
<1>5. session' = [session EXCEPT ![s] = rec]
  BY <1>2 DEF IInv, TypeOK
<1>6. UNCHANGED <<draft, passed>> /\ concluded' \in SUBSET Sessions
  BY DEF HarnessShell, IInv, TypeOK
<1> HIDE DEF rec
<1> QED
  BY <1>1, <1>4, <1>5, <1>6, InvOneSession

(* Opening a submission changes neither what was validated nor accepted.   *)
LEMMA InvSubmitOpens ==
  ASSUME IInv, NEW s \in Sessions, NEW c \in Calls, SubmitOpens(s, c)
  PROVE  IInv'
<1>1. HandlerFrame(s, c)
  BY DEF SubmitOpens, Serve, HandlerFrame
<1> DEFINE rec == [session[s] EXCEPT !.submitted = TRUE, !.errors = FALSE]
<1>3. session[s] \in Session /\ Honest(session[s], passed[s])
  BY DEF IInv, TypeOK, SessionInv
<1>4. rec \in Session /\ Honest(rec, passed[s])
  BY <1>3 DEF Session, Honest
<1>5. session' = [session EXCEPT ![s] = rec]
  BY DEF SubmitOpens, IInv, TypeOK
<1>6. UNCHANGED <<draft, passed>> /\ concluded' \in SUBSET Sessions
  BY DEF SubmitOpens, IInv, TypeOK
<1> HIDE DEF rec
<1> QED
  BY <1>1, <1>4, <1>5, <1>6, InvOneSession

(* Deciding one accepts only what the session validated.                   *)
LEMMA InvSubmitDecides ==
  ASSUME IInv, NEW s \in Sessions, NEW c \in Calls, SubmitDecides(s, c)
  PROVE  IInv'
<1>1. HandlerFrame(s, c)
  BY DEF SubmitDecides, Settle, HandlerFrame
<1>2. TypeOK /\ Honest(session[s], passed[s])
  BY DEF IInv, SessionInv
<1>3. Decided(s) \in Session /\ Honest(Decided(s), passed[s])
  BY <1>2, DecidedIsHonest
<1>4. session' = [session EXCEPT ![s] = Decided(s)]
  BY DEF SubmitDecides
<1>5. UNCHANGED <<draft, passed>> /\ concluded' \in SUBSET Sessions
  BY <1>2 DEF SubmitDecides, TypeOK
<1> QED
  BY <1>1, <1>3, <1>4, <1>5, InvOneSession

(* An edit makes the editor an author and forgets what was validated.      *)
LEMMA InvEdit ==
  ASSUME IInv, NEW s \in Sessions, NEW c \in Calls, NEW x \in Contents,
         EditHarnessFile(s, c, x)
  PROVE  IInv'
<1>1. HandlerFrame(s, c)
  BY DEF EditHarnessFile, Serve, Settle, HandlerFrame
<1>2. TypeOK /\ SessionInv /\ session[s] \in Session /\ Honest(session[s], passed[s])
  BY DEF IInv, TypeOK, SessionInv
<1> DEFINE rec == Mutated(session[s])
<1>3. rec \in Session /\ Honest(rec, passed[s])
  <2>1. session[s].revision + 1 \in Nat
    BY <1>2 DEF Session
  <2>2. rec \in Session
    BY <1>2, <2>1 DEF Mutated, Session
  <2>3. rec.check = None /\ rec.effective = session[s].effective
        /\ rec.flagged = session[s].flagged /\ rec.refusals = session[s].refusals
    BY <1>2 DEF Mutated, Session
  <2> QED
    BY <1>2, <2>2, <2>3 DEF Honest
<1>4. session' = [session EXCEPT ![s] = rec] /\ UNCHANGED passed
  BY DEF EditHarnessFile
<1>5. session' \in [Sessions -> Session] /\ SessionInv'
  <2> HIDE DEF rec
  <2> QED
    BY <1>2, <1>3, <1>4, OneSessionChanges
<1>6. /\ call' \in [Calls -> CallStates] /\ RecordInv' /\ TurnInv'
      /\ attempted \/ s = "phi"
  BY <1>1, InvHandlerFrame
<1>7. TypeOK'
  <2>1. draft' \in Draft
    BY <1>2 DEF EditHarnessFile, TypeOK, Draft
  <2> QED
    BY <1>2, <1>5, <1>6, <2>1 DEF TypeOK, EditHarnessFile
<1>8. HandoverInv' /\ AuthorInv'
  BY <1>6 DEF IInv, HandoverInv, AuthorInv, EditHarnessFile
<1> QED
  BY <1>5, <1>6, <1>7, <1>8 DEF IInv

(* phi validates its own work, or its turn has failed.                     *)
LEMMA InvValidate ==
  ASSUME IInv, NEW s \in Sessions, NEW c \in Calls, Validate(s, c)
  PROVE  IInv'
<1>1. HandlerFrame(s, c) /\ ValidateHarness(s) /\ UNCHANGED <<draft, concluded>>
  BY DEF Validate, Serve, Settle, HandlerFrame
<1>2. TypeOK /\ SessionInv
  BY DEF IInv
<1>3. /\ session' \in [Sessions -> Session] /\ passed' \in [Sessions -> SUBSET Draft]
      /\ SessionInv'
      /\ \A r \in Sessions : passed'[r] \subseteq
           IF r = s THEN passed[r] \cup {draft} ELSE passed[r]
  BY <1>1, <1>2, ValidateIsHonest
<1>4. /\ call' \in [Calls -> CallStates] /\ RecordInv' /\ TurnInv'
      /\ s = "phi" /\ "phi" \notin err => ~attempted
  BY <1>1, InvHandlerFrame
<1>5. TypeOK'
  BY <1>1, <1>2, <1>3, <1>4 DEF TypeOK, HandlerFrame
<1>6. HandoverInv'
  BY <1>1 DEF IInv, HandoverInv, HandlerFrame
<1>7. AuthorInv'
  BY <1>1, <1>3, <1>4 DEF IInv, HandoverInv, AuthorInv, HandlerFrame
<1> QED
  BY <1>3, <1>4, <1>5, <1>6, <1>7 DEF IInv

(* A session sends calls only during its turn.                             *)
LEMMA InvSend ==
  ASSUME IInv, NEW s \in Sessions, NEW c \in Calls, Send(s, c)
  PROVE  IInv'
<1>1. TypeOK'
  BY DEF IInv, TypeOK, Send, CallStates
<1>2. SessionInv' /\ RecordInv' /\ AuthorInv'
  BY DEF IInv, SessionInv, Honest, RecordInv, AuthorInv, Send
<1>3. HandoverInv'
  BY DEF IInv, TypeOK, HandoverInv, Send
<1>4. TurnInv'
  BY DEF IInv, TypeOK, TurnInv, InFlight, Send
<1> QED
  BY <1>1, <1>2, <1>3, <1>4 DEF IInv

-------------------------------------------------------------------------------
(* The turns and run_once.                                                 *)

(* A turn that leaves calls behind is an error.                            *)
LEMMA InvTurn ==
  ASSUME IInv, NEW s \in Sessions, TurnCompletes(s) \/ TurnFails(s)
  PROVE  IInv'
<1>1. /\ phase = s /\ phase' = AfterTurn(s) /\ err' \in SUBSET Sessions
      /\ err \subseteq err'
      /\ InFlight(s) = {} \/ s \in err'
      /\ UNCHANGED <<draft, session, preload, call, owner, concluded, attempted,
                     auto, record, passed>>
  BY DEF TurnCompletes, TurnFails, IInv, TypeOK
<1>2. TypeOK'
  BY <1>1 DEF IInv, TypeOK, AfterTurn, Phases
<1>3. SessionInv' /\ RecordInv' /\ AuthorInv'
  BY <1>1 DEF IInv, SessionInv, Honest, RecordInv, AuthorInv, AfterTurn
<1>4. HandoverInv'
  BY <1>1 DEF IInv, HandoverInv, AfterTurn
<1>5. TurnInv'
  BY <1>1 DEF IInv, TurnInv, InFlight, AfterTurn
<1> QED
  BY <1>2, <1>3, <1>4, <1>5 DEF IInv

(* Handing the slot over marks it attempted.                               *)
LEMMA InvRepair ==
  ASSUME IInv, StartRepair \/ SkipRepair \/ JudgeRepair
  PROVE  IInv'
<1>1. /\ phase \notin {"phi", "done"} /\ phase' \in {"repair", "finalizing"}
      /\ phase' = "repair" => attempted'
      /\ attempted => attempted'
      /\ attempted' \in BOOLEAN
      /\ UNCHANGED <<draft, session, preload, call, owner, concluded, err, auto, passed>>
      /\ record' = record \/ \E from \in Sessions \cup {None} : record' = [record EXCEPT !.from = from]
  BY DEF StartRepair, SkipRepair, JudgeRepair, IInv, TypeOK
<1>2. TypeOK'
  BY <1>1 DEF IInv, TypeOK, Phases
<1>3. ~record'.valid
  BY <1>1 DEF IInv, RecordInv, TypeOK
<1>4. SessionInv' /\ RecordInv' /\ AuthorInv'
  BY <1>1, <1>3 DEF IInv, SessionInv, Honest, RecordInv, AuthorInv
<1>5. HandoverInv' /\ TurnInv'
  BY <1>1 DEF IInv, HandoverInv, TurnInv, InFlight
<1> QED
  BY <1>2, <1>4, <1>5 DEF IInv

(* Auto-finalize validates phi's draft, of which phi is the only author.   *)
LEMMA InvFinalizeValidates ==
  ASSUME IInv, FinalizeValidates
  PROVE  IInv'
<1>0. TypeOK /\ SessionInv /\ "repair" \notin draft.by /\ "phi" \notin err
  BY DEF IInv, HandoverInv, FinalizeValidates, MayFinalize
<1>1. /\ phase = "finalizing" /\ phase' \in {"finalizing", "finalized"}
      /\ UNCHANGED <<preload, call, owner, concluded, err, attempted, auto, record>>
  BY DEF FinalizeValidates
<1>2. /\ draft' \in Draft /\ "repair" \notin draft'.by
      /\ session' \in [Sessions -> Session] /\ passed' \in [Sessions -> SUBSET Draft]
      /\ SessionInv'
      /\ passed'["phi"] \subseteq passed["phi"] \cup {draft'}
  <2>1. CASE UNCHANGED draft /\ ValidateHarness("phi")
    BY <1>0, <2>1, ValidateIsHonest DEF TypeOK
  <2>2. CASE \E x \in Contents :
             /\ draft' = [draft EXCEPT !.content = x]
             /\ LET rev == session["phi"].revision + 1 IN
                IF x \in Valid
                  THEN /\ session' = [session EXCEPT !["phi"].revision = rev,
                            !["phi"].validated_revision = rev, !["phi"].check = draft']
                       /\ passed' = [passed EXCEPT !["phi"] = @ \cup {draft'}]
                  ELSE /\ session' = [session EXCEPT !["phi"].revision = rev]
                       /\ UNCHANGED passed
    <3> DEFINE rev == session["phi"].revision + 1
    <3>1. PICK x \in Contents :
             /\ draft' = [draft EXCEPT !.content = x]
             /\ IF x \in Valid
                  THEN /\ session' = [session EXCEPT !["phi"].revision = rev,
                            !["phi"].validated_revision = rev, !["phi"].check = draft']
                       /\ passed' = [passed EXCEPT !["phi"] = @ \cup {draft'}]
                  ELSE /\ session' = [session EXCEPT !["phi"].revision = rev]
                       /\ UNCHANGED passed
      BY <2>2
    <3>2. session["phi"] \in Session /\ rev \in Nat
      BY <1>0 DEF TypeOK, Session
    <3>3. draft' \in Draft /\ draft'.by = draft.by
      BY <1>0, <3>1 DEF TypeOK, Draft
    <3>4. CASE x \in Valid
      <4> DEFINE rec == [session["phi"] EXCEPT !.revision = rev,
                           !.validated_revision = rev, !.check = draft']
      <4>1. session' = [session EXCEPT !["phi"] = rec]
        BY <1>0, <3>1, <3>4 DEF TypeOK
      <4>2. passed' = [passed EXCEPT !["phi"] = @ \cup {draft'}]
        BY <3>1, <3>4
      <4>3. rec \in Session
        BY <3>2, <3>3 DEF Session
      <4>4. Honest(rec, passed["phi"] \cup {draft'})
        BY <1>0, <3>2 DEF SessionInv, Honest, Session
      <4> HIDE DEF rec
      <4>5. /\ session' \in [Sessions -> Session]
            /\ passed' \in [Sessions -> SUBSET Draft]
        BY <1>0, <3>3, <4>1, <4>2, <4>3 DEF TypeOK
      <4>6. ASSUME NEW r \in Sessions PROVE Honest(session'[r], passed'[r])
        <5>1. CASE r = "phi"
          BY <1>0, <4>1, <4>2, <4>4, <5>1 DEF TypeOK
        <5>2. CASE r # "phi"
          BY <1>0, <4>1, <4>2, <5>2 DEF TypeOK, SessionInv
        <5> QED
          BY <5>1, <5>2
      <4>7. SessionInv'
        BY <4>6 DEF SessionInv, Honest
      <4> QED
        BY <1>0, <3>3, <4>2, <4>5, <4>7 DEF TypeOK
    <3>5. CASE x \notin Valid
      <4> DEFINE rec == [session["phi"] EXCEPT !.revision = rev]
      <4>1. session' = [session EXCEPT !["phi"] = rec] /\ UNCHANGED passed
        BY <1>0, <3>1, <3>5 DEF TypeOK
      <4>2. rec \in Session /\ Honest(rec, passed["phi"])
        BY <1>0, <3>2 DEF SessionInv, Honest, Session
      <4> HIDE DEF rec
      <4>3. session' \in [Sessions -> Session] /\ SessionInv'
        BY <1>0, <4>1, <4>2, OneSessionChanges
      <4> QED
        BY <1>0, <3>3, <4>1, <4>3 DEF TypeOK
    <3> QED
      BY <3>4, <3>5
  <2> QED
    BY <2>1, <2>2 DEF FinalizeValidates
<1>3. TypeOK'
  BY <1>0, <1>1, <1>2 DEF TypeOK, Phases
<1>4. RecordInv' /\ TurnInv' /\ HandoverInv' /\ AuthorInv'
  BY <1>1, <1>2 DEF IInv, RecordInv, TurnInv, InFlight, HandoverInv, AuthorInv
<1> QED
  BY <1>2, <1>3, <1>4 DEF IInv

(* Auto-finalize decides like any submission.                              *)
LEMMA InvFinalizeEnds ==
  ASSUME IInv, FinalizeSubmits \/ SkipFinalize
  PROVE  IInv'
<1>0. TypeOK /\ SessionInv
  BY DEF IInv
<1>1. /\ phase = "finalizing" /\ phase' = "finalized" /\ auto' \in BOOLEAN
      /\ UNCHANGED <<draft, preload, call, owner, concluded, err, attempted, record, passed>>
  BY <1>0 DEF FinalizeSubmits, SkipFinalize, TypeOK
<1>2. session' \in [Sessions -> Session] /\ SessionInv'
  <2>1. CASE FinalizeSubmits
    <3>1. Decided("phi") \in Session /\ Honest(Decided("phi"), passed["phi"])
      BY <1>0, DecidedIsHonest DEF SessionInv
    <3>2. session' = [session EXCEPT !["phi"] = Decided("phi")] /\ UNCHANGED passed
      BY <2>1 DEF FinalizeSubmits
    <3> QED
      BY <1>0, <3>1, <3>2, OneSessionChanges
  <2>2. CASE SkipFinalize
    BY <1>0, <2>2 DEF SkipFinalize, TypeOK, SessionInv, Honest
  <2> QED
    BY <2>1, <2>2
<1>3. TypeOK'
  BY <1>0, <1>1, <1>2 DEF TypeOK, Phases
<1>4. RecordInv' /\ TurnInv' /\ HandoverInv' /\ AuthorInv'
  BY <1>1 DEF IInv, RecordInv, TurnInv, InFlight, HandoverInv, AuthorInv
<1> QED
  BY <1>2, <1>3, <1>4 DEF IInv

(* The record is what its session holds.                                   *)
LEMMA InvBuildRecord ==
  ASSUME IInv, BuildRecord
  PROVE  IInv'
<1> DEFINE s == IF record.from = "repair" THEN "repair" ELSE "phi"
<1>0. TypeOK /\ s \in Sessions
  BY DEF IInv
<1>1. /\ record' = [valid |-> Accepted(s), effective |-> session[s].effective, from |-> s]
      /\ phase = "finalized" /\ phase' = "done"
      /\ UNCHANGED <<draft, session, preload, call, owner, concluded, err,
                     attempted, auto, passed>>
  BY DEF BuildRecord
<1> HIDE DEF s
<1>2. session[s] \in Session
  BY <1>0 DEF TypeOK
<1>3. TypeOK'
  BY <1>0, <1>1, <1>2 DEF TypeOK, Session, Phases, Accepted
<1>4. RecordInv'
  BY <1>0, <1>1 DEF RecordInv, Accepted
<1>5. SessionInv' /\ TurnInv' /\ HandoverInv' /\ AuthorInv'
  BY <1>1 DEF IInv, SessionInv, Honest, TurnInv, InFlight, HandoverInv, AuthorInv
<1> QED
  BY <1>3, <1>4, <1>5 DEF IInv

-------------------------------------------------------------------------------
(* Every step keeps the invariant.                                         *)
LEMMA InvNext == IInv /\ [Next]_vars => IInv'
<1> SUFFICES ASSUME IInv, [Next]_vars PROVE IInv'
  OBVIOUS
<1>1. ASSUME NEW s \in Sessions, NEW c \in Calls, Send(s, c) \/ Handler(s, c)
      PROVE  IInv'
  BY <1>1, InvSend, InvHarnessShell, InvEdit, InvValidate, InvSubmitOpens,
     InvSubmitDecides DEF Handler
<1>2. ASSUME NEW s \in Sessions, TurnCompletes(s) \/ TurnFails(s)
      PROVE  IInv'
  BY <1>2, InvTurn
<1>3. CASE RunOnce
  BY <1>2, <1>3, InvRepair, InvFinalizeValidates, InvFinalizeEnds, InvBuildRecord
     DEF RunOnce
<1>4. CASE UNCHANGED vars
  BY <1>4 DEF vars, IInv, TypeOK, SessionInv, Honest, RecordInv, HandoverInv, TurnInv,
              InFlight, AuthorInv
<1> QED
  BY <1>1, <1>2, <1>3, <1>4 DEF Next

(* The invariant holds in every reachable state.                           *)
LEMMA Invariance == Spec => []IInv
BY InvInit, InvNext, PTL DEF Spec

-------------------------------------------------------------------------------
(* What a reader should know of.                                           *)

(* Every variable stays in its type; refusals stay within their limit.     *)
THEOREM TypeCorrect == Spec => []TypeOK
<1>1. IInv => TypeOK
  BY DEF IInv
<1> QED
  BY <1>1, Invariance, PTL

(* A slot that counts carries an object its session validated.             *)
THEOREM RecordsAreValidated == Spec => []ValidRecordWasValidated
<1>1. IInv => ValidRecordWasValidated
  BY DEF IInv, RecordInv, SessionInv, Honest, ValidRecordWasValidated
<1> QED
  BY <1>1, Invariance, PTL

(* phi is never credited for what the frozen model edited, unless its turn *)
(* ended in an error.                                                      *)
THEOREM CreditIsTheAuthors == Spec => []CreditFollowsAuthor
<1>1. IInv => CreditFollowsAuthor
  BY DEF IInv, RecordInv, SessionInv, Honest, AuthorInv, CreditFollowsAuthor
<1> QED
  BY <1>1, Invariance, PTL

(* A futile repeat gets through flagged, after the last refusal.           *)
THEOREM RepeatsCarryTheirFlag == Spec => []RepeatsAreFlagged
<1>1. IInv => RepeatsAreFlagged
  BY DEF IInv, RecordInv, SessionInv, Honest, RepeatsAreFlagged
<1> QED
  BY <1>1, Invariance, PTL
===============================================================================
