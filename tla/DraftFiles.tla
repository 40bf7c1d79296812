------------------------------ MODULE DraftFiles -------------------------------
(***************************************************************************)
(* The files of one proposer's draft and the session that guards them      *)
(* (src/outer/workspace/propose_session.py, h2_workspace.py): what must    *)
(* have been read before it may be changed, what validation reads back     *)
(* from the files, and which valid drafts a slot's mandate refuses.        *)
(* ProposeSlot has the same session beside its repair, with drafts as      *)
(* opaque contents; here it has one session, and its drafts have files.    *)
(*                                                                         *)
(* A plugin's text is one of Bodies.  The composition in cordis.yml is the *)
(* plugins it mounts, whether it moves a runtime parameter, and what its   *)
(* persona is; a persona is faithful when it names what is mounted.        *)
(***************************************************************************)
EXTENDS Missing, Sequences

CONSTANTS
  Plugins,    \* names under plugins/
  KindOf,     \* a plugin is a "tool", a "skill" or a "middleware"
  Parent,     \* the plugins the parent package mounts
  Starter,    \* the free plugin name each kind of scaffold is seeded under
  Mandates,   \* the slots: [kind, forced, preload]
  Overlong,   \* paths render_workspace cannot show whole
  Futile,     \* signatures with no paired effect in earlier rounds
  MaxEdits,   \* edits of a session: a bound
  Absent, Unreadable

Composed == "cordis.yml"
Paths == Plugins \cup {Composed}

ASSUME DraftAssumption ==
  /\ Composed \notin Plugins
  /\ KindOf \in [Plugins -> {"tool", "skill", "middleware"}]
  /\ Parent \subseteq Plugins
  /\ Starter \in [{"tool", "middleware"} -> Plugins \ Parent]
  /\ \A kind \in DOMAIN Starter : KindOf[Starter[kind]] = kind
  /\ Mandates \subseteq
       [kind : {"", "tool", "skill", "middleware", "params"},
        forced : BOOLEAN, preload : BOOLEAN]
  /\ \A slot \in Mandates : slot.forced => slot.kind = ""
  /\ Overlong \subseteq Paths
  /\ MaxEdits \in Nat

(* "placeholder" is any text that still holds the scaffold's marker.       *)
Bodies == {"parent", "placeholder", "sound", "broken"}
Personas == {"parent", "faithful", "unfaithful", "over"}
Composition == [mounts : SUBSET Plugins, tuned : BOOLEAN, persona : Personas]
               \cup {Unreadable}
File == [Plugins -> Bodies \cup {Absent}]
DraftRefusals == 2

VARIABLES
  slot,         \* component_kind, require_new_tool, SAH_H1_PRELOAD
  composition,  \* cordis.yml
  body,         \* plugins/*.mjs
  inspected,    \* inspected_files; cordis_yml_inspected is that it holds that one
  revision, validated_revision, check,
  refusals, flagged,
  submitted, errors, effective,
  known         \* history: files whose present text the session has had in full

sessionVars == <<inspected, revision, validated_revision, check, refusals,
                 flagged, submitted, errors, effective>>
draftVars == <<slot, composition, body, sessionVars, known>>

Files == {Composed} \cup {p \in Plugins : body[p] # Absent}

-----------------------------------------------------------------------------
(* The draft a slot starts from: the parent's package, with a scaffold for *)
(* a tool or a middleware to be filled in, or a working tool where a tool  *)
(* is required.                                                            *)

ToolText(useful) == IF useful THEN "sound" ELSE "placeholder"

Seeded(kind, text, draft) ==
  LET p == Starter[kind] IN
  [composition |-> [draft.composition EXCEPT !.mounts = @ \cup {p},
                                             !.persona = "faithful"],
   body |-> [draft.body EXCEPT ![p] = text]]

ParentDraft ==
  [composition |-> [mounts |-> Parent, tuned |-> FALSE, persona |-> "parent"],
   body |-> [p \in Plugins |-> IF p \in Parent THEN "parent" ELSE Absent]]

SeedTool(useful, draft) == Seeded("tool", ToolText(useful), draft)
SeedMiddleware(draft) == Seeded("middleware", "placeholder", draft)

SeededDraft(s) ==
  CASE s.kind = "tool" -> SeedTool(FALSE, ParentDraft)
    [] s.kind = "middleware" -> SeedMiddleware(ParentDraft)
    [] s.forced -> SeedTool(TRUE, ParentDraft)
    [] OTHER -> ParentDraft

(* Every file is listed as rendered, those that were cut or left out too.  *)
Rendered == [marked |-> Files, whole |-> Files \ Overlong]

DraftInit ==
  /\ slot \in Mandates
  /\ composition = SeededDraft(slot).composition
  /\ body = SeededDraft(slot).body
  /\ inspected = IF slot.preload THEN Rendered.marked ELSE {}
  /\ known = IF slot.preload THEN Rendered.whole ELSE {}
  /\ revision = 0 /\ validated_revision = None /\ check = None
  /\ refusals = 0 /\ flagged = FALSE
  /\ submitted = FALSE /\ errors = FALSE /\ effective = None

-----------------------------------------------------------------------------
(* harness_shell.  Only cat shows a text; a path that does not exist is an *)
(* error and marks nothing, and cordis.yml must be the first one read.     *)

Shown(op, p) == IF op = "cat" THEN {p} \cap Files ELSE {}

(* Variant for mutation: naming a file in any command counts as reading it.*)
InspectHarness_Listed(op, p) ==
  /\ Composed \in inspected \/ <<op, p>> = <<"cat", Composed>>
  /\ inspected' = inspected \cup ({p} \cap Files)
  /\ known' = known \cup Shown(op, p)
  /\ UNCHANGED <<slot, composition, body, revision, validated_revision, check,
                 refusals, flagged, submitted, errors, effective>>

InspectHarness(op, p) ==
  /\ Composed \in inspected \/ <<op, p>> = <<"cat", Composed>>
  /\ inspected' = inspected \cup Shown(op, p)
  /\ known' = known \cup Shown(op, p)
  /\ UNCHANGED <<slot, composition, body, revision, validated_revision, check,
                 refusals, flagged, submitted, errors, effective>>

-----------------------------------------------------------------------------
(* Changing a file.  A refused or failed call changes nothing.             *)

MayChange(p) ==
  /\ Composed \in inspected
  /\ p \in Files => p \in inspected

(* A persona over the cap is refused unless the path is spelled another    *)
(* way than "cordis.yml", and a text that does not parse is let through.   *)
WithinCap(c, spelled) ==
  spelled = Composed /\ c # Unreadable => c.persona # "over"

RecordMutation ==
  /\ revision' = revision + 1
  /\ validated_revision' = None /\ check' = None

AsBefore == UNCHANGED <<slot, inspected, refusals, flagged, submitted, errors,
                        effective>>

WriteComposition(c, spelled) ==
  /\ MayChange(Composed) /\ WithinCap(c, spelled)
  /\ composition' = c /\ UNCHANGED body
  /\ known' = known \cup {Composed}
  /\ RecordMutation /\ AsBefore

WritePlugin(p, text) ==
  /\ MayChange(p)
  /\ body' = [body EXCEPT ![p] = text] /\ UNCHANGED composition
  /\ known' = known \cup {p}
  /\ RecordMutation /\ AsBefore

(* One replacement or an append: the rest of the text stays as unread as   *)
(* it was.                                                                 *)
EditComposition(c, spelled) ==
  /\ MayChange(Composed) /\ WithinCap(c, spelled)
  /\ composition' = c /\ UNCHANGED <<body, known>>
  /\ RecordMutation /\ AsBefore

EditPlugin(p, text) ==
  /\ MayChange(p) /\ p \in Files
  /\ body' = [body EXCEPT ![p] = text] /\ UNCHANGED <<composition, known>>
  /\ RecordMutation /\ AsBefore

DeletePlugin(p) ==
  /\ MayChange(p) /\ p \in Files
  /\ body' = [body EXCEPT ![p] = Absent] /\ UNCHANGED composition
  /\ known' = known \ {p}
  /\ RecordMutation /\ AsBefore

-----------------------------------------------------------------------------
(* validate_harness: what the files declare, against the parent.           *)

Changes(c, b) ==
  {<<KindOf[p], p>> : p \in {q \in c.mounts : q \notin Parent \/ b[q] # "parent"}}
  \cup {<<KindOf[p], p, "removed">> : p \in Parent \ c.mounts}
  \cup (IF c.tuned THEN {<<"params">>} ELSE {})
  \cup (IF c.persona # "parent" THEN {<<"system_prompt">>} ELSE {})

(* Every plugin mounted and nothing else lies under plugins/, each passes  *)
(* its gate, and the persona names them all.                               *)
Coherent(c, b) ==
  /\ c # Unreadable
  /\ c.mounts = {p \in Plugins : b[p] # Absent}
  /\ \A p \in c.mounts : b[p] # "broken"
  /\ c.persona = "faithful" \/ (c.persona = "parent" /\ c.mounts = Parent)

ContractKept(c) ==
  slot.forced => \E p \in c.mounts \ Parent : KindOf[p] = "tool"

ValidWorkspace ==
  /\ Coherent(composition, body)
  /\ Changes(composition, body) # {}
  /\ ContractKept(composition)

ValidateDraft ==
  /\ Composed \in inspected /\ ValidWorkspace
  /\ validated_revision' = revision
  /\ check' = [changes |-> Changes(composition, body), body |-> body]
  /\ UNCHANGED <<slot, composition, body, inspected, revision, refusals, flagged,
                 submitted, errors, effective, known>>

-----------------------------------------------------------------------------
(* submit_harness: the mandate of the slot, on the validated object.       *)

UnchangedStarters == {p \in Plugins : body[p] = "placeholder"}

(* Without the persona and the components that are still scaffolding.      *)
Signature(changes) ==
  {ch \in changes \ {<<"system_prompt">>} :
     \A p \in UnchangedStarters : ch # <<KindOf[p], p>>}

OfKind(kind, changes) == {ch \in changes : ch[1] = kind}

ParamsMissing(changes) ==
  slot.kind = "params" /\ OfKind("params", changes) = {}

OutOfScope(changes) ==
  /\ slot.kind \in {"tool", "skill", "middleware"}
  /\ \/ OfKind(slot.kind, changes) = {}
     \/ changes \ OfKind(slot.kind, changes) \notin {{}, {<<"system_prompt">>}}

(* Variant for mutation: only a draft without any component is empty.      *)
NoComponent_Scaffold(changes) ==
  slot.kind # "" /\ changes \subseteq {<<"system_prompt">>}

NoComponent(changes) ==
  /\ slot.kind # "" \/ (slot.forced /\ UnchangedStarters # {})
  /\ Signature(changes) = {}

Repeated(changes) == \E f \in Futile : f \subseteq Signature(changes)

Refused(changes) ==
  /\ refusals < DraftRefusals
  /\ ParamsMissing(changes) \/ OutOfScope(changes) \/ NoComponent(changes)
       \/ Repeated(changes)

Answered(is_submitted, has_errors) ==
  /\ submitted' = is_submitted /\ errors' = has_errors
  /\ UNCHANGED <<slot, composition, body, inspected, revision, validated_revision,
                 check, known>>

SubmitStale ==
  /\ validated_revision # revision \/ check = None
  /\ Answered(TRUE, TRUE)
  /\ UNCHANGED <<refusals, flagged, effective>>

SubmitRefused ==
  /\ validated_revision = revision /\ check # None
  /\ Refused(check.changes)
  /\ refusals' = refusals + 1
  /\ Answered(FALSE, FALSE)
  /\ UNCHANGED <<flagged, effective>>

SubmitAccepted ==
  /\ validated_revision = revision /\ check # None
  /\ ~Refused(check.changes)
  /\ effective' = check
  /\ flagged' = (flagged \/ Repeated(check.changes))
  /\ Answered(TRUE, FALSE)
  /\ UNCHANGED refusals

Change ==
  \/ \E c \in Composition, spelled \in {Composed, "./cordis.yml"} :
       WriteComposition(c, spelled) \/ EditComposition(c, spelled)
  \/ \E p \in Plugins, text \in Bodies :
       WritePlugin(p, text) \/ EditPlugin(p, text)
  \/ \E p \in Plugins : DeletePlugin(p)

DraftNext ==
  \/ \E op \in {"cat", "ls"}, p \in Paths : InspectHarness(op, p)
  \/ revision < MaxEdits /\ Change
  \/ ValidateDraft
  \/ SubmitStale \/ SubmitRefused \/ SubmitAccepted

DraftSpec == DraftInit /\ [][DraftNext]_draftVars

-----------------------------------------------------------------------------
(* One type invariant, then what the session is for.                       *)

DraftTypeOK ==
  /\ slot \in Mandates
  /\ composition \in Composition /\ body \in File
  /\ inspected \subseteq Paths /\ known \subseteq Paths
  /\ revision \in 0 .. MaxEdits /\ validated_revision \in Nat \cup {None}
  /\ refusals \in 0 .. DraftRefusals
  /\ flagged \in BOOLEAN /\ submitted \in BOOLEAN /\ errors \in BOOLEAN

(* "Read-before-edit ... no blind edits": a text is changed only by a      *)
(* session that has had all of it, by a cat, in its first message or from  *)
(* its own writing; the one exception is a file the first message lists    *)
(* but could not hold, which is marked as read with the rest.              *)
NoBlindEdits ==
  [][/\ composition' # composition =>
          Composed \in known \/ (slot.preload /\ Composed \in Overlong)
     /\ \A p \in Plugins : body[p] # Absent /\ body'[p] # body[p] =>
          p \in known \/ (slot.preload /\ p \in Overlong)]_draftVars

(* "component-only": while a refusal is left, what a component slot gets   *)
(* accepted moves its own kind of component and the persona alone, and at  *)
(* least one plugin of it is not the scaffold it was given; a parameters   *)
(* slot has moved a parameter.  What was accepted is judged, not the files *)
(* as a later call of the same step may leave them.                        *)
HeldToItsMandate ==
  submitted /\ ~errors /\ effective # None /\ refusals < DraftRefusals =>
    LET changes == effective.changes IN
    /\ slot.kind \in {"tool", "skill", "middleware"} =>
         /\ changes \subseteq OfKind(slot.kind, changes) \cup {<<"system_prompt">>}
         /\ \E ch \in OfKind(slot.kind, changes) :
              Len(ch) = 3 \/ effective.body[ch[2]] # "placeholder"
    /\ slot.kind = "params" => <<"params">> \in changes
    /\ slot.forced => \E ch \in OfKind("tool", changes) : ch[2] \notin Parent
===============================================================================
