-------------------------------- MODULE Genome --------------------------------
(***************************************************************************)
(* The H2 genome of one task as it passes from round to round: read from a *)
(* Cordis package (harness_spec.py read_base_spec), edited as files in a   *)
(* workspace (h2_workspace.py), encoded as a partial spec and folded over  *)
(* its base (diff_to_partial, merge_with_base), compiled into the package  *)
(* of the next round (materialize.py) and, at collect, extended by grafted *)
(* components (component_ratchet.py).                                      *)
(*                                                                         *)
(* A text or a number is a field with a few values, Illegal standing for   *)
(* an empty, overlong or out-of-range one.  A component is its name and    *)
(* its body: source code for tools and middlewares, text for skills.  The  *)
(* persona is the names it mentions and the components its headings claim. *)
(* The three core tools that cannot be removed are left out.               *)
(***************************************************************************)
EXTENDS Integers, Sequences, FiniteSets, Functions

CONSTANTS
  Kinds, CodeKinds,    \* component groups, and those whose body is code
  Names, Reserved,     \* component names, those a core component holds
  Cap,                 \* _MAX_NEW_TOOLS and its siblings
  Bodies, Safe,        \* component bodies, and the code the gate passes
  Fields, Values, Illegal,
  Probe,               \* probe_solution, the one removable core tool
  PartOf,              \* <<a, b>>: name a occurs inside the longer name b
  FirstBase,           \* the genome of inner/harness
  RowMenu,             \* the rows a proposer may mount, per kind
  MaxEdits, LastRound, \* bounds; the edits are those of all rounds
  None

Part == [name : Names, body : Bodies]
Persona == [mentions : SUBSET (Names \cup {Probe}),
            claims : SUBSET (Kinds \X Names)]
Optional(S) == {<<>>} \cup {<<s>> : s \in S}
Genomes == [persona : Persona, fields : [Fields -> Values],
            parts : [Kinds -> Seq(Part)], off : Optional(SUBSET {Probe})]

ASSUME GenomeAssumption ==
  /\ CodeKinds \subseteq Kinds /\ Cap \in [Kinds -> Nat]
  /\ Reserved \subseteq Names /\ Safe \subseteq Bodies
  /\ Illegal \in Values /\ None \notin Bodies
  /\ Probe \notin Names /\ PartOf \subseteq Names \X Names
  /\ \A kind \in Kinds : RowMenu[kind] \subseteq
       [name : Names, body : IF kind \in CodeKinds THEN {None} ELSE Bodies]
  /\ FirstBase \in Genomes
  /\ MaxEdits \in Nat /\ LastRound \in Nat

NamesOf(parts) == {p.name : p \in Range(parts)}
Off(g) == UNION Range(g.off)

-------------------------------------------------------------------------------
(* Pure algorithms.                                                        *)

LegalNames(parts) ==
  /\ \A i, j \in DOMAIN parts : parts[i].name = parts[j].name => i = j
  /\ NamesOf(parts) \cap Reserved = {}

(* parse_and_validate: text, numeric and removal fields.                   *)
LegalFields(fields) == \A x \in DOMAIN fields : fields[x] # Illegal

(* parse_and_validate: the generated component groups.                     *)
LegalParts(parts) ==
  \A kind \in Kinds : LegalNames(parts[kind]) /\ Len(parts[kind]) <= Cap[kind]

(* Variant for mutation: made-up components are not looked for.            *)
Named_OneWay(g) ==
  /\ \A kind \in Kinds : NamesOf(g.parts[kind]) \subseteq g.persona.mentions
  /\ Probe \in g.persona.mentions \cup Off(g)

(* Every component must be mentioned by name, none may be made up.         *)
Named(g) ==
  /\ \A kind \in Kinds : NamesOf(g.parts[kind]) \subseteq g.persona.mentions
  /\ Probe \in g.persona.mentions \cup Off(g)
  /\ \A claim \in g.persona.claims : claim[2] \in NamesOf(g.parts[claim[1]])

Gated(g) ==
  \A kind \in CodeKinds : \A p \in Range(g.parts[kind]) : p.body \in Safe

Changed(rows, old) == SelectSeq(rows, LAMBDA p : p \notin Range(old))

DiffToPartial(g, b) ==
  [persona |-> IF g.persona = b.persona THEN <<>> ELSE <<g.persona>>,
   fields |-> [x \in {y \in Fields : g.fields[y] # b.fields[y]} |-> g.fields[x]],
   parts |-> [kind \in Kinds |-> Changed(g.parts[kind], b.parts[kind])],
   gone |-> [kind \in Kinds |-> NamesOf(b.parts[kind]) \ NamesOf(g.parts[kind])],
   off |-> IF Off(g) = Off(b) THEN <<>> ELSE <<Off(g)>>]

(* Variant for mutation: removed components are not named.                 *)
DiffersFromBase_NoRemovals(g, b) ==
  {<<"field", x>> : x \in {y \in Fields : g.fields[y] # b.fields[y]}}
  \cup {c \in Kinds \X Names :
          c[2] \in NamesOf(Changed(g.parts[c[1]], b.parts[c[1]]))}
  \cup (IF g.persona = b.persona THEN {} ELSE {<<"field", "system_prompt">>})
  \cup (IF Off(g) = Off(b) THEN {} ELSE {<<"field", "remove_tools">>})

(* What a candidate is recorded to change: its fields and its components.  *)
DiffersFromBase(g, b) ==
  {<<"field", x>> : x \in {y \in Fields : g.fields[y] # b.fields[y]}}
  \cup {c \in Kinds \X Names :
          c[2] \in NamesOf(Changed(g.parts[c[1]], b.parts[c[1]]))
                   \cup (NamesOf(b.parts[c[1]]) \ NamesOf(g.parts[c[1]]))}
  \cup (IF g.persona = b.persona THEN {} ELSE {<<"field", "system_prompt">>})
  \cup (IF Off(g) = Off(b) THEN {} ELSE {<<"field", "remove_tools">>})

(* generated_component_lineage, without the inherited components.          *)
Lineage(b, g) ==
  {l \in Kinds \X Names \X {"added", "updated", "removed"} :
     LET old == NamesOf(b.parts[l[1]])
         new == NamesOf(g.parts[l[1]])
     IN CASE l[3] = "added" -> l[2] \in new \ old
          [] l[3] = "updated" ->
               l[2] \in old \cap NamesOf(Changed(g.parts[l[1]], b.parts[l[1]]))
          [] l[3] = "removed" -> l[2] \in old \ new}

(* A reused name updates its component in place, a new one is appended.    *)
MergeNamed(inherited, proposed) ==
  LET Update(p) ==
        IF p.name \in NamesOf(proposed)
        THEN CHOOSE q \in Range(proposed) : q.name = p.name ELSE p
  IN [i \in DOMAIN inherited |-> Update(inherited[i])]
     \o SelectSeq(proposed, LAMBDA q : q.name \notin NamesOf(inherited))

MergeWithBase(d, b) ==
  [persona |-> IF d.persona = <<>> THEN b.persona ELSE d.persona[1],
   fields |-> [x \in Fields |->
                 IF x \in DOMAIN d.fields THEN d.fields[x] ELSE b.fields[x]],
   parts |-> [kind \in Kinds |->
                SelectSeq(MergeNamed(b.parts[kind], d.parts[kind]),
                          LAMBDA p : p.name \notin d.gone[kind])],
   off |-> IF d.off = <<>> THEN b.off ELSE d.off]

LegalPartial(d) ==
  /\ LegalFields(d.fields) /\ LegalParts(d.parts)
  /\ \/ d.persona # <<>> \/ d.off # <<>> \/ DOMAIN d.fields # {}
     \/ \E kind \in Kinds : d.parts[kind] # <<>> \/ d.gone[kind] # {}

-------------------------------------------------------------------------------
(* Packages.  A composition is cordis.yml: it mounts components in order,  *)
(* and carries the body of those that are not code; a plugin file carries  *)
(* the body of each.                                                       *)

CordisDocument(g) ==
  [persona |-> g.persona, fields |-> g.fields, disabled |-> Off(g),
   mounts |-> [kind \in Kinds |-> [i \in DOMAIN g.parts[kind] |->
     [name |-> g.parts[kind][i].name,
      body |-> IF kind \in CodeKinds THEN None ELSE g.parts[kind][i].body]]]]

PluginFiles(g) ==
  [file \in Kinds \X Names |->
     IF \E p \in Range(g.parts[file[1]]) : p.name = file[2]
     THEN (CHOOSE p \in Range(g.parts[file[1]]) : p.name = file[2]).body
     ELSE None]

Inventory(g) == [kind \in Kinds |->
  [i \in DOMAIN g.parts[kind] |-> g.parts[kind][i].name]]

Mounted(doc, files) ==
  \A kind \in Kinds : \A row \in Range(doc.mounts[kind]) :
    files[<<kind, row.name>>] # None

(* What read_base_spec recovers from a composition and its plugin files.   *)
Recovered(doc, files) ==
  [persona |-> doc.persona, fields |-> doc.fields,
   parts |-> [kind \in Kinds |-> [i \in DOMAIN doc.mounts[kind] |->
     LET row == doc.mounts[kind][i]
     IN [name |-> row.name, body |-> IF kind \in CodeKinds
           THEN files[<<kind, row.name>>] ELSE row.body]]],
   off |-> IF doc.disabled = {} THEN <<>> ELSE <<doc.disabled>>]

ReadBaseSpec(doc, files) ==
  IF Mounted(doc, files) /\ LegalFields(doc.fields)
       /\ LegalParts(Recovered(doc, files).parts)
  THEN <<Recovered(doc, files)>> ELSE <<>>

(* With provenance: the inventory of meta.json, when it is recorded, and   *)
(* that of component_manifest.json agree with what is mounted.             *)
VerifiedSpec(pkg) ==
  IF pkg.composition = <<>> THEN <<>>
  ELSE LET spec == ReadBaseSpec(pkg.composition[1], pkg.files)
       IN IF /\ spec # <<>>
             /\ pkg.manifest \in {<<>>, <<Inventory(spec[1])>>}
             /\ \A meta \in Range(pkg.meta) : \A kind \in Kinds :
                  meta[kind] \in {<<>>, Inventory(spec[1])[kind]}
          THEN spec ELSE <<>>

EmptyPackage == [files |-> [file \in Kinds \X Names |-> None],
                 composition |-> <<>>, manifest |-> <<>>, meta |-> <<>>]

(* validate_workspace, short of its effects.                               *)
ValidWorkspace(doc, files, b) ==
  /\ ReadBaseSpec(doc, files) # <<>>
  /\ LET raw == Recovered(doc, files)
         partial == DiffToPartial(raw, b)
         effective == MergeWithBase(partial, b)
     IN /\ Gated(raw) /\ Named(raw)
        /\ DiffersFromBase(raw, b) # {}
        /\ LegalPartial(partial)
        /\ effective = raw
        /\ doc = CordisDocument(effective) /\ files = PluginFiles(effective)

(* The package of inner/harness is one its reader and the submission       *)
(* checks accept, and a proposer may mount what it mounts.                 *)
ASSUME FirstBaseAssumption ==
  /\ LegalFields(FirstBase.fields) /\ LegalParts(FirstBase.parts)
  /\ FirstBase.off # <<{}>> /\ Gated(FirstBase) /\ Named(FirstBase)
  /\ \A kind \in Kinds : Range(CordisDocument(FirstBase).mounts[kind]) \subseteq RowMenu[kind]

-------------------------------------------------------------------------------
VARIABLES
  round, phase,
  base,        \* the genome of the round, as read from its package
  doc, files,  \* the workspace: cordis.yml and plugins/*.mjs
  edits, crashes,
  cand,        \* the accepted candidate: <<>>, or its record
  pkg,         \* the candidate package directory
  next,        \* the package next_bases.json names
  promised     \* history: the genome that package was written from

vars == <<round, phase, base, doc, files, edits, crashes, cand, pkg, next, promised>>
workspace == <<doc, files, edits>>

Writing == {"clear", "plugins", "composition", "manifest", "meta"}
Phases == {"edit", "collect", "graft", "adopt"} \cup Writing

Whole(g) == [files |-> PluginFiles(g), composition |-> <<CordisDocument(g)>>,
             manifest |-> <<Inventory(g)>>, meta |-> <<Inventory(g)>>]

Init ==
  /\ round = 0 /\ phase = "edit"
  /\ base = FirstBase
  /\ doc = CordisDocument(FirstBase) /\ files = PluginFiles(FirstBase)
  /\ edits = 0 /\ crashes = 0
  /\ cand = <<>> /\ pkg = EmptyPackage
  /\ next = Whole(FirstBase) /\ promised = FirstBase

(* Editing.  A write of cordis.yml changes one row, one field or the       *)
(* removal of the probe; it may bring the persona in line at once.         *)
InLine(d) ==
  [mentions |-> (UNION {{row.name : row \in Range(d.mounts[kind])} : kind \in Kinds})
                \cup ({Probe} \ d.disabled),
   claims |-> {c \in Kinds \X Names :
                 \E row \in Range(d.mounts[c[1]]) : row.name = c[2]}]

Editing == phase = "edit" /\ edits < MaxEdits /\ edits' = edits + 1
Rest == <<round, phase, base, crashes, cand, pkg, next, promised>>

WriteComposition(d) ==
  /\ Editing
  /\ \E persona \in {doc.persona, InLine(d)} : doc' = [d EXCEPT !.persona = persona]
  /\ UNCHANGED <<files, Rest>>

Mount(kind, rows) == WriteComposition([doc EXCEPT !.mounts[kind] = rows])

EditMounts(kind) ==
  LET rows == doc.mounts[kind]
      Before(i) == SubSeq(rows, 1, i - 1)
      After(i) == SubSeq(rows, i, Len(rows))
  IN \/ \E i \in DOMAIN rows : Mount(kind, Before(i) \o After(i + 1))
     \/ \E i \in 1 .. Len(rows) + 1, row \in RowMenu[kind] :
          Mount(kind, Before(i) \o <<row>> \o After(i))
     \/ \E i \in DOMAIN rows, row \in RowMenu[kind] : Mount(kind, [rows EXCEPT ![i] = row])

EditField(x, v) == WriteComposition([doc EXCEPT !.fields[x] = v])

ToggleProbe == WriteComposition([doc EXCEPT !.disabled = {Probe} \ @])

WritePlugin(file, body) ==
  /\ Editing /\ files' = [files EXCEPT ![file] = body]
  /\ UNCHANGED <<doc, Rest>>

DeletePlugin(file) ==
  /\ Editing /\ files[file] # None /\ files' = [files EXCEPT ![file] = None]
  /\ UNCHANGED <<doc, Rest>>

(* The submission of a valid workspace, recorded with what it changes.     *)
Submit ==
  /\ phase = "edit" /\ ValidWorkspace(doc, files, base)
  /\ LET g == MergeWithBase(DiffToPartial(Recovered(doc, files), base), base)
     IN cand' = <<[genome |-> g, changed |-> DiffersFromBase(g, base),
                   lineage |-> Lineage(base, g)]>>
  /\ phase' = "clear"
  /\ UNCHANGED <<round, base, workspace, crashes, pkg, next, promised>>

NoCandidate ==
  /\ phase = "edit" /\ phase' = "collect"
  /\ UNCHANGED <<round, base, workspace, crashes, cand, pkg, next, promised>>

(* materialize: remove the old tree, then write the package file by file.  *)
Write(step, after, new) ==
  /\ phase = step /\ phase' = after /\ pkg' = new
  /\ UNCHANGED <<round, base, workspace, crashes, cand, next, promised>>

(* Variant for mutation: the old tree is written over.                     *)
RemoveTree_KeepsTree == Write("clear", "plugins", pkg)

RemoveTree == Write("clear", "plugins", EmptyPackage)

WritePlugins ==
  Write("plugins", "composition", [pkg EXCEPT !.files = PluginFiles(cand[1].genome)])

WriteCordisYml ==
  Write("composition", "manifest",
        [pkg EXCEPT !.composition = <<CordisDocument(cand[1].genome)>>])

(* Variant for mutation: the manifest is the base's.                       *)
WriteManifest_OfBase ==
  Write("manifest", "meta", [pkg EXCEPT !.manifest = <<Inventory(base)>>])

WriteManifest ==
  Write("manifest", "meta", [pkg EXCEPT !.manifest = <<Inventory(cand[1].genome)>>])

WriteMeta ==
  Write("meta", "collect", [pkg EXCEPT !.meta = <<Inventory(cand[1].genome)>>])

(* The proposal job dies before round.json names the candidate, and the    *)
(* round is proposed again over the same directories.                      *)
Crash ==
  /\ phase \in Writing /\ crashes = 0 /\ crashes' = 1
  /\ phase' = "edit" /\ cand' = <<>>
  /\ doc' = CordisDocument(base) /\ files' = PluginFiles(base)
  /\ UNCHANGED <<round, base, edits, pkg, next, promised>>

(* Collect keeps the incumbent package or promotes the candidate's.        *)
KeepBase ==
  /\ phase = "collect" /\ phase' = "graft"
  /\ UNCHANGED <<round, base, workspace, crashes, cand, pkg, next, promised>>

Promote ==
  /\ phase = "collect" /\ cand # <<>> /\ phase' = "graft"
  /\ next' = pkg /\ promised' = cand[1].genome
  /\ UNCHANGED <<round, base, workspace, crashes, cand, pkg>>

(* apply_component_ratchet: a component another slot proved is appended to *)
(* the next base, and declared unless its name occurs in the persona.      *)
Declared(g, n) ==
  \E m \in g.persona.mentions : n = m \/ <<n, m>> \in PartOf

(* Variant for mutation: the claim's two parts change places.              *)
GraftInto_Swapped(g, kind, p) ==
  [g EXCEPT !.parts[kind] = Append(@, p),
            !.persona = [mentions |-> @.mentions \cup {p.name},
                         claims |-> @.claims \cup {<<p.name, kind>>}]]

GraftInto(g, kind, p) ==
  [g EXCEPT !.parts[kind] = Append(@, p),
            !.persona = IF Declared(g, p.name) THEN @
                        ELSE [mentions |-> @.mentions \cup {p.name},
                              claims |-> @.claims \cup {<<kind, p.name>>}]]

Graft(kind, p) ==
  /\ phase = "graft" /\ VerifiedSpec(next) # <<>>
  /\ p.name \notin Reserved /\ (kind \in CodeKinds => p.body \in Safe)
  /\ LET g == VerifiedSpec(next)[1]
     IN /\ p.name \notin NamesOf(g.parts[kind]) /\ Len(g.parts[kind]) < Cap[kind]
        /\ promised' = GraftInto(g, kind, p)
        /\ next' = Whole(GraftInto(g, kind, p))
  /\ phase' = "adopt"
  /\ UNCHANGED <<round, base, workspace, crashes, cand, pkg>>

NoGraft ==
  /\ phase = "graft" /\ phase' = "adopt"
  /\ UNCHANGED <<round, base, workspace, crashes, cand, pkg, next, promised>>

(* The next round reads its base and opens a workspace on a copy of it.    *)
NextRound ==
  /\ phase = "adopt" /\ round < LastRound /\ VerifiedSpec(next) # <<>>
  /\ round' = round + 1 /\ phase' = "edit"
  /\ base' = VerifiedSpec(next)[1]
  /\ doc' = next.composition[1] /\ files' = next.files
  /\ cand' = <<>> /\ pkg' = EmptyPackage
  /\ UNCHANGED <<edits, crashes, next, promised>>

Done ==
  /\ phase = "adopt" /\ round = LastRound
  /\ UNCHANGED vars

Edit ==
  \/ \E kind \in Kinds : EditMounts(kind)
  \/ \E x \in Fields, v \in Values : EditField(x, v)
  \/ ToggleProbe
  \/ \E file \in Kinds \X Names :
       /\ \E row \in RowMenu[file[1]] : row.name = file[2]
       /\ DeletePlugin(file) \/ \E body \in Bodies : WritePlugin(file, body)

Materialize ==
  RemoveTree \/ WritePlugins \/ WriteCordisYml \/ WriteManifest \/ WriteMeta

Collect ==
  \/ KeepBase \/ Promote \/ NoGraft
  \/ \E kind \in Kinds, p \in Part :
       /\ \E row \in RowMenu[kind] : row.name = p.name /\ row.body \in {None, p.body}
       /\ Graft(kind, p)

Next == Edit \/ Submit \/ NoCandidate \/ Materialize \/ Crash \/ Collect
        \/ NextRound \/ Done

Spec == Init /\ [][Next]_vars

-------------------------------------------------------------------------------
(* The variables have their types: a workspace may hold any composition,   *)
(* and the genome of a round is one the encoding can express.              *)
TypeOK ==
  /\ round \in 0..LastRound /\ phase \in Phases
  /\ \A g \in {base, promised} \cup {c.genome : c \in Range(cand)} :
       /\ g.persona \in Persona /\ g.fields \in [Fields -> Values]
       /\ \A kind \in Kinds : Range(g.parts[kind]) \subseteq Part
       /\ Off(g) \subseteq {Probe}
  /\ doc.persona \in Persona /\ doc.fields \in [Fields -> Values]
  /\ \A kind \in Kinds : Range(doc.mounts[kind]) \subseteq RowMenu[kind]
  /\ files \in [Kinds \X Names -> Bodies \cup {None}]
  /\ edits \in 0..MaxEdits /\ crashes \in 0..1 /\ Len(cand) <= 1

(* A promoted or grafted package reads back, provenance verified, as the   *)
(* genome it was written from: encoding it as a partial spec, folding that *)
(* over the base and compiling it lose, reorder and invent nothing.        *)
BaseIsPromised == phase = "adopt" => VerifiedSpec(next) = <<promised>>

(* Whatever was submitted, grafted or lost in a crash on the way, the      *)
(* genome of a round stays within the caps, holds only gated code, and its *)
(* persona claims no component that is not mounted and mentions every one  *)
(* that is, if only inside the longer name of another: a graft asks for no *)
(* more.                                                                   *)
BaseIsSound ==
  /\ \A kind \in Kinds :
       /\ Len(base.parts[kind]) <= Cap[kind]
       /\ Cardinality(NamesOf(base.parts[kind])) = Len(base.parts[kind])
       /\ \A n \in NamesOf(base.parts[kind]) :
            n \notin base.persona.mentions =>
              \E m \in base.persona.mentions : <<n, m>> \in PartOf
       /\ kind \in CodeKinds => \A p \in Range(base.parts[kind]) : p.body \in Safe
  /\ \A claim \in base.persona.claims :
       \E p \in Range(base.parts[claim[1]]) : p.name = claim[2]
  /\ Probe \in base.persona.mentions \cup Off(base)

(* BROKEN by the code: the persona of a base names its components as a     *)
(* submission must.  A grafted component whose name is part of another is  *)
(* mounted and never named.                                                *)
BaseNamesItsParts ==
  \A kind \in Kinds : NamesOf(base.parts[kind]) \subseteq base.persona.mentions

(* The recorded change explains the candidate: a component or field that   *)
(* changed_fields does not name is inherited as it was, in its place, and  *)
(* the lineage labels exactly the components it names.  Component credit   *)
(* and the ratchet read nothing else.                                      *)
RecordExplainsCandidate ==
  \A c \in Range(cand) :
    /\ \A kind \in Kinds :
         LET Kept(parts) == SelectSeq(parts, LAMBDA p : <<kind, p.name>> \notin c.changed)
         IN Kept(c.genome.parts[kind]) = Kept(base.parts[kind])
    /\ \A x \in Fields :
         <<"field", x>> \in c.changed <=> c.genome.fields[x] # base.fields[x]
    /\ {<<l[1], l[2]>> : l \in c.lineage} = c.changed \cap (Kinds \X Names)
    /\ Cardinality({<<l[1], l[2]>> : l \in c.lineage}) = Cardinality(c.lineage)

(* At every step of writing a candidate package, also over the remains of  *)
(* an interrupted proposal, what can be read there with its provenance     *)
(* verified is the accepted genome or nothing.                             *)
ReadableIsWhole ==
  phase \in Writing \ {"clear"} =>
    VerifiedSpec(pkg) \in {<<>>, <<cand[1].genome>>}

(* docs: probe_solution is optional and the diff is a complete encoding,   *)
(* so a workspace that only mounts it again is a valid candidate.          *)
ProbeCanReturn ==
  phase = "edit" /\ Off(base) = {Probe} =>
    LET g == [base EXCEPT !.off = <<>>,
                          !.persona.mentions = @ \cup {Probe}]
    IN ValidWorkspace(CordisDocument(g), PluginFiles(g), base)
=============================================================================
