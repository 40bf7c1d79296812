----------------------------- MODULE GenomeProofs -----------------------------
(***************************************************************************)
(* Proofs about Genome: a package reads back as the genome it was written  *)
(* from, whatever is edited, killed, promoted or grafted, for any kinds,   *)
(* names, caps, bodies, fields and number of rounds.                       *)
(***************************************************************************)
EXTENDS Genome, FiniteSetTheorems, SequenceTheorems, TLAPS

-------------------------------------------------------------------------------
(* Encoding and decoding.                                                  *)

Row == [name : Names, body : Bodies \cup {None}]

Compositions ==
  [persona : Persona, fields : [Fields -> Values], disabled : SUBSET {Probe},
   mounts : [Kinds -> Seq(Row)]]

Mountable(d) == \A kind \in Kinds : d.mounts[kind] \in Seq(RowMenu[kind])

PluginTree == [Kinds \X Names -> Bodies \cup {None}]

RowOf(kind, p) == [name |-> p.name, body |-> IF kind \in CodeKinds THEN None ELSE p.body]

(* A genome the encoding can express, and whose components the gate passes.*)
Encodable(g) ==
  /\ g \in Genomes /\ g.off # <<{}>>
  /\ LegalFields(g.fields) /\ LegalParts(g.parts) /\ Gated(g)
  /\ \A kind \in Kinds : \A p \in Range(g.parts[kind]) : RowOf(kind, p) \in RowMenu[kind]

(* What is assumed of the constants, in the form the provers use.          *)
LEMMA Given ==
  /\ CodeKinds \subseteq Kinds /\ Cap \in [Kinds -> Nat]
  /\ Reserved \subseteq Names /\ Safe \subseteq Bodies
  /\ None \notin Bodies /\ Probe \notin Names
  /\ MaxEdits \in Nat /\ LastRound \in Nat
BY GenomeAssumption

(* A function on an initial segment is a sequence.                         *)
LEMMA FunctionIsSeq ==
  ASSUME NEW S, NEW n \in Nat, NEW f \in [1 .. n -> S]
  PROVE  f \in Seq(S)
OBVIOUS

(* So is one element.                                                      *)
LEMMA OneIsSeq ==
  ASSUME NEW S, NEW r \in S
  PROVE  <<r>> \in Seq(S)
<1>1. <<r>> \in [1 .. 1 -> S]
  OBVIOUS
<1> QED BY <1>1, FunctionIsSeq

(* A row of the menu names a component, and its body is there exactly when *)
(* the component is not code.                                              *)
LEMMA MenuRow ==
  ASSUME NEW kind \in Kinds, NEW row \in RowMenu[kind]
  PROVE  /\ row.name \in Names /\ row = [name |-> row.name, body |-> row.body]
         /\ kind \in CodeKinds => row.body = None
         /\ kind \notin CodeKinds => row.body \in Bodies
<1>1. row \in [name : Names, body : IF kind \in CodeKinds THEN {None} ELSE Bodies]
  BY GenomeAssumption
<1> QED BY <1>1

(* The components of a genome are a sequence, and no two share a name.     *)
LEMMA PartsOf ==
  ASSUME NEW g, g \in Genomes, LegalParts(g.parts), NEW kind \in Kinds
  PROVE  /\ g.parts[kind] \in Seq(Part) /\ DOMAIN g.parts[kind] = 1 .. Len(g.parts[kind])
         /\ \A i \in DOMAIN g.parts[kind] : g.parts[kind][i] \in Part
         /\ \A p, q \in Range(g.parts[kind]) : p.name = q.name => p = q
         /\ Range(g.parts[kind]) \subseteq Part
<1>1. g.parts[kind] \in Seq(Part)
  BY DEF Genomes
<1>2. DOMAIN g.parts[kind] = 1 .. Len(g.parts[kind])
      /\ \A i \in DOMAIN g.parts[kind] : g.parts[kind][i] \in Part
  BY <1>1, LenProperties, ElementOfSeq
<1>3. \A i, j \in DOMAIN g.parts[kind] : g.parts[kind][i].name = g.parts[kind][j].name => i = j
  BY DEF LegalParts, LegalNames
<1> QED BY <1>1, <1>2, <1>3 DEF Range

(* The plugin file of a component holds its body.                          *)
LEMMA FileHoldsBody ==
  ASSUME NEW g, g \in Genomes, LegalParts(g.parts), NEW kind \in Kinds,
         NEW p \in Range(g.parts[kind])
  PROVE  p.name \in Names /\ p.body \in Bodies /\ PluginFiles(g)[<<kind, p.name>>] = p.body
<1>1. p \in Part /\ \A q \in Range(g.parts[kind]) : q.name = p.name => q = p
  BY PartsOf
<1>2. p.name \in Names /\ p.body \in Bodies
  BY <1>1 DEF Part
<1>3. (CHOOSE q \in Range(g.parts[kind]) : q.name = p.name) = p
  BY <1>1
<1>4. <<kind, p.name>> \in Kinds \X Names
  BY <1>2
<1>5. PluginFiles(g)[<<kind, p.name>>]
      = IF \E q \in Range(g.parts[kind]) : q.name = p.name
        THEN (CHOOSE q \in Range(g.parts[kind]) : q.name = p.name).body ELSE None
  BY <1>4 DEF PluginFiles
<1> QED BY <1>2, <1>3, <1>5

(* What a composition disables is what the genome removes.                 *)
LEMMA DisabledIsOff ==
  ASSUME NEW g, g \in Genomes, g.off # <<{}>>
  PROVE  /\ Off(g) \in SUBSET {Probe}
         /\ g.off = IF Off(g) = {} THEN <<>> ELSE <<Off(g)>>
<1>1. g.off \in Optional(SUBSET {Probe})
  BY DEF Genomes
<1>2. CASE g.off = <<>>
  <2>1. Range(g.off) = {}
    BY <1>2 DEF Range
  <2> QED BY <1>2, <2>1 DEF Off
<1>3. CASE g.off # <<>>
  <2>1. PICK s \in SUBSET {Probe} : g.off = <<s>>
    BY <1>1, <1>3 DEF Optional
  <2>2. Range(g.off) = {s}
    BY <2>1 DEF Range
  <2>3. Off(g) = s /\ s # {}
    BY <2>1, <2>2 DEF Off
  <2> QED BY <2>1, <2>3
<1> QED BY <1>2, <1>3

(* Decoding an encoded genome gives that genome: nothing is lost, nothing  *)
(* changes its place.                                                      *)
LEMMA RoundTrip ==
  ASSUME NEW g, g \in Genomes, LegalParts(g.parts), g.off # <<{}>>
  PROVE  Recovered(CordisDocument(g), PluginFiles(g)) = g
<1> DEFINE d == CordisDocument(g)
           f == PluginFiles(g)
           r == Recovered(d, f)
<1>1. /\ d.persona = g.persona /\ d.fields = g.fields /\ d.disabled = Off(g)
      /\ d.mounts = [kind \in Kinds |-> [i \in DOMAIN g.parts[kind] |->
                       [name |-> g.parts[kind][i].name,
                        body |-> IF kind \in CodeKinds THEN None ELSE g.parts[kind][i].body]]]
  BY DEF CordisDocument
<1>2. ASSUME NEW kind \in Kinds, NEW i \in DOMAIN g.parts[kind]
      PROVE  [name |-> d.mounts[kind][i].name,
              body |-> IF kind \in CodeKinds THEN f[<<kind, d.mounts[kind][i].name>>]
                       ELSE d.mounts[kind][i].body] = g.parts[kind][i]
  <2>1. PICK p : p = g.parts[kind][i]
    OBVIOUS
  <2>2. p \in Range(g.parts[kind]) /\ p \in Part
    BY <2>1, PartsOf DEF Range
  <2>3. d.mounts[kind][i] = RowOf(kind, p)
    BY <1>1, <2>1 DEF RowOf
  <2>4. f[<<kind, p.name>>] = p.body
    BY <2>2, FileHoldsBody
  <2>5. p = [name |-> p.name, body |-> p.body]
    BY <2>2 DEF Part
  <2> HIDE DEF d, f
  <2> QED BY <2>1, <2>3, <2>4, <2>5 DEF RowOf
<1>3. \A kind \in Kinds : DOMAIN d.mounts[kind] = DOMAIN g.parts[kind]
  BY <1>1
<1>4. r.persona = g.persona /\ r.fields = g.fields /\ r.off = g.off
  BY <1>1, DisabledIsOff DEF Recovered
<1>5. r.parts = [kind \in Kinds |-> [i \in DOMAIN d.mounts[kind] |->
        [name |-> d.mounts[kind][i].name,
         body |-> IF kind \in CodeKinds THEN f[<<kind, d.mounts[kind][i].name>>]
                  ELSE d.mounts[kind][i].body]]]
  BY DEF Recovered
<1>6. r = [persona |-> r.persona, fields |-> r.fields, parts |-> r.parts, off |-> r.off]
  BY DEF Recovered
<1>7. g = [persona |-> g.persona, fields |-> g.fields, parts |-> g.parts, off |-> g.off]
  BY DEF Genomes
<1>8. g.parts = [kind \in Kinds |-> [i \in DOMAIN g.parts[kind] |-> g.parts[kind][i]]]
  <2>1. g.parts = [kind \in Kinds |-> g.parts[kind]]
    BY DEF Genomes
  <2>2. ASSUME NEW kind \in Kinds
        PROVE  g.parts[kind] = [i \in DOMAIN g.parts[kind] |-> g.parts[kind][i]]
    BY PartsOf, LenProperties
  <2> QED BY <2>1, <2>2
<1>9. r.parts = g.parts
  <2> HIDE DEF d, f, r
  <2> QED BY <1>2, <1>3, <1>5, <1>8
<1> HIDE DEF r
<1>10. r = g
  BY <1>4, <1>6, <1>7, <1>9
<1> QED BY <1>10 DEF r

(* A rendered genome reads back as that genome.                            *)
LEMMA ReadsBack ==
  ASSUME NEW g, Encodable(g)
  PROVE  ReadBaseSpec(CordisDocument(g), PluginFiles(g)) = <<g>>
<1> DEFINE d == CordisDocument(g)
           f == PluginFiles(g)
<1>1. g \in Genomes /\ LegalParts(g.parts) /\ LegalFields(g.fields) /\ g.off # <<{}>>
  BY DEF Encodable
<1>2. Recovered(d, f) = g
  BY <1>1, RoundTrip
<1>3. d.fields = g.fields
  BY DEF CordisDocument
<1>4. Mounted(d, f)
  <2>1. SUFFICES ASSUME NEW kind \in Kinds, NEW row \in Range(d.mounts[kind])
                 PROVE  f[<<kind, row.name>>] # None
    BY DEF Mounted
  <2>2. PICK i \in DOMAIN g.parts[kind] : row = RowOf(kind, g.parts[kind][i])
    BY DEF Range, CordisDocument, RowOf
  <2>3. g.parts[kind][i] \in Range(g.parts[kind])
    BY DEF Range
  <2>4. f[<<kind, row.name>>] \in Bodies
    BY <1>1, <2>2, <2>3, FileHoldsBody DEF RowOf
  <2> QED BY <2>4, Given
<1> HIDE DEF d, f
<1>5. ReadBaseSpec(d, f) = <<g>>
  BY <1>1, <1>2, <1>3, <1>4 DEF ReadBaseSpec
<1> QED BY <1>5 DEF d, f

(* So does a package, before and after its inventories are written.        *)
LEMMA PackageReadsBack ==
  ASSUME NEW g, Encodable(g), NEW p, p.composition = <<CordisDocument(g)>>,
         p.files = PluginFiles(g), p.manifest \in {<<>>, <<Inventory(g)>>},
         p.meta \in {<<>>, <<Inventory(g)>>}
  PROVE  VerifiedSpec(p) = <<g>>
<1>1. p.composition # <<>> /\ p.composition[1] = CordisDocument(g)
  OBVIOUS
<1>2. ReadBaseSpec(p.composition[1], p.files) = <<g>>
  BY <1>1, ReadsBack
<1>3. ASSUME NEW m \in Range(p.meta), NEW kind \in Kinds
      PROVE  m[kind] \in {<<>>, Inventory(g)[kind]}
  <2>1. p.meta = <<Inventory(g)>> /\ m = Inventory(g)
    BY DEF Range
  <2> QED BY <2>1
<1>4. <<g>> # <<>> /\ <<g>>[1] = g
  OBVIOUS
<1> QED BY <1>1, <1>2, <1>3, <1>4 DEF VerifiedSpec

(* A workspace opened on a genome can be edited.                           *)
LEMMA RenderedType ==
  ASSUME NEW g, Encodable(g)
  PROVE  /\ CordisDocument(g) \in Compositions /\ Mountable(CordisDocument(g))
         /\ PluginFiles(g) \in PluginTree
<1> DEFINE d == CordisDocument(g)
<1>1. g \in Genomes /\ LegalParts(g.parts) /\ g.off # <<{}>>
  BY DEF Encodable
<1>2. d = [persona |-> g.persona, fields |-> g.fields, disabled |-> Off(g),
           mounts |-> [kind \in Kinds |-> [i \in DOMAIN g.parts[kind] |->
                         RowOf(kind, g.parts[kind][i])]]]
  BY DEF CordisDocument, RowOf
<1>3. ASSUME NEW kind \in Kinds
      PROVE  d.mounts[kind] \in Seq(RowMenu[kind]) /\ d.mounts[kind] \in Seq(Row)
  <2>1. Len(g.parts[kind]) \in Nat /\ DOMAIN g.parts[kind] = 1 .. Len(g.parts[kind])
    BY <1>1, PartsOf, LenProperties
  <2>2. \A i \in DOMAIN g.parts[kind] : RowOf(kind, g.parts[kind][i]) \in RowMenu[kind]
    BY DEF Encodable, Range
  <2>3. RowMenu[kind] \subseteq Row
    BY MenuRow DEF Row
  <2>4. d.mounts[kind] \in [1 .. Len(g.parts[kind]) -> RowMenu[kind]]
    BY <1>2, <2>1, <2>2
  <2>5. d.mounts[kind] \in Seq(RowMenu[kind])
    BY <2>1, <2>4, FunctionIsSeq
  <2> QED BY <2>3, <2>5, SeqMonotonic
<1>4. d.mounts \in [Kinds -> Seq(Row)]
  <2>1. d.mounts = [kind \in Kinds |-> d.mounts[kind]]
    BY <1>2
  <2> HIDE DEF d
  <2> QED BY <1>3, <2>1
<1>5. g.persona \in Persona /\ g.fields \in [Fields -> Values] /\ Off(g) \in SUBSET {Probe}
  BY <1>1, DisabledIsOff DEF Genomes
<1>6. d \in Compositions /\ Mountable(d)
  BY <1>2, <1>3, <1>4, <1>5 DEF Compositions, Mountable
<1>7. ASSUME NEW file \in Kinds \X Names
      PROVE  PluginFiles(g)[file] \in Bodies \cup {None}
  <2>1. file[1] \in Kinds
    OBVIOUS
  <2>2. CASE \E p \in Range(g.parts[file[1]]) : p.name = file[2]
    <3>1. (CHOOSE p \in Range(g.parts[file[1]]) : p.name = file[2]) \in Part
      BY <1>1, <2>1, <2>2, PartsOf
    <3> QED BY <2>2, <3>1 DEF PluginFiles, Part
  <2>3. CASE ~\E p \in Range(g.parts[file[1]]) : p.name = file[2]
    BY <2>3 DEF PluginFiles
  <2> QED BY <2>2, <2>3
<1>8. PluginFiles(g) \in PluginTree
  BY <1>7 DEF PluginFiles, PluginTree
<1> QED BY <1>6, <1>8

(* What a valid workspace holds is a genome, whatever was written to it.   *)
LEMMA ValidIsEncodable ==
  ASSUME NEW d \in Compositions, Mountable(d), NEW f \in PluginTree,
         ReadBaseSpec(d, f) # <<>>, Gated(Recovered(d, f))
  PROVE  Encodable(Recovered(d, f))
<1> DEFINE r == Recovered(d, f)
<1>1. Mounted(d, f) /\ LegalFields(d.fields) /\ LegalParts(r.parts)
  BY DEF ReadBaseSpec
<1>2. /\ r.persona = d.persona /\ r.fields = d.fields
      /\ r.off = IF d.disabled = {} THEN <<>> ELSE <<d.disabled>>
      /\ r.parts = [kind \in Kinds |-> [i \in DOMAIN d.mounts[kind] |->
           [name |-> d.mounts[kind][i].name,
            body |-> IF kind \in CodeKinds THEN f[<<kind, d.mounts[kind][i].name>>]
                     ELSE d.mounts[kind][i].body]]]
      /\ r = [persona |-> r.persona, fields |-> r.fields, parts |-> r.parts, off |-> r.off]
  BY DEF Recovered
<1>3. ASSUME NEW kind \in Kinds, NEW i \in DOMAIN d.mounts[kind]
      PROVE  /\ r.parts[kind][i] \in Part
             /\ RowOf(kind, r.parts[kind][i]) \in RowMenu[kind]
  <2>1. d.mounts[kind] \in Seq(RowMenu[kind])
    BY DEF Mountable
  <2>2. PICK row \in RowMenu[kind] : row = d.mounts[kind][i]
    BY <2>1, LenProperties, ElementOfSeq
  <2>3. row \in Range(d.mounts[kind])
    BY <2>2 DEF Range
  <2>4. /\ row.name \in Names /\ row = [name |-> row.name, body |-> row.body]
        /\ kind \in CodeKinds => row.body = None
        /\ kind \notin CodeKinds => row.body \in Bodies
    BY MenuRow
  <2>5. f[<<kind, row.name>>] \in Bodies
    <3>1. f[<<kind, row.name>>] # None
      BY <1>1, <2>3 DEF Mounted
    <3>2. <<kind, row.name>> \in Kinds \X Names
      BY <2>4
    <3> QED BY <3>1, <3>2 DEF PluginTree
  <2>6. r.parts[kind][i] = [name |-> row.name,
          body |-> IF kind \in CodeKinds THEN f[<<kind, row.name>>] ELSE row.body]
    BY <1>2, <2>2
  <2> HIDE DEF r
  <2> QED BY <2>4, <2>5, <2>6 DEF Part, RowOf
<1>4. ASSUME NEW kind \in Kinds
      PROVE  DOMAIN r.parts[kind] = DOMAIN d.mounts[kind] /\ r.parts[kind] \in Seq(Part)
  <2>1. DOMAIN r.parts[kind] = DOMAIN d.mounts[kind]
    BY <1>2
  <2>2. d.mounts[kind] \in Seq(RowMenu[kind])
    BY DEF Mountable
  <2>3. Len(d.mounts[kind]) \in Nat /\ DOMAIN d.mounts[kind] = 1 .. Len(d.mounts[kind])
    BY <2>2, LenProperties
  <2>4. r.parts[kind] = [i \in DOMAIN d.mounts[kind] |-> r.parts[kind][i]]
    BY <1>2
  <2> HIDE DEF r
  <2>5. r.parts[kind] \in [1 .. Len(d.mounts[kind]) -> Part]
    BY <1>3, <2>3, <2>4
  <2> QED BY <2>1, <2>3, <2>5, FunctionIsSeq
<1>5. r.parts = [kind \in Kinds |-> r.parts[kind]]
  BY <1>2
<1>6. d.persona \in Persona /\ d.fields \in [Fields -> Values] /\ d.disabled \in SUBSET {Probe}
  BY DEF Compositions
<1> HIDE DEF r
<1>7. r.off \in Optional(SUBSET {Probe}) /\ r.off # <<{}>>
  <2>1. CASE d.disabled = {}
    <3>1. r.off = <<>> /\ <<>> # <<{}>>
      BY <1>2, <2>1
    <3> QED BY <3>1 DEF Optional
  <2>2. CASE d.disabled # {}
    <3>1. r.off = <<d.disabled>> /\ <<d.disabled>>[1] # <<{}>>[1]
      BY <1>2, <2>2
    <3> QED BY <1>6, <3>1 DEF Optional
  <2> QED BY <2>1, <2>2
<1>8. r.parts \in [Kinds -> Seq(Part)]
  BY <1>4, <1>5
<1>9. r \in Genomes
  BY <1>2, <1>6, <1>7, <1>8 DEF Genomes
<1>10. \A kind \in Kinds : \A p \in Range(r.parts[kind]) : RowOf(kind, p) \in RowMenu[kind]
  BY <1>3, <1>4 DEF Range
<1>11. Encodable(r)
  BY <1>1, <1>2, <1>7, <1>9, <1>10 DEF Encodable, r
<1> QED BY <1>11 DEF r

-------------------------------------------------------------------------------
(* Grafting.                                                               *)

(* Every component is declared, as the ratchet understands it; the probe   *)
(* is mentioned or off, and no component is made up.                       *)
Advertised(g) ==
  /\ \A kind \in Kinds : \A n \in NamesOf(g.parts[kind]) : Declared(g, n)
  /\ Probe \in g.persona.mentions \cup Off(g)
  /\ \A claim \in g.persona.claims : claim[2] \in NamesOf(g.parts[claim[1]])

(* Who is named is declared.                                               *)
LEMMA NamedIsAdvertised ==
  ASSUME NEW g, Named(g)
  PROVE  Advertised(g)
BY DEF Named, Advertised, Declared

(* A sequence with one more element.                                       *)
LEMMA AppendRange ==
  ASSUME NEW S, NEW s \in Seq(S), NEW e \in S
  PROVE  /\ Append(s, e) \in Seq(S) /\ Len(Append(s, e)) = Len(s) + 1
         /\ Range(Append(s, e)) = Range(s) \cup {e}
<1>1. /\ Append(s, e) \in Seq(S) /\ Len(Append(s, e)) = Len(s) + 1
      /\ \A i \in 1 .. Len(s) : Append(s, e)[i] = s[i]
      /\ Append(s, e)[Len(s) + 1] = e
  BY AppendProperties
<1>2. /\ Len(s) \in Nat /\ DOMAIN s = 1 .. Len(s)
      /\ DOMAIN Append(s, e) = 1 .. (Len(s) + 1)
  BY <1>1, LenProperties
<1>3. ASSUME NEW x \in Range(Append(s, e))
      PROVE  x \in Range(s) \cup {e}
  <2>1. PICK i \in 1 .. (Len(s) + 1) : x = Append(s, e)[i]
    BY <1>2 DEF Range
  <2>2. CASE i = Len(s) + 1
    BY <1>1, <2>1, <2>2
  <2>3. CASE i # Len(s) + 1
    <3>1. i \in 1 .. Len(s)
      BY <1>2, <2>3
    <3> QED BY <1>1, <1>2, <2>1, <3>1 DEF Range
  <2> QED BY <2>2, <2>3
<1>4. ASSUME NEW x \in Range(s) \cup {e}
      PROVE  x \in Range(Append(s, e))
  <2>1. CASE x = e
    <3>1. Len(s) + 1 \in 1 .. (Len(s) + 1)
      BY <1>2
    <3> QED BY <1>1, <1>2, <2>1, <3>1 DEF Range
  <2>2. CASE x # e
    <3>1. PICK i \in 1 .. Len(s) : x = s[i]
      BY <1>2, <2>2 DEF Range
    <3>2. i \in 1 .. (Len(s) + 1)
      BY <1>2
    <3> QED BY <1>1, <1>2, <3>1, <3>2 DEF Range
  <2> QED BY <2>1, <2>2
<1> QED BY <1>1, <1>3, <1>4

(* What a graft leaves alone, and what it adds.                            *)
LEMMA GraftAdds ==
  ASSUME NEW g \in Genomes, NEW kind \in Kinds, NEW p \in Part
  PROVE  /\ GraftInto(g, kind, p) \in Genomes
         /\ GraftInto(g, kind, p).off = g.off /\ GraftInto(g, kind, p).fields = g.fields
         /\ GraftInto(g, kind, p).persona
              = IF Declared(g, p.name) THEN g.persona
                ELSE [mentions |-> g.persona.mentions \cup {p.name},
                      claims |-> g.persona.claims \cup {<<kind, p.name>>}]
         /\ \A k \in Kinds : GraftInto(g, kind, p).parts[k]
              = IF k = kind THEN Append(g.parts[kind], p) ELSE g.parts[k]
<1> DEFINE h == GraftInto(g, kind, p)
<1>1. /\ g = [persona |-> g.persona, fields |-> g.fields, parts |-> g.parts, off |-> g.off]
      /\ g.persona \in Persona /\ g.fields \in [Fields -> Values]
      /\ g.parts \in [Kinds -> Seq(Part)] /\ g.off \in Optional(SUBSET {Probe})
  BY DEF Genomes
<1> DEFINE said == IF Declared(g, p.name) THEN g.persona
                   ELSE [mentions |-> g.persona.mentions \cup {p.name},
                         claims |-> g.persona.claims \cup {<<kind, p.name>>}]
           more == [g.parts EXCEPT ![kind] = Append(g.parts[kind], p)]
<1>2. h = [persona |-> said, fields |-> g.fields, parts |-> more, off |-> g.off]
  <2>1. h = [g EXCEPT !.parts = more, !.persona = said]
    BY DEF GraftInto
  <2> HIDE DEF h, said, more
  <2> QED BY <1>1, <2>1
<1>3. p.name \in Names
  BY DEF Part
<1>4. said \in Persona
  BY <1>1, <1>3 DEF Persona
<1>5. Append(g.parts[kind], p) \in Seq(Part)
  BY <1>1, AppendProperties
<1>6. more \in [Kinds -> Seq(Part)]
  BY <1>1, <1>5
<1>7. \A k \in Kinds : more[k] = IF k = kind THEN Append(g.parts[kind], p) ELSE g.parts[k]
  BY <1>1
<1> HIDE DEF h, said, more
<1>8. h \in Genomes
  BY <1>1, <1>2, <1>4, <1>6 DEF Genomes
<1>9. h.off = g.off /\ h.fields = g.fields /\ h.persona = said /\ h.parts = more
  BY <1>2
<1> QED BY <1>7, <1>8, <1>9 DEF h, said

(* A graft the ratchet's guards let through gives an encodable, advertised *)
(* genome; its text mentions whatever it mentioned.                        *)
LEMMA GraftKeeps ==
  ASSUME NEW g, Encodable(g), Advertised(g), NEW kind \in Kinds, NEW p \in Part,
         p.name \notin Reserved, kind \in CodeKinds => p.body \in Safe,
         p.name \notin NamesOf(g.parts[kind]), Len(g.parts[kind]) < Cap[kind],
         RowOf(kind, p) \in RowMenu[kind]
  PROVE  Encodable(GraftInto(g, kind, p)) /\ Advertised(GraftInto(g, kind, p))
<1> DEFINE h == GraftInto(g, kind, p)
<1>1. g \in Genomes /\ LegalParts(g.parts) /\ LegalFields(g.fields) /\ g.off # <<{}>>
      /\ Gated(g)
  BY DEF Encodable
<1>2. /\ h \in Genomes /\ h.off = g.off /\ h.fields = g.fields
      /\ h.persona = IF Declared(g, p.name) THEN g.persona
                     ELSE [mentions |-> g.persona.mentions \cup {p.name},
                           claims |-> g.persona.claims \cup {<<kind, p.name>>}]
      /\ \A k \in Kinds : h.parts[k] = IF k = kind THEN Append(g.parts[kind], p) ELSE g.parts[k]
  BY <1>1, GraftAdds
<1>3. /\ g.parts[kind] \in Seq(Part) /\ Len(g.parts[kind]) \in Nat
      /\ DOMAIN g.parts[kind] = 1 .. Len(g.parts[kind]) /\ Cap[kind] \in Nat
  BY <1>1, PartsOf, LenProperties, Given
<1> HIDE DEF h
<1> DEFINE s == g.parts[kind]
<1>0. h.parts[kind] = Append(s, p) /\ s \in Seq(Part)
  BY <1>2, <1>3
<1>4. /\ h.parts[kind] \in Seq(Part) /\ Len(h.parts[kind]) = Len(g.parts[kind]) + 1
      /\ Range(h.parts[kind]) = Range(g.parts[kind]) \cup {p}
  <2> HIDE DEF s
  <2>1. /\ Append(s, p) \in Seq(Part) /\ Len(Append(s, p)) = Len(s) + 1
        /\ Range(Append(s, p)) = Range(s) \cup {p}
    BY <1>0, AppendRange
  <2> QED BY <1>0, <2>1 DEF s
<1>5. /\ DOMAIN h.parts[kind] = 1 .. (Len(g.parts[kind]) + 1)
      /\ \A i \in 1 .. Len(g.parts[kind]) : h.parts[kind][i] = g.parts[kind][i]
      /\ h.parts[kind][Len(g.parts[kind]) + 1] = p
  <2> HIDE DEF s
  <2>1. /\ \A i \in 1 .. Len(s) : Append(s, p)[i] = s[i]
        /\ Append(s, p)[Len(s) + 1] = p
    BY <1>0, AppendProperties
  <2>2. DOMAIN h.parts[kind] = 1 .. Len(h.parts[kind])
    BY <1>4, LenProperties
  <2> QED BY <1>0, <1>4, <2>1, <2>2 DEF s
<1> HIDE DEF s
<1>6. LegalNames(h.parts[kind])
  <2>1. LegalNames(g.parts[kind])
    BY <1>1 DEF LegalParts
  <2>2. NamesOf(h.parts[kind]) = NamesOf(g.parts[kind]) \cup {p.name}
    BY <1>4 DEF NamesOf
  <2>3. NamesOf(h.parts[kind]) \cap Reserved = {}
    BY <2>1, <2>2 DEF LegalNames
  <2>4. ASSUME NEW i \in 1 .. Len(g.parts[kind])
        PROVE  g.parts[kind][i].name # p.name
    BY <1>3 DEF NamesOf, Range
  <2>5. ASSUME NEW i \in DOMAIN h.parts[kind], NEW j \in DOMAIN h.parts[kind],
               h.parts[kind][i].name = h.parts[kind][j].name
        PROVE  i = j
    <3> DEFINE n == Len(g.parts[kind])
    <3>1. (i \in 1 .. n \/ i = n + 1) /\ (j \in 1 .. n \/ j = n + 1)
      BY <1>3, <1>5
    <3>2. CASE i \in 1 .. n /\ j \in 1 .. n
      BY <1>3, <1>5, <2>1, <2>5, <3>2 DEF LegalNames
    <3>3. CASE i \in 1 .. n /\ j = n + 1
      BY <1>5, <2>4, <2>5, <3>3
    <3>4. CASE i = n + 1 /\ j \in 1 .. n
      BY <1>5, <2>4, <2>5, <3>4
    <3> QED BY <3>1, <3>2, <3>3, <3>4
  <2> QED BY <2>3, <2>5 DEF LegalNames
<1>7. LegalParts(h.parts)
  <2>1. SUFFICES ASSUME NEW k \in Kinds
                 PROVE  LegalNames(h.parts[k]) /\ Len(h.parts[k]) <= Cap[k]
    BY DEF LegalParts
  <2>2. CASE k = kind
    BY <1>3, <1>4, <1>6, <2>2
  <2>3. CASE k # kind
    BY <1>1, <1>2, <2>3 DEF LegalParts
  <2> QED BY <2>2, <2>3
<1>8. \A k \in Kinds : Range(h.parts[k]) = Range(g.parts[k]) \cup (IF k = kind THEN {p} ELSE {})
  BY <1>2, <1>4
<1>9. Gated(h)
  BY <1>1, <1>8, Given DEF Gated
<1>10. \A k \in Kinds : \A q \in Range(h.parts[k]) : RowOf(k, q) \in RowMenu[k]
  BY <1>8 DEF Encodable
<1>11. Encodable(h)
  BY <1>1, <1>2, <1>7, <1>9, <1>10 DEF Encodable
<1>12. \A k \in Kinds : NamesOf(h.parts[k])
          = NamesOf(g.parts[k]) \cup (IF k = kind THEN {p.name} ELSE {})
  BY <1>8 DEF NamesOf
<1>13. g.persona.mentions \subseteq h.persona.mentions
  BY <1>2
<1>14. \A k \in Kinds : \A n \in NamesOf(h.parts[k]) : Declared(h, n)
  <2>1. Declared(h, p.name)
    <3>1. CASE Declared(g, p.name)
      BY <1>13, <3>1 DEF Declared
    <3>2. CASE ~Declared(g, p.name)
      <4>1. p.name \in h.persona.mentions
        BY <1>2, <3>2
      <4> QED BY <4>1 DEF Declared
    <3> QED BY <3>1, <3>2
  <2>2. \A n : Declared(g, n) => Declared(h, n)
    BY <1>13 DEF Declared
  <2> QED BY <1>12, <2>1, <2>2 DEF Advertised
<1>15. Probe \in h.persona.mentions \cup Off(h)
  BY <1>2, <1>13 DEF Advertised, Off
<1>16. ASSUME NEW claim \in h.persona.claims
       PROVE  claim[2] \in NamesOf(h.parts[claim[1]])
  <2>1. claim \in Kinds \X Names
    BY <1>2 DEF Genomes, Persona
  <2>2. CASE claim \in g.persona.claims
    BY <1>12, <2>1, <2>2 DEF Advertised
  <2>3. CASE claim \notin g.persona.claims
    <3>1. claim = <<kind, p.name>>
      BY <1>2, <2>3
    <3> QED BY <1>12, <3>1
  <2> QED BY <2>2, <2>3
<1>17. Advertised(h)
  BY <1>14, <1>15, <1>16 DEF Advertised
<1> QED BY <1>11, <1>17 DEF h

-------------------------------------------------------------------------------
(* The inductive invariant, in named parts.                                *)

CountInv ==
  /\ round \in 0 .. LastRound /\ phase \in Phases
  /\ edits \in 0 .. MaxEdits /\ crashes \in 0 .. 1

(* A workspace may hold any composition the menu allows.                   *)
WorkspaceInv == doc \in Compositions /\ Mountable(doc) /\ files \in PluginTree

(* What a round works under and what it hands on can be encoded.           *)
GenomesInv == /\ Encodable(base) /\ Advertised(base)
              /\ Encodable(promised) /\ Advertised(promised)

(* There is a candidate from its submission to the end of the round.       *)
CandidateInv ==
  /\ cand = <<>> \/ (/\ cand = <<cand[1]>> /\ Encodable(cand[1].genome)
                      /\ Advertised(cand[1].genome))
  /\ phase = "edit" => cand = <<>>
  /\ phase \in Writing => cand # <<>>

(* The next package is at every moment a whole one of the promised genome. *)
NextPackageInv == next = Whole(promised)

(* How far the writing of the candidate's package is, whatever lay there.  *)
WrittenInv ==
  /\ phase = "plugins" => pkg = EmptyPackage
  /\ phase = "composition" =>
       pkg = [EmptyPackage EXCEPT !.files = PluginFiles(cand[1].genome)]
  /\ phase = "manifest" =>
       pkg = [EmptyPackage EXCEPT !.files = PluginFiles(cand[1].genome),
                                  !.composition = <<CordisDocument(cand[1].genome)>>]
  /\ phase = "meta" =>
       pkg = [Whole(cand[1].genome) EXCEPT !.meta = <<>>]
  /\ phase = "collect" /\ cand # <<>> => pkg = Whole(cand[1].genome)

IInv == CountInv /\ WorkspaceInv /\ GenomesInv /\ CandidateInv /\ NextPackageInv /\ WrittenInv

-------------------------------------------------------------------------------
(* The invariant holds at first, and every action keeps it.                *)

(* It holds at first.                                                      *)
LEMMA InitInv == Init => IInv
<1> SUFFICES ASSUME Init PROVE IInv
  OBVIOUS
<1>1. Encodable(FirstBase) /\ Advertised(FirstBase)
  <2>1. ASSUME NEW kind \in Kinds, NEW p \in Range(FirstBase.parts[kind])
        PROVE  RowOf(kind, p) \in RowMenu[kind]
    <3>1. PICK i \in DOMAIN FirstBase.parts[kind] : p = FirstBase.parts[kind][i]
      BY DEF Range
    <3>2. CordisDocument(FirstBase).mounts[kind]
            = [j \in DOMAIN FirstBase.parts[kind] |-> RowOf(kind, FirstBase.parts[kind][j])]
      BY DEF CordisDocument, RowOf
    <3>3. RowOf(kind, p) \in Range(CordisDocument(FirstBase).mounts[kind])
      BY <3>1, <3>2 DEF Range
    <3> QED BY <3>3, FirstBaseAssumption
  <2>2. FirstBase \in Genomes
    BY GenomeAssumption
  <2> QED BY <2>1, <2>2, FirstBaseAssumption, NamedIsAdvertised DEF Encodable
<1>2. CountInv
  BY Given DEF Init, CountInv, Phases
<1>3. WorkspaceInv
  BY <1>1, RenderedType DEF Init, WorkspaceInv
<1> QED BY <1>1, <1>2, <1>3
        DEF Init, IInv, GenomesInv, CandidateInv, NextPackageInv, WrittenInv, Writing

(* Rows the menu allows, one removed, put in or replaced.                  *)
LEMMA EditsStayMountable ==
  ASSUME NEW S, NEW rows \in Seq(S), NEW i \in 1 .. (Len(rows) + 1), NEW row \in S
  PROVE  /\ i \in DOMAIN rows =>
              SubSeq(rows, 1, i - 1) \o SubSeq(rows, i + 1, Len(rows)) \in Seq(S)
         /\ SubSeq(rows, 1, i - 1) \o <<row>> \o SubSeq(rows, i, Len(rows)) \in Seq(S)
         /\ i \in DOMAIN rows => [rows EXCEPT ![i] = row] \in Seq(S)
<1>1. Len(rows) \in Nat /\ DOMAIN rows = 1 .. Len(rows) /\ \A j \in 1 .. Len(rows) : rows[j] \in S
  BY LenProperties, ElementOfSeq
<1>2. SubSeq(rows, 1, i - 1) \in Seq(S)
  <2>1. 1 \in Int /\ i - 1 \in Int /\ \A j \in 1 .. (i - 1) : rows[j] \in S
    BY <1>1
  <2> QED BY <2>1, SubSeqProperties
<1>3. SubSeq(rows, i, Len(rows)) \in Seq(S)
  <2>1. i \in Int /\ Len(rows) \in Int /\ \A j \in i .. Len(rows) : rows[j] \in S
    BY <1>1
  <2> QED BY <2>1, SubSeqProperties
<1>4. SubSeq(rows, i + 1, Len(rows)) \in Seq(S)
  <2>1. i + 1 \in Int /\ Len(rows) \in Int /\ \A j \in (i + 1) .. Len(rows) : rows[j] \in S
    BY <1>1
  <2> QED BY <2>1, SubSeqProperties
<1>5. SubSeq(rows, 1, i - 1) \o <<row>> \in Seq(S)
  BY <1>2, OneIsSeq, ConcatProperties
<1>6. SubSeq(rows, 1, i - 1) \o <<row>> \o SubSeq(rows, i, Len(rows)) \in Seq(S)
  BY <1>3, <1>5, ConcatProperties
<1>7. SubSeq(rows, 1, i - 1) \o SubSeq(rows, i + 1, Len(rows)) \in Seq(S)
  BY <1>2, <1>4, ConcatProperties
<1>8. i \in DOMAIN rows => [rows EXCEPT ![i] = row] \in Seq(S)
  BY <1>1, ExceptSeq
<1> QED BY <1>6, <1>7, <1>8

(* The persona a proposer writes in line with its composition is one.      *)
LEMMA InLineType ==
  ASSUME NEW d \in Compositions, Mountable(d)
  PROVE  InLine(d) \in Persona
<1>1. ASSUME NEW kind \in Kinds, NEW row \in Range(d.mounts[kind])
      PROVE  row.name \in Names
  <2>1. d.mounts[kind] \in Seq(RowMenu[kind])
    BY DEF Mountable
  <2>2. row \in RowMenu[kind]
    BY <2>1, LenProperties, ElementOfSeq DEF Range
  <2> QED BY <2>2, MenuRow
<1>2. UNION {{row.name : row \in Range(d.mounts[kind])} : kind \in Kinds} \subseteq Names
  BY <1>1
<1> QED BY <1>2 DEF InLine, Persona

(* A write of cordis.yml.                                                  *)
LEMMA WriteCompositionInv ==
  ASSUME IInv, NEW d \in Compositions, Mountable(d), WriteComposition(d)
  PROVE  IInv'
<1>1. PICK persona \in {doc.persona, InLine(d)} : doc' = [d EXCEPT !.persona = persona]
  BY DEF WriteComposition
<1>2. persona \in Persona
  BY InLineType DEF IInv, WorkspaceInv, Compositions
<1>3. doc' \in Compositions /\ doc'.mounts = d.mounts
  BY <1>1, <1>2 DEF Compositions
<1>4. WorkspaceInv'
  BY <1>3 DEF WorkspaceInv, Mountable, WriteComposition, IInv
<1>5. CountInv'
  BY Given DEF CountInv, IInv, WriteComposition, Editing, Rest
<1>6. UNCHANGED Rest
  BY DEF WriteComposition
<1>7. GenomesInv' /\ CandidateInv' /\ NextPackageInv' /\ WrittenInv'
  BY <1>6 DEF IInv, Rest, GenomesInv, CandidateInv, NextPackageInv, WrittenInv
<1> QED BY <1>4, <1>5, <1>7 DEF IInv

(* The edits of a proposer.                                                *)
LEMMA EditInv ==
  ASSUME IInv, Edit
  PROVE  IInv'
<1>1. doc \in Compositions /\ Mountable(doc) /\ files \in PluginTree
  BY DEF IInv, WorkspaceInv
<1>2. CASE \E kind \in Kinds : EditMounts(kind)
  <2>1. PICK kind \in Kinds : EditMounts(kind)
    BY <1>2
  <2> DEFINE rows == doc.mounts[kind]
  <2>2. rows \in Seq(RowMenu[kind])
    BY <1>1 DEF Mountable
  <2>3. Len(rows) \in Nat /\ DOMAIN rows = 1 .. Len(rows)
    BY <2>2, LenProperties
  <2>4. PICK new \in Seq(RowMenu[kind]) : Mount(kind, new)
    <3>1. CASE \E i \in DOMAIN rows :
                 Mount(kind, SubSeq(rows, 1, i - 1) \o SubSeq(rows, i + 1, Len(rows)))
      <4>1. PICK i \in DOMAIN rows :
              Mount(kind, SubSeq(rows, 1, i - 1) \o SubSeq(rows, i + 1, Len(rows)))
        BY <3>1
      <4>2. i \in 1 .. (Len(rows) + 1) /\ rows[i] \in RowMenu[kind]
        BY <2>2, <2>3, ElementOfSeq
      <4>3. SubSeq(rows, 1, i - 1) \o SubSeq(rows, i + 1, Len(rows)) \in Seq(RowMenu[kind])
        BY <2>2, <4>2, EditsStayMountable
      <4> QED BY <4>1, <4>3
    <3>2. CASE \E i \in 1 .. Len(rows) + 1, row \in RowMenu[kind] :
                 Mount(kind, SubSeq(rows, 1, i - 1) \o <<row>> \o SubSeq(rows, i, Len(rows)))
      <4>1. PICK i \in 1 .. Len(rows) + 1, row \in RowMenu[kind] :
              Mount(kind, SubSeq(rows, 1, i - 1) \o <<row>> \o SubSeq(rows, i, Len(rows)))
        BY <3>2
      <4>2. SubSeq(rows, 1, i - 1) \o <<row>> \o SubSeq(rows, i, Len(rows)) \in Seq(RowMenu[kind])
        BY <2>2, EditsStayMountable
      <4> QED BY <4>1, <4>2
    <3>3. CASE \E i \in DOMAIN rows, row \in RowMenu[kind] : Mount(kind, [rows EXCEPT ![i] = row])
      <4>1. PICK i \in DOMAIN rows, row \in RowMenu[kind] : Mount(kind, [rows EXCEPT ![i] = row])
        BY <3>3
      <4>2. [rows EXCEPT ![i] = row] \in Seq(RowMenu[kind])
        BY <2>2, <2>3, ExceptSeq
      <4> QED BY <4>1, <4>2
    <3> QED BY <2>1, <3>1, <3>2, <3>3 DEF EditMounts
  <2>5. RowMenu[kind] \subseteq Row
    BY MenuRow DEF Row
  <2>6. new \in Seq(Row)
    BY <2>4, <2>5, SeqMonotonic
  <2> DEFINE d == [doc EXCEPT !.mounts[kind] = new]
  <2>7. d \in Compositions
    BY <1>1, <2>6 DEF Compositions
  <2>8. d.mounts = [doc.mounts EXCEPT ![kind] = new] /\ doc.mounts \in [Kinds -> Seq(Row)]
    BY <1>1 DEF Compositions
  <2> HIDE DEF d
  <2>9. Mountable(d)
    BY <1>1, <2>4, <2>8 DEF Mountable
  <2> QED BY <2>4, <2>7, <2>9, WriteCompositionInv DEF d, Mount
<1>3. CASE \E x \in Fields, v \in Values : EditField(x, v)
  <2>1. PICK x \in Fields, v \in Values : WriteComposition([doc EXCEPT !.fields[x] = v])
    BY <1>3 DEF EditField
  <2>2. [doc EXCEPT !.fields[x] = v] \in Compositions
        /\ [doc EXCEPT !.fields[x] = v].mounts = doc.mounts
    BY <1>1 DEF Compositions
  <2>3. Mountable([doc EXCEPT !.fields[x] = v])
    BY <1>1, <2>2 DEF Mountable
  <2> QED BY <2>1, <2>2, <2>3, WriteCompositionInv
<1>4. CASE ToggleProbe
  <2> DEFINE d == [doc EXCEPT !.disabled = {Probe} \ @]
  <2>1. d \in Compositions /\ d.mounts = doc.mounts
    BY <1>1 DEF Compositions
  <2>2. Mountable(d)
    BY <1>1, <2>1 DEF Mountable
  <2> QED BY <1>4, <2>1, <2>2, WriteCompositionInv DEF ToggleProbe
<1>5. CASE \E file \in Kinds \X Names :
             DeletePlugin(file) \/ \E body \in Bodies : WritePlugin(file, body)
  <2>1. files' \in PluginTree
    BY <1>1, <1>5 DEF DeletePlugin, WritePlugin, PluginTree
  <2>2. Editing /\ UNCHANGED <<doc, Rest>>
    BY <1>5 DEF DeletePlugin, WritePlugin
  <2>3. WorkspaceInv'
    BY <1>1, <2>1, <2>2 DEF WorkspaceInv, Mountable
  <2>4. CountInv'
    BY <2>2, Given DEF CountInv, IInv, Editing, Rest
  <2>5. GenomesInv' /\ CandidateInv' /\ NextPackageInv' /\ WrittenInv'
    BY <2>2 DEF IInv, Rest, GenomesInv, CandidateInv, NextPackageInv, WrittenInv
  <2> QED BY <2>3, <2>4, <2>5 DEF IInv
<1> QED BY <1>2, <1>3, <1>4, <1>5 DEF Edit

(* The submission of a valid workspace: what is recorded is what it holds. *)
LEMMA SubmitInv ==
  ASSUME IInv, Submit
  PROVE  IInv'
<1> DEFINE r == Recovered(doc, files)
           g == MergeWithBase(DiffToPartial(r, base), base)
<1>1. /\ phase = "edit" /\ phase' = "clear"
      /\ UNCHANGED <<round, base, workspace, crashes, pkg, next, promised>>
  BY DEF Submit
<1>2. cand' = <<[genome |-> g, changed |-> DiffersFromBase(g, base), lineage |-> Lineage(base, g)]>>
  BY DEF Submit
<1>3. ReadBaseSpec(doc, files) # <<>> /\ Gated(r) /\ Named(r) /\ g = r
  BY DEF Submit, ValidWorkspace
<1>4. Encodable(r)
  BY <1>3, ValidIsEncodable DEF IInv, WorkspaceInv
<1>5. Advertised(r)
  BY <1>3, NamedIsAdvertised
<1> HIDE DEF r, g
<1>6. cand' = <<cand'[1]>> /\ cand'[1].genome = g /\ cand' # <<>>
  BY <1>2
<1>7. CandidateInv'
  BY <1>1, <1>3, <1>4, <1>5, <1>6 DEF CandidateInv
<1>8. CountInv' /\ WorkspaceInv' /\ GenomesInv' /\ NextPackageInv' /\ WrittenInv'
  BY <1>1 DEF IInv, CountInv, WorkspaceInv, GenomesInv, NextPackageInv, WrittenInv, workspace,
              Mountable, Phases, Writing
<1> QED BY <1>7, <1>8 DEF IInv

(* A round may have no candidate.                                          *)
LEMMA NoCandidateInv ==
  ASSUME IInv, NoCandidate
  PROVE  IInv'
BY DEF NoCandidate, IInv, CountInv, WorkspaceInv, GenomesInv, CandidateInv, NextPackageInv,
       WrittenInv, workspace, Mountable, Phases, Writing

(* The package is written file by file.                                    *)
LEMMA MaterializeInv ==
  ASSUME IInv, Materialize
  PROVE  IInv'
<1> DEFINE g == cand[1].genome
<1>2. UNCHANGED <<round, base, workspace, crashes, cand, next, promised>>
      /\ phase \in Writing /\ phase' \in Writing \cup {"collect"}
  BY DEF Materialize, RemoveTree, WritePlugins, WriteCordisYml, WriteManifest, WriteMeta,
         Write, Writing
<1>3. CountInv' /\ WorkspaceInv' /\ GenomesInv' /\ NextPackageInv' /\ CandidateInv'
  BY <1>2 DEF IInv, CountInv, WorkspaceInv, GenomesInv, NextPackageInv, CandidateInv, workspace,
              Mountable, Phases, Writing
<1>4. cand' = cand
  BY <1>2
<1>5. WrittenInv'
  <2>1. CASE RemoveTree
    BY <2>1 DEF RemoveTree, Write, WrittenInv
  <2>2. CASE WritePlugins
    <3>1. pkg = EmptyPackage /\ phase' = "composition"
          /\ pkg' = [pkg EXCEPT !.files = PluginFiles(g)]
      BY <2>2 DEF WritePlugins, Write, WrittenInv, IInv
    <3> QED BY <1>4, <3>1 DEF WrittenInv
  <2>3. CASE WriteCordisYml
    <3>1. pkg = [EmptyPackage EXCEPT !.files = PluginFiles(g)] /\ phase' = "manifest"
          /\ pkg' = [pkg EXCEPT !.composition = <<CordisDocument(g)>>]
      BY <2>3 DEF WriteCordisYml, Write, WrittenInv, IInv
    <3> QED BY <1>4, <3>1 DEF WrittenInv, EmptyPackage
  <2>4. CASE WriteManifest
    <3>1. pkg = [EmptyPackage EXCEPT !.files = PluginFiles(g), !.composition = <<CordisDocument(g)>>]
          /\ phase' = "meta" /\ pkg' = [pkg EXCEPT !.manifest = <<Inventory(g)>>]
      BY <2>4 DEF WriteManifest, Write, WrittenInv, IInv
    <3> HIDE DEF g
    <3>2. pkg = [files |-> PluginFiles(g), composition |-> <<CordisDocument(g)>>,
                 manifest |-> <<>>, meta |-> <<>>]
      BY <3>1 DEF EmptyPackage
    <3>3. pkg' = [files |-> PluginFiles(g), composition |-> <<CordisDocument(g)>>,
                  manifest |-> <<Inventory(g)>>, meta |-> <<>>]
      <4> DEFINE f == PluginFiles(g)
                 c == <<CordisDocument(g)>>
                 m == <<Inventory(g)>>
      <4>1. pkg' = [pkg EXCEPT !.manifest = m]
        BY <3>1
      <4>2. pkg = [files |-> f, composition |-> c, manifest |-> <<>>, meta |-> <<>>]
        BY <3>2
      <4> HIDE DEF f, c, m
      <4>3. pkg' = [files |-> f, composition |-> c, manifest |-> m, meta |-> <<>>]
        BY <4>1, <4>2
      <4> QED BY <4>3 DEF f, c, m
    <3>4. [Whole(g) EXCEPT !.meta = <<>>]
            = [files |-> PluginFiles(g), composition |-> <<CordisDocument(g)>>,
               manifest |-> <<Inventory(g)>>, meta |-> <<>>]
      BY DEF Whole
    <3> QED BY <1>4, <3>1, <3>3, <3>4 DEF WrittenInv, g
  <2>5. CASE WriteMeta
    <3>1. pkg = [Whole(g) EXCEPT !.meta = <<>>] /\ phase' = "collect"
          /\ pkg' = [pkg EXCEPT !.meta = <<Inventory(g)>>]
      BY <2>5 DEF WriteMeta, Write, WrittenInv, IInv
    <3>2. pkg' = Whole(g)
      BY <3>1 DEF Whole
    <3> QED BY <1>4, <3>1, <3>2 DEF WrittenInv
  <2> QED BY <2>1, <2>2, <2>3, <2>4, <2>5 DEF Materialize
<1> QED BY <1>3, <1>5 DEF IInv

(* A killed proposal is begun again on a fresh copy of the base.           *)
LEMMA CrashInv ==
  ASSUME IInv, Crash
  PROVE  IInv'
<1>1. /\ doc' = CordisDocument(base) /\ files' = PluginFiles(base)
      /\ cand' = <<>> /\ phase' = "edit" /\ crashes' = 1
      /\ UNCHANGED <<round, base, edits, pkg, next, promised>>
  BY DEF Crash
<1>2. WorkspaceInv'
  BY <1>1, RenderedType DEF WorkspaceInv, IInv, GenomesInv
<1> QED BY <1>1, <1>2 DEF IInv, CountInv, GenomesInv, CandidateInv, NextPackageInv, WrittenInv,
                          Phases, Writing

(* Collect keeps the package of the base or takes the candidate's, which   *)
(* is whole by then.                                                       *)
LEMMA KeepOrPromoteInv ==
  ASSUME IInv, KeepBase \/ Promote \/ NoGraft
  PROVE  IInv'
<1>1. /\ phase \in {"collect", "graft"} /\ phase' \in {"graft", "adopt"}
      /\ UNCHANGED <<round, base, workspace, crashes, cand, pkg>>
  BY DEF KeepBase, Promote, NoGraft
<1>2. CountInv' /\ WorkspaceInv' /\ CandidateInv' /\ WrittenInv'
  BY <1>1 DEF IInv, CountInv, WorkspaceInv, CandidateInv, WrittenInv, workspace, Mountable,
              Phases, Writing
<1>3. NextPackageInv' /\ GenomesInv'
  <2>1. CASE Promote
    BY <2>1, <1>1 DEF Promote, IInv, WrittenInv, CandidateInv, GenomesInv, NextPackageInv
  <2>2. CASE KeepBase \/ NoGraft
    BY <2>2 DEF KeepBase, NoGraft, IInv, GenomesInv, NextPackageInv
  <2> QED BY <2>1, <2>2
<1> QED BY <1>2, <1>3 DEF IInv

(* What the next package is read as.                                       *)
LEMMA NextReadsBack ==
  ASSUME IInv
  PROVE  VerifiedSpec(next) = <<promised>>
<1>1. Encodable(promised) /\ next = Whole(promised)
  BY DEF IInv, GenomesInv, NextPackageInv
<1>2. /\ next.composition = <<CordisDocument(promised)>> /\ next.files = PluginFiles(promised)
      /\ next.manifest = <<Inventory(promised)>> /\ next.meta = <<Inventory(promised)>>
  BY <1>1 DEF Whole
<1> QED BY <1>1, <1>2, PackageReadsBack

(* A graft.                                                                *)
LEMMA GraftInv ==
  ASSUME IInv, NEW kind \in Kinds, NEW p \in Part, Graft(kind, p),
         NEW row \in RowMenu[kind], row.name = p.name, row.body \in {None, p.body}
  PROVE  IInv'
<1>1. VerifiedSpec(next)[1] = promised
  BY NextReadsBack
<1>2. /\ phase = "graft" /\ phase' = "adopt"
      /\ p.name \notin Reserved /\ (kind \in CodeKinds => p.body \in Safe)
      /\ p.name \notin NamesOf(promised.parts[kind]) /\ Len(promised.parts[kind]) < Cap[kind]
      /\ promised' = GraftInto(promised, kind, p) /\ next' = Whole(promised')
      /\ UNCHANGED <<round, base, workspace, crashes, cand, pkg>>
  BY <1>1 DEF Graft
<1>3. RowOf(kind, p) \in RowMenu[kind]
  <2>1. /\ row = [name |-> row.name, body |-> row.body]
        /\ kind \in CodeKinds => row.body = None
        /\ kind \notin CodeKinds => row.body \in Bodies
    BY MenuRow
  <2>2. RowOf(kind, p) = [name |-> row.name, body |-> row.body]
    BY <2>1, Given DEF RowOf
  <2> QED BY <2>1, <2>2
<1>4. Encodable(promised) /\ Advertised(promised)
  BY DEF IInv, GenomesInv
<1>5. Encodable(promised') /\ Advertised(promised')
  BY <1>2, <1>3, <1>4, GraftKeeps
<1>6. CountInv' /\ WorkspaceInv' /\ CandidateInv' /\ WrittenInv'
  BY <1>2 DEF IInv, CountInv, WorkspaceInv, CandidateInv, WrittenInv, workspace, Mountable,
              Phases, Writing
<1>7. GenomesInv' /\ NextPackageInv'
  BY <1>2, <1>5 DEF IInv, GenomesInv, NextPackageInv
<1> QED BY <1>6, <1>7 DEF IInv

(* The next round works under what was promised to it.                     *)
LEMMA NextRoundInv ==
  ASSUME IInv, NextRound
  PROVE  IInv'
<1>1. VerifiedSpec(next)[1] = promised /\ next = Whole(promised)
  BY NextReadsBack DEF IInv, NextPackageInv
<1>2. /\ base' = promised /\ doc' = CordisDocument(promised) /\ files' = PluginFiles(promised)
      /\ phase = "adopt" /\ phase' = "edit" /\ cand' = <<>> /\ round < LastRound
      /\ round' = round + 1 /\ UNCHANGED <<edits, crashes, next, promised>>
  BY <1>1 DEF NextRound, Whole
<1>3. WorkspaceInv'
  BY <1>2, RenderedType DEF WorkspaceInv, IInv, GenomesInv
<1>4. CountInv'
  BY <1>2, Given DEF IInv, CountInv, Phases
<1>5. GenomesInv' /\ CandidateInv' /\ NextPackageInv' /\ WrittenInv'
  BY <1>2 DEF IInv, GenomesInv, CandidateInv, NextPackageInv, WrittenInv, Writing
<1> QED BY <1>3, <1>4, <1>5 DEF IInv

(* The invariant is inductive.                                             *)
LEMMA NextInv == IInv /\ [Next]_vars => IInv'
<1> SUFFICES ASSUME IInv, [Next]_vars PROVE IInv'
  OBVIOUS
<1>1. CASE Edit
  BY <1>1, EditInv
<1>2. CASE Submit
  BY <1>2, SubmitInv
<1>3. CASE NoCandidate
  BY <1>3, NoCandidateInv
<1>4. CASE Materialize
  BY <1>4, MaterializeInv
<1>5. CASE Crash
  BY <1>5, CrashInv
<1>6. CASE KeepBase \/ Promote \/ NoGraft
  BY <1>6, KeepOrPromoteInv
<1>7. CASE \E kind \in Kinds, p \in Part :
             /\ \E row \in RowMenu[kind] : row.name = p.name /\ row.body \in {None, p.body}
             /\ Graft(kind, p)
  BY <1>7, GraftInv
<1>8. CASE NextRound
  BY <1>8, NextRoundInv
<1>9. CASE UNCHANGED vars
  BY <1>9 DEF vars, IInv, CountInv, WorkspaceInv, GenomesInv, CandidateInv, NextPackageInv,
              WrittenInv, Mountable
<1>10. CASE Done
  BY <1>9, <1>10 DEF Done
<1> QED BY <1>1, <1>2, <1>3, <1>4, <1>5, <1>6, <1>7, <1>8, <1>9, <1>10 DEF Next, Collect

(* It holds always.                                                        *)
LEMMA Invariance == Spec => []IInv
BY InitInv, NextInv, PTL DEF Spec

-------------------------------------------------------------------------------
(* The variables have their types.                                         *)
THEOREM TypeCorrect == Spec => []TypeOK
<1>1. ASSUME NEW g, Encodable(g)
      PROVE  /\ g.persona \in Persona /\ g.fields \in [Fields -> Values]
             /\ \A kind \in Kinds : Range(g.parts[kind]) \subseteq Part
             /\ Off(g) \subseteq {Probe}
  <2>1. g \in Genomes /\ LegalParts(g.parts) /\ g.off # <<{}>>
    BY <1>1 DEF Encodable
  <2>2. g.persona \in Persona /\ g.fields \in [Fields -> Values]
    BY <2>1 DEF Genomes
  <2>3. \A kind \in Kinds : Range(g.parts[kind]) \subseteq Part
    BY <2>1, PartsOf
  <2> QED BY <2>1, <2>2, <2>3, DisabledIsOff
<1>2. ASSUME IInv PROVE TypeOK
  <2>1. Len(cand) <= 1 /\ \A c \in Range(cand) : Encodable(c.genome)
    <3>1. CASE cand = <<>>
      BY <3>1 DEF Range
    <3>2. CASE cand # <<>>
      <4>1. PICK c : cand = <<c>> /\ Encodable(c.genome)
        BY <1>2, <3>2 DEF IInv, CandidateInv
      <4>2. Range(cand) = {c} /\ Len(cand) = 1
        BY <4>1 DEF Range
      <4> QED BY <4>1, <4>2
    <3> QED BY <3>1, <3>2
  <2>2. \A g \in {base, promised} \cup {c.genome : c \in Range(cand)} : Encodable(g)
    BY <1>2, <2>1 DEF IInv, GenomesInv
  <2>3. ASSUME NEW kind \in Kinds
        PROVE  Range(doc.mounts[kind]) \subseteq RowMenu[kind]
    <3>1. doc.mounts[kind] \in Seq(RowMenu[kind])
      BY <1>2 DEF IInv, WorkspaceInv, Mountable
    <3> QED BY <3>1, LenProperties, ElementOfSeq DEF Range
  <2>4. doc.persona \in Persona /\ doc.fields \in [Fields -> Values]
    BY <1>2 DEF IInv, WorkspaceInv, Compositions
  <2>5. files \in [Kinds \X Names -> Bodies \cup {None}]
    BY <1>2 DEF IInv, WorkspaceInv, PluginTree
  <2> QED BY <1>1, <1>2, <2>1, <2>2, <2>3, <2>4, <2>5 DEF TypeOK, IInv, CountInv
<1> QED BY <1>2, Invariance, PTL

(* What the next round is based on reads back, provenance verified, as the *)
(* genome that was promoted or grafted (harness_spec.py, materialize.py).  *)
THEOREM BasesArePromised == Spec => []BaseIsPromised
<1>1. IInv => BaseIsPromised
  BY NextReadsBack DEF BaseIsPromised
<1> QED BY <1>1, Invariance, PTL

(* However far the writing of a package came, and over whatever remains,   *)
(* it reads as the whole candidate or not at all (materialize.py).         *)
THEOREM ReadablesAreWhole == Spec => []ReadableIsWhole
<1>1. IInv => ReadableIsWhole
  <2> SUFFICES ASSUME IInv, phase \in Writing \ {"clear"}
               PROVE  VerifiedSpec(pkg) \in {<<>>, <<cand[1].genome>>}
    BY DEF ReadableIsWhole
  <2> DEFINE g == cand[1].genome
  <2>1. WrittenInv /\ Encodable(g)
    BY DEF IInv, CandidateInv
  <2>2. CASE phase \in {"plugins", "composition"}
    <3>1. pkg.composition = <<>>
      BY <2>1, <2>2 DEF WrittenInv, EmptyPackage
    <3> QED BY <3>1 DEF VerifiedSpec
  <2>3. CASE phase \in {"manifest", "meta"}
    <3>1. /\ pkg.composition = <<CordisDocument(g)>> /\ pkg.files = PluginFiles(g)
          /\ pkg.manifest \in {<<>>, <<Inventory(g)>>} /\ pkg.meta = <<>>
      BY <2>1, <2>3 DEF WrittenInv, EmptyPackage, Whole
    <3> QED BY <2>1, <3>1, PackageReadsBack
  <2> QED BY <2>2, <2>3 DEF Writing
<1> QED BY <1>1, Invariance, PTL

(* What a genome mounts is as many components as it names.                 *)
LEMMA DistinctNames ==
  ASSUME NEW g, Encodable(g), NEW kind \in Kinds
  PROVE  Cardinality(NamesOf(g.parts[kind])) = Len(g.parts[kind])
<1> DEFINE s == g.parts[kind]
           f == [i \in 1 .. Len(s) |-> s[i].name]
<1>1. Len(s) \in Nat /\ DOMAIN s = 1 .. Len(s)
  BY PartsOf, LenProperties DEF Encodable
<1>2. \A i, j \in 1 .. Len(s) : s[i].name = s[j].name => i = j
  BY <1>1 DEF Encodable, LegalParts, LegalNames
<1>3. NamesOf(s) = {s[i].name : i \in 1 .. Len(s)}
  BY <1>1 DEF NamesOf, Range
<1> HIDE DEF s
<1>4. f \in Bijection(1 .. Len(s), NamesOf(s))
  <2>1. f \in [1 .. Len(s) -> NamesOf(s)]
    BY <1>3
  <2>2. \A i, j \in 1 .. Len(s) : f[i] = f[j] => i = j
    BY <1>2
  <2>3. \A n \in NamesOf(s) : \E i \in 1 .. Len(s) : f[i] = n
    BY <1>3
  <2> HIDE DEF f
  <2>4. f \in Injection(1 .. Len(s), NamesOf(s))
    BY <2>1, <2>2 DEF Injection, IsInjective
  <2>5. f \in Surjection(1 .. Len(s), NamesOf(s))
    BY <2>1, <2>3 DEF Surjection
  <2> QED BY <2>4, <2>5 DEF Bijection
<1>5. IsFiniteSet(1 .. Len(s)) /\ Cardinality(1 .. Len(s)) = Len(s)
  <2>1. 1 \in Int /\ Len(s) \in Int
    BY <1>1
  <2>2. IsFiniteSet(1 .. Len(s))
        /\ Cardinality(1 .. Len(s)) = IF 1 > Len(s) THEN 0 ELSE Len(s) - 1 + 1
    BY <2>1, FS_Interval
  <2> QED BY <1>1, <2>2
<1>6. Cardinality(NamesOf(s)) = Len(s)
  BY <1>4, <1>5, FS_Bijection DEF ExistsBijection
<1> QED BY <1>6 DEF s

(* Whatever was submitted or grafted, the base of a round is within the    *)
(* caps, holds gated code only, claims nothing that is not mounted and     *)
(* mentions what is, if only inside a longer name: for any names, whether  *)
(* or not one is part of another (component_ratchet.py, harness_spec.py).  *)
THEOREM BasesAreSound == Spec => []BaseIsSound
<1>1. IInv => BaseIsSound
  <2> SUFFICES ASSUME IInv PROVE BaseIsSound
    OBVIOUS
  <2>1. Encodable(base) /\ Advertised(base)
    BY DEF IInv, GenomesInv
  <2>2. ASSUME NEW kind \in Kinds
        PROVE  /\ Len(base.parts[kind]) <= Cap[kind]
               /\ Cardinality(NamesOf(base.parts[kind])) = Len(base.parts[kind])
               /\ \A n \in NamesOf(base.parts[kind]) :
                    n \notin base.persona.mentions =>
                      \E m \in base.persona.mentions : <<n, m>> \in PartOf
               /\ kind \in CodeKinds => \A p \in Range(base.parts[kind]) : p.body \in Safe
    <3>1. Cardinality(NamesOf(base.parts[kind])) = Len(base.parts[kind])
      BY <2>1, DistinctNames
    <3>2. \A n \in NamesOf(base.parts[kind]) :
            n \notin base.persona.mentions =>
              \E m \in base.persona.mentions : <<n, m>> \in PartOf
      <4>1. \A n \in NamesOf(base.parts[kind]) : Declared(base, n)
        BY <2>1, Zenon DEF Advertised
      <4>2. ASSUME NEW n, Declared(base, n), n \notin base.persona.mentions
            PROVE  \E m \in base.persona.mentions : <<n, m>> \in PartOf
        <5>1. PICK m \in base.persona.mentions : n = m \/ <<n, m>> \in PartOf
          BY <4>2 DEF Declared
        <5> QED BY <4>2, <5>1
      <4> QED BY <4>1, <4>2, Zenon
    <3> QED BY <2>1, <3>1, <3>2 DEF Encodable, LegalParts, Gated
  <2>3. ASSUME NEW claim \in base.persona.claims
        PROVE  \E p \in Range(base.parts[claim[1]]) : p.name = claim[2]
    BY <2>1 DEF Advertised, NamesOf
  <2> QED BY <2>1, <2>2, <2>3 DEF BaseIsSound, Advertised
<1> QED BY <1>1, Invariance, PTL
===============================================================================
