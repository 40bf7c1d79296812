------------------------------ MODULE ProgramEdit ------------------------------
(***************************************************************************)
(* program_edit.py and InnerSession.apply_edit: a program is a sequence of *)
(* lines, two of which may be the markers of its EVOLVE-BLOCK.  Blank      *)
(* lines and indentation are abstracted.                                   *)
(***************************************************************************)
EXTENDS Integers, Sequences, SequencesExt

BlockStart == "EVOLVE-BLOCK-START"
BlockEnd == "EVOLVE-BLOCK-END"

HasMarkers(p) == Contains(p, BlockStart) /\ Contains(p, BlockEnd)

First(p, line) == SelectInSeq(p, LAMBDA l : l = line)

(* Variant for mutation: what follows the block is kept as it is.          *)
WithoutEnds_Verbatim(lines) == lines

WithoutEnds(lines) == SelectSeq(lines, LAMBDA l : l # BlockEnd)

(* split_program: around the first markers.  With END before START the     *)
(* block is empty and the parts overlap.                                   *)
SplitProgram(p) ==
  IF ~HasMarkers(p) THEN [prefix |-> <<>>, block |-> p, suffix |-> <<>>, markers |-> FALSE]
  ELSE LET start == First(p, BlockStart)
           end == First(p, BlockEnd)
       IN [prefix |-> SubSeq(p, 1, start - 1), block |-> SubSeq(p, start + 1, end - 1),
           suffix |-> WithoutEnds(SubSeq(p, end + 1, Len(p))), markers |-> TRUE]

Assemble(s, body) ==
  IF ~s.markers THEN body
  ELSE s.prefix \o <<BlockStart>> \o body \o <<BlockEnd>> \o s.suffix

(* Variant for mutation: a whole program that was sent is spliced in.      *)
Rewrite_Spliced(p, code) == Assemble(SplitProgram(p), code)

(* Text that has both markers stands for its block.                        *)
Rewrite(p, code) ==
  Assemble(SplitProgram(p), IF HasMarkers(code) THEN SplitProgram(code).block ELSE code)

Occurs(p, search) == {i \in 1 .. Len(p) - Len(search) + 1 :
                        SubSeq(p, i, i + Len(search) - 1) = search}

(* apply_diff: each block where it first occurs in the whole program; one  *)
(* that does not occur is skipped.                                         *)
ApplyDiff(p, diffs) ==
  FoldLeft(LAMBDA q, d :
             IF Occurs(q, d.search) = {} THEN q
             ELSE LET i == Min(Occurs(q, d.search))
                  IN SubSeq(q, 1, i - 1) \o d.replace \o SubSeq(q, i + Len(d.search), Len(q)),
           p, diffs)

Ends(p) == Len(SelectSeq(p, LAMBDA l : l = BlockEnd))

(* The fixed code of a program, and whether another still has it.          *)
KeepsFixed(p, initial) ==
  LET s == SplitProgram(initial)
  IN s.markers => IsPrefix(s.prefix \o <<BlockStart>>, p) /\ IsSuffix(s.suffix, p)
=============================================================================
