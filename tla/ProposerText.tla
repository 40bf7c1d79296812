------------------------------ MODULE ProposerText -----------------------------
(***************************************************************************)
(* What the proposer is told beside its task: the telemetry of the last    *)
(* visit (proposer_io.py render_feedback), the brief that two specialists  *)
(* of the frozen model draw from it (analysis.py) and the guard their      *)
(* lines and the curator's notes pass (leak_guard.py).                     *)
(*                                                                         *)
(* A line is known by what the guard tells apart: a plain fact, a line     *)
(* with words that claim a result, one with a leak marker, one with code.  *)
(* A reply of a specialist is None when the call failed or its text holds  *)
(* no JSON object.                                                         *)
(***************************************************************************)
EXTENDS Integers, Sequences, SequencesExt

CONSTANTS
  RowCap,                  \* cap_rows of the dossier
  FindingCap, OtherCap,    \* lines of a section
  None

Lines == {"fact", "claim", "leak", "code"}

-------------------------------------------------------------------------------
(* leak_guard.py.  A marker drops a line, a claim is demoted; only a note  *)
(* is dropped for code.                                                    *)

HasMarker(line) == line = "leak"
HasCode(line) == line = "code"
Neutralized(line) == IF line = "claim" THEN "fact" ELSE line

Sanitized(line) == IF HasMarker(line) THEN None ELSE Neutralized(line)

SanitizedNote(note) ==
  IF note = None \/ HasCode(note) THEN None ELSE Sanitized(note)

-------------------------------------------------------------------------------
(* analysis.py.  Feedback is [round, base, best, stuck, rows, ...] with    *)
(* one row for each slot of the round.                                     *)

Dossier(feedback) ==
  LET n == Len(feedback.rows) IN
  [round |-> feedback.round,
   rows |-> IF n <= RowCap THEN feedback.rows
            ELSE SubSeq(feedback.rows, n - RowCap + 1, n)]

(* The first cap lines that pass.                                          *)
CleanList(items, cap) ==
  LET passed == SelectSeq(items, LAMBDA line : Sanitized(line) # None)
      kept == SubSeq(passed, 1, IF Len(passed) <= cap THEN Len(passed) ELSE cap)
  IN [i \in DOMAIN kept |-> Sanitized(kept[i])]

(* Either specialist answers with three lists; empty ones make no section. *)
Sections(reply) ==
  IF reply = None THEN <<>>
  ELSE SelectSeq(<<CleanList(reply[1], FindingCap), CleanList(reply[2], OtherCap),
                   CleanList(reply[3], OtherCap)>>, LAMBDA lines : lines # <<>>)

(* run_analysis: no rows, or nothing left of both replies, is no brief.    *)
Brief(feedback, perf, design) ==
  LET sections == Sections(perf) \o Sections(design) IN
  IF feedback.rows = <<>> \/ sections = <<>> THEN None
  ELSE [dossier |-> Dossier(feedback), sections |-> sections]

-------------------------------------------------------------------------------
(* proposer_io.py.                                                         *)

(* A best score of zero reads as none, and none as the base score.         *)
BestTold(feedback) ==
  IF feedback.best \in {None, 0} THEN feedback.base ELSE feedback.best

(* Either the candidates' maximum was refused and the incumbent remains,   *)
(* or the best candidate reached a score.                                  *)
Headline(feedback) ==
  IF feedback.accepted = "no" /\ BestTold(feedback) > feedback.base
  THEN [says |-> "refused", from |-> feedback.outgoing, to |-> BestTold(feedback)]
  ELSE [says |-> "reached", from |-> feedback.base, to |-> BestTold(feedback)]

RenderFeedback(feedback) ==
  [round |-> feedback.round, note |-> feedback.note, headline |-> Headline(feedback),
   stuck |-> feedback.stuck, rows |-> feedback.rows]

(* build_user_message: the harness is stuck when it scores what its seed   *)
(* program scores.                                                         *)
UserMessage(seed, base, told, brief) ==
  [seed |-> seed, base |-> base, stuckAtSeed |-> seed.score = base.score,
   told |-> told, brief |-> brief]
===============================================================================
