------------------------------ MODULE Provenance ------------------------------
(***************************************************************************)
(* provenance.py: the source of a campaign is copied to an immutable       *)
(* directory and described by a manifest, while the repository may be      *)
(* edited and the command killed; a job checks the copy before it runs.    *)
(***************************************************************************)
EXTENDS Integers, FiniteSets

CONSTANTS
  Files,       \* the selected source files
  MaxChanges,  \* a bound on the edits of the repository and of the copy
  None

ASSUME ProvenanceAssumption == MaxChanges \in Nat

VARIABLES
  repo,        \* the version of each file
  copy,        \* snapshot_dir, or None
  manifest,    \* its recorded versions, or None
  snap,        \* the running command, or None
  changes,     \* edits made
  patched      \* history: the copy was edited by hand

provenanceVars == <<repo, copy, manifest, snap, changes, patched>>

ProvenanceInit ==
  /\ repo = [f \in Files |-> 0] /\ copy = None /\ manifest = None /\ snap = None
  /\ changes = 0 /\ patched = FALSE

EditRepo(f) ==
  /\ changes < MaxChanges /\ changes' = changes + 1
  /\ repo' = [repo EXCEPT ![f] = changes + 1]
  /\ UNCHANGED <<copy, manifest, snap, patched>>

HotPatch(f) ==
  /\ changes < MaxChanges /\ changes' = changes + 1 /\ copy # None
  /\ copy' = [copy EXCEPT ![f] = changes + 1] /\ patched' = TRUE
  /\ UNCHANGED <<repo, manifest, snap>>

Nothing == [f \in {} |-> 0]
SnapAt(where) == snap # None /\ snap.at = where
Whole(x) == DOMAIN x = Files

StartSnapshot == \* only a campaign that has no manifest yet takes one
  /\ snap = None /\ manifest = None /\ snap' = [at |-> "inventory", rows |-> Nothing, staged |-> Nothing]
  /\ UNCHANGED <<repo, copy, manifest, changes, patched>>

With(x, f, v) == [g \in DOMAIN x \cup {f} |-> IF g = f THEN v ELSE x[g]]

ReadFile(f) ==
  /\ SnapAt("inventory") /\ f \notin DOMAIN snap.rows
  /\ LET rows == With(snap.rows, f, repo[f]) IN
       snap' = [snap EXCEPT !.rows = rows, !.at = IF Whole(rows) THEN "compare" ELSE @]
  /\ UNCHANGED <<repo, copy, manifest, changes, patched>>

(* A directory left by a command killed before its manifest is taken over  *)
(* only if it is the same, byte by byte.                                   *)
CompareCopy ==
  /\ SnapAt("compare")
  /\ snap' = IF copy = None THEN [snap EXCEPT !.at = "staging"]
             ELSE IF copy = snap.rows THEN [snap EXCEPT !.at = "manifest"] ELSE None
  /\ UNCHANGED <<repo, copy, manifest, changes, patched>>

StageFile(f) ==
  /\ SnapAt("staging") /\ f \notin DOMAIN snap.staged
  /\ LET staged == With(snap.staged, f, repo[f]) IN
       snap' = [snap EXCEPT !.staged = staged, !.at = IF Whole(staged) THEN "publish" ELSE @]
  /\ UNCHANGED <<repo, copy, manifest, changes, patched>>

(* Variant for mutation: the staged files are taken on trust.              *)
PublishCopy_Unchecked ==
  /\ SnapAt("publish") /\ copy' = snap.staged /\ snap' = [snap EXCEPT !.at = "manifest"]
  /\ UNCHANGED <<repo, manifest, changes, patched>>

PublishCopy == \* verified against the inventory, then renamed into place
  /\ SnapAt("publish")
  /\ IF snap.staged = snap.rows
     THEN copy' = snap.staged /\ snap' = [snap EXCEPT !.at = "manifest"]
     ELSE UNCHANGED copy /\ snap' = None
  /\ UNCHANGED <<repo, manifest, changes, patched>>

WriteManifest ==
  /\ SnapAt("manifest") /\ manifest' = snap.rows /\ snap' = None
  /\ UNCHANGED <<repo, copy, changes, patched>>

KillSnapshot ==
  /\ snap # None /\ snap' = None
  /\ UNCHANGED <<repo, copy, manifest, changes, patched>>

(* verify, by the driver before every step and by every job: the repository *)
(* and the copy are both as recorded.                                      *)
Verified == manifest # None /\ repo = manifest /\ copy = manifest

ProvenanceNext ==
  \/ \E f \in Files : EditRepo(f) \/ HotPatch(f) \/ ReadFile(f) \/ StageFile(f)
  \/ StartSnapshot \/ CompareCopy \/ PublishCopy \/ WriteManifest \/ KillSnapshot

(* Whatever was edited while files were read and copied, and wherever the  *)
(* command was killed, a recorded copy that nobody patched is the copy of  *)
(* the record.                                                             *)
SnapshotIsWhole ==
  /\ copy # None => Whole(copy)
  /\ manifest # None /\ ~patched => copy = manifest
=============================================================================
