------------------------------ MODULE LockExport ------------------------------
(***************************************************************************)
(* make lock (scripts/lock.py): uv resolves the project once, then each    *)
(* lockfile is exported from that resolution and given back its header of  *)
(* tags and commits. uv replaces the file before the script looks at it,   *)
(* so every abort after an export has to put the old file back; and the    *)
(* script may be killed between any two of its steps.                      *)
(***************************************************************************)
EXTENDS Integers, Sequences

CONSTANT MaxRuns  \* bound: how often the developer runs it

TARGETS == <<"dev", "gcp">>

(* A lockfile: the resolution its pins come from, whether it opens with    *)
(* the script's header, and the commons its text pins by no commit.        *)
File(resolution, headed, unpinned) ==
  [resolution |-> resolution, headed |-> headed, unpinned |-> unpinned]

Absent == File(-1, FALSE, FALSE)

VARIABLES
  at,        \* "idle", "resolving", "reading", "exporting", "checking" or "writing"
  runs,      \* runs started
  resolution,\* the revision of uv.lock
  files,     \* target |-> its lockfile, or Absent
  index,     \* the target in hand
  previous,  \* what that target held when it was read
  began,     \* files as they were when the run began
  rc         \* how the last run ended: "none", "ok", "failed" or "killed"

vars == <<at, runs, resolution, files, index, previous, began, rc>>


Init ==
  /\ at = "idle" /\ runs = 0 /\ resolution = 0
  /\ files \in [{"dev", "gcp"} -> {Absent, File(0, TRUE, FALSE)}]
  /\ index = 1 /\ previous = Absent /\ began = files /\ rc = "none"

target == TARGETS[index]

Ends(result) == at' = "idle" /\ rc' = result

Start ==
  /\ at = "idle" /\ runs < MaxRuns
  /\ at' = "resolving" /\ runs' = runs + 1 /\ began' = files /\ rc' = "none"
  /\ UNCHANGED <<resolution, files, index, previous>>

(* uv lock: a failure ends the run before a file is touched. *)
Resolve ==
  /\ at = "resolving"
  /\ \/ resolution' \in {resolution, resolution + 1} /\ at' = "reading" /\ UNCHANGED rc
     \/ Ends("failed") /\ UNCHANGED resolution
  /\ index' = 1
  /\ UNCHANGED <<runs, files, previous, began>>

Read ==
  /\ at = "reading"
  /\ previous' = files[target]
  /\ at' = "exporting"
  /\ UNCHANGED <<runs, resolution, files, index, began, rc>>

(* _restore(): nothing to put back where no file was. *)
Restored == IF previous = Absent THEN files ELSE [files EXCEPT ![target] = previous]

(* uv export: the new text replaces the file, without a header; a commons  *)
(* the project declares may be left unpinned. A failing one may have       *)
(* written already.                                                        *)
Export ==
  /\ at = "exporting"
  /\ \E unpinned \in BOOLEAN :
       /\ files' = [files EXCEPT ![target] = File(resolution, FALSE, unpinned)]
       /\ at' = "checking"
  /\ UNCHANGED <<runs, resolution, index, previous, began, rc>>

ExportFails ==
  /\ at = "exporting"
  /\ \/ files' = Restored
     \/ previous = Absent /\ files' = [files EXCEPT ![target] = File(resolution, FALSE, FALSE)]
  /\ Ends("failed")
  /\ UNCHANGED <<runs, resolution, index, previous, began>>

(* A plausible bug: the abort reports the failure and leaves uv's file.    *)
CheckPinsUnrestored ==
  /\ at = "checking"
  /\ \/ files[target].unpinned /\ files' = files /\ Ends("failed")
     \/ ~files[target].unpinned /\ at' = "writing" /\ UNCHANGED <<files, rc>>
  /\ UNCHANGED <<runs, resolution, index, previous, began>>

(* Every declared commons must be pinned by a commit. *)
CheckPins ==
  /\ at = "checking"
  /\ \/ files[target].unpinned /\ files' = Restored /\ Ends("failed")
     \/ ~files[target].unpinned /\ at' = "writing" /\ UNCHANGED <<files, rc>>
  /\ UNCHANGED <<runs, resolution, index, previous, began>>

WriteHeader ==
  /\ at = "writing"
  /\ files' = [files EXCEPT ![target] = File(@.resolution, TRUE, @.unpinned)]
  /\ IF index < Len(TARGETS)
       THEN at' = "reading" /\ index' = index + 1 /\ UNCHANGED rc
       ELSE Ends("ok") /\ UNCHANGED index
  /\ UNCHANGED <<runs, resolution, previous, began>>

(* Killed between two calls, or while it writes: the text is cut short.    *)
Killed ==
  /\ at # "idle"
  /\ \/ UNCHANGED files
     \/ at = "writing" /\ files' = [files EXCEPT ![target] = File(resolution, TRUE, TRUE)]
  /\ Ends("killed")
  /\ UNCHANGED <<runs, resolution, index, previous, began>>

Next ==
  \/ Start \/ Resolve \/ Read \/ Export \/ ExportFails \/ CheckPins \/ WriteHeader
  \/ Killed

Spec == Init /\ [][Next]_vars

-----------------------------------------------------------------------------
(* A run that ended by itself leaves a headerless lockfile, or one with an *)
(* unpinned commons, only where the run found none or one already damaged  *)
(* by a kill; a run that reports success leaves both complete and of the   *)
(* same resolution, a kill before it included; and a failed run leaves     *)
(* each file either as it was or complete                                  *)
(* (scripts/lock.py 119-127, 130-173).                                     *)
LockfilesStayWhole ==
  at = "idle" /\ rc \in {"ok", "failed"} =>
    \A t \in DOMAIN files :
      LET whole == files[t] = File(resolution, TRUE, FALSE)
      IN  IF rc = "ok" THEN whole
          ELSE whole \/ files[t] = began[t] \/ began[t] = Absent

=============================================================================
