----------------------------- MODULE AuditTrail -----------------------------
(***************************************************************************)
(* One durable audit trail over its life: the service appends to it, with  *)
(* or without an external head anchor, whoever has the file edits it, an   *)
(* operator re-anchors it, and an auditor exports it and restores the      *)
(* export elsewhere (adapters/local/audit.py, docs/runbook.md 257-281).    *)
(***************************************************************************)
EXTENDS AuditChain

CONSTANTS
  Bodies,      \* what a record may say
  MaxRecords,  \* bound: records written
  MaxEdits     \* bound: edits of the store or of an export

VARIABLES
  rows,      \* the store
  anchor,    \* the head the anchor file holds, NoHead before the first
  wired,     \* OUTREACH_AUDIT_ANCHOR names the file
  export,    \* an exported trail: its header and its rows
  restored,  \* the rows a fresh store took from an export
  edited,    \* edits so far
  written,   \* every body that was ever recorded
  vouched,   \* the bodies the anchor was established for, and recorded under it since
  exported   \* the bodies that were exported

vars == <<rows, anchor, wired, export, restored, edited, written, vouched, exported>>

ghosts == <<written, vouched, exported>>

NoExport == [header |-> NoHead, rows |-> <<>>]

Init ==
  /\ rows = <<>> /\ anchor = NoHead /\ wired \in BOOLEAN
  /\ export = NoExport /\ restored = <<>> /\ edited = 0
  /\ written = <<>> /\ vouched = <<>> /\ exported = <<>>

(* A plausible bug: the anchor is last-write-wins. *)
RecordReanchors(body) ==
  /\ Len(written) < MaxRecords
  /\ rows' = Appended(rows, body)
  /\ anchor' = IF wired THEN HeadOf(rows') ELSE anchor
  /\ written' = Append(written, body)
  /\ vouched' = IF wired THEN Append(vouched, body) ELSE vouched
  /\ UNCHANGED <<wired, export, restored, edited, exported>>

(* record(): refused, with no other effect, once store and anchor disagree. *)
Record(body) ==
  /\ Len(written) < MaxRecords
  /\ wired /\ anchor # NoHead => anchor = HeadOf(rows)
  /\ rows' = Appended(rows, body)
  /\ anchor' = IF wired THEN HeadOf(rows') ELSE anchor
  /\ written' = Append(written, body)
  /\ vouched' = IF ~wired THEN vouched
                ELSE IF anchor = NoHead THEN HeadOf(rows').hash ELSE Append(vouched, body)
  /\ UNCHANGED <<wired, export, restored, edited, exported>>

(* The process is started again with the other setting. *)
Reopen ==
  /\ wired' = ~wired
  /\ UNCHANGED <<rows, anchor, export, restored, edited, ghosts>>

(* reanchor(): a deliberate act. *)
Reanchor ==
  /\ wired /\ rows # <<>> /\ FirstBad(rows) = 0
  /\ anchor' = HeadOf(rows) /\ vouched' = BodiesOf(rows)
  /\ UNCHANGED <<rows, wired, export, restored, edited, written, exported>>

-----------------------------------------------------------------------------
(* What file access can do to the rows, the triggers dropped: rewrite one, *)
(* delete one, the newest included, or swap two. *)
EditsOf(table) ==
  {Rewritten(table, i, body) : i \in DOMAIN table, body \in Bodies}
    \cup {Without(table, i) : i \in DOMAIN table}
    \cup {[table EXCEPT ![i] = table[j], ![j] = table[i]] : i, j \in DOMAIN table}

EditStore ==
  /\ edited < MaxEdits
  /\ rows' \in EditsOf(rows) \ {rows}
  /\ edited' = edited + 1
  /\ UNCHANGED <<anchor, wired, export, restored, ghosts>>

EditExport ==
  /\ edited < MaxEdits
  /\ \E table \in EditsOf(export.rows) \ {export.rows} :
       export' = [export EXCEPT !.rows = table]
  /\ edited' = edited + 1
  /\ UNCHANGED <<rows, anchor, wired, restored, ghosts>>

(* export_jsonl(): the header commits to the head it ships with. *)
Export ==
  /\ rows # <<>> /\ FirstBad(rows) = 0
  /\ export' = [header |-> HeadOf(rows), rows |-> rows]
  /\ exported' = BodiesOf(rows)
  /\ restored' = <<>>
  /\ UNCHANGED <<rows, anchor, wired, edited, written, vouched>>

(* import_jsonl() into a fresh store; a shortened export is refused. *)
Import ==
  /\ export # NoExport /\ Verifies(export.rows, export.header)
  /\ restored' = export.rows
  /\ UNCHANGED <<rows, anchor, wired, export, edited, ghosts>>

Next ==
  \/ \E body \in Bodies : Record(body)
  \/ Reopen \/ Reanchor
  \/ EditStore \/ EditExport
  \/ Export \/ Import

Spec == Init /\ [][Next]_vars

-----------------------------------------------------------------------------
IsSubsequence(s, t) ==
  \E place \in [DOMAIN s -> DOMAIN t] :
    /\ \A i, j \in DOMAIN s : i < j => place[i] < place[j]
    /\ \A i \in DOMAIN s : s[i] = t[place[i]]

(* What the chain alone promises: a trail that verifies, anchored or not,  *)
(* tells only what was recorded, and in the order it was recorded. It may  *)
(* still have lost rows: the newest of some moment, before later appends   *)
(* (adapters/local/audit.py 1-8, docs/runbook.md 262-267). That a row      *)
(* lost anywhere else is found is DeletionIsFound of AuditTrailProofs.     *)
VerifiedTrailIsGenuine ==
  FirstBad(rows) = 0 => IsSubsequence(BodiesOf(rows), written)

(* What the anchor adds, whatever the settings, the file and the appends   *)
(* did in between: a trail that verifies against it holds everything that  *)
(* was recorded under it since it was established, and an export is        *)
(* restored whole or not at all (docs/runbook.md 269-281,                  *)
(* scripts/portability_demo.py 170-236).                                   *)
AnchoredTrailIsWhole ==
  /\ wired /\ anchor # NoHead /\ Verifies(rows, anchor) => BodiesOf(rows) = vouched
  /\ restored # <<>> => BodiesOf(restored) = exported

=============================================================================
