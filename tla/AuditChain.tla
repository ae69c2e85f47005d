----------------------------- MODULE AuditChain -----------------------------
(***************************************************************************)
(* The hash-chained audit log as this repository uses it                   *)
(* (adapters/local/audit.py, scripts/portability_demo.py, scripts/demo.py; *)
(* the log itself is the external hex-service-kit).                        *)
(*                                                                         *)
(* A row is [body, hash]. A hash that cannot be forged is the sequence of  *)
(* the bodies it commits to; a head is [entries, hash] of the last row.    *)
(***************************************************************************)
EXTENDS Integers, Sequences

NoHead == [entries |-> 0, hash |-> <<>>]

HashAt(rows, i) == IF i = 0 THEN <<>> ELSE rows[i].hash

HeadOf(rows) == [entries |-> Len(rows), hash |-> HashAt(rows, Len(rows))]

Appended(rows, body) ==
  Append(rows, [body |-> body, hash |-> Append(HashAt(rows, Len(rows)), body)])

AppendedAll(rows, bodies) ==
  rows \o [i \in DOMAIN bodies |->
            [body |-> bodies[i], hash |-> HashAt(rows, Len(rows)) \o SubSeq(bodies, 1, i)]]

Linked(rows, i) == rows[i].hash = Append(HashAt(rows, i - 1), rows[i].body)

First(bad) == IF bad = {} THEN 0 ELSE CHOOSE i \in bad : \A j \in bad : i <= j

(* A plausible bug: each row is checked against itself, and no link is. *)
FirstBadUnlinked(rows) ==
  First({i \in DOMAIN rows : LET hash == rows[i].hash
                             IN  hash # <<>> /\ hash[Len(hash)] # rows[i].body})

(* first_bad_seq of the report; 0 when every link holds. *)
FirstBad(rows) == First({i \in DOMAIN rows : ~Linked(rows, i)})

(* verify_chain(): the links, and the head where one is kept. *)
Verifies(rows, anchor) ==
  FirstBad(rows) = 0 /\ (anchor # NoHead => anchor = HeadOf(rows))

BodiesOf(rows) == [i \in DOMAIN rows |-> rows[i].body]

Rewritten(rows, i, body) == [rows EXCEPT ![i].body = body]

Without(rows, i) == SubSeq(rows, 1, i - 1) \o SubSeq(rows, i + 1, Len(rows))

=============================================================================
