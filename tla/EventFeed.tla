------------------------------ MODULE EventFeed ------------------------------
(***************************************************************************)
(* The offline event source (adapters/local/events.py): which events of a  *)
(* feed a sweep is given, and in which order.                              *)
(*                                                                         *)
(* A record of the feed is                                                 *)
(*   [id, type, subject, market, attributes, wellFormed, ago, written,     *)
(*    occurred]                                                            *)
(* where `ago' is its age in minutes, NoAge for a record that states the   *)
(* instant instead.  Such an instant is a string, which the source orders  *)
(* and compares as it is written: `written' is its place in that order and *)
(* `occurred' the instant it means, the same number for every record that  *)
(* is written in UTC.                                                      *)
(***************************************************************************)
EXTENDS TriggerEngine, Sequences, FiniteSets

CONSTANTS NoAge, NoSince, Tenant

(* Every record is converted before any is selected. *)
Readable(feed) == \A i \in DOMAIN feed : feed[i].wellFormed

WrittenAt(rec, t) == IF rec.ago = NoAge THEN rec.written ELSE t - rec.ago

OccurredAt(rec, t) == IF rec.ago = NoAge THEN rec.occurred ELSE t - rec.ago

ToEvent(rec, t) ==
  [id |-> rec.id, type |-> rec.type, tenant |-> Tenant,
   subject |-> rec.subject, market |-> rec.market,
   occurred |-> OccurredAt(rec, t), attributes |-> rec.attributes]

(* A query is [types, since, limit]; no types means all of them. *)
Matches(rec, query, t) ==
  /\ query.types = {} \/ rec.type \in query.types
  /\ query.since = NoSince \/ WrittenAt(rec, t) >= query.since

Wanted(feed, query, t) == {i \in DOMAIN feed : Matches(feed[i], query, t)}

(* By written instant, then by id, and otherwise as they come. *)
Precedes(feed, i, j, t) ==
  LET wi == WrittenAt(feed[i], t)
      wj == WrittenAt(feed[j], t)
  IN  \/ wi < wj
      \/ wi = wj /\ feed[i].id < feed[j].id
      \/ wi = wj /\ feed[i].id = feed[j].id /\ i < j

(* The place among the positions I is one more than those that precede.    *)
Place(feed, I, i, t) == Cardinality({j \in I : j = i \/ Precedes(feed, j, i, t)})

Sorted(feed, I, t) ==
  [k \in 1..Cardinality(I) |-> feed[CHOOSE i \in I : Place(feed, I, i, t) = k]]

UpTo(limit, s) ==
  SubSeq(s, 1, IF limit > Len(s) THEN Len(s) ELSE IF limit < 0 THEN 0 ELSE limit)

-----------------------------------------------------------------------------
(* A plausible bug: the limit is applied while reading, before the order. *)
SelectLimitFirst(feed, query, t) ==
  LET wanted == Wanted(feed, query, t)
  IN  Sorted(feed, {i \in wanted : Cardinality({j \in wanted : j <= i}) <= query.limit}, t)

(* The first `limit' matching records, in that order. *)
Select(feed, query, t) ==
  UpTo(query.limit, Sorted(feed, Wanted(feed, query, t), t))

Events(feed, query, t) ==
  LET selected == Select(feed, query, t)
  IN  [i \in DOMAIN selected |-> ToEvent(selected[i], t)]

=============================================================================
