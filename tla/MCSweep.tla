------------------------------- MODULE MCSweep -------------------------------
(***************************************************************************)
(* Small instances of the offline sweeps: two calls, from the API or not,  *)
(* that may race for the API's container, and feeds with two events of one *)
(* customer, a consequential one, an event written in another time zone    *)
(* and a record that cannot be read.                                       *)
(***************************************************************************)
EXTENDS SweepProperties, TLC

CONSTANTS s1, s2

RuleOf(consequential) ==
  [purpose |-> "service", channel |-> "chat", maxAgeHours |-> 1,
   required |-> {}, consequential |-> consequential, template |-> "chat"]

MCRules == [payment |-> RuleOf(FALSE), fraud |-> RuleOf(TRUE)]
MCCaps  == <<"service", "chat">> :> 1
MCQuiet == [SG |-> [start |-> 1, end |-> 3, offset |-> 0]]

RecordOf(id, type, ago) ==
  [id |-> id, type |-> type, subject |-> "s1", market |-> "SG",
   attributes |-> <<>>, wellFormed |-> TRUE, ago |-> ago, written |-> 0,
   occurred |-> 0]

AtMinute(rec, minute) == [rec EXCEPT !.written = minute, !.occurred = minute]
Zoned(rec)            == [rec EXCEPT !.written = @ + 480]

JustNow   == RecordOf(1, "payment", 0)
Earlier   == AtMinute(RecordOf(2, "payment", NoAge), -10)
Suspected == AtMinute(RecordOf(3, "fraud", NoAge), -20)
Stranger  == [AtMinute(RecordOf(4, "fraud", NoAge), -5) EXCEPT !.subject = "s2"]
Broken    == [RecordOf(5, "payment", 0) EXCEPT !.wellFormed = FALSE]
Later     == AtMinute(RecordOf(6, "payment", NoAge), 1)
Expiring  == RecordOf(7, "expiring_card", 1)

MCFeeds ==
  {<<Expiring, Later, JustNow, Suspected, Earlier>>,
   <<Zoned(Stranger)>>,
   <<Earlier, Broken>>}

MCQueries == {[types |-> {"payment", "fraud"}, since |-> -15, limit |-> 2]}

MCConsent ==
  [s1 |-> [outcome |-> "allowed", denying |-> FALSE, sends |-> 0, limit |-> NoLimit]]

AllFaults  == {"audit_error", "router_error", "crash"}
AuditFault == {"audit_error"}

HeldFeed == {<<Suspected, Earlier>>}
AllOfIt  == {[types |-> {}, since |-> NoSince, limit |-> 2]}
=============================================================================
