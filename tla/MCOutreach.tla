------------------------------ MODULE MCOutreach ------------------------------
(***************************************************************************)
(* Small instances of the outreach service for TLC.                        *)
(*                                                                         *)
(* The policy has a routine chat rule, a routine voice rule and a          *)
(* consequential voice rule, one market whose quiet window opens at hour 1 *)
(* UTC, and a cap of one per channel so that two threads can collide.      *)
(***************************************************************************)
EXTENDS OutreachProperties, TLC

CONSTANTS r1, r2, r3

RuleOf(channel, consequential) ==
  [purpose |-> "service", channel |-> channel, maxAgeHours |-> 1,
   required |-> {"ref"}, consequential |-> consequential, template |-> channel]

MCRules ==
  [payment |-> RuleOf("chat", FALSE),
   callback |-> RuleOf("voice", FALSE),
   fraud |-> RuleOf("voice", TRUE),
   uncapped |-> [RuleOf("chat", FALSE) EXCEPT !.purpose = "survey"]]

MCCaps == (<<"service", "chat">> :> 1) @@ (<<"service", "voice">> :> 1)

MCQuiet == [SG |-> [start |-> 1, end |-> 3, offset |-> 0]]

(* The voice template names a placeholder no rule carries: it never renders. *)
MCTemplates == [chat |-> {"ref"}, voice |-> {"ref", "name"}]

EventOf(type, occurred) ==
  [id |-> type, type |-> type, tenant |-> "bank", subject |-> "s1",
   market |-> "SG", occurred |-> occurred, attributes |-> [ref |-> {7}, balance |-> {8}]]

Payment  == EventOf("payment", 0)
Callback == EventOf("callback", 0)
Fraud    == EventOf("fraud", 0)
Stale    == EventOf("payment", -61)

(* A text that quotes the fact, and one that adds a figure of the event    *)
(* that no rule requires.                                                  *)
Grounded ==
  [form |-> "body", length |-> 3, figures |-> {7}, quotes |-> {"ref"},
   banned |-> FALSE, personal |-> FALSE]
Invented == [Grounded EXCEPT !.figures = {7, 8}]

Clean ==
  [outcome |-> "allowed", denying |-> FALSE, unknown |-> FALSE,
   echoes |-> TRUE, fresh |-> TRUE, hasId |-> TRUE, limit |-> NoLimit]
Denied == [Clean EXCEPT !.outcome = "denied"]
NoId   == [Clean EXCEPT !.hasId = FALSE]

TwoTexts == {Grounded, Invented}
OneText  == {Grounded}
EveryText ==
  {text \in [form : {"body", "draft_not_json"}, length : {3, 4},
             figures : {{7}, {7, 8}}, quotes : {{}, {"ref"}},
             banned : BOOLEAN, personal : BOOLEAN] :
     text.form # "body" => text.length = 3 /\ text.figures = {7}}

PaymentOnly  == {Payment}
ChatAndFraud == {Payment, Fraud}
EachVerdict  == {Payment, Callback, Fraud}
AllEvents    == {Payment, Callback, Fraud, Stale}

(* One event for each way out of the trigger and the eligibility engines.  *)
EveryEvent ==
  AllEvents \cup
    {[Payment EXCEPT !.type = "unconfigured"],
     [Payment EXCEPT !.occurred = BadTime],
     [Payment EXCEPT !.occurred = 60],
     [Payment EXCEPT !.occurred = -60],
     [Payment EXCEPT !.attributes = [balance |-> {8}]],
     [Payment EXCEPT !.type = "uncapped"],
     [Payment EXCEPT !.subject = "s9"],
     [Payment EXCEPT !.market = "XX"],
     [Fraud EXCEPT !.market = "XX"]}

CleanOnly     == {Clean}
CleanOrNoId   == {Clean, NoId}
CleanOrDenied == {Clean, Denied}
EveryAnswer   ==
  {shape \in [outcome : {"allowed", "denied"}, denying : BOOLEAN,
              unknown : BOOLEAN, echoes : BOOLEAN, fresh : BOOLEAN,
              hasId : {TRUE}, limit : {NoLimit, 0, 1}] :
     shape.outcome = "denied" => ~shape.unknown}

NoFaults     == {}
AllFaults    == FaultKinds
SendFaults   == {"delivery_unconfirmed", "record_error", "record_unconfirmed", "crash"}
LiveFaults   == FaultKinds \ {"consent_error", "drafter_error", "router_error"}
RecordFault  == {"record_error"}
DrafterFault == {"drafter_error"}
=============================================================================
