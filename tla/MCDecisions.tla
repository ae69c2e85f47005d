----------------------------- MODULE MCDecisions -----------------------------
(* The policy of MCOutreach with a cap of two, a market with a quiet window *)
(* that wraps midnight, and one event per branch of the engines.            *)
EXTENDS DecisionTable, TLC

RuleOf(purpose, channel) ==
  [purpose |-> purpose, channel |-> channel, maxAgeHours |-> 1,
   required |-> {"ref"}, consequential |-> FALSE, template |-> channel]

MCRules ==
  [payment |-> RuleOf("service", "chat"), survey |-> RuleOf("survey", "chat"),
   parcel |-> RuleOf("closed", "chat")]

MCCaps == (<<"service", "chat">> :> 2) @@ (<<"closed", "chat">> :> 0)

(* Windows that wrap midnight, that do not, that are empty; offsets that do *)
(* and do not divide an hour and push the local date either way.            *)
MCQuiet ==
  [SG |-> [start |-> 21, end |-> 8, offset |-> 480],
   LK |-> [start |-> 23, end |-> 1, offset |-> 330],
   US |-> [start |-> 9, end |-> 17, offset |-> -720],
   NZ |-> [start |-> 0, end |-> 23, offset |-> 765],
   HK |-> [start |-> 4, end |-> 4, offset |-> -60]]

(* The instants (UTC) at which one of those windows opens or closes; each is *)
(* assessed at its edge and in the minute before it.                        *)
Edges == {0, 300, 615, 675, 780, 1050, 1170, 1260}

MCInstants == Edges \cup {edge - 1 : edge \in Edges}

MCTemplates == [chat |-> {"ref"}]

EventOf(type, market, occurred) ==
  [id |-> type, type |-> type, tenant |-> "bank", subject |-> "s1",
   market |-> market, occurred |-> occurred, attributes |-> [ref |-> {7}]]

(* An event an hour older than each edge, so that it is as old as it may be *)
(* there, stale later and in the future earlier; and one per other branch.  *)
MCCases ==
  {EventOf("payment", market, edge - 60) :
     market \in DOMAIN MCQuiet, edge \in Edges}
  \cup {EventOf(type, market, 0) :
          type \in {"survey", "parcel", "unconfigured"}, market \in {"LK", "XX"}}
  \cup {EventOf("payment", "HK", BadTime),
        [EventOf("payment", "HK", 0) EXCEPT !.subject = "s9"],
        [EventOf("payment", "HK", 0) EXCEPT !.attributes = <<>>]}
=============================================================================
