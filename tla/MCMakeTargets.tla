---------------------------- MODULE MCMakeTargets ----------------------------
(***************************************************************************)
(* Small instances, for TLC, of the programs an operator starts with make. *)
(***************************************************************************)
EXTENDS MakeTargets, TLC

-----------------------------------------------------------------------------
(* The API: every environment and file a few departures from the shipped.  *)
Shipped ==
  [shape |-> "mapping", bindsEveryPort |-> TRUE, deadlinePositive |-> TRUE,
   template |-> TRUE, identity |-> DefaultIdentity]
Rebound(name, adapter) == [Shipped EXCEPT !.identity[name] = adapter]

MCFiles ==
  {Shipped, [Shipped EXCEPT !.shape = "missing"],
   [Shipped EXCEPT !.bindsEveryPort = FALSE], [Shipped EXCEPT !.template = FALSE],
   Rebound("local", "client_idp"), Rebound("onprem", "client_idp"),
   Rebound("gcp", "undeclared"), Rebound("gcp", "persona")}

Usual ==
  [profile |-> "local", routing |-> "unset", guardrail |-> "unset", named |-> "unset",
   console |-> "set", audience |-> "set",
   insecure |-> FALSE, token |-> FALSE, verifier |-> TRUE]

MaxDepartures == 2

MCEnvironments ==
  {e \in [profile : KnownProfiles \cup {"unset", "emptied", "unknown"},
          routing : {"unset", "emptied", "off"}, guardrail : {"unset", "unknown", "off"},
          named : {"unset", "emptied", "set"},
          console : {"unset", "emptied", "set"}, audience : {"unset", "emptied", "set"},
          insecure : BOOLEAN, token : BOOLEAN, verifier : BOOLEAN] :
     Cardinality({name \in DOMAIN e : e[name] # Usual[name]}) <= MaxDepartures}

-----------------------------------------------------------------------------
(* The trail. *)
MCBodies == {"sent", "refused"}

-----------------------------------------------------------------------------
(* The tour: every codebase at most two defects away from a sound one.     *)
MCPorts == {"audit", "delivery", "tracer"}

Sound ==
  [unbound |-> {}, misfits |-> {}, answers |-> TRUE, calls |-> MCPorts,
   exit |-> [p \in MCPorts |-> IF p = "tracer" THEN "completes" ELSE "refuses"],
   links |-> TRUE, anchors |-> TRUE, header |-> TRUE, relaunders |-> FALSE, sdk |-> "none"]

MCCodebases ==
  {c \in [unbound : {{}, {"audit"}}, misfits : {{}, {"delivery"}}, answers : BOOLEAN,
          calls : {MCPorts, MCPorts \ {"delivery"}},
          exit : [MCPorts -> {"refuses", "completes", "breaks"}],
          links : BOOLEAN, anchors : BOOLEAN, header : BOOLEAN, relaunders : BOOLEAN,
          sdk : {"none", "eager", "ambient"}] :
     Cardinality({defect \in DOMAIN c : c[defect] # Sound[defect]}) <= 2}

-----------------------------------------------------------------------------
(* The walkthrough, over the shipped policy and the offline consent store. *)
RuleOf(channel, hours, required, severity, consequential, template) ==
  [purpose |-> "service", channel |-> channel, maxAgeHours |-> hours,
   required |-> required, severity |-> severity, consequential |-> consequential,
   template |-> template]

ShippedRules ==
  [failed_payment |->
     RuleOf("chat", 48, {"card_suffix", "retry_on"}, "medium", FALSE, "failed_payment_retry"),
   delivery_exception |->
     RuleOf("chat", 72, {"tracking_ref", "next_attempt_on"}, "low", FALSE,
            "delivery_exception_reschedule"),
   expiring_card |->
     RuleOf("chat", 720, {"card_suffix", "expires_on"}, "low", FALSE, "expiring_card_renew"),
   fraud_hold |->
     RuleOf("voice", 6, {"hold_ref", "card_suffix"}, "critical", TRUE, "fraud_hold_verify"),
   outage |->
     RuleOf("chat", 12, {"outage_ref", "affected_service"}, "high", TRUE, "outage_status")]

ShippedCaps == (<<"service", "chat">> :> 3) @@ (<<"service", "voice">> :> 1)

ShippedQuiet ==
  [SG |-> [start |-> 22, end |-> 8, offset |-> 480],
   AU |-> [start |-> 21, end |-> 8, offset |-> 600],
   JP |-> [start |-> 21, end |-> 9, offset |-> 540]]

Granted == [outcome |-> "allowed", unknown |-> FALSE, sends |-> 0, limit |-> 5]

ShippedConsent ==
  ("000101" :> Granted)
    @@ ("000102" :> [Granted EXCEPT !.sends = 1])
    @@ ("000103" :> [Granted EXCEPT !.limit = NoLimit])
    @@ ("000104" :> [Granted EXCEPT !.limit = 2])
    @@ ("000105" :> Granted)
    @@ ("000900" :> Granted)
    @@ ("000701" :> [Granted EXCEPT !.outcome = "denied"])
    @@ ("000703" :> [Granted EXCEPT !.sends = 3])
    @@ ("000704" :> [Granted EXCEPT !.unknown = TRUE])

NoTemplates == [id \in {} |-> {}]
ShippedSuppressed == {"000900"}

-----------------------------------------------------------------------------
(* The gate: right labels with right and with wrong pipelines, and one     *)
(* wrong label, which asks that a denied customer be contacted.            *)
Got(eligible, delivered, held) ==
  [eligible |-> eligible, delivered |-> delivered, held |-> held]

Sent    == Got(TRUE, TRUE, FALSE)
Refused == Got(FALSE, FALSE, FALSE)
Held    == Got(TRUE, FALSE, TRUE)
Slipped == Got(FALSE, TRUE, FALSE)

Golden(family, outcome) ==
  [family |-> family, expects |-> outcome, got |-> outcome,
   reasonGiven |-> TRUE, capRight |-> TRUE, leaks |-> FALSE]

MCCases ==
  {Golden("granted", Sent), Golden("granted", Held),
   Golden("denied", Refused), Golden("unknown", Refused),
   Golden("denied", Slipped),
   [Golden("unknown", Refused) EXCEPT !.got = Sent],
   [Golden("granted", Held) EXCEPT !.got = Got(TRUE, TRUE, TRUE)],
   [Golden("granted", Sent) EXCEPT !.got = Refused, !.reasonGiven = FALSE, !.capRight = FALSE],
   [Golden("granted", Sent) EXCEPT !.leaks = TRUE]}

MCDrafts == [safe : BOOLEAN, accepted : BOOLEAN]

=============================================================================
