------------------------------- MODULE DemoRun -------------------------------
(***************************************************************************)
(* One run of the scripted demo (scripts/demo.py): its synthetic events    *)
(* and the steps of the arc over the shipped engines.                      *)
(*                                                                         *)
(* A run is a record: the steps performed, the facts of the last one, the  *)
(* audit rows and their anchor, the sends recorded, the pending reviews,   *)
(* the four totals and the chain flag.                                     *)
(***************************************************************************)
EXTENDS Eligibility, Drafting, AuditChain, FiniteSets

CONSTANT FixtureConsent  \* subject |-> what the offline store holds of it

STEPS == <<"opened", "triggers", "eligibility", "drafting", "delivery",
           "review_queue", "audit", "tamper", "portability">>

(* Minutes of the demo's day, UTC; the archived event is years old. *)
AsOf == 360
QuietInstant == 900
Recent == 300
Archived == -3471840

EventAt(id, type, subject, market, attributes) ==
  [id |-> id, type |-> type, tenant |-> "demo-bank", subject |-> subject,
   market |-> market, occurred |-> Recent, attributes |-> attributes]

PII_EVENT == EventAt("4101", "failed_payment", "000101", "SG",
  [card_suffix |-> {4242}, retry_on |-> {2026, 8, 11}])
ROUTINE_EVENT == EventAt("4102", "delivery_exception", "000102", "AU",
  [tracking_ref |-> {77120}, next_attempt_on |-> {2026, 8, 12}])
EXPIRING_EVENT == EventAt("4103", "expiring_card", "000103", "JP",
  [card_suffix |-> {8871}, expires_on |-> {2026, 9, 30}])
CONSEQUENTIAL_EVENT == EventAt("4104", "fraud_hold", "000104", "SG",
  [hold_ref |-> {4471}, card_suffix |-> {3310}])
OUTAGE_EVENT == EventAt("4105", "outage", "000105", "AU",
  [outage_ref |-> {3312}, affected_service |-> {}])

Variant(event, id, subject) == [event EXCEPT !.id = id, !.subject = subject]

UNKNOWN_CONSENT_EVENT == Variant(PII_EVENT, "4110", "000702")
WITHDRAWN_CONSENT_EVENT == Variant(PII_EVENT, "4109", "000701")
UNKNOWN_TOKEN_EVENT == Variant(ROUTINE_EVENT, "4112", "000704")
CAPPED_EVENT == Variant(ROUTINE_EVENT, "4111", "000703")
SUPPRESSED_EVENT == Variant(PII_EVENT, "4106", "000900")
STALE_EVENT == [ROUTINE_EVENT EXCEPT !.occurred = Archived]
INCOMPLETE_EVENT == [ROUTINE_EVENT EXCEPT !.attributes = [next_attempt_on |-> {2026, 8, 12}]]

TRIGGER_TOUR ==
  {PII_EVENT, ROUTINE_EVENT, EXPIRING_EVENT, CONSEQUENTIAL_EVENT, OUTAGE_EVENT}

(* The body that quotes every fact, and the one that invents an amount.    *)
TemplateDraft(e) ==
  [form |-> "body", length |-> MaxBodyChars, figures |-> GroundedFigures(e),
   quotes |-> Facts(e), banned |-> FALSE, personal |-> FALSE]

UngroundedDraft(e) == [TemplateDraft(e) EXCEPT !.figures = @ \cup {250}]

-----------------------------------------------------------------------------
(* LocalConsentAdapter.decide(): an unknown subject is denied. *)
ConsentOf(sent, e, t) ==
  LET known == e.subject \in DOMAIN FixtureConsent
      held  == FixtureConsent[e.subject]
  IN  [outcome |-> IF known THEN held.outcome ELSE "denied",
       denying |-> ~known \/ held.outcome = "denied",
       unknown |-> known /\ held.unknown,
       about   |-> Question(e), asOf |-> t, hasId |-> TRUE,
       limit   |-> IF known THEN held.limit ELSE NoLimit,
       sends   |-> (IF known THEN held.sends ELSE 0)
                     + Cardinality({s \in sent : s.subject = e.subject})]

(* The reasons of a verdict, with the token of a denial that gives one. *)
ReasonsFor(sent, e, t) ==
  DenyingReasons(e, t, ConsentOf(sent, e, t))
    \cup (IF e.subject \notin DOMAIN FixtureConsent THEN {"consent_unknown"}
          ELSE IF FixtureConsent[e.subject].outcome = "denied" THEN {"consent_withdrawn"}
          ELSE {})

(* _evaluate(): the whole service, whose offline drafter is always         *)
(* grounded and whose guardrail finds nothing; a hold is counted before a  *)
(* refusal.                                                                *)
Outcome(sent, e) ==
  IF Consequential(e, AsOf) THEN "held"
  ELSE IF Eligible(e, AsOf, ConsentOf(sent, e, AsOf)) THEN "delivered" ELSE "refused"

BodyOf(sent, e) ==
  [event |-> e.id,
   decision |-> IF Outcome(sent, e) = "held" THEN "escalated" ELSE "allowed",
   severity |-> IF Fired(e, AsOf) THEN Rule(e).severity ELSE "low"]

(* The events of one step, each of a customer of its own. *)
Evaluated(run, events) ==
  LET rows == AppendedAll(run.rows, [i \in DOMAIN events |-> BodyOf(run.sent, events[i])])
      Of(outcome) == {events[i] : i \in {j \in DOMAIN events :
                                            Outcome(run.sent, events[j]) = outcome}}
  IN  [run EXCEPT
         !.rows = rows, !.anchor = HeadOf(rows),
         !.sent = @ \cup Of("delivered"),
         !.totals = [evaluated |-> @.evaluated + Len(events),
                     delivered |-> @.delivered + Cardinality(Of("delivered")),
                     held      |-> @.held + Cardinality(Of("held")),
                     refused   |-> @.refused + Cardinality(Of("refused"))]]

-----------------------------------------------------------------------------
(* The steps, each with the facts it reports. *)
Done(run, facts) == [run EXCEPT !.performed = @ + 1, !.facts = facts]

Opened(run) ==
  Done(run, [profiles |-> {"local", "gcp", "onprem"}, triggerRules |-> DOMAIN TriggerRules,
             caps |-> DOMAIN FrequencyCaps, markets |-> DOMAIN QuietWindows])

Triggers(run) ==
  Done(run, [fired |-> {e.type : e \in {f \in TRIGGER_TOUR : Fired(f, AsOf)}},
             refusedReasons |-> {TriggerReason(e, AsOf) : e \in {STALE_EVENT, INCOMPLETE_EVENT}}])

(* Seven questions, each put to a container of its own. *)
EligibilityStep(run) ==
  LET asked == {<<e, AsOf>> : e \in {PII_EVENT, UNKNOWN_CONSENT_EVENT, WITHDRAWN_CONSENT_EVENT,
                                     UNKNOWN_TOKEN_EVENT, CAPPED_EVENT, SUPPRESSED_EVENT}}
                 \cup {<<PII_EVENT, QuietInstant>>}
      permitted == {q \in asked : Eligible(q[1], q[2], ConsentOf({}, q[1], q[2]))}
  IN  Done(run, [refusals  |-> UNION {ReasonsFor({}, q[1], q[2]) : q \in asked \ permitted},
                 permitted |-> Cardinality(permitted)])

DraftingStep(run) ==
  Done(run, [accepted |-> Accepted(TemplateDraft(PII_EVENT), PII_EVENT),
             rejected |-> ~Accepted(UngroundedDraft(PII_EVENT), PII_EVENT),
             rejectionReasons |-> DraftReasons(UngroundedDraft(PII_EVENT), PII_EVENT)])

Delivery(run) ==
  LET after == Evaluated(run, <<PII_EVENT, ROUTINE_EVENT, UNKNOWN_CONSENT_EVENT>>)
  IN  Done(after,
        [delivered |-> Cardinality({PII_EVENT, ROUTINE_EVENT} \cap after.sent),
         recordedSends |-> Cardinality(after.sent),
         refusalAudited |-> \E i \in DOMAIN after.rows :
                              after.rows[i].body.event = UNKNOWN_CONSENT_EVENT.id])

(* A held result is routed by the step itself. *)
ReviewQueue(run) ==
  LET after  == Evaluated(run, <<CONSEQUENTIAL_EVENT>>)
      routed == after.totals.held > run.totals.held
  IN  Done([after EXCEPT !.pending = IF routed THEN @ + 1 ELSE @],
        [delivered |-> CONSEQUENTIAL_EVENT \in after.sent, routed |-> routed,
         pending |-> IF routed THEN after.pending + 1 ELSE after.pending])

(* The store verifies, and so does its export in a store of its own.       *)
Audit(run) ==
  LET ok == Verifies(run.rows, run.anchor)
  IN  Done([run EXCEPT !.chainOk = ok],
        [chainOk |-> ok, anchored |-> run.anchor # NoHead, entries |-> Len(run.rows),
         roundTripOk |-> Verifies(run.rows, NoHead)])

(* _rewrite_a_record(): the middle row becomes an allowed, low one; there  *)
(* are rows to be in the middle of, as the earlier steps cannot be skipped.*)
Tamper(run) ==
  LET target == Len(run.rows) \div 2 + 1
      rows == Rewritten(run.rows, target,
                [run.rows[target].body EXCEPT !.decision = "allowed", !.severity = "low"])
      ok == Verifies(rows, run.anchor)
  IN  Done([run EXCEPT !.rows = rows, !.chainOk = ok],
        [chainOk |-> ok, detected |-> ~ok /\ FirstBad(rows) = target])

(* EXIT_CALLS, and what an on-premises adapter does with its call.         *)
ExitCalls == {"audit", "review_router", "identity", "events", "consent", "drafting",
              "guardrail", "delivery", "speech", "tracer", "evaluation"}

EXIT_ABSENT == {"tracer"}

ExitRefuses(port) == port # "tracer"

(* Only the answer a port is meant to give is counted. *)
PortabilityStep(run) ==
  Done(run, [refused |-> {p \in ExitCalls \ EXIT_ABSENT : ExitRefuses(p)},
             absent  |-> {p \in EXIT_ABSENT : ~ExitRefuses(p)}])

Perform(run) ==
  LET step == STEPS[run.performed + 1]
  IN  CASE step = "opened"       -> Opened(run)
        [] step = "triggers"     -> Triggers(run)
        [] step = "eligibility"  -> EligibilityStep(run)
        [] step = "drafting"     -> DraftingStep(run)
        [] step = "delivery"     -> Delivery(run)
        [] step = "review_queue" -> ReviewQueue(run)
        [] step = "audit"        -> Audit(run)
        [] step = "tamper"       -> Tamper(run)
        [] step = "portability"  -> PortabilityStep(run)

IsDone(run) == run.performed = Len(STEPS)

(* advance(): the last step is re-returned when the arc is finished. *)
Advanced(run) == IF IsDone(run) THEN run ELSE Perform(run)

(* DemoRun(): a fresh store and anchor, and the first step performed. *)
FreshRun ==
  Perform([performed |-> 0, rows |-> <<>>, anchor |-> NoHead, sent |-> {}, pending |-> 0,
           totals |-> [evaluated |-> 0, delivered |-> 0, held |-> 0, refused |-> 0],
           chainOk |-> TRUE, facts |-> <<>>])

=============================================================================
