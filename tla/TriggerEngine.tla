---------------------------- MODULE TriggerEngine ----------------------------
(***************************************************************************)
(* Whether one detected event becomes an outreach at one instant           *)
(* (domain/trigger_engine.py).                                             *)
(*                                                                         *)
(* An event is a record                                                    *)
(*   [id, type, tenant, subject, market, occurred, attributes]             *)
(* whose `attributes' is a function from the names that carry a non-blank  *)
(* value to the figures (digit runs) written in that value: figures are    *)
(* all the draft validator ever reads of a fact.                           *)
(***************************************************************************)
EXTENDS ServicePolicy

CONSTANT BadTime  \* an occurred_at that does not parse or has no timezone

ASSUME BadTimeAssumption == BadTime \notin Int

EventIsValid(e) == e.occurred \in Int \cup {BadTime}

Missing(e) == Rule(e).required \ DOMAIN e.attributes

-----------------------------------------------------------------------------
(* A plausible bug: the freshness test comes before the future test, and   *)
(* only it is made.                                                        *)
TriggerReasonFutureAccepted(e, t) ==
  IF ~HasRule(e) THEN "trigger_rule_unconfigured"
  ELSE IF e.occurred = BadTime THEN "event_timestamp_invalid"
  ELSE IF t - e.occurred > 60 * Rule(e).maxAgeHours THEN "event_stale"
  ELSE IF Missing(e) # {} THEN "event_attribute_missing"
  ELSE "trigger_fired"

-----------------------------------------------------------------------------
(* The early returns of evaluate(), in its order: the first one decides.   *)
(* Ages are exact minutes; an event exactly maxAgeHours old still fires.   *)
TriggerReason(e, t) ==
  IF ~HasRule(e) THEN "trigger_rule_unconfigured"
  ELSE IF e.occurred = BadTime THEN "event_timestamp_invalid"
  ELSE IF t - e.occurred < 0 THEN "event_in_the_future"
  ELSE IF t - e.occurred > 60 * Rule(e).maxAgeHours THEN "event_stale"
  ELSE IF Missing(e) # {} THEN "event_attribute_missing"
  ELSE "trigger_fired"

Fired(e, t) == TriggerReason(e, t) = "trigger_fired"

(* The closed fact set: the required attributes and nothing else. *)
Facts(e) == Rule(e).required

Consequential(e, t) == Fired(e, t) /\ Rule(e).consequential

=============================================================================
