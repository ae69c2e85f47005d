----------------------------- MODULE Eligibility -----------------------------
(***************************************************************************)
(* Whether a fired trigger may become a contact (domain/eligibility.py):   *)
(* consent, suppression, frequency cap and quiet hours composed            *)
(* worst-wins at one explicit instant.                                     *)
(*                                                                         *)
(* A consent answer is NoDecision or a record                              *)
(*   [outcome, denying, unknown, about, asOf, hasId, limit, sends]         *)
(* where `denying' and `unknown' say whether the answer carries a denying  *)
(* or an unrecognised reason token, `about' and `asOf' echo the question   *)
(* the store says it answered, and `limit' is NoLimit when it reports none.*)
(***************************************************************************)
EXTENDS TriggerEngine

CONSTANTS NoDecision, NoLimit

ASSUME NoLimitAssumption == NoLimit \notin Int

(* The answers that may come back, `abouts' being what they may be about.  *)
Answers(abouts) ==
  [outcome : {"allowed", "denied"}, denying : BOOLEAN, unknown : BOOLEAN,
   about : abouts, asOf : Int, hasId : BOOLEAN,
   limit : Nat \cup {NoLimit}, sends : Nat]

AnswerIsValid(c) ==
  c # NoDecision => /\ c.denying \in BOOLEAN /\ c.unknown \in BOOLEAN
                    /\ c.sends \in Nat /\ c.limit \in Nat \cup {NoLimit}

(* The identity of a consent question; its instant is compared apart. *)
Question(e) == <<e.tenant, e.subject, Rule(e).purpose, Rule(e).channel>>

ConsentReasons(e, t, c) ==
  IF c = NoDecision
  THEN {"consent_unknown"}
  ELSE LET Holds(reason) ==
             \/ /\ reason = "consent_not_allowed"
                /\ c.outcome # "allowed" \/ c.denying
             \/ reason = "consent_unknown_reason" /\ c.unknown
             \/ reason = "consent_mismatch" /\ c.about # Question(e)
             \/ reason = "consent_stale" /\ c.asOf # t
       IN  {reason \in {"consent_not_allowed", "consent_unknown_reason",
                        "consent_mismatch", "consent_stale"} : Holds(reason)}

SuppressionReasons(e) == IF IsSuppressed(e) THEN {"suppressed"} ELSE {}

SendsInWindow(c) == IF c = NoDecision THEN 0 ELSE c.sends

-----------------------------------------------------------------------------
(* A plausible bug: the store's limit replaces the policy's. *)
EffectiveLimitStoreWins(e, c) ==
  IF c # NoDecision /\ c.limit # NoLimit THEN c.limit
  ELSE FrequencyCaps[CapKey(e)]

(* The smaller of the two authorities; only for an event with a cap. *)
EffectiveLimit(e, c) ==
  LET cap == FrequencyCaps[CapKey(e)]
      storeIsTighter == c # NoDecision /\ c.limit # NoLimit /\ c.limit < cap
  IN  IF storeIsTighter THEN c.limit ELSE cap

-----------------------------------------------------------------------------
(* Plausible bugs: the comparison off by one, and an absent cap read as    *)
(* unlimited.                                                              *)
CapReasonsOffByOne(e, c) ==
  IF ~HasCap(e) THEN {"frequency_cap_unconfigured"}
  ELSE IF SendsInWindow(c) > EffectiveLimit(e, c)
       THEN {"frequency_cap_exceeded"} ELSE {}

CapReasonsGapPermits(e, c) ==
  IF HasCap(e) /\ SendsInWindow(c) >= EffectiveLimit(e, c)
  THEN {"frequency_cap_exceeded"} ELSE {}

CapReasons(e, c) ==
  IF ~HasCap(e) THEN {"frequency_cap_unconfigured"}
  ELSE IF SendsInWindow(c) >= EffectiveLimit(e, c)
       THEN {"frequency_cap_exceeded"} ELSE {}

QuietReasons(e, t) ==
  IF ~HasQuietWindow(e) THEN {"quiet_hours_unconfigured"}
  ELSE IF Contains(QuietWindows[e.market], t) THEN {"quiet_hours"} ELSE {}

-----------------------------------------------------------------------------
(* Everything that denies; assess() never removes a reason. *)
DenyingReasons(e, t, c) ==
  IF ~Fired(e, t) THEN {"trigger_did_not_fire"}
  ELSE ConsentReasons(e, t, c) \cup SuppressionReasons(e)
         \cup CapReasons(e, c) \cup QuietReasons(e, t)

Eligible(e, t, c) == DenyingReasons(e, t, c) = {}

CapLimit(e, t, c) == IF Fired(e, t) /\ HasCap(e) THEN EffectiveLimit(e, c) ELSE 0

CapRemaining(e, t, c) ==
  LET left == CapLimit(e, t, c) - SendsInWindow(c)
  IN  IF Fired(e, t) /\ left > 0 THEN left ELSE 0

-----------------------------------------------------------------------------
(***************************************************************************)
(* What the documentation promises of an eligible contact, stated without  *)
(* the early returns and the reason sets: a timely event that carries its  *)
(* required facts, a clean allow to this very question at this instant,    *)
(* room under both limits, an unsuppressed subject, and a market whose     *)
(* daily quiet window (in its reference meaning) is configured and closed. *)
(***************************************************************************)
Timely(e, t) ==
  /\ HasRule(e) /\ e.occurred # BadTime
  /\ e.occurred <= t /\ t <= e.occurred + 60 * Rule(e).maxAgeHours
  /\ Rule(e).required \subseteq DOMAIN e.attributes

CleanAllow(e, t, c) ==
  /\ c # NoDecision
  /\ c.outcome = "allowed" /\ ~c.denying /\ ~c.unknown
  /\ c.about = Question(e) /\ c.asOf = t

UnderBothLimits(e, c) ==
  /\ HasCap(e) /\ c.sends < FrequencyCaps[CapKey(e)]
  /\ c.limit # NoLimit => c.sends < c.limit

MayContact(e, t, c) ==
  /\ Timely(e, t)
  /\ CleanAllow(e, t, c)
  /\ UnderBothLimits(e, c)
  /\ ~IsSuppressed(e)
  /\ HasQuietWindow(e) /\ ~InDailyWindow(QuietWindows[e.market], t)

=============================================================================
