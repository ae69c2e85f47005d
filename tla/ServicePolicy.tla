---------------------------- MODULE ServicePolicy ----------------------------
(***************************************************************************)
(* The configured outreach policy (domain/policy.py, class OutreachPolicy) *)
(* and its fail-closed lookups: a rule, a cap, a quiet window or a         *)
(* template that nobody configured is absent, and absence never permits.   *)
(***************************************************************************)
EXTENDS QuietHours

CONSTANTS
  TriggerRules,        \* event type |-> rule, for the configured types only
  FrequencyCaps,       \* <<purpose, channel>> |-> limit
  QuietWindows,        \* market |-> quiet window
  Templates,           \* template id |-> names of its placeholders
  SuppressedSubjects,  \* subjects never contacted
  MaxBodyChars

DeliverableChannels == {"chat", "voice"}

(* What the dataclasses' __post_init__ methods accept at load time. *)
RuleIsValid(rule) ==
  /\ rule.channel \in DeliverableChannels
  /\ rule.maxAgeHours \in Nat \ {0}
  /\ rule.consequential \in BOOLEAN

PolicyIsValid ==
  /\ \A type \in DOMAIN TriggerRules : RuleIsValid(TriggerRules[type])
  /\ \A key \in DOMAIN FrequencyCaps : FrequencyCaps[key] \in Nat
  /\ \A market \in DOMAIN QuietWindows : QuietWindows[market] \in QuietWindow
  /\ MaxBodyChars \in Int

ASSUME PolicyAssumption == PolicyIsValid

HasRule(e) == e.type \in DOMAIN TriggerRules

Rule(e) == TriggerRules[e.type]

CapKey(e) == <<Rule(e).purpose, Rule(e).channel>>

HasCap(e) == CapKey(e) \in DOMAIN FrequencyCaps

HasQuietWindow(e) == e.market \in DOMAIN QuietWindows

HasTemplate(e) == Rule(e).template \in DOMAIN Templates

IsSuppressed(e) == e.subject \in SuppressedSubjects

=============================================================================
