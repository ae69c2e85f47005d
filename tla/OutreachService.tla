--------------------------- MODULE OutreachService ---------------------------
(***************************************************************************)
(* The outreach service under concurrent requests                          *)
(* (domain/outreach_service.py with the routing step of api/app.py,        *)
(* cli/main.py and agent/tools.py).                                        *)
(*                                                                         *)
(* Every request is handled by a thread of its own that runs evaluate()    *)
(* from its first line to the routing of its result.  A thread's local     *)
(* computation between two port calls is one step together with the call   *)
(* that follows; every port call is a step that other threads, the clock   *)
(* and a crash may precede.                                                *)
(*                                                                         *)
(*   new -> consent -> screen_in -> draft -> screen_out -> deliver         *)
(*       -> record -> audit -> route -> done                               *)
(*                                                                         *)
(* with block_in and block_out for the audit of a refused screen, `raised' *)
(* for an exception that reaches the caller and `lost' for a crash.        *)
(***************************************************************************)
EXTENDS Eligibility, Drafting, FiniteSets, Sequences

CONSTANTS
  Requests,        \* the requests made of the service; each made once
  MaxConcurrent,   \* threads the serving process runs at a time
  Events,          \* the events a request may carry
  AnswerShapes,    \* what the consent store may say, see Answer
  Texts,           \* the texts a drafter may return and a screen hand back
  RoutingEnabled,  \* FALSE when OUTREACH_REVIEW_ROUTING is off
  Faults,          \* the port failures that may happen
  NoEvent,         \* event of a request not begun
  OtherQuestion,   \* what a mismatched consent answer is about
  MaxNow,          \* bound: the last instant, in minutes
  Tick             \* bound: the clock moves in steps of this many minutes

FaultKinds ==
  {"consent_unavailable", "consent_error", "drafter_unavailable",
   "drafter_error", "delivery_error", "delivery_unconfirmed",
   "speech_unavailable", "speech_error", "record_error",
   "record_unconfirmed", "audit_error", "router_error",
   "router_unconfirmed", "crash"}

Shapes ==
  [outcome : {"allowed", "denied"}, denying : BOOLEAN, unknown : BOOLEAN,
   echoes : BOOLEAN, fresh : BOOLEAN, hasId : BOOLEAN,
   limit : Nat \cup {NoLimit}]

(* The questions the service may put to the store. *)
Questions == {Question(e) : e \in {f \in Events : HasRule(f)}}

Decisions == Answers(Questions \cup {OtherQuestion})

ASSUME ServiceAssumption ==
  /\ IsFiniteSet(Requests)
  /\ MaxConcurrent \in Nat \ {0}
  /\ RoutingEnabled \in BOOLEAN
  /\ Faults \subseteq FaultKinds
  /\ AnswerShapes \subseteq Shapes
  /\ NoDecision \notin Decisions /\ OtherQuestion \notin Questions
  /\ NoEvent \notin Events /\ \A e \in Events : EventIsValid(e)
  /\ NoBody \notin Texts /\ TemplateBody \notin Texts /\ NoBody # TemplateBody
  /\ MaxNow \in Nat /\ Tick \in Nat \ {0}

VARIABLES
  now,        \* the wall clock
  pc,         \* where each request is
  event,      \* the event it carries
  asOf,       \* the instant it is decided at, read once
  consent,    \* the store's answer, NoDecision when there is none
  body,       \* the message prepared, NoBody when there is none
  discarded,  \* the draft was discarded: a human must look
  delivered,  \* what the result says of the delivery
  routing,    \* what the response says of the hand-off
  sent,       \* requests whose message left on a channel
  ledger,     \* requests whose send the consent store has recorded
  consulted,  \* requests for which the model was called
  audit,      \* the audit trail of each request, in order
  queue       \* requests held in the review console

locals == <<event, asOf, consent, body, discarded, delivered, routing>>
world  == <<sent, ledger, consulted, audit, queue>>
vars   == <<now, pc, locals, world>>

PCs == {"new", "consent", "screen_in", "block_in", "draft", "screen_out",
        "block_out", "deliver", "record", "audit", "route", "done",
        "raised", "lost"}

Ended == {"done", "raised", "lost"}

InFlight == {r \in Requests : pc[r] \notin Ended \cup {"new"}}

Go(r, label) == pc' = [pc EXCEPT ![r] = label]

(* An exception no frame of the service catches: the caller sees an error. *)
Raise(r) == Go(r, "raised")

RequestEligible(r) == Eligible(event[r], asOf[r], consent[r])

IsConsequential(r) == Consequential(event[r], asOf[r])

-----------------------------------------------------------------------------
(* A plausible bug: only a discarded draft asks for a human. *)
RequiresReviewDiscardOnly(r) == discarded[r]

RequiresReview(r) == IsConsequential(r) \/ discarded[r]

(* The key a recorded send is counted under by the consent store. *)
SendsOn(question) ==
  {r \in ledger : Question(event[r]) = question}

(***************************************************************************)
(* The consent store is another service.  Its answer counts the sends      *)
(* recorded so far; the rest is whatever a shape in AnswerShapes says.     *)
(***************************************************************************)
Answer(shape, e, t) ==
  [outcome |-> shape.outcome, denying |-> shape.denying,
   unknown |-> shape.unknown,
   about   |-> IF shape.echoes THEN Question(e) ELSE OtherQuestion,
   asOf    |-> IF shape.fresh THEN t ELSE t - 1,
   hasId   |-> shape.hasId, limit |-> shape.limit,
   sends   |-> Cardinality(SendsOn(Question(e)))]

AuditKinds == {"blocked_input", "blocked_output", "escalated", "allowed"}

Record(r, kind) == audit' = [audit EXCEPT ![r] = Append(@, kind)]

-----------------------------------------------------------------------------
Init ==
  /\ now = 0
  /\ pc = [r \in Requests |-> "new"]
  /\ event = [r \in Requests |-> NoEvent]
  /\ asOf = [r \in Requests |-> 0]
  /\ consent = [r \in Requests |-> NoDecision]
  /\ body = [r \in Requests |-> NoBody]
  /\ discarded = [r \in Requests |-> FALSE]
  /\ delivered = [r \in Requests |-> FALSE]
  /\ routing = [r \in Requests |-> "none"]
  /\ sent = {} /\ ledger = {} /\ consulted = {} /\ queue = {}
  /\ audit = [r \in Requests |-> <<>>]

(* evaluate() begins: the instant is read, the trigger decided on it. *)
Begin(r) ==
  /\ pc[r] = "new"
  /\ Cardinality(InFlight) < MaxConcurrent
  /\ \E e \in Events :
       /\ event' = [event EXCEPT ![r] = e]
       /\ Go(r, IF Fired(e, now) THEN "consent" ELSE "audit")
  /\ asOf' = [asOf EXCEPT ![r] = now]
  /\ UNCHANGED <<now, consent, body, discarded, delivered, routing, world>>

(* A plausible bug: the draft is prepared before the answer is assessed. *)
ConsentAnsweredDraftsFirst(r) ==
  /\ pc[r] = "consent"
  /\ \E shape \in AnswerShapes :
       consent' = [consent EXCEPT ![r] = Answer(shape, event[r], asOf[r])]
  /\ Go(r, "screen_in")
  /\ UNCHANGED <<now, event, asOf, body, discarded, delivered, routing, world>>

(* The store answers and the engine assesses the answer. *)
ConsentAnswered(r) ==
  /\ pc[r] = "consent"
  /\ \E shape \in AnswerShapes :
       LET c == Answer(shape, event[r], asOf[r])
       IN  /\ consent' = [consent EXCEPT ![r] = c]
           /\ Go(r, IF Eligible(event[r], asOf[r], c)
                    THEN "screen_in" ELSE "audit")
  /\ UNCHANGED <<now, event, asOf, body, discarded, delivered, routing, world>>

(* ConsentUnavailableError: no decision, which assess() always denies. *)
ConsentUnavailable(r) ==
  /\ pc[r] = "consent"
  /\ "consent_unavailable" \in Faults
  /\ Go(r, "audit")
  /\ UNCHANGED <<now, locals, world>>

(* Any other exception of the adapter is not caught. *)
ConsentRaises(r) ==
  /\ pc[r] = "consent"
  /\ "consent_error" \in Faults
  /\ Raise(r)
  /\ UNCHANGED <<now, locals, world>>

-----------------------------------------------------------------------------
(* A plausible bug: delivery does not look at requires_review. *)
DraftedIgnoringReview(r, text, isDiscarded) ==
  /\ body' = [body EXCEPT ![r] = text]
  /\ discarded' = [discarded EXCEPT ![r] = isDiscarded]
  /\ Go(r, IF text # NoBody THEN "deliver" ELSE "audit")

(* draft() returned: delivery needs a message and no reason for review. *)
Drafted(r, text, isDiscarded) ==
  /\ body' = [body EXCEPT ![r] = text]
  /\ discarded' = [discarded EXCEPT ![r] = isDiscarded]
  /\ Go(r, IF text # NoBody /\ ~IsConsequential(r) /\ ~isDiscarded
           THEN "deliver" ELSE "audit")

Fallback(r) == Drafted(r, DeterministicBody(event[r]), TRUE)

(* The prompt is screened whole; a block and a guardrail that raised are   *)
(* the same refusal.                                                       *)
ScreenInput(r) ==
  /\ pc[r] = "screen_in"
  /\ Go(r, "draft") \/ Go(r, "block_in")
  /\ UNCHANGED <<now, locals, world>>

DrafterAnswers(r) ==
  /\ pc[r] = "draft"
  /\ consulted' = consulted \cup {r}
  /\ Go(r, "screen_out")
  /\ UNCHANGED <<now, locals, sent, ledger, audit, queue>>

(* DraftingUnavailableError: refused before any model is called. *)
DrafterUnavailable(r) ==
  /\ pc[r] = "draft"
  /\ "drafter_unavailable" \in Faults
  /\ Fallback(r)
  /\ UNCHANGED <<now, event, asOf, consent, delivered, routing, world>>

(* The managed drafter wraps no SDK error, and draft() catches none. *)
DrafterRaises(r) ==
  /\ pc[r] = "draft"
  /\ "drafter_error" \in Faults
  /\ consulted' = consulted \cup {r}
  /\ Raise(r)
  /\ UNCHANGED <<now, locals, sent, ledger, audit, queue>>

(* The text the screen hands back is the one the validator judges. *)
ScreenOutputAllows(r) ==
  /\ pc[r] = "screen_out"
  /\ \E text \in Texts :
       IF Accepted(text, event[r]) THEN Drafted(r, text, FALSE) ELSE Fallback(r)
  /\ UNCHANGED <<now, event, asOf, consent, delivered, routing, world>>

(* A plausible bug: a refused draft is asked for again. *)
ScreenOutputRetries(r) ==
  /\ pc[r] = "screen_out"
  /\ Go(r, "draft")
  /\ UNCHANGED <<now, locals, world>>

ScreenOutputRefuses(r) ==
  /\ pc[r] = "screen_out"
  /\ Go(r, "block_out")
  /\ UNCHANGED <<now, locals, world>>

(* A plausible bug: the template quietly replaces the refused draft. *)
AuditBlockedSendsTemplate(r, label, kind) ==
  /\ pc[r] = label
  /\ Record(r, kind)
  /\ Drafted(r, DeterministicBody(event[r]), FALSE)
  /\ UNCHANGED <<now, event, asOf, consent, delivered, routing,
                 sent, ledger, consulted, queue>>

(* The refusal is in the trail before draft() returns. *)
AuditBlocked(r, label, kind) ==
  /\ pc[r] = label
  /\ Record(r, kind)
  /\ Fallback(r)
  /\ UNCHANGED <<now, event, asOf, consent, delivered, routing,
                 sent, ledger, consulted, queue>>

AuditBlock(r) ==
  \/ AuditBlocked(r, "block_in", "blocked_input")
  \/ AuditBlocked(r, "block_out", "blocked_output")

(* A record that cannot be written is never swallowed. *)
AuditRaises(r) ==
  /\ pc[r] \in {"block_in", "block_out", "audit"}
  /\ "audit_error" \in Faults
  /\ Raise(r)
  /\ UNCHANGED <<now, locals, world>>

-----------------------------------------------------------------------------
Channel(r) == Rule(event[r]).channel

(* delivery.send refuses an envelope with no decision id. *)
SendChat(r) ==
  /\ pc[r] = "deliver" /\ Channel(r) # "voice"
  /\ consent[r].hasId
  /\ sent' = sent \cup {r}
  /\ Go(r, "record")
  /\ UNCHANGED <<now, locals, ledger, consulted, audit, queue>>

(* Refused (no decision id, no agent) or failed before anything went out. *)
ChatRaises(r) ==
  /\ pc[r] = "deliver" /\ Channel(r) # "voice"
  /\ ~consent[r].hasId \/ "delivery_error" \in Faults
  /\ Raise(r)
  /\ UNCHANGED <<now, locals, world>>

(* The platform took the message and the call failed afterwards. *)
ChatUnconfirmed(r) ==
  /\ pc[r] = "deliver" /\ Channel(r) # "voice"
  /\ consent[r].hasId /\ "delivery_unconfirmed" \in Faults
  /\ sent' = sent \cup {r}
  /\ Raise(r)
  /\ UNCHANGED <<now, locals, ledger, consulted, audit, queue>>

(* Speech is handed no envelope, so nothing looks at the decision id. *)
SendVoice(r) ==
  /\ pc[r] = "deliver" /\ Channel(r) = "voice"
  /\ sent' = sent \cup {r}
  /\ Go(r, "record")
  /\ UNCHANGED <<now, locals, ledger, consulted, audit, queue>>

(* A plausible bug: an undelivered call is reported as delivered. *)
SpeechUnavailableDelivered(r) ==
  /\ pc[r] = "deliver" /\ Channel(r) = "voice"
  /\ "speech_unavailable" \in Faults
  /\ delivered' = [delivered EXCEPT ![r] = TRUE]
  /\ Go(r, "audit")
  /\ UNCHANGED <<now, event, asOf, consent, body, discarded, routing, world>>

(* SpeechUnavailableError: undelivered, and the evaluation goes on. *)
SpeechUnavailable(r) ==
  /\ pc[r] = "deliver" /\ Channel(r) = "voice"
  /\ "speech_unavailable" \in Faults
  /\ Go(r, "audit")
  /\ UNCHANGED <<now, locals, world>>

SpeechRaises(r) ==
  /\ pc[r] = "deliver" /\ Channel(r) = "voice"
  /\ "speech_error" \in Faults
  /\ Raise(r)
  /\ UNCHANGED <<now, locals, world>>

-----------------------------------------------------------------------------
(* A plausible bug: the send is never written back to the store. *)
RecordSendForgotten(r) ==
  /\ pc[r] = "record"
  /\ delivered' = [delivered EXCEPT ![r] = TRUE]
  /\ Go(r, "audit")
  /\ UNCHANGED <<now, event, asOf, consent, body, discarded, routing, world>>

RecordSend(r) ==
  /\ pc[r] = "record"
  /\ ledger' = ledger \cup {r}
  /\ delivered' = [delivered EXCEPT ![r] = TRUE]
  /\ Go(r, "audit")
  /\ UNCHANGED <<now, event, asOf, consent, body, discarded, routing,
                 sent, consulted, audit, queue>>

(* record_send's errors are not caught; the store may have counted it. *)
RecordRaises(r) ==
  /\ pc[r] = "record"
  /\ \/ "record_error" \in Faults /\ UNCHANGED ledger
     \/ "record_unconfirmed" \in Faults /\ ledger' = ledger \cup {r}
  /\ Raise(r)
  /\ UNCHANGED <<now, locals, sent, consulted, audit, queue>>

(* The decision record, then the result: nothing is decided after it. *)
RecordDecision(r) ==
  /\ pc[r] = "audit"
  /\ Record(r, IF RequiresReview(r) THEN "escalated" ELSE "allowed")
  /\ Go(r, "route")
  /\ UNCHANGED <<now, locals, sent, ledger, consulted, queue>>

-----------------------------------------------------------------------------
(* RecordingReviewRouter.route: an outcome is reported, never raised. *)
RouteAs(r, outcome) ==
  /\ routing' = [routing EXCEPT ![r] = outcome]
  /\ Go(r, "done")
  /\ UNCHANGED <<now, event, asOf, consent, body, discarded, delivered,
                 sent, ledger, consulted, audit>>

(* Plausible bugs: an outcome property without a default, and a router     *)
(* that was switched off taken for a result nobody has to review.          *)
RouteNothingUnreported(r) ==
  /\ pc[r] = "route" /\ ~RequiresReview(r)
  /\ RouteAs(r, "")
  /\ UNCHANGED queue

RouteOffUnreported(r) ==
  /\ pc[r] = "route" /\ RequiresReview(r) /\ ~RoutingEnabled
  /\ RouteAs(r, "not_required")
  /\ UNCHANGED queue

RouteNothing(r) ==
  /\ pc[r] = "route" /\ ~RequiresReview(r)
  /\ RouteAs(r, "not_required")
  /\ UNCHANGED queue

RouteOff(r) ==
  /\ pc[r] = "route" /\ RequiresReview(r) /\ ~RoutingEnabled
  /\ RouteAs(r, "off")
  /\ UNCHANGED queue

(* A plausible bug: a hand-off that failed is reported as routed. *)
RouteFailsSilently(r) ==
  /\ pc[r] = "route" /\ RequiresReview(r) /\ RoutingEnabled
  /\ \/ "router_error" \in Faults /\ UNCHANGED queue
     \/ "router_unconfirmed" \in Faults /\ queue' = queue \cup {r}
  /\ RouteAs(r, "routed")

RouteFails(r) ==
  /\ pc[r] = "route" /\ RequiresReview(r) /\ RoutingEnabled
  /\ \/ "router_error" \in Faults /\ UNCHANGED queue
     \/ "router_unconfirmed" \in Faults /\ queue' = queue \cup {r}
  /\ RouteAs(r, "failed")

RouteHeld(r) ==
  /\ pc[r] = "route" /\ RequiresReview(r) /\ RoutingEnabled
  /\ queue' = queue \cup {r}
  /\ RouteAs(r, "routed")

-----------------------------------------------------------------------------
(* The process dies: its threads vanish, what left the process stays. *)
Crash ==
  /\ "crash" \in Faults
  /\ InFlight # {}
  /\ pc' = [r \in Requests |-> IF r \in InFlight THEN "lost" ELSE pc[r]]
  /\ UNCHANGED <<now, locals, world>>

ClockTick ==
  /\ now + Tick <= MaxNow
  /\ now' = now + Tick
  /\ UNCHANGED <<pc, locals, world>>

(* Everything bounded has been used up. *)
Finished ==
  /\ \A r \in Requests : pc[r] \in Ended
  /\ now + Tick > MaxNow
  /\ UNCHANGED vars

Evaluate(r) ==
  \/ ConsentAnswered(r) \/ ConsentUnavailable(r) \/ ConsentRaises(r)
  \/ ScreenInput(r)
  \/ DrafterAnswers(r) \/ DrafterUnavailable(r) \/ DrafterRaises(r)
  \/ ScreenOutputAllows(r) \/ ScreenOutputRefuses(r)
  \/ AuditBlock(r) \/ AuditRaises(r)
  \/ SendChat(r) \/ ChatRaises(r) \/ ChatUnconfirmed(r)
  \/ SendVoice(r) \/ SpeechUnavailable(r) \/ SpeechRaises(r)
  \/ RecordSend(r) \/ RecordRaises(r)
  \/ RecordDecision(r)

Route(r) == RouteNothing(r) \/ RouteOff(r) \/ RouteFails(r) \/ RouteHeld(r)

Next ==
  \/ \E r \in Requests : Begin(r) \/ Evaluate(r) \/ Route(r)
  \/ Crash
  \/ ClockTick
  \/ Finished

Spec == Init /\ [][Next]_vars

(* A begun request keeps running: its thread is scheduled and every port   *)
(* call it makes returns or raises.  Nothing says a request is ever made,  *)
(* that the process crashes, or that the clock is seen to move.            *)
Fairness == \A r \in Requests : WF_vars(Evaluate(r) \/ Route(r))

FairSpec == Spec /\ Fairness

=============================================================================
