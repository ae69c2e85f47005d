-------------------------- MODULE OutreachProperties --------------------------
(***************************************************************************)
(* What must hold of the outreach service, and the statements of its       *)
(* documentation that the code does not keep.                              *)
(***************************************************************************)
EXTENDS OutreachService

Bodies == Texts \cup {NoBody, TemplateBody}

TypeOK ==
  /\ now \in Nat
  /\ pc \in [Requests -> PCs]
  /\ event \in [Requests -> Events \cup {NoEvent}]
  /\ asOf \in [Requests -> Nat]
  /\ consent \in [Requests -> Decisions \cup {NoDecision}]
  /\ body \in [Requests -> Bodies]
  /\ discarded \in [Requests -> BOOLEAN]
  /\ delivered \in [Requests -> BOOLEAN]
  /\ routing \in [Requests -> {"none", "not_required", "off", "failed", "routed"}]
  /\ sent \subseteq Requests /\ ledger \subseteq Requests
  /\ consulted \subseteq Requests /\ queue \subseteq Requests
  /\ audit \in [Requests -> Seq(AuditKinds)]

-----------------------------------------------------------------------------
(* The decision of r is in the trail: evaluate() has returned its result.  *)
Decided(r) == \E i \in DOMAIN audit[r] : audit[r][i] \in {"escalated", "allowed"}

Blocked(r) ==
  \E i \in DOMAIN audit[r] : audit[r][i] \in {"blocked_input", "blocked_output"}

SentOn(q) == {r \in sent : Question(event[r]) = q}

(* Sends the store was never told of: the thread died between the two. *)
Unrecorded(q) == {r \in SentOn(q) \ ledger : pc[r] \in Ended}

PolicyLimit(q) == FrequencyCaps[<<q[3], q[4]>>]

-----------------------------------------------------------------------------
(* Nobody is contacted, whatever fails and however requests interleave,    *)
(* unless the store's answer to that very request was a clean allow with   *)
(* room under both limits, outside the market's quiet window and with no   *)
(* suppression, all at the instant the request was decided (the order of   *)
(* evaluate(), lines 188-213).                                             *)
ContactIsPermitted ==
  \A r \in sent : MayContact(event[r], asOf[r], consent[r])

(* A request that needs a human, because its event is consequential or     *)
(* because its draft was discarded, contacts nobody, and the reviewers'    *)
(* queue holds such requests only (rule R8, lines 209-213).                *)
HeldIsNeverSent ==
  /\ \A r \in sent : ~RequiresReview(r)
  /\ \A r \in queue : RequiresReview(r) /\ r \notin sent

(* What goes out is a drafted text, never the fallback prepared for a      *)
(* human, and it says no figure that is not written in a fact its rule     *)
(* requires and leaves none of those facts out: what else the source       *)
(* system attached to the event grounds nothing (drafting.py 149-201).     *)
SentTextIsGrounded ==
  \A r \in sent :
    /\ body[r] \in Texts
    /\ Rule(event[r]).required \subseteq body[r].quotes
    /\ \A figure \in body[r].figures :
         \E name \in Rule(event[r]).required : figure \in event[r].attributes[name]

(* The model is called only for a contact that may be made and whose       *)
(* prompt the guardrail let through (docstring lines 16-20 and rule R1).   *)
ModelOnlyAfterEligibility ==
  \A r \in consulted :
    /\ MayContact(event[r], asOf[r], consent[r])
    /\ \A i \in DOMAIN audit[r] : audit[r][i] # "blocked_input"

(* A refused screen is in the trail before anything else is decided: it    *)
(* sends nothing, and the decision that follows it is an escalation.       *)
BlockedIsEscalated ==
  \A r \in Requests :
    Blocked(r) =>
      /\ r \notin sent
      /\ audit[r][1] \in {"blocked_input", "blocked_output"}
      /\ \A i \in DOMAIN audit[r] : i > 1 => i = 2 /\ audit[r][i] = "escalated"

(* A result the caller reads never lies: it says delivered exactly when    *)
(* the message left, and then the store has the send and the trail has a   *)
(* decision that is not an escalation.                                     *)
ResultIsTruthful ==
  \A r \in Requests :
    pc[r] \in {"route", "done"} =>
      /\ delivered[r] <=> r \in sent
      /\ delivered[r] => r \in ledger
      /\ Decided(r)
      /\ audit[r][Len(audit[r])] = IF RequiresReview(r) THEN "escalated" ELSE "allowed"

(* Every returned escalation reached the console or told the caller that   *)
(* it did not (RecordingReviewRouter, controls.py lines 71-93).            *)
NoEscalationVanishes ==
  \A r \in Requests :
    pc[r] = "done" /\ RequiresReview(r) =>
      /\ routing[r] \in {"routed", "failed", "off"}
      /\ routing[r] = "routed" => r \in queue
      /\ RoutingEnabled <=> routing[r] # "off"

(* How far the frequency cap can be overshot.  The counter is read before  *)
(* the draft and moved after the delivery, so every other thread may have  *)
(* been let through on the same count, and a send the store was not told   *)
(* of is not counted at all; nothing else gets past the limit.             *)
CapOvershootBounded ==
  \A q \in Questions :
    SentOn(q) # {} =>
      Cardinality(SentOn(q)) <=
        PolicyLimit(q) + (MaxConcurrent - 1) + Cardinality(Unrecorded(q))

(* Once a delivery has been reported, every later answer of the store on   *)
(* the same question counts it: the cap binds on the next decision.        *)
NextDecisionCountsDelivered ==
  [][\A r \in Requests :
       consent'[r] # consent[r] =>
         Cardinality({s \in SentOn(Question(event[r])) : pc[s] = "done"})
           <= consent'[r].sends]_vars

(* A begun request is answered, with a result or an error, unless the      *)
(* process dies under it.                                                  *)
EveryRequestIsAnswered ==
  \A r \in Requests : (pc[r] # "new") ~> (pc[r] \in Ended)

-----------------------------------------------------------------------------
(* The service as an implementation of its contract.                       *)
StatusOf(r) ==
  CASE pc[r] = "new" -> "new"
    [] pc[r] # "new" /\ Decided(r) ->
         IF delivered[r] THEN "delivered"
         ELSE IF RequiresReview(r) THEN "held"
         ELSE IF RequestEligible(r) THEN "undelivered"
         ELSE "refused"
    [] pc[r] \in {"raised", "lost"} /\ ~Decided(r) -> "aborted"
    [] OTHER -> "open"

Contract ==
  INSTANCE OutreachContract
    WITH status <- [r \in Requests |-> StatusOf(r)],
         contacted <- sent, reviewed <- queue

(* Every step of the threads, their failures and a crash is a step of the  *)
(* contract or none, and open requests are resolved.                       *)
ImplementsContract == Contract!FairSpec

-----------------------------------------------------------------------------
(* Statements of the documentation.                                        *)

(* COMPLIANCE.md line 36: "Every send is consent-gated, frequency-capped,  *)
(* suppression-checked and quiet-hours-bounded".                           *)
EverySendIsCapped ==
  \A q \in Questions : SentOn(q) # {} => Cardinality(SentOn(q)) <= PolicyLimit(q)

(* SPEC.md lines 72-75: "Every send carries what authorised it: a          *)
(* DeliveryEnvelope holding the consent decision id".                      *)
EverySendNamesItsDecision == \A r \in sent : consent[r].hasId

(* ARCHITECTURE.md line 82: "the decision, including every refusal, is     *)
(* written to the already-redacted WORM trail."                            *)
EverySendIsAudited ==
  \A r \in sent : pc[r] \in Ended => Decided(r)

(* COMPLIANCE.md line 33: "an unreachable drafter holds the notification   *)
(* for a human", so no request fails once the drafter is asked.            *)
DrafterFailureIsHeld ==
  \A r \in Requests : pc[r] = "raised" /\ r \in consulted => body[r] # NoBody

=============================================================================
