---------------------------- MODULE OutreachProofs ----------------------------
(***************************************************************************)
(* What the outreach service keeps whatever fails and however its requests *)
(* interleave, for every policy, event set, store answer and number of     *)
(* requests and threads.                                                   *)
(***************************************************************************)
EXTENDS OutreachProperties, EligibilityProofs, FiniteSetTheorems, SequenceTheorems

(* Where an allowed answer has been assessed and nothing is concluded yet. *)
Cleared == {"screen_in", "block_in", "draft", "screen_out", "block_out",
            "deliver", "record"}

(* Where the message of a request may have left already. *)
AfterSend == {"record", "audit", "route", "done", "raised", "lost"}

(* A request carries an event, and only a fired one asks for consent.      *)
CarriesEvent(r) ==
  /\ pc[r] # "new" => event[r] \in Events
  /\ pc[r] = "consent" => Fired(event[r], asOf[r])

IsSendable(r) ==
  /\ body[r] \in Texts /\ Accepted(body[r], event[r])
  /\ ~RequiresReview(r)

(* Permission is kept from the answer to the send, and the draft's from    *)
(* its validation to the send; both outlive it, because what they were     *)
(* judged on never changes again.                                          *)
IsCleared(r) ==
  /\ pc[r] \in Cleared => RequestEligible(r)
  /\ pc[r] \in {"deliver", "record"} => IsSendable(r)
  /\ r \in sent => pc[r] \in AfterSend /\ RequestEligible(r) /\ IsSendable(r)
  /\ r \in queue => pc[r] = "done" /\ RequiresReview(r)

Typed   == TypeOK /\ \A r \in Requests : CarriesEvent(r)
Guarded == \A r \in Requests : IsCleared(r)

-----------------------------------------------------------------------------
LEMMA TypedInit == Init => Typed
<1> SUFFICES ASSUME Init  PROVE Typed
  OBVIOUS
<1>1. TypeOK
  BY DEF Init, TypeOK, PCs, Bodies
<1>2. \A r \in Requests : CarriesEvent(r)
  BY DEF Init, CarriesEvent
<1> QED  BY <1>1, <1>2 DEF Typed

(* The store's answer to a fired event is one of the decisions.            *)
LEMMA AnswerIsDecision ==
  ASSUME TypeOK, NEW r \in Requests, CarriesEvent(r), pc[r] = "consent",
         NEW shape \in AnswerShapes
  PROVE  Answer(shape, event[r], asOf[r]) \in Decisions
<1>1. event[r] \in Events /\ HasRule(event[r])
  BY DEF CarriesEvent, Fired, TriggerReason
<1>2. Question(event[r]) \in Questions
  BY <1>1 DEF Questions
<1>3. Cardinality(SendsOn(Question(event[r]))) \in Nat
  <2>1. SendsOn(Question(event[r])) \subseteq Requests
    BY DEF SendsOn, TypeOK
  <2> QED  BY <2>1, ServiceAssumption, FS_Subset, FS_CardinalityType
<1>4. shape \in Shapes /\ asOf[r] \in Int
  BY ServiceAssumption DEF TypeOK
<1> QED  BY <1>2, <1>3, <1>4 DEF Answer, Decisions, Answers, Shapes

LEMMA TypedEvaluate ==
  ASSUME Typed, NEW r \in Requests, Evaluate(r)
  PROVE  TypeOK'
<1> USE DEF Typed, TypeOK, PCs, Go, Raise, locals, world
<1>1. CASE ConsentAnswered(r)
  BY <1>1, AnswerIsDecision DEF ConsentAnswered
<1>2. CASE ConsentUnavailable(r) \/ ConsentRaises(r)
  BY <1>2 DEF ConsentUnavailable, ConsentRaises
<1>3. CASE ScreenInput(r) \/ ScreenOutputRefuses(r)
  BY <1>3 DEF ScreenInput, ScreenOutputRefuses
<1>4. CASE DrafterAnswers(r) \/ DrafterRaises(r)
  BY <1>4 DEF DrafterAnswers, DrafterRaises
<1>5. CASE DrafterUnavailable(r)
  BY <1>5 DEF DrafterUnavailable, Fallback, Drafted, DeterministicBody, Bodies
<1>6. CASE ScreenOutputAllows(r)
  <2>1. PICK text \in Bodies, isDiscarded \in BOOLEAN :
          Drafted(r, text, isDiscarded)
    BY <1>6 DEF ScreenOutputAllows, Fallback, DeterministicBody, Bodies
  <2> QED  BY <1>6, <2>1 DEF ScreenOutputAllows, Drafted
<1>7. CASE AuditBlock(r)
  <2>1. PICK label \in PCs, kind \in AuditKinds : AuditBlocked(r, label, kind)
    BY <1>7 DEF AuditBlock, AuditKinds
  <2>2. audit' \in [Requests -> Seq(AuditKinds)]
    BY <2>1 DEF AuditBlocked, Record
  <2>3. DeterministicBody(event[r]) \in Bodies
    BY DEF DeterministicBody, Bodies
  <2> QED  BY <2>1, <2>2, <2>3 DEF AuditBlocked, Fallback, Drafted
<1>8. CASE AuditRaises(r)
  BY <1>8 DEF AuditRaises
<1>9. CASE SendChat(r) \/ ChatRaises(r) \/ ChatUnconfirmed(r)
  BY <1>9 DEF SendChat, ChatRaises, ChatUnconfirmed
<1>10. CASE SendVoice(r) \/ SpeechUnavailable(r) \/ SpeechRaises(r)
  BY <1>10 DEF SendVoice, SpeechUnavailable, SpeechRaises
<1>11. CASE RecordSend(r) \/ RecordRaises(r)
  BY <1>11 DEF RecordSend, RecordRaises
<1>12. CASE RecordDecision(r)
  BY <1>12 DEF RecordDecision, Record, AuditKinds
<1> QED  BY <1>1, <1>2, <1>3, <1>4, <1>5, <1>6, <1>7, <1>8, <1>9, <1>10,
            <1>11, <1>12 DEF Evaluate

EvaluateMoves(r) ==
  /\ event' = event /\ asOf' = asOf
  /\ pc[r] # "new" /\ \E label \in PCs \ {"new", "consent"} : Go(r, label)

(* No step of a request goes back to its beginning.                        *)
LEMMA EvaluateAdvances ==
  ASSUME NEW r \in Requests, Evaluate(r)
  PROVE  EvaluateMoves(r)
<1> USE DEF EvaluateMoves, PCs, Raise, locals
<1>1. CASE ConsentAnswered(r) \/ ConsentUnavailable(r) \/ ConsentRaises(r)
  BY <1>1 DEF ConsentAnswered, ConsentUnavailable, ConsentRaises
<1>2. CASE ScreenInput(r) \/ ScreenOutputRefuses(r)
  BY <1>2 DEF ScreenInput, ScreenOutputRefuses
<1>3. CASE DrafterAnswers(r) \/ DrafterRaises(r) \/ DrafterUnavailable(r)
  BY <1>3 DEF DrafterAnswers, DrafterRaises, DrafterUnavailable, Fallback, Drafted
<1>4. CASE ScreenOutputAllows(r) \/ AuditBlock(r) \/ AuditRaises(r)
  BY <1>4 DEF ScreenOutputAllows, AuditBlock, AuditBlocked, AuditRaises,
              Fallback, Drafted
<1>5. CASE SendChat(r) \/ ChatRaises(r) \/ ChatUnconfirmed(r)
  BY <1>5 DEF SendChat, ChatRaises, ChatUnconfirmed
<1>6. CASE SendVoice(r) \/ SpeechUnavailable(r) \/ SpeechRaises(r)
  BY <1>6 DEF SendVoice, SpeechUnavailable, SpeechRaises
<1>7. CASE RecordSend(r) \/ RecordRaises(r) \/ RecordDecision(r)
  BY <1>7 DEF RecordSend, RecordRaises, RecordDecision
<1> QED  BY <1>1, <1>2, <1>3, <1>4, <1>5, <1>6, <1>7 DEF Evaluate

LEMMA TypedNext == Typed /\ [Next]_vars => Typed'
<1> SUFFICES ASSUME Typed, [Next]_vars  PROVE Typed'
  OBVIOUS
<1>1. TypeOK'
  <2> USE DEF Typed, TypeOK, PCs, Go, locals, world
  <2>1. ASSUME NEW r \in Requests, Begin(r)  PROVE TypeOK'
    BY <2>1 DEF Begin
  <2>2. ASSUME NEW r \in Requests, Evaluate(r)  PROVE TypeOK'
    BY <2>2, TypedEvaluate
  <2>3. ASSUME NEW r \in Requests, Route(r)  PROVE TypeOK'
    BY <2>3 DEF Route, RouteNothing, RouteOff, RouteFails, RouteHeld, RouteAs
  <2>4. CASE Crash
    BY <2>4 DEF Crash
  <2>5. CASE ClockTick
    BY <2>5, ServiceAssumption DEF ClockTick
  <2>6. CASE UNCHANGED vars
    BY <2>6 DEF vars
  <2> QED  BY <2>1, <2>2, <2>3, <2>4, <2>5, <2>6 DEF Next, Finished
<1>2. ASSUME NEW s \in Requests  PROVE CarriesEvent(s)'
  <2> CarriesEvent(s) /\ TypeOK
    BY DEF Typed
  <2> USE DEF TypeOK, CarriesEvent, Go, Raise, locals, world
  <2>1. ASSUME NEW r \in Requests, Begin(r)  PROVE CarriesEvent(s)'
    BY <2>1 DEF Begin
  <2>2. ASSUME NEW r \in Requests, Evaluate(r)  PROVE CarriesEvent(s)'
    <3>1. EvaluateMoves(r)
      BY <2>2, EvaluateAdvances
    <3> QED  BY <3>1 DEF EvaluateMoves
  <2>3. ASSUME NEW r \in Requests, Route(r)  PROVE CarriesEvent(s)'
    BY <2>3 DEF Route, RouteNothing, RouteOff, RouteFails, RouteHeld, RouteAs
  <2>4. CASE Crash
    BY <2>4 DEF Crash, InFlight
  <2>5. CASE ClockTick
    BY <2>5 DEF ClockTick
  <2>6. CASE UNCHANGED vars
    BY <2>6 DEF vars
  <2> QED  BY <2>1, <2>2, <2>3, <2>4, <2>5, <2>6 DEF Next, Finished
<1> QED  BY <1>1, <1>2 DEF Typed

(* Every variable keeps its type, in particular every stored answer is one *)
(* the engines can assess.                                                 *)
THEOREM TypeCorrect == Spec => []TypeOK
<1>1. Typed => TypeOK
  BY DEF Typed
<1> QED  BY <1>1, TypedInit, TypedNext, PTL DEF Spec

-----------------------------------------------------------------------------
LEMMA GuardedInit == Init => Guarded
  BY DEF Init, Guarded, IsCleared, Cleared

LEMMA GuardedEvaluate ==
  ASSUME TypeOK, NEW r \in Requests, NEW s \in Requests,
         IsCleared(s), Evaluate(r)
  PROVE  IsCleared(s)'
<1> USE DEF TypeOK, IsCleared, IsSendable, RequestEligible, RequiresReview,
            IsConsequential, Cleared, AfterSend, Go, Raise, locals, world
<1>1. CASE ConsentAnswered(r)
  BY <1>1 DEF ConsentAnswered
<1>2. CASE ConsentUnavailable(r) \/ ConsentRaises(r)
  BY <1>2 DEF ConsentUnavailable, ConsentRaises
<1>3. CASE ScreenInput(r) \/ ScreenOutputRefuses(r)
  BY <1>3 DEF ScreenInput, ScreenOutputRefuses
<1>4. CASE DrafterAnswers(r) \/ DrafterRaises(r)
  BY <1>4 DEF DrafterAnswers, DrafterRaises
<1>5. CASE DrafterUnavailable(r)
  BY <1>5 DEF DrafterUnavailable, Fallback, Drafted
<1>6. CASE ScreenOutputAllows(r)
  <2>1. PICK text \in Texts : IF Accepted(text, event[r])
                              THEN Drafted(r, text, FALSE) ELSE Fallback(r)
    BY <1>6 DEF ScreenOutputAllows
  <2>2. CASE Accepted(text, event[r])
    BY <1>6, <2>1, <2>2 DEF ScreenOutputAllows, Drafted
  <2>3. CASE ~Accepted(text, event[r])
    BY <1>6, <2>1, <2>3 DEF ScreenOutputAllows, Fallback, Drafted
  <2> QED  BY <2>2, <2>3
<1>7. CASE AuditBlock(r)
  BY <1>7 DEF AuditBlock, AuditBlocked, Fallback, Drafted
<1>8. CASE AuditRaises(r)
  BY <1>8 DEF AuditRaises
<1>9. CASE SendChat(r) \/ ChatRaises(r) \/ ChatUnconfirmed(r)
  BY <1>9 DEF SendChat, ChatRaises, ChatUnconfirmed
<1>10. CASE SendVoice(r) \/ SpeechUnavailable(r) \/ SpeechRaises(r)
  BY <1>10 DEF SendVoice, SpeechUnavailable, SpeechRaises
<1>11. CASE RecordSend(r) \/ RecordRaises(r)
  BY <1>11 DEF RecordSend, RecordRaises
<1>12. CASE RecordDecision(r)
  BY <1>12 DEF RecordDecision
<1> QED  BY <1>1, <1>2, <1>3, <1>4, <1>5, <1>6, <1>7, <1>8, <1>9, <1>10,
            <1>11, <1>12 DEF Evaluate

LEMMA GuardedNext == TypeOK /\ Guarded /\ [Next]_vars => Guarded'
<1> SUFFICES ASSUME TypeOK, Guarded, [Next]_vars, NEW s \in Requests
             PROVE  IsCleared(s)'
  BY DEF Guarded
<1>1. IsCleared(s)
  BY DEF Guarded
<1>2. ASSUME NEW r \in Requests, Evaluate(r)  PROVE IsCleared(s)'
  BY <1>1, <1>2, GuardedEvaluate
<1> USE DEF TypeOK, IsCleared, IsSendable, RequestEligible, RequiresReview,
            IsConsequential, Cleared, AfterSend, Go, locals, world
<1>3. ASSUME NEW r \in Requests, Begin(r)  PROVE IsCleared(s)'
  BY <1>1, <1>3 DEF Begin
<1>4. ASSUME NEW r \in Requests, Route(r)  PROVE IsCleared(s)'
  BY <1>1, <1>4 DEF Route, RouteNothing, RouteOff, RouteFails, RouteHeld, RouteAs
<1>5. CASE Crash
  BY <1>1, <1>5 DEF Crash, InFlight, Ended
<1>6. CASE ClockTick \/ UNCHANGED vars
  BY <1>1, <1>6 DEF ClockTick, vars
<1> QED  BY <1>2, <1>3, <1>4, <1>5, <1>6 DEF Next, Finished

LEMMA InductiveInvariant == Spec => [](Typed /\ Guarded)
<1>1. Typed => TypeOK
  BY DEF Typed
<1> QED  BY <1>1, TypedInit, TypedNext, GuardedInit, GuardedNext, PTL DEF Spec

-----------------------------------------------------------------------------
LEMMA EligibleRequestMayContact ==
  ASSUME Typed, NEW r \in Requests, pc[r] # "new", RequestEligible(r)
  PROVE  MayContact(event[r], asOf[r], consent[r])
<1>1. asOf[r] \in Int /\ consent[r] \in Decisions \cup {NoDecision}
  BY DEF Typed, TypeOK
<1>2. EventIsValid(event[r])
  BY ServiceAssumption DEF Typed, CarriesEvent
<1>3. AnswerIsValid(consent[r])
  BY <1>1 DEF Decisions, Answers, AnswerIsValid
<1> QED  BY <1>1, <1>2, <1>3, EligibleMeansMayContact DEF RequestEligible

(* Nobody is contacted unless the documented condition held of the very    *)
(* event, instant and answer the request was decided on.                   *)
THEOREM OnlyPermittedContacts == Spec => []ContactIsPermitted
<1>1. ASSUME Typed, Guarded, NEW r \in sent
      PROVE  MayContact(event[r], asOf[r], consent[r])
  <2>1. r \in Requests /\ pc[r] # "new" /\ RequestEligible(r)
    BY <1>1 DEF Typed, TypeOK, Guarded, IsCleared, AfterSend
  <2> QED  BY <1>1, <2>1, EligibleRequestMayContact
<1>2. Typed /\ Guarded => ContactIsPermitted
  BY <1>1 DEF ContactIsPermitted
<1> QED  BY <1>2, InductiveInvariant, PTL

(* A request that needs a human contacts nobody, and reviewers see no other. *)
THEOREM HeldContactsNobody == Spec => []HeldIsNeverSent
<1>1. Typed /\ Guarded => HeldIsNeverSent
  BY DEF Typed, TypeOK, Guarded, IsCleared, IsSendable, HeldIsNeverSent
<1> QED  BY <1>1, InductiveInvariant, PTL

(* What goes out is an accepted draft, so its figures and its facts are    *)
(* those the rule requires.                                                *)
THEOREM OnlyGroundedTexts == Spec => []SentTextIsGrounded
<1>1. ASSUME NEW text, NEW e, Accepted(text, e)
      PROVE  /\ Rule(e).required \subseteq text.quotes
             /\ \A figure \in text.figures :
                  \E name \in Rule(e).required : figure \in e.attributes[name]
  <2>1. text.form = "body"
    BY <1>1 DEF Accepted, DraftReasons
  <2>2. Facts(e) \subseteq text.quotes /\ text.figures \subseteq GroundedFigures(e)
    BY <1>1, <2>1 DEF Accepted, DraftReasons
  <2> QED  BY <2>2 DEF Facts, GroundedFigures
<1>2. Typed /\ Guarded => SentTextIsGrounded
  BY <1>1 DEF Typed, TypeOK, Guarded, IsCleared, IsSendable, SentTextIsGrounded
<1> QED  BY <1>2, InductiveInvariant, PTL

-----------------------------------------------------------------------------
(* What a request leaves behind: its trail, its result, its hand-off, its  *)
(* share of the frequency cap and its place in the contract.               *)
Blocks == {"blocked_input", "blocked_output"}

VerdictOf(r) == IF RequiresReview(r) THEN "escalated" ELSE "allowed"

(* A refused screen left `b' in the trail and stopped the message; refused *)
(* on the way in, it stopped the model as well.                            *)
StoppedBy(r, b) ==
  /\ discarded[r] /\ r \notin sent
  /\ b = "blocked_input" => r \notin consulted

NoTrail(r)         == audit[r] = <<>>
BlockOnly(r)       == \E b \in Blocks : audit[r] = <<b>> /\ StoppedBy(r, b)
VerdictOnly(r)     == audit[r] = <<VerdictOf(r)>>
BlockThenVerdict(r) ==
  \E b \in Blocks : audit[r] = <<b, "escalated">> /\ StoppedBy(r, b)

BeforeTrail == {"new", "consent", "screen_in", "block_in", "draft",
                "screen_out", "block_out", "deliver", "record"}

BeforeModel == {"new", "consent", "screen_in", "block_in", "draft"}

(* The trail of a request is determined by where the request is.           *)
HasTrail(r) ==
  /\ pc[r] \in BeforeTrail => NoTrail(r)
  /\ pc[r] = "audit" => NoTrail(r) \/ BlockOnly(r)
  /\ pc[r] \in {"route", "done"} => VerdictOnly(r) \/ BlockThenVerdict(r)
  /\ pc[r] \in {"raised", "lost"} =>
       NoTrail(r) \/ BlockOnly(r) \/ VerdictOnly(r) \/ BlockThenVerdict(r)

(* What it says of the delivery, of the model and of the hand-off.         *)
HasResult(r) ==
  /\ pc[r] = "record" => r \in sent
  /\ delivered[r] => r \in sent /\ r \in ledger
  /\ pc[r] \in {"audit", "route", "done"} /\ r \in sent => delivered[r]
  /\ r \in consulted => pc[r] \notin BeforeModel /\ RequestEligible(r)
  /\ pc[r] = "done" /\ RequiresReview(r) =>
       /\ routing[r] \in {"routed", "failed", "off"}
       /\ routing[r] = "routed" => r \in queue
       /\ RoutingEnabled <=> routing[r] # "off"

Trailed  == \A r \in Requests : HasTrail(r)
Reported == \A r \in Requests : HasResult(r)

-----------------------------------------------------------------------------
LEMMA AppendToOne ==
  ASSUME NEW S, NEW a \in S, NEW b \in S
  PROVE  Append(<<a>>, b) = <<a, b>>
<1> DEFINE s == Append(<<a>>, b)
           t == <<a, b>>
<1>1. <<a>> \in Seq(S) /\ Len(<<a>>) = 1 /\ <<a>>[1] = a
  OBVIOUS
<1>2. s \in Seq(S) /\ Len(s) = 2 /\ s[1] = a /\ s[2] = b
  BY <1>1, AppendProperties
<1>3. t \in Seq(S) /\ Len(t) = 2 /\ t[1] = a /\ t[2] = b
  OBVIOUS
<1> HIDE DEF s, t
<1>4. \A i \in 1..Len(s) : s[i] = t[i]
  BY <1>2, <1>3
<1>5. s = t
  BY <1>2, <1>3, <1>4, SeqEqual
<1> QED  BY <1>5 DEF s, t

LEMMA TrailedInit == Init => Trailed
  BY DEF Init, Trailed, HasTrail, NoTrail, BeforeTrail

LEMMA ReportedInit == Init => Reported
  BY DEF Init, Reported, HasResult

LEMMA TrailEvaluate ==
  ASSUME TypeOK, NEW r \in Requests, NEW s \in Requests,
         IsCleared(s), HasTrail(s), HasResult(s), Evaluate(r)
  PROVE  HasTrail(s)'
<1> USE DEF TypeOK, IsCleared, HasTrail, NoTrail, BlockOnly, VerdictOnly,
            BlockThenVerdict, StoppedBy, VerdictOf, Blocks, BeforeTrail,
            RequiresReview, IsConsequential, AfterSend, Go, Raise, locals, world
<1>1. CASE ConsentAnswered(r) \/ ConsentUnavailable(r) \/ ConsentRaises(r)
  BY <1>1 DEF ConsentAnswered, ConsentUnavailable, ConsentRaises
<1>2. CASE ScreenInput(r) \/ ScreenOutputRefuses(r)
  BY <1>2 DEF ScreenInput, ScreenOutputRefuses
<1>3. CASE DrafterAnswers(r) \/ DrafterRaises(r)
  BY <1>3 DEF DrafterAnswers, DrafterRaises
<1>4. CASE DrafterUnavailable(r)
  BY <1>4 DEF DrafterUnavailable, Fallback, Drafted
<1>5. CASE ScreenOutputAllows(r)
  <2>1. PICK text \in Bodies, isDiscarded \in BOOLEAN :
          Drafted(r, text, isDiscarded)
    BY <1>5 DEF ScreenOutputAllows, Fallback, DeterministicBody, Bodies
  <2> QED  BY <1>5, <2>1 DEF ScreenOutputAllows, Drafted
<1>6. CASE AuditBlock(r)
  <2>1. PICK label \in {"block_in", "block_out"}, b \in Blocks :
          /\ AuditBlocked(r, label, b)
          /\ b = "blocked_input" => label = "block_in"
    BY <1>6 DEF AuditBlock
  <2>2. CASE s # r
    BY <2>1, <2>2 DEF AuditBlocked, Record, Fallback, Drafted
  <2>3. CASE s = r
    <3>1. NoTrail(r) /\ r \notin sent
      BY <2>1, <2>3 DEF AuditBlocked
    <3>2. b = "blocked_input" => r \notin consulted
      BY <2>1, <2>3 DEF AuditBlocked, HasResult, BeforeModel
    <3>3. audit'[r] = <<b>>
      BY <2>1, <3>1 DEF AuditBlocked, Record
    <3>4. /\ pc'[r] = "audit" /\ discarded'[r]
          /\ sent' = sent /\ consulted' = consulted
      BY <2>1 DEF AuditBlocked, Fallback, Drafted
    <3>5. BlockOnly(r)'
      BY <3>1, <3>2, <3>3, <3>4
    <3> QED  BY <2>3, <3>4, <3>5
  <2> QED  BY <2>2, <2>3
<1>7. CASE AuditRaises(r)
  BY <1>7 DEF AuditRaises
<1>8. CASE SendChat(r) \/ ChatRaises(r) \/ ChatUnconfirmed(r)
  BY <1>8 DEF SendChat, ChatRaises, ChatUnconfirmed
<1>9. CASE SendVoice(r) \/ SpeechUnavailable(r) \/ SpeechRaises(r)
  BY <1>9 DEF SendVoice, SpeechUnavailable, SpeechRaises
<1>10. CASE RecordSend(r) \/ RecordRaises(r)
  BY <1>10 DEF RecordSend, RecordRaises
<1>11. CASE RecordDecision(r)
  <2>1. /\ pc[r] = "audit" /\ pc' = [pc EXCEPT ![r] = "route"]
        /\ audit' = [audit EXCEPT ![r] = Append(@, VerdictOf(r))]
        /\ event' = event /\ asOf' = asOf /\ discarded' = discarded
        /\ sent' = sent /\ consulted' = consulted
    BY <1>11 DEF RecordDecision, Record
  <2>2. VerdictOf(s)' = VerdictOf(s) /\ \A b : StoppedBy(s, b)' <=> StoppedBy(s, b)
    BY <2>1
  <2>3. CASE s # r
    BY <2>1, <2>2, <2>3
  <2>4. CASE s = r /\ NoTrail(r)
    <3>1. audit'[r] = <<VerdictOf(r)>>
      BY <2>1, <2>4
    <3>2. VerdictOnly(r)'
      BY <2>2, <2>4, <3>1
    <3> HIDE DEF VerdictOnly
    <3> QED  BY <2>1, <2>4, <3>2
  <2>5. CASE s = r /\ BlockOnly(r)
    <3>1. PICK b \in Blocks : audit[r] = <<b>> /\ StoppedBy(r, b)
      BY <2>5
    <3>2. VerdictOf(r) = "escalated"
      BY <3>1
    <3>3. audit'[r] = <<b, "escalated">>
      <4>1. audit'[r] = Append(audit[r], VerdictOf(r))
        BY <2>1
      <4>2. Append(<<b>>, "escalated") = <<b, "escalated">>
        <5>1. b \in AuditKinds /\ "escalated" \in AuditKinds
          BY <3>1 DEF AuditKinds
        <5> QED  BY <5>1, AppendToOne
      <4> HIDE DEF VerdictOf
      <4> QED  BY <3>1, <3>2, <4>1, <4>2, Zenon
    <3>4. BlockThenVerdict(r)'
      BY <2>2, <2>5, <3>1, <3>3
    <3> HIDE DEF BlockThenVerdict
    <3> QED  BY <2>1, <2>5, <3>4
  <2> QED  BY <2>1, <2>3, <2>4, <2>5
<1> QED  BY <1>1, <1>2, <1>3, <1>4, <1>5, <1>6, <1>7, <1>8, <1>9, <1>10,
            <1>11 DEF Evaluate

LEMMA ResultEvaluate ==
  ASSUME TypeOK, NEW r \in Requests, NEW s \in Requests,
         IsCleared(s), HasResult(s), Evaluate(r)
  PROVE  HasResult(s)'
<1> USE DEF TypeOK, IsCleared, HasResult, BeforeModel, RequestEligible, Cleared,
            RequiresReview, IsConsequential, AfterSend, Go, Raise, locals, world
<1>1. CASE ConsentAnswered(r) \/ ConsentUnavailable(r) \/ ConsentRaises(r)
  BY <1>1 DEF ConsentAnswered, ConsentUnavailable, ConsentRaises
<1>2. CASE ScreenInput(r) \/ ScreenOutputRefuses(r)
  BY <1>2 DEF ScreenInput, ScreenOutputRefuses
<1>3. CASE DrafterAnswers(r) \/ DrafterRaises(r)
  BY <1>3 DEF DrafterAnswers, DrafterRaises
<1>4. CASE DrafterUnavailable(r)
  BY <1>4 DEF DrafterUnavailable, Fallback, Drafted
<1>5. CASE ScreenOutputAllows(r)
  <2>1. PICK text \in Bodies, isDiscarded \in BOOLEAN :
          Drafted(r, text, isDiscarded)
    BY <1>5 DEF ScreenOutputAllows, Fallback, DeterministicBody, Bodies
  <2> QED  BY <1>5, <2>1 DEF ScreenOutputAllows, Drafted
<1>6. CASE AuditBlock(r)
  BY <1>6 DEF AuditBlock, AuditBlocked, Fallback, Drafted
<1>7. CASE AuditRaises(r)
  BY <1>7 DEF AuditRaises
<1>8. CASE SendChat(r) \/ ChatRaises(r) \/ ChatUnconfirmed(r)
  BY <1>8 DEF SendChat, ChatRaises, ChatUnconfirmed
<1>9. CASE SendVoice(r) \/ SpeechUnavailable(r) \/ SpeechRaises(r)
  BY <1>9 DEF SendVoice, SpeechUnavailable, SpeechRaises
<1>10. CASE RecordSend(r) \/ RecordRaises(r)
  BY <1>10 DEF RecordSend, RecordRaises
<1>11. CASE RecordDecision(r)
  BY <1>11 DEF RecordDecision
<1> QED  BY <1>1, <1>2, <1>3, <1>4, <1>5, <1>6, <1>7, <1>8, <1>9, <1>10,
            <1>11 DEF Evaluate

LEMMA TrailNext ==
  TypeOK /\ Guarded /\ Trailed /\ Reported /\ [Next]_vars => (Trailed /\ Reported)'
<1> SUFFICES ASSUME TypeOK, Guarded, Trailed, Reported, [Next]_vars,
                    NEW s \in Requests
             PROVE  HasTrail(s)' /\ HasResult(s)'
  BY DEF Trailed, Reported
<1>1. IsCleared(s) /\ HasTrail(s) /\ HasResult(s)
  BY DEF Guarded, Trailed, Reported
<1>2. ASSUME NEW r \in Requests, Evaluate(r)
      PROVE  HasTrail(s)' /\ HasResult(s)'
  BY <1>1, <1>2, TrailEvaluate, ResultEvaluate
<1> USE DEF TypeOK, IsCleared, HasTrail, NoTrail, BlockOnly, VerdictOnly,
            BlockThenVerdict, StoppedBy, VerdictOf, BeforeTrail, HasResult,
            BeforeModel, RequestEligible, RequiresReview, IsConsequential,
            AfterSend, Go, locals, world
<1>3. ASSUME NEW r \in Requests, Begin(r)
      PROVE  HasTrail(s)' /\ HasResult(s)'
  BY <1>1, <1>3 DEF Begin
<1>4. ASSUME NEW r \in Requests, Route(r)
      PROVE  HasTrail(s)' /\ HasResult(s)'
  <2>1. HasTrail(s)'
    BY <1>1, <1>4
       DEF Route, RouteNothing, RouteOff, RouteFails, RouteHeld, RouteAs
  <2>2. HasResult(s)'
    BY <1>1, <1>4
       DEF Route, RouteNothing, RouteOff, RouteFails, RouteHeld, RouteAs
  <2> QED  BY <2>1, <2>2
<1>5. CASE Crash
  <2>1. /\ NoTrail(s)' = NoTrail(s) /\ BlockOnly(s)' = BlockOnly(s)
        /\ VerdictOnly(s)' = VerdictOnly(s)
        /\ BlockThenVerdict(s)' = BlockThenVerdict(s)
    BY <1>5 DEF Crash
  <2>2. HasResult(s)'
    BY <1>1, <1>5 DEF Crash, InFlight, Ended
  <2>3. pc'[s] = pc[s] \/ (pc'[s] = "lost" /\ pc[s] \in PCs \ Ended)
    BY <1>5 DEF Crash, InFlight
  <2> HIDE DEF NoTrail, BlockOnly, VerdictOnly, BlockThenVerdict
  <2>4. HasTrail(s)'
    BY <1>1, <2>1, <2>3 DEF PCs, Ended
  <2> QED  BY <2>2, <2>4
<1>6. CASE ClockTick \/ UNCHANGED vars
  BY <1>1, <1>6 DEF ClockTick, vars
<1> QED  BY <1>2, <1>3, <1>4, <1>5, <1>6 DEF Next, Finished

LEMMA TrailInvariant == Spec => [](Typed /\ Guarded /\ Trailed /\ Reported)
<1>1. Typed => TypeOK
  BY DEF Typed
<1> QED  BY <1>1, InductiveInvariant, TrailedInit, ReportedInit, TrailNext, PTL
         DEF Spec

-----------------------------------------------------------------------------
LEMMA TrailForms ==
  ASSUME Typed, Trailed, NEW r \in Requests
  PROVE  NoTrail(r) \/ BlockOnly(r) \/ VerdictOnly(r) \/ BlockThenVerdict(r)
BY DEF Typed, TypeOK, PCs, Trailed, HasTrail, BeforeTrail

(* A refused screen is the first record of a request that contacts nobody, *)
(* and only an escalation follows it.                                      *)
THEOREM BlockedThenEscalated == Spec => []BlockedIsEscalated
<1>1. ASSUME Typed, Trailed, NEW r \in Requests, Blocked(r)
      PROVE  /\ r \notin sent
             /\ audit[r][1] \in {"blocked_input", "blocked_output"}
             /\ \A i \in DOMAIN audit[r] : i > 1 => i = 2 /\ audit[r][i] = "escalated"
  <2>1. CASE NoTrail(r)
    BY <1>1, <2>1 DEF NoTrail, Blocked
  <2>2. CASE BlockOnly(r)
    BY <2>2 DEF BlockOnly, Blocks, StoppedBy
  <2>3. CASE VerdictOnly(r)
    BY <1>1, <2>3 DEF VerdictOnly, VerdictOf, Blocked
  <2>4. CASE BlockThenVerdict(r)
    BY <2>4 DEF BlockThenVerdict, Blocks, StoppedBy
  <2> QED  BY <1>1, <2>1, <2>2, <2>3, <2>4, TrailForms
<1>2. Typed /\ Trailed => BlockedIsEscalated
  BY <1>1 DEF BlockedIsEscalated
<1> QED  BY <1>2, TrailInvariant, PTL

(* The model is called for a permitted contact with an unblocked prompt.   *)
THEOREM ModelOnlyIfPermitted == Spec => []ModelOnlyAfterEligibility
<1>1. ASSUME Typed, Guarded, Trailed, Reported, NEW r \in consulted
      PROVE  /\ MayContact(event[r], asOf[r], consent[r])
             /\ \A i \in DOMAIN audit[r] : audit[r][i] # "blocked_input"
  <2>1. r \in Requests /\ pc[r] # "new" /\ RequestEligible(r)
    BY <1>1 DEF Typed, TypeOK, Reported, HasResult, BeforeModel
  <2>2. MayContact(event[r], asOf[r], consent[r])
    BY <1>1, <2>1, EligibleRequestMayContact
  <2>3. \A i \in DOMAIN audit[r] : audit[r][i] # "blocked_input"
    <3>1. CASE NoTrail(r)
      BY <3>1 DEF NoTrail
    <3>2. CASE BlockOnly(r)
      BY <1>1, <3>2 DEF BlockOnly, StoppedBy
    <3>3. CASE VerdictOnly(r)
      BY <3>3 DEF VerdictOnly, VerdictOf
    <3>4. CASE BlockThenVerdict(r)
      BY <1>1, <3>4 DEF BlockThenVerdict, StoppedBy
    <3> QED  BY <1>1, <2>1, <3>1, <3>2, <3>3, <3>4, TrailForms
  <2> QED  BY <2>2, <2>3
<1>2. Typed /\ Guarded /\ Trailed /\ Reported => ModelOnlyAfterEligibility
  BY <1>1 DEF ModelOnlyAfterEligibility
<1> QED  BY <1>2, TrailInvariant, PTL

(* A returned result says delivered exactly when the message left, and the *)
(* trail ends in the decision it reports.                                  *)
THEOREM ResultsAreTruthful == Spec => []ResultIsTruthful
<1>1. ASSUME Typed, Trailed, Reported, NEW r \in Requests,
             pc[r] \in {"route", "done"}
      PROVE  /\ delivered[r] <=> r \in sent
             /\ delivered[r] => r \in ledger
             /\ Decided(r)
             /\ audit[r][Len(audit[r])] = VerdictOf(r)
  <2>1. /\ delivered[r] <=> r \in sent
        /\ delivered[r] => r \in ledger
    BY <1>1 DEF Typed, TypeOK, Reported, HasResult
  <2>2. VerdictOnly(r) \/ BlockThenVerdict(r)
    BY <1>1 DEF Trailed, HasTrail
  <2>3. CASE VerdictOnly(r)
    BY <2>1, <2>3 DEF VerdictOnly, Decided, VerdictOf
  <2>4. CASE BlockThenVerdict(r)
    <3>1. VerdictOf(r) = "escalated"
      BY <2>4 DEF BlockThenVerdict, StoppedBy, VerdictOf, RequiresReview
    <3>2. PICK b \in Blocks : audit[r] = <<b, "escalated">>
      BY <2>4 DEF BlockThenVerdict
    <3> QED  BY <2>1, <3>1, <3>2 DEF Decided
  <2> QED  BY <2>2, <2>3, <2>4
<1>2. Typed /\ Trailed /\ Reported => ResultIsTruthful
  BY <1>1 DEF ResultIsTruthful, VerdictOf
<1> QED  BY <1>2, TrailInvariant, PTL

(* An escalation that was returned is in the console, or the caller was    *)
(* told that it is not.                                                    *)
THEOREM EscalationsAreReported == Spec => []NoEscalationVanishes
<1>1. Reported => NoEscalationVanishes
  BY DEF Reported, HasResult, NoEscalationVanishes
<1> QED  BY <1>1, TrailInvariant, PTL

-----------------------------------------------------------------------------
(* Who takes room under the cap of a question: whoever was found eligible  *)
(* and is not done yet, and whoever the store counts.                      *)
Claims(q) ==
  {r \in Requests : (pc[r] \in Cleared \/ r \in ledger) /\ Question(event[r]) = q}

(* An answer finds fewer sends than the limit and adds its own request to  *)
(* at most MaxConcurrent in flight; every other step leaves the claims as  *)
(* they are or gives one up.                                               *)
Roomy ==
  /\ Cardinality(InFlight) <= MaxConcurrent
  /\ \A r \in ledger : pc[r] # "new"
  /\ \A q \in Questions : Claims(q) # {} =>
       /\ PolicyLimit(q) \in Nat
       /\ Cardinality(Claims(q)) <= PolicyLimit(q) + (MaxConcurrent - 1)

LEMMA FiniteRequests ==
  ASSUME NEW S \in SUBSET Requests
  PROVE  IsFiniteSet(S) /\ Cardinality(S) \in Nat
  BY ServiceAssumption, FS_Subset, FS_CardinalityType

LEMMA SmallerSet ==
  ASSUME NEW S \in SUBSET Requests, NEW T \in SUBSET S
  PROVE  Cardinality(T) <= Cardinality(S)
  BY FiniteRequests, FS_Subset

LEMMA UnionIsNoLarger ==
  ASSUME NEW S \in SUBSET Requests, NEW T \in SUBSET Requests
  PROVE  Cardinality(S \cup T) <= Cardinality(S) + Cardinality(T)
<1>1. /\ IsFiniteSet(S) /\ IsFiniteSet(T)
      /\ Cardinality(S) \in Nat /\ Cardinality(T) \in Nat
  BY FiniteRequests
<1>2. Cardinality(S \cap T) \in Nat
  BY FiniteRequests
<1>3. Cardinality(S \cup T) = Cardinality(S) + Cardinality(T) - Cardinality(S \cap T)
  BY <1>1, FS_Union
<1> QED  BY <1>1, <1>2, <1>3

(* An eligible request asks about something that has a cap.                *)
LEMMA EligibleHasLimit ==
  ASSUME Typed, NEW e \in Events, NEW t, NEW c \in Decisions \cup {NoDecision}, Eligible(e, t, c)
  PROVE  /\ Question(e) \in Questions /\ PolicyLimit(Question(e)) \in Nat
         /\ c # NoDecision /\ c.sends < PolicyLimit(Question(e))
<1>1. /\ Fired(e, t) /\ ConsentReasons(e, t, c) = {} /\ CapReasons(e, c) = {}
  BY DEF Eligible, DenyingReasons
<1>2. HasRule(e)
  BY <1>1 DEF Fired, TriggerReason
<1>3. c # NoDecision
  BY <1>1 DEF ConsentReasons
<1>4. AnswerIsValid(c)
  BY <1>3 DEF Decisions, Answers, AnswerIsValid
<1>5. HasCap(e) /\ c.sends < FrequencyCaps[CapKey(e)]
  BY <1>1, <1>3, <1>4, NoCapReasonMeansUnderBothLimits DEF UnderBothLimits
<1>6. PolicyLimit(Question(e)) = FrequencyCaps[CapKey(e)]
  BY DEF PolicyLimit, Question, CapKey
<1>7. FrequencyCaps[CapKey(e)] \in Nat
  BY <1>5, PolicyAssumption DEF HasCap, PolicyIsValid
<1> QED  BY <1>2, <1>3, <1>5, <1>6, <1>7 DEF Questions

LEMMA RoomyInit == Init => Roomy
<1> SUFFICES ASSUME Init  PROVE Roomy
  OBVIOUS
<1>1. InFlight = {} /\ ledger = {} /\ \A q : Claims(q) = {}
  BY DEF Init, InFlight, Claims, Cleared
<1>2. Cardinality({}) = 0
  BY FS_EmptySet
<1> QED  BY <1>1, <1>2, ServiceAssumption DEF Roomy

(* Only an answer makes a request a claimant.                              *)
LEMMA ClaimsShrink ==
  ASSUME Typed, Roomy, [Next]_vars, NEW s \in Requests, ~ConsentAnswered(s),
         (pc[s] \in Cleared \/ s \in ledger)'
  PROVE  (pc[s] \in Cleared \/ s \in ledger) /\ event'[s] = event[s]
<1> USE DEF Typed, TypeOK, Cleared, Go, Raise, locals, world
<1>1. ASSUME NEW r \in Requests, Begin(r)
      PROVE  (pc[s] \in Cleared \/ s \in ledger) /\ event'[s] = event[s]
  BY <1>1 DEF Begin, Roomy
<1>2. ASSUME NEW r \in Requests, Evaluate(r)
      PROVE  (pc[s] \in Cleared \/ s \in ledger) /\ event'[s] = event[s]
  <2>0. event' = event
    BY <1>2, EvaluateAdvances DEF EvaluateMoves
  <2>1. CASE ConsentAnswered(r) \/ ConsentUnavailable(r) \/ ConsentRaises(r)
    BY <2>0, <2>1 DEF ConsentAnswered, ConsentUnavailable, ConsentRaises
  <2>2. CASE ScreenInput(r) \/ ScreenOutputRefuses(r)
    BY <2>0, <2>2 DEF ScreenInput, ScreenOutputRefuses
  <2>3. CASE DrafterAnswers(r) \/ DrafterRaises(r) \/ DrafterUnavailable(r)
    BY <2>0, <2>3 DEF DrafterAnswers, DrafterRaises, DrafterUnavailable, Fallback, Drafted
  <2>4. CASE ScreenOutputAllows(r)
    <3>1. ledger' = ledger /\ pc[r] \in Cleared /\ \A d \in Requests \ {r} : pc'[d] = pc[d]
      BY <2>4 DEF ScreenOutputAllows, Fallback, Drafted
    <3> QED  BY <2>0, <3>1
  <2>5. CASE AuditBlock(r)
    <3>1. ledger' = ledger /\ pc[r] \in Cleared /\ \A d \in Requests \ {r} : pc'[d] = pc[d]
      BY <2>5 DEF AuditBlock, AuditBlocked, Fallback, Drafted
    <3> QED  BY <2>0, <3>1
  <2>6. CASE AuditRaises(r)
    BY <2>0, <2>6 DEF AuditRaises
  <2>7. CASE SendChat(r) \/ ChatRaises(r) \/ ChatUnconfirmed(r)
    BY <2>0, <2>7 DEF SendChat, ChatRaises, ChatUnconfirmed
  <2>8. CASE SendVoice(r) \/ SpeechUnavailable(r) \/ SpeechRaises(r)
    BY <2>0, <2>8 DEF SendVoice, SpeechUnavailable, SpeechRaises
  <2>9. CASE RecordSend(r) \/ RecordRaises(r) \/ RecordDecision(r)
    BY <2>0, <2>9 DEF RecordSend, RecordRaises, RecordDecision
  <2> QED  BY <1>2, <2>1, <2>2, <2>3, <2>4, <2>5, <2>6, <2>7, <2>8, <2>9 DEF Evaluate
<1>3. ASSUME NEW r \in Requests, Route(r)
      PROVE  (pc[s] \in Cleared \/ s \in ledger) /\ event'[s] = event[s]
  BY <1>3 DEF Route, RouteNothing, RouteOff, RouteFails, RouteHeld, RouteAs
<1>4. CASE Crash
  BY <1>4 DEF Crash
<1>5. CASE ClockTick \/ UNCHANGED vars
  BY <1>5 DEF ClockTick, vars
<1> QED  BY <1>1, <1>2, <1>3, <1>4, <1>5 DEF Next, Finished

LEMMA OnlyFlyingStep ==
  ASSUME NEW r \in Requests, Evaluate(r) \/ Route(r)
  PROVE  /\ r \in InFlight /\ ledger' \subseteq ledger \cup {r}
         /\ \E label \in PCs \ {"new"} : Go(r, label)
<1>1. CASE Evaluate(r)
  <2>1. pc[r] \notin Ended \cup {"new"}
    BY <1>1
       DEF Evaluate, ConsentAnswered, ConsentUnavailable, ConsentRaises, ScreenInput,
           DrafterAnswers, DrafterUnavailable, DrafterRaises, ScreenOutputAllows,
           ScreenOutputRefuses, AuditBlock, AuditBlocked, AuditRaises, SendChat, ChatRaises,
           ChatUnconfirmed, SendVoice, SpeechUnavailable, SpeechRaises, RecordSend,
           RecordRaises, RecordDecision, Ended
  <2>2. ledger' \subseteq ledger \cup {r}
    BY <1>1
       DEF Evaluate, ConsentAnswered, ConsentUnavailable, ConsentRaises, ScreenInput,
           DrafterAnswers, DrafterUnavailable, DrafterRaises, ScreenOutputAllows,
           ScreenOutputRefuses, AuditBlock, AuditBlocked, AuditRaises, SendChat, ChatRaises,
           ChatUnconfirmed, SendVoice, SpeechUnavailable, SpeechRaises, RecordSend,
           RecordRaises, RecordDecision, world
  <2> QED  BY <1>1, <2>1, <2>2, EvaluateAdvances DEF EvaluateMoves, InFlight
<1>2. CASE Route(r)
  BY <1>2 DEF Route, RouteNothing, RouteOff, RouteFails, RouteHeld, RouteAs, InFlight, Ended, PCs
<1> QED  BY <1>1, <1>2

(* No more requests are in flight than threads.                            *)
LEMMA FlightIsBounded ==
  ASSUME Typed, Roomy, [Next]_vars
  PROVE  Cardinality(InFlight') <= MaxConcurrent /\ \A r \in ledger' : pc'[r] # "new"
<1>0. /\ InFlight \in SUBSET Requests /\ Cardinality(InFlight) \in Nat
      /\ Cardinality(InFlight) <= MaxConcurrent /\ MaxConcurrent \in Nat
      /\ IsFiniteSet(InFlight)
  BY FiniteRequests, ServiceAssumption DEF InFlight, Roomy
<1>1. ASSUME InFlight' \subseteq InFlight  PROVE Cardinality(InFlight') <= MaxConcurrent
  <2>1. Cardinality(InFlight') <= Cardinality(InFlight) /\ Cardinality(InFlight') \in Nat
    BY <1>0, <1>1, FS_Subset, FS_CardinalityType
  <2> QED  BY <1>0, <2>1
<1>2. ASSUME NEW r \in Requests, Begin(r)
      PROVE  Cardinality(InFlight') <= MaxConcurrent /\ \A s \in ledger' : pc'[s] # "new"
  <2>1. /\ Cardinality(InFlight) < MaxConcurrent /\ ledger' = ledger
        /\ \E label \in {"consent", "audit"} : Go(r, label)
    BY <1>2 DEF Begin, world
  <2>2. InFlight' \subseteq InFlight \cup {r} /\ \A s \in ledger' : pc'[s] # "new"
    BY <2>1 DEF Typed, TypeOK, Go, InFlight, Roomy
  <2>3. /\ Cardinality(InFlight \cup {r}) <= Cardinality(InFlight) + 1
        /\ InFlight \cup {r} \in SUBSET Requests /\ Cardinality(InFlight \cup {r}) \in Nat
    BY <1>0, FS_AddElement, FiniteRequests
  <2>4. Cardinality(InFlight') <= Cardinality(InFlight \cup {r})
    BY <2>2, <2>3, SmallerSet
  <2>5. Cardinality(InFlight') \in Nat
    BY <2>2, <2>3, FiniteRequests
  <2> QED  BY <1>0, <2>1, <2>2, <2>3, <2>4, <2>5
<1>3. ASSUME NEW r \in Requests, Evaluate(r) \/ Route(r)
      PROVE  InFlight' \subseteq InFlight /\ \A s \in ledger' : pc'[s] # "new"
  <2>1. PICK label \in PCs \ {"new"} : Go(r, label)
    BY <1>3, OnlyFlyingStep
  <2>2. r \in InFlight /\ ledger' \subseteq ledger \cup {r}
    BY <1>3, OnlyFlyingStep
  <2>3. pc'[r] # "new" /\ \A s \in Requests \ {r} : pc'[s] = pc[s]
    BY <2>1 DEF Go, Typed, TypeOK
  <2>4. InFlight' \subseteq InFlight
    BY <2>2, <2>3 DEF InFlight
  <2>5. ASSUME NEW s \in ledger'  PROVE pc'[s] # "new"
    <3>1. s = r \/ (s \in ledger /\ s \in Requests \ {r})
      BY <2>2 DEF Typed, TypeOK
    <3> QED  BY <2>3, <3>1 DEF Roomy
  <2> QED  BY <2>4, <2>5
<1>4. CASE Crash
  BY <1>1, <1>4 DEF Crash, InFlight, Ended, Roomy, Typed, TypeOK, world
<1>5. CASE ClockTick \/ UNCHANGED vars
  BY <1>1, <1>5 DEF ClockTick, vars, InFlight, Roomy, world
<1> QED  BY <1>1, <1>2, <1>3, <1>4, <1>5 DEF Next, Finished

(* The step that adds a claimant: its answer counted fewer sends than the  *)
(* limit, and only requests in flight claim without being counted.         *)
LEMMA AnswerLeavesRoom ==
  ASSUME Typed, Roomy, [Next]_vars, NEW r \in Requests, ConsentAnswered(r), pc'[r] \in Cleared
  PROVE  LET q == Question(event[r])
         IN  /\ PolicyLimit(q) \in Nat
             /\ Cardinality(Claims(q)') <= PolicyLimit(q) + (MaxConcurrent - 1)
             /\ \A p : p # q => Claims(p)' = Claims(p)
<1> DEFINE q == Question(event[r])
<1>1. PICK shape \in AnswerShapes :
        LET c == Answer(shape, event[r], asOf[r])
        IN  /\ consent' = [consent EXCEPT ![r] = c]
            /\ Go(r, IF Eligible(event[r], asOf[r], c) THEN "screen_in" ELSE "audit")
  BY DEF ConsentAnswered
<1> DEFINE c == Answer(shape, event[r], asOf[r])
<1>2. /\ c \in Decisions /\ pc[r] = "consent" /\ event[r] \in Events
      /\ UNCHANGED <<event, ledger>>
  BY AnswerIsDecision DEF Typed, CarriesEvent, ConsentAnswered, world
<1>3. Eligible(event[r], asOf[r], c)
  BY <1>1 DEF Go, Typed, TypeOK, Cleared
<1>4. PolicyLimit(q) \in Nat /\ c.sends < PolicyLimit(q)
  BY <1>2, <1>3, EligibleHasLimit
<1>5. c.sends = Cardinality(SendsOn(q))
  BY DEF Answer
<1> HIDE DEF c
<1>6. \A s \in Requests \ {r} : pc'[s] = pc[s]
  BY <1>1 DEF Go, Typed, TypeOK
<1>7. Claims(q)' \subseteq SendsOn(q) \cup InFlight
  BY <1>2, <1>6 DEF Claims, SendsOn, InFlight, Cleared, Ended
<1>8. \A p : p # q => Claims(p)' = Claims(p)
  BY <1>2, <1>6 DEF Claims
<1>9. SendsOn(q) \in SUBSET Requests /\ InFlight \in SUBSET Requests
  BY DEF SendsOn, InFlight, Typed, TypeOK
<1> HIDE DEF q
<1>10. /\ Cardinality(Claims(q)') <= Cardinality(SendsOn(q) \cup InFlight)
       /\ Cardinality(SendsOn(q) \cup InFlight) <= Cardinality(SendsOn(q)) + Cardinality(InFlight)
       /\ Cardinality(SendsOn(q) \cup InFlight) \in Nat
       /\ Cardinality(SendsOn(q)) \in Nat /\ Cardinality(InFlight) \in Nat
       /\ Cardinality(Claims(q)') \in Nat
  <2>1. Claims(q)' \in SUBSET (SendsOn(q) \cup InFlight)
    BY <1>7
  <2>2. SendsOn(q) \cup InFlight \in SUBSET Requests
    BY <1>9
  <2>3. Claims(q)' \in SUBSET Requests
    BY <2>1, <2>2
  <2> QED  BY <1>9, <2>1, <2>2, <2>3, SmallerSet, UnionIsNoLarger, FiniteRequests
<1>11. Cardinality(InFlight) <= MaxConcurrent /\ MaxConcurrent \in Nat
  BY ServiceAssumption DEF Roomy
<1>12. Cardinality(Claims(q)') <= PolicyLimit(q) + (MaxConcurrent - 1)
  BY <1>4, <1>5, <1>10, <1>11
<1> QED  BY <1>4, <1>8, <1>12 DEF q

LEMMA RoomyNext == Typed /\ Roomy /\ [Next]_vars => Roomy'
<1> SUFFICES ASSUME Typed, Roomy, [Next]_vars  PROVE Roomy'
  OBVIOUS
<1>1. ASSUME NEW q \in Questions, Claims(q)' # {}
      PROVE  /\ PolicyLimit(q) \in Nat
             /\ Cardinality(Claims(q)') <= PolicyLimit(q) + (MaxConcurrent - 1)
  <2>1. CASE Claims(q)' \subseteq Claims(q)
    <3>1. /\ Cardinality(Claims(q)) <= PolicyLimit(q) + (MaxConcurrent - 1)
          /\ PolicyLimit(q) \in Nat
      BY <1>1, <2>1 DEF Roomy
    <3>2. Claims(q) \in SUBSET Requests /\ Claims(q)' \in SUBSET Requests
      BY DEF Claims
    <3>3. Cardinality(Claims(q)') <= Cardinality(Claims(q))
      BY <2>1, <3>2, SmallerSet
    <3>4. /\ Cardinality(Claims(q)) \in Nat /\ Cardinality(Claims(q)') \in Nat
          /\ MaxConcurrent \in Nat
      BY <3>2, FiniteRequests, ServiceAssumption
    <3> QED  BY <3>1, <3>3, <3>4
  <2>2. CASE ~(Claims(q)' \subseteq Claims(q))
    <3>1. PICK r \in Requests :
            /\ (pc[r] \in Cleared \/ r \in ledger)' /\ Question(event[r])' = q
            /\ ~(/\ pc[r] \in Cleared \/ r \in ledger
                 /\ Question(event[r]) = q)
      BY <2>2 DEF Claims
    <3>2. ConsentAnswered(r)
      BY <3>1, ClaimsShrink
    <3>3. event' = event /\ ledger' = ledger /\ pc[r] = "consent"
      BY <3>2 DEF ConsentAnswered, world
    <3>4. Question(event[r]) = q
      BY <3>1, <3>3
    <3>5. pc'[r] \in Cleared
      BY <3>1, <3>3, <3>4
    <3> QED  BY <3>2, <3>3, <3>4, <3>5, AnswerLeavesRoom DEF Claims
  <2> QED  BY <2>1, <2>2
<1> QED  BY <1>1, FlightIsBounded DEF Roomy, PolicyLimit

LEMMA RoomInvariant == Spec => [](Typed /\ Guarded /\ Trailed /\ Reported /\ Roomy)
  BY TypedInit, TypedNext, RoomyInit, RoomyNext, TrailInvariant, PTL DEF Spec

(* The cap is overshot by at most the other requests in flight and the     *)
(* sends the store was never told of.                                      *)
THEOREM OvershootIsBounded == Spec => []CapOvershootBounded
<1>1. ASSUME Typed, Guarded, Reported, Roomy, NEW q \in Questions, SentOn(q) # {}
      PROVE  Cardinality(SentOn(q)) <=
               PolicyLimit(q) + (MaxConcurrent - 1) + Cardinality(Unrecorded(q))
  <2>1. SentOn(q) \in SUBSET Requests /\ Unrecorded(q) \in SUBSET Requests
        /\ Claims(q) \in SUBSET Requests
    BY <1>1 DEF SentOn, Unrecorded, Claims, Typed, TypeOK
  <2>2. SentOn(q) \subseteq Claims(q) \cup Unrecorded(q)
    <3> SUFFICES ASSUME NEW r \in SentOn(q), r \notin Unrecorded(q)  PROVE r \in Claims(q)
      OBVIOUS
    <3>1. r \in Requests /\ r \in sent /\ pc[r] \in AfterSend /\ Question(event[r]) = q
      BY <1>1, <2>1 DEF SentOn, Guarded, IsCleared
    <3>2. pc[r] \in {"audit", "route", "done"} => r \in ledger
      BY <1>1, <3>1 DEF Reported, HasResult
    <3>3. pc[r] \in {"raised", "lost"} => r \in ledger
      BY <3>1 DEF Unrecorded, Ended
    <3> QED  BY <3>1, <3>2, <3>3 DEF Claims, AfterSend, Cleared
  <2>3. PolicyLimit(q) \in Nat
    <3>1. PICK r \in sent : Question(event[r]) = q
      BY <1>1 DEF SentOn
    <3>2. /\ r \in Requests /\ event[r] \in Events /\ RequestEligible(r)
          /\ consent[r] \in Decisions \cup {NoDecision}
      BY <1>1, <3>1 DEF Typed, TypeOK, CarriesEvent, Guarded, IsCleared, AfterSend
    <3> QED  BY <1>1, <3>1, <3>2, EligibleHasLimit DEF RequestEligible
  <2>4. Cardinality(SentOn(q)) <= Cardinality(Claims(q)) + Cardinality(Unrecorded(q))
    <3>1. Claims(q) \cup Unrecorded(q) \in SUBSET Requests
      BY <2>1
    <3>2. Cardinality(SentOn(q)) <= Cardinality(Claims(q) \cup Unrecorded(q))
      BY <2>2, <3>1, SmallerSet
    <3>3. Cardinality(Claims(q) \cup Unrecorded(q))
            <= Cardinality(Claims(q)) + Cardinality(Unrecorded(q))
      BY <2>1, UnionIsNoLarger
    <3>4. /\ Cardinality(SentOn(q)) \in Nat /\ Cardinality(Claims(q)) \in Nat
          /\ Cardinality(Unrecorded(q)) \in Nat
          /\ Cardinality(Claims(q) \cup Unrecorded(q)) \in Nat
      BY <2>1, <3>1, FiniteRequests
    <3> QED  BY <3>2, <3>3, <3>4
  <2>5. Cardinality(Claims(q)) <= PolicyLimit(q) + (MaxConcurrent - 1)
    <3>1. CASE Claims(q) = {}
      BY <2>3, <3>1, FS_EmptySet, ServiceAssumption
    <3>2. CASE Claims(q) # {}
      BY <1>1, <3>2 DEF Roomy
    <3> QED  BY <3>1, <3>2
  <2>6. /\ Cardinality(SentOn(q)) \in Nat /\ Cardinality(Claims(q)) \in Nat
        /\ Cardinality(Unrecorded(q)) \in Nat /\ MaxConcurrent \in Nat
    BY <2>1, FiniteRequests, ServiceAssumption
  <2> QED  BY <2>3, <2>4, <2>5, <2>6
<1>2. Typed /\ Guarded /\ Reported /\ Roomy => CapOvershootBounded
  BY <1>1 DEF CapOvershootBounded
<1> QED  BY <1>2, RoomInvariant, PTL

(* Every answer counts the deliveries that were reported before it.        *)
THEOREM DeliveriesAreCounted == Spec => NextDecisionCountsDelivered
<1> DEFINE Reports(q) == {s \in SentOn(q) : pc[s] = "done"}
<1>1. ASSUME Typed, Reported, [Next]_vars, NEW r \in Requests, consent'[r] # consent[r]
      PROVE  Cardinality(Reports(Question(event[r]))) <= consent'[r].sends
  <2>1. ConsentAnswered(r)
    <3> USE DEF locals
    <3>1. ASSUME NEW s \in Requests, Begin(s)  PROVE FALSE
      BY <1>1, <3>1 DEF Begin
    <3>2. ASSUME NEW s \in Requests, Evaluate(s), ~ConsentAnswered(s)  PROVE FALSE
      BY <1>1, <3>2
         DEF Evaluate, ConsentUnavailable, ConsentRaises, ScreenInput, DrafterAnswers,
             DrafterUnavailable, DrafterRaises, ScreenOutputAllows, ScreenOutputRefuses,
             AuditBlock, AuditBlocked, AuditRaises, SendChat, ChatRaises, ChatUnconfirmed,
             SendVoice, SpeechUnavailable, SpeechRaises, RecordSend, RecordRaises,
             RecordDecision
    <3>3. ASSUME NEW s \in Requests, ConsentAnswered(s)  PROVE s = r
      BY <1>1, <3>3 DEF ConsentAnswered, Typed, TypeOK
    <3>4. ASSUME NEW s \in Requests, Route(s)  PROVE FALSE
      BY <1>1, <3>4 DEF Route, RouteNothing, RouteOff, RouteFails, RouteHeld, RouteAs
    <3>5. ~Crash /\ ~ClockTick /\ ~UNCHANGED vars
      BY <1>1 DEF Crash, ClockTick, vars
    <3> QED  BY <1>1, <3>1, <3>2, <3>3, <3>4, <3>5 DEF Next, Finished
  <2>2. consent'[r].sends = Cardinality(SendsOn(Question(event[r])))
    BY <1>1, <2>1 DEF ConsentAnswered, Answer, Typed, TypeOK
  <2>3. /\ Reports(Question(event[r])) \subseteq SendsOn(Question(event[r]))
        /\ SendsOn(Question(event[r])) \in SUBSET Requests
    BY <1>1 DEF SentOn, SendsOn, Reported, HasResult, Typed, TypeOK
  <2> HIDE DEF Reports
  <2> QED  BY <2>2, <2>3, SmallerSet
<1>2. Typed /\ Reported /\ [Next]_vars =>
        [\A r \in Requests :
           consent'[r] # consent[r] =>
             Cardinality({s \in SentOn(Question(event[r])) : pc[s] = "done"})
               <= consent'[r].sends]_vars
  BY <1>1
<1> QED  BY <1>2, TrailInvariant, PTL DEF Spec, NextDecisionCountsDelivered

-----------------------------------------------------------------------------
(* Where a request is under way, and what its result will be called.       *)
Open == (BeforeTrail \ {"new"}) \cup {"audit"}

Conclusion(r) ==
  IF delivered[r] THEN "delivered"
  ELSE IF RequiresReview(r) THEN "held"
  ELSE IF RequestEligible(r) THEN "undelivered" ELSE "refused"

(* The status of a request in the contract, by where it is.                *)
HasStatus(r) ==
  /\ pc[r] = "new" => StatusOf(r) = "new"
  /\ pc[r] \in Open => StatusOf(r) = "open" /\ ~Decided(r)
  /\ pc[r] \in {"route", "done"} => StatusOf(r) = Conclusion(r) /\ Decided(r)
  /\ pc[r] \in {"raised", "lost"} =>
       StatusOf(r) = IF Decided(r) THEN Conclusion(r) ELSE "aborted"

Keeps(r) ==
  /\ pc'[r] = pc[r] /\ event'[r] = event[r] /\ asOf'[r] = asOf[r]
  /\ consent'[r] = consent[r] /\ discarded'[r] = discarded[r]
  /\ delivered'[r] = delivered[r] /\ audit'[r] = audit[r]

LEMMA StatusByPlace == Typed /\ Trailed => \A r \in Requests : HasStatus(r)
<1> SUFFICES ASSUME Typed, Trailed, NEW r \in Requests  PROVE HasStatus(r)
  OBVIOUS
<1>1. NoTrail(r) \/ BlockOnly(r) => ~Decided(r)
  BY DEF NoTrail, BlockOnly, Blocks, Decided
<1>2. ASSUME VerdictOnly(r) \/ BlockThenVerdict(r)  PROVE Decided(r)
  <2>1. CASE VerdictOnly(r)
    BY <2>1 DEF VerdictOnly, VerdictOf, Decided
  <2>2. CASE BlockThenVerdict(r)
    <3>1. PICK b \in Blocks : audit[r] = <<b, "escalated">>
      BY <2>2 DEF BlockThenVerdict
    <3> QED  BY <3>1 DEF Decided
  <2> QED  BY <1>2, <2>1, <2>2
<1>3. /\ pc[r] \in Open => ~Decided(r)
      /\ pc[r] \in {"route", "done"} => Decided(r)
  BY <1>1, <1>2 DEF Trailed, HasTrail, Open, BeforeTrail
<1>4. CASE pc[r] = "new"
  BY <1>4 DEF HasStatus, StatusOf, Open
<1>5. CASE pc[r] \in Open
  BY <1>3, <1>5 DEF HasStatus, StatusOf, Open, BeforeTrail
<1>6. CASE pc[r] \in {"route", "done"}
  BY <1>3, <1>6 DEF HasStatus, StatusOf, Conclusion, Open, BeforeTrail
<1>7. CASE pc[r] \in {"raised", "lost"}
  BY <1>7 DEF HasStatus, StatusOf, Conclusion, Open, BeforeTrail
<1> QED  BY <1>4, <1>5, <1>6, <1>7 DEF Typed, TypeOK, PCs, Open, BeforeTrail

LEMMA KeptStatus ==
  ASSUME NEW r \in Requests, Keeps(r)
  PROVE  StatusOf(r)' = StatusOf(r)
  BY DEF Keeps, StatusOf, Decided, RequiresReview, IsConsequential, RequestEligible

(* The steps of an evaluation as the contract sees them.                   *)
QuietStep(r) == pc[r] \in Open /\ pc'[r] \in Open /\ sent' = sent
SendStep(r)  == pc[r] = "deliver" /\ pc'[r] = "record" /\ sent' = sent \cup {r}
FailStep(r)  ==
  /\ pc[r] \in Open /\ pc'[r] = "raised" /\ audit' = audit
  /\ sent' = sent \/ (pc[r] = "deliver" /\ sent' = sent \cup {r})

LEMMA EvaluateSteps ==
  ASSUME Typed, NEW r \in Requests, Evaluate(r)
  PROVE  /\ QuietStep(r) \/ SendStep(r) \/ FailStep(r) \/ RecordDecision(r)
         /\ queue' = queue /\ \A s \in Requests \ {r} : Keeps(s)
<1> USE DEF Typed, TypeOK, QuietStep, FailStep, Open, BeforeTrail, Keeps,
            Go, Raise, locals, world
<1>1. CASE ConsentAnswered(r) \/ ConsentUnavailable(r) \/ ConsentRaises(r)
  BY <1>1 DEF ConsentAnswered, ConsentUnavailable, ConsentRaises
<1>2. CASE ScreenInput(r) \/ ScreenOutputRefuses(r)
  BY <1>2 DEF ScreenInput, ScreenOutputRefuses
<1>3. CASE DrafterAnswers(r) \/ DrafterRaises(r) \/ DrafterUnavailable(r)
  BY <1>3 DEF DrafterAnswers, DrafterRaises, DrafterUnavailable, Fallback, Drafted
<1>4. CASE ScreenOutputAllows(r)
  <2>1. PICK text, isDiscarded : Drafted(r, text, isDiscarded)
    BY <1>4 DEF ScreenOutputAllows, Fallback
  <2> QED  BY <1>4, <2>1 DEF ScreenOutputAllows, Drafted
<1>5. CASE AuditBlock(r)
  <2>1. PICK label \in {"block_in", "block_out"}, kind \in Blocks : AuditBlocked(r, label, kind)
    BY <1>5 DEF AuditBlock, Blocks
  <2> QED  BY <2>1 DEF AuditBlocked, Fallback, Drafted, Record
<1>6. CASE AuditRaises(r)
  BY <1>6 DEF AuditRaises
<1>7. CASE SendChat(r) \/ SendVoice(r)
  BY <1>7 DEF SendChat, SendVoice, SendStep
<1>8. CASE ChatRaises(r) \/ ChatUnconfirmed(r) \/ SpeechUnavailable(r) \/ SpeechRaises(r)
  BY <1>8 DEF ChatRaises, ChatUnconfirmed, SpeechUnavailable, SpeechRaises
<1>9. CASE RecordSend(r) \/ RecordRaises(r)
  BY <1>9 DEF RecordSend, RecordRaises
<1>10. CASE RecordDecision(r)
  BY <1>10 DEF RecordDecision, Record
<1> QED  BY <1>1, <1>2, <1>3, <1>4, <1>5, <1>6, <1>7, <1>8, <1>9, <1>10 DEF Evaluate

(* The status of all the requests in the contract.                         *)
Statuses == [r \in Requests |-> StatusOf(r)]

LEMMA ContractInit == Init => Contract!Init
<1> SUFFICES ASSUME Init  PROVE Contract!Init
  OBVIOUS
<1>1. \A r \in Requests : StatusOf(r) = "new"
  BY DEF Init, StatusOf
<1>2. sent = {} /\ queue = {}
  BY DEF Init
<1> QED  BY <1>1, <1>2 DEF Contract!Init

(* Only the status of one request changed.                                 *)
LEMMA OneStatus ==
  ASSUME NEW r \in Requests, NEW v, StatusOf(r)' = v,
         \A s \in Requests \ {r} : Keeps(s)
  PROVE  Statuses' = [Statuses EXCEPT ![r] = v]
<1>1. \A s \in Requests \ {r} : StatusOf(s)' = StatusOf(s)
  BY KeptStatus
<1> HIDE DEF Statuses
<1>2. /\ Statuses' = [s \in Requests |-> StatusOf(s)']
      /\ Statuses = [s \in Requests |-> StatusOf(s)]
  BY DEF Statuses
<1> QED  BY <1>1, <1>2

(* A step of an evaluation is a step of the contract or none.              *)
LEMMA ContractEvaluate ==
  ASSUME Typed, Guarded, Trailed, Reported, \A s \in Requests : HasStatus(s) /\ HasStatus(s)',
         NEW r \in Requests, Evaluate(r)
  PROVE  [Contract!Next]_Contract!vars
<1>0. /\ HasStatus(r) /\ HasStatus(r)' /\ IsCleared(r) /\ HasResult(r)
      /\ queue' = queue /\ \A s \in Requests \ {r} : Keeps(s)
  BY EvaluateSteps DEF Guarded, Reported
<1>1. CASE QuietStep(r)
  <2>1. StatusOf(r)' = StatusOf(r)
    BY <1>0, <1>1 DEF QuietStep, HasStatus
  <2>2. \A s \in Requests : StatusOf(s)' = StatusOf(s)
    BY <1>0, <2>1, KeptStatus
  <2>3. UNCHANGED Contract!vars
    BY <1>0, <1>1, <2>2 DEF Contract!vars, QuietStep
  <2> QED  BY <2>3
<1>2. CASE SendStep(r)
  <2>1. StatusOf(r)' = StatusOf(r) /\ StatusOf(r) = "open" /\ r \notin sent
    BY <1>0, <1>2 DEF SendStep, HasStatus, Open, BeforeTrail, IsCleared, AfterSend
  <2>2. \A s \in Requests : StatusOf(s)' = StatusOf(s)
    BY <1>0, <2>1, KeptStatus
  <2>3. Contract!Contact(r)
    BY <1>0, <1>2, <2>1, <2>2 DEF Contract!Contact, SendStep
  <2> QED  BY <2>3 DEF Contract!Next
<1>3. CASE FailStep(r)
  <2>1. StatusOf(r) = "open" /\ StatusOf(r)' = "aborted"
    BY <1>0, <1>3 DEF FailStep, HasStatus, Decided
  <2>2. \A s \in Requests \ {r} : StatusOf(s)' = StatusOf(s)
    BY <1>0, KeptStatus
  <2>3. Statuses' = [s \in Requests |-> IF s \in {r} THEN "aborted" ELSE Statuses[s]]
    BY <2>1, <2>2 DEF Statuses
  <2>4. sent' = sent \/ (r \notin sent /\ sent' = sent \cup {r})
    BY <1>0, <1>3 DEF FailStep, IsCleared, AfterSend
  <2>5. Contract!Abort({r})
    BY <1>0, <2>1, <2>3, <2>4 DEF Contract!Abort, Statuses
  <2> QED  BY <2>5 DEF Contract!Next
<1>4. CASE RecordDecision(r)
  <2>1. /\ pc[r] = "audit" /\ pc'[r] = "route" /\ sent' = sent /\ Conclusion(r)' = Conclusion(r)
    BY <1>4 DEF RecordDecision, Go, locals, Typed, TypeOK, Conclusion, RequiresReview,
       IsConsequential, RequestEligible
  <2>2. StatusOf(r) = "open" /\ StatusOf(r)' = Conclusion(r)
    BY <1>0, <2>1 DEF HasStatus, Open
  <2>3. Conclusion(r) \in Contract!Verdicts /\ (Conclusion(r) = "delivered" <=> r \in sent)
    BY <1>0, <2>1 DEF Contract!Verdicts, Conclusion, HasResult
  <2>4. Statuses' = [Statuses EXCEPT ![r] = Conclusion(r)]
    BY <1>0, <2>2, OneStatus
  <2>5. Contract!Conclude(r)
    BY <1>0, <2>1, <2>2, <2>3, <2>4 DEF Contract!Conclude, Statuses
  <2> QED  BY <2>5 DEF Contract!Next
<1> QED  BY <1>1, <1>2, <1>3, <1>4, EvaluateSteps

LEMMA ContractNext ==
  ASSUME Typed, Guarded, Trailed, Reported, \A s \in Requests : HasStatus(s) /\ HasStatus(s)',
         [Next]_vars
  PROVE  [Contract!Next]_Contract!vars
<1> USE DEF Typed, TypeOK, Go, locals, world
<1>1. ASSUME NEW r \in Requests, Begin(r)
      PROVE  [Contract!Next]_Contract!vars
  <2>1. /\ pc[r] = "new" /\ pc'[r] \in {"consent", "audit"} /\ sent' = sent /\ queue' = queue
        /\ \A s \in Requests \ {r} : Keeps(s)
    BY <1>1 DEF Begin, Keeps
  <2>2. StatusOf(r) = "new" /\ StatusOf(r)' = "open"
    BY <2>1 DEF HasStatus, Open, BeforeTrail
  <2>3. Statuses' = [Statuses EXCEPT ![r] = "open"]
    BY <2>1, <2>2, OneStatus
  <2>4. Contract!Accept(r)
    BY <2>1, <2>2, <2>3 DEF Contract!Accept, Statuses
  <2> QED  BY <2>4 DEF Contract!Next
<1>2. ASSUME NEW r \in Requests, Evaluate(r)
      PROVE  [Contract!Next]_Contract!vars
  BY <1>2, ContractEvaluate
<1>3. ASSUME NEW r \in Requests, Route(r)
      PROVE  [Contract!Next]_Contract!vars
  <2>1. /\ pc[r] = "route" /\ pc'[r] = "done" /\ sent' = sent
        /\ queue' = queue \/ (RequiresReview(r) /\ queue' = queue \cup {r})
        /\ Conclusion(r)' = Conclusion(r)
        /\ \A s \in Requests \ {r} : Keeps(s)
    BY <1>3 DEF Route, RouteNothing, RouteOff, RouteFails, RouteHeld, RouteAs, Keeps,
       Conclusion, RequiresReview, IsConsequential, RequestEligible
  <2>2. StatusOf(r) = Conclusion(r) /\ StatusOf(r)' = Conclusion(r)
    BY <2>1 DEF HasStatus
  <2>3. \A s \in Requests : StatusOf(s)' = StatusOf(s)
    BY <2>1, <2>2, KeptStatus
  <2>4. RequiresReview(r) => Conclusion(r) = "held"
    BY DEF Conclusion, Reported, HasResult, Guarded, IsCleared, IsSendable
  <2>5. CASE queue' = queue
    <3>1. UNCHANGED Contract!vars
      BY <2>1, <2>3, <2>5 DEF Contract!vars
    <3> QED  BY <3>1
  <2>6. CASE RequiresReview(r) /\ queue' = queue \cup {r}
    <3>1. r \notin queue
      BY <2>1 DEF Guarded, IsCleared
    <3>2. Contract!HandOver(r)
      BY <2>1, <2>2, <2>3, <2>4, <2>6, <3>1 DEF Contract!HandOver
    <3> QED  BY <3>2 DEF Contract!Next
  <2> QED  BY <2>1, <2>5, <2>6
<1>4. CASE Crash
  <2> DEFINE S == {r \in InFlight : pc[r] \in Open}
  <2>1. /\ S \in SUBSET Requests /\ UNCHANGED <<sent, queue>>
        /\ \A r \in Requests \ InFlight : Keeps(r)
        /\ \A r \in InFlight : pc'[r] = "lost" /\ Decided(r)' = Decided(r)
                               /\ Conclusion(r)' = Conclusion(r)
    BY <1>4 DEF Crash, InFlight, Keeps, Decided, Conclusion, RequiresReview,
       IsConsequential, RequestEligible
  <2>2. \A r \in InFlight \ S : pc[r] = "route"
    BY DEF InFlight, Ended, Open, BeforeTrail, PCs
  <2>3. \A r \in S : r \in Requests /\ StatusOf(r) = "open" /\ StatusOf(r)' = "aborted"
    BY <2>1 DEF HasStatus, InFlight
  <2>4. \A r \in InFlight \ S : StatusOf(r)' = StatusOf(r)
    BY <2>1, <2>2 DEF HasStatus, InFlight
  <2>5. \A r \in Requests \ S : StatusOf(r)' = StatusOf(r)
    BY <2>1, <2>4, KeptStatus
  <2> HIDE DEF S
  <2>6. Statuses' = [s \in Requests |-> IF s \in S THEN "aborted" ELSE Statuses[s]]
    BY <2>1, <2>3, <2>5 DEF Statuses
  <2>7. CASE S = {}
    <3>1. UNCHANGED Contract!vars
      BY <2>1, <2>5, <2>7 DEF Contract!vars
    <3> QED  BY <3>1
  <2>8. CASE S # {}
    <3>1. Contract!Abort(S)
      BY <2>1, <2>3, <2>6, <2>8 DEF Contract!Abort, Statuses
    <3> QED  BY <2>1, <3>1 DEF Contract!Next
  <2> QED  BY <2>7, <2>8
<1>5. CASE ClockTick \/ UNCHANGED vars
  <2>1. UNCHANGED <<sent, queue>> /\ \A r \in Requests : Keeps(r)
    BY <1>5 DEF ClockTick, vars, Keeps
  <2>2. UNCHANGED Contract!vars
    BY <2>1, KeptStatus DEF Contract!vars
  <2> QED  BY <2>2
<1> QED  BY <1>1, <1>2, <1>3, <1>4, <1>5 DEF Next, Finished

(* Every step of the threads, their failures and a crash is a step of the  *)
(* contract or none: one contact at most, no contact after the verdict,    *)
(* and a verdict that agrees with it.                                      *)
THEOREM ServiceKeepsContract == Spec => Contract!Spec
<1>1. /\ Typed /\ Guarded /\ Trailed /\ Reported
      /\ (\A r \in Requests : HasStatus(r)) /\ (\A r \in Requests : HasStatus(r))'
      /\ [Next]_vars
      => [Contract!Next]_Contract!vars
  <2> SUFFICES ASSUME Typed, Guarded, Trailed, Reported, \A r \in Requests : HasStatus(r),
                      (\A r \in Requests : HasStatus(r))', [Next]_vars
               PROVE  [Contract!Next]_Contract!vars
    OBVIOUS
  <2>1. \A r \in Requests : HasStatus(r) /\ HasStatus(r)'
    OBVIOUS
  <2> QED  BY <2>1, ContractNext
<1> QED  BY <1>1, ContractInit, StatusByPlace, TrailInvariant, PTL DEF Spec, Contract!Spec

-----------------------------------------------------------------------------
(* How far the documents are right: each statement that the code does not  *)
(* keep, under the failures and the concurrency that leave it true.        *)

(* Every request that sent is on its way to the ledger, or in it. *)
NoneForgotten == \A r \in sent : pc[r] = "record" \/ r \in ledger

LEMMA NoneForgottenNext ==
  ASSUME Typed, Guarded, NoneForgotten, [Next]_vars,
         Faults \cap {"delivery_unconfirmed", "record_error", "crash"} = {}
  PROVE  NoneForgotten'
<1>. SUFFICES ASSUME NEW s \in sent' PROVE pc'[s] = "record" \/ s \in ledger'
  BY DEF NoneForgotten
<1>. USE DEF NoneForgotten, Typed, TypeOK, Go, Raise, locals, world
<1>1. ASSUME NEW r \in Requests, SendChat(r) \/ SendVoice(r) \/ RecordSend(r) \/ RecordRaises(r)
      PROVE  pc'[s] = "record" \/ s \in ledger'
  BY <1>1 DEF SendChat, SendVoice, RecordSend, RecordRaises
<1>2. ASSUME UNCHANGED <<sent, ledger>>, \A r \in Requests : pc[r] = "record" => pc'[r] = "record"
      PROVE  pc'[s] = "record" \/ s \in ledger'
  BY <1>2
<1>3. ASSUME NEW r \in Requests, Evaluate(r)
      PROVE  pc'[s] = "record" \/ s \in ledger'
  <2>1. \/ SendChat(r) \/ SendVoice(r) \/ RecordSend(r) \/ RecordRaises(r)
        \/ UNCHANGED <<sent, ledger>> /\ \A q \in Requests : pc[q] = "record" => pc'[q] = "record"
    BY <1>3 DEF Evaluate, ConsentAnswered, ConsentUnavailable, ConsentRaises, ScreenInput,
       DrafterAnswers, DrafterUnavailable, DrafterRaises, ScreenOutputAllows, Fallback, Drafted,
       ScreenOutputRefuses, AuditBlock, AuditBlocked, AuditRaises, ChatRaises, ChatUnconfirmed,
       SpeechUnavailable, SpeechRaises, RecordDecision
  <2>. QED  BY <1>1, <1>2, <2>1
<1>4. ASSUME NEW r \in Requests, Begin(r) \/ Route(r)
      PROVE  pc'[s] = "record" \/ s \in ledger'
  BY <1>2, <1>4 DEF Begin, Route, RouteNothing, RouteOff, RouteFails, RouteHeld, RouteAs
<1>5. CASE ClockTick \/ UNCHANGED vars
  BY <1>2, <1>5 DEF ClockTick, vars
<1>6. ~Crash
  BY DEF Crash
<1>. QED  BY <1>3, <1>4, <1>5, <1>6 DEF Next, Finished

(* Served by one thread, and while no failure parts a message from its     *)
(* record, every send is within the cap (COMPLIANCE.md line 36).           *)
THEOREM LoneThreadIsCapped ==
  ASSUME MaxConcurrent = 1,
         Faults \cap {"delivery_unconfirmed", "record_error", "crash"} = {}
  PROVE  Spec => []EverySendIsCapped
<1>1. Init => NoneForgotten
  BY DEF Init, NoneForgotten
<1>2. Typed /\ Guarded /\ NoneForgotten /\ [Next]_vars => NoneForgotten'
  BY NoneForgottenNext
<1>3. Typed /\ Guarded /\ NoneForgotten /\ CapOvershootBounded => EverySendIsCapped
  <2>. SUFFICES ASSUME Typed, Guarded, NoneForgotten, CapOvershootBounded,
                       NEW q \in Questions, SentOn(q) # {}
                PROVE  Cardinality(SentOn(q)) <= PolicyLimit(q)
    BY DEF EverySendIsCapped
  <2>1. Unrecorded(q) = {}
    BY DEF Unrecorded, SentOn, NoneForgotten, Ended
  <2>2. Cardinality(Unrecorded(q)) = 0
    BY <2>1, FS_EmptySet
  <2>3. Cardinality(SentOn(q)) <= PolicyLimit(q) + (1 - 1) + 0
    BY <2>2 DEF CapOvershootBounded
  <2>4. PolicyLimit(q) \in Int
    <3>1. PICK r \in sent : Question(event[r]) = q
      BY DEF SentOn
    <3>2. /\ r \in Requests /\ event[r] \in Events /\ RequestEligible(r)
          /\ consent[r] \in Decisions \cup {NoDecision}
      BY <3>1 DEF Typed, TypeOK, CarriesEvent, Guarded, IsCleared, AfterSend
    <3>. QED  BY <3>1, <3>2, EligibleHasLimit DEF RequestEligible
  <2>. QED  BY <2>3, <2>4
<1>. QED  BY <1>1, <1>2, <1>3, InductiveInvariant, OvershootIsBounded, PTL DEF Spec

(* A request whose message left has not been cut off before its decision.  *)
NoneCutOff == \A r \in sent : pc[r] \in {"record", "audit", "route", "done"}

LEMMA NoneCutOffNext ==
  ASSUME Typed, Guarded, NoneCutOff, [Next]_vars,
         Faults \cap {"delivery_unconfirmed", "record_error", "record_unconfirmed",
                      "audit_error", "crash"} = {}
  PROVE  NoneCutOff'
<1>. DEFINE Late == {"record", "audit", "route", "done"}
<1>1. ASSUME NEW r \in Requests, Evaluate(r)
      PROVE  /\ sent' \subseteq sent \cup {r} /\ (r \in sent' => pc'[r] \in Late)
             /\ \A q \in Requests \ {r} : pc'[q] = pc[q]
  <2>. USE <1>1 DEF Typed, TypeOK, Guarded, IsCleared, AfterSend, NoneCutOff, Go, Raise,
           locals, world
  <2>1. CASE SendChat(r) \/ SendVoice(r) \/ RecordSend(r) \/ RecordDecision(r)
    BY <2>1 DEF SendChat, SendVoice, RecordSend, RecordDecision
  <2>2. CASE SpeechUnavailable(r) \/ ConsentAnswered(r) \/ ConsentUnavailable(r) \/ ConsentRaises(r)
               \/ ScreenInput(r) \/ DrafterAnswers(r) \/ DrafterUnavailable(r)
    BY <2>2 DEF SpeechUnavailable, ConsentAnswered, ConsentUnavailable, ConsentRaises, ScreenInput,
       DrafterAnswers, DrafterUnavailable, Fallback, Drafted
  <2>3. CASE DrafterRaises(r) \/ ScreenOutputAllows(r) \/ ScreenOutputRefuses(r) \/ AuditBlock(r)
               \/ ChatRaises(r) \/ SpeechRaises(r)
    BY <2>3 DEF DrafterRaises, ScreenOutputAllows, Fallback, Drafted, ScreenOutputRefuses,
       AuditBlock, AuditBlocked, ChatRaises, SpeechRaises
  <2>4. ~AuditRaises(r) /\ ~ChatUnconfirmed(r) /\ ~RecordRaises(r)
    BY DEF AuditRaises, ChatUnconfirmed, RecordRaises
  <2>. QED  BY <2>1, <2>2, <2>3, <2>4 DEF Evaluate
<1>2. ASSUME NEW r \in Requests, Evaluate(r)
      PROVE  NoneCutOff'
  BY <1>1, <1>2 DEF NoneCutOff, Typed, TypeOK
<1>3. ASSUME NEW r \in Requests, Begin(r) \/ Route(r)
      PROVE  NoneCutOff'
  BY <1>3 DEF NoneCutOff, Typed, TypeOK, Go, locals, world, Begin, Route, RouteNothing, RouteOff,
     RouteFails, RouteHeld, RouteAs
<1>4. CASE ClockTick \/ UNCHANGED vars
  BY <1>4 DEF NoneCutOff, ClockTick, locals, world, vars
<1>5. ~Crash
  BY DEF Crash
<1>. QED  BY <1>2, <1>3, <1>4, <1>5 DEF Next, Finished

(* While no failure strikes between a message and the record of its        *)
(* decision, every send has its decision in the trail (ARCHITECTURE.md     *)
(* line 82).                                                               *)
THEOREM UninterruptedSendsAreAudited ==
  ASSUME Faults \cap {"delivery_unconfirmed", "record_error", "record_unconfirmed",
                      "audit_error", "crash"} = {}
  PROVE  Spec => []EverySendIsAudited
<1>1. Init => NoneCutOff
  BY DEF Init, NoneCutOff
<1>2. Typed /\ Guarded /\ NoneCutOff /\ [Next]_vars => NoneCutOff'
  BY NoneCutOffNext
<1>3. Typed /\ NoneCutOff /\ ResultIsTruthful => EverySendIsAudited
  BY DEF Typed, TypeOK, NoneCutOff, ResultIsTruthful, EverySendIsAudited, Ended
<1>. QED  BY <1>1, <1>2, <1>3, InductiveInvariant, ResultsAreTruthful, PTL DEF Spec

(* What leaves in a chat names its decision; only speech may not. *)
ChatNamesItsDecision ==
  \A r \in sent : Channel(r) # "voice" => consent[r].hasId

LEMMA ChatNamedNext ==
  ASSUME Typed, Guarded, ChatNamesItsDecision, [Next]_vars
  PROVE  ChatNamesItsDecision'
<1>. USE DEF Typed, TypeOK, Go, Raise, locals, world, Channel
<1>1. ASSUME NEW r \in Requests, SendChat(r) \/ SendVoice(r) \/ ChatUnconfirmed(r)
      PROVE  ChatNamesItsDecision'
  BY <1>1 DEF ChatNamesItsDecision, SendChat, SendVoice, ChatUnconfirmed
<1>2. ASSUME UNCHANGED sent, \A q \in sent : consent'[q] = consent[q] /\ event'[q] = event[q]
      PROVE  ChatNamesItsDecision'
  BY <1>2 DEF ChatNamesItsDecision
<1>3. \A q \in sent : pc[q] \in AfterSend
  BY DEF Guarded, IsCleared
<1>4. ASSUME NEW r \in Requests, Evaluate(r) \/ Begin(r)
      PROVE  ChatNamesItsDecision'
  <2>1. CASE Begin(r) \/ ConsentAnswered(r)
    <3>1. /\ UNCHANGED sent /\ pc[r] \in {"new", "consent"}
          /\ \A q \in Requests \ {r} : consent'[q] = consent[q] /\ event'[q] = event[q]
      BY <2>1 DEF Begin, ConsentAnswered
    <3>. QED  BY <1>2, <1>3, <3>1 DEF AfterSend
  <2>2. CASE Evaluate(r) /\ ~ConsentAnswered(r)
    <3>1. \/ SendChat(r) \/ SendVoice(r) \/ ChatUnconfirmed(r)
          \/ UNCHANGED <<sent, consent, event>>
      BY <2>2 DEF Evaluate, ConsentUnavailable, ConsentRaises, ScreenInput, DrafterAnswers,
         DrafterUnavailable, DrafterRaises, ScreenOutputAllows, Fallback, Drafted,
         ScreenOutputRefuses, AuditBlock, AuditBlocked, AuditRaises, ChatRaises,
         SpeechUnavailable, SpeechRaises, RecordSend, RecordRaises, RecordDecision
    <3>. QED  BY <1>1, <1>2, <3>1
  <2>. QED  BY <1>4, <2>1, <2>2
<1>5. ASSUME NEW r \in Requests, Route(r)
      PROVE  ChatNamesItsDecision'
  BY <1>2, <1>5 DEF Route, RouteNothing, RouteOff, RouteFails, RouteHeld, RouteAs
<1>6. CASE Crash \/ ClockTick \/ UNCHANGED vars
  BY <1>2, <1>6 DEF Crash, ClockTick, vars
<1>. QED  BY <1>4, <1>5, <1>6 DEF Next, Finished

(* Every chat names the decision that authorised it, and so does every     *)
(* send of a policy without voice rules (SPEC.md lines 72-75).             *)
THEOREM ChatsNameTheirDecision ==
  /\ Spec => []ChatNamesItsDecision
  /\ (\A type \in DOMAIN TriggerRules : TriggerRules[type].channel # "voice")
       => (Spec => []EverySendNamesItsDecision)
<1>1. Init => ChatNamesItsDecision
  BY DEF Init, ChatNamesItsDecision
<1>2. Typed /\ Guarded /\ ChatNamesItsDecision /\ [Next]_vars => ChatNamesItsDecision'
  BY ChatNamedNext
<1>3. Spec => []ChatNamesItsDecision
  BY <1>1, <1>2, InductiveInvariant, PTL DEF Spec
<1>4. ASSUME \A type \in DOMAIN TriggerRules : TriggerRules[type].channel # "voice"
      PROVE  Spec => []EverySendNamesItsDecision
  <2>1. Typed /\ Guarded /\ ChatNamesItsDecision => EverySendNamesItsDecision
    <3>. SUFFICES ASSUME Typed, Guarded, ChatNamesItsDecision, NEW r \in sent
                  PROVE  consent[r].hasId
      BY DEF EverySendNamesItsDecision
    <3>1. RequestEligible(r) /\ r \in Requests
      BY DEF Typed, TypeOK, Guarded, IsCleared
    <3>2. HasRule(event[r])
      BY <3>1 DEF RequestEligible, Eligible, DenyingReasons, Fired, TriggerReason
    <3>3. Channel(r) # "voice"
      BY <1>4, <3>2 DEF Channel, Rule, HasRule
    <3>. QED  BY <3>3 DEF ChatNamesItsDecision
  <2>. QED  BY <1>3, <2>1, InductiveInvariant, PTL
<1>. QED  BY <1>3, <1>4

(* Whoever asked the model and was cut off had a message by then. *)
CutOffWithMessage ==
  \A r \in Requests : pc[r] = "raised" /\ r \in consulted => body[r] # NoBody

LEMMA CutOffNext ==
  ASSUME Typed, Guarded, Reported, CutOffWithMessage, [Next]_vars,
         Faults \cap {"drafter_error", "audit_error"} = {}
  PROVE  CutOffWithMessage'
<1>. SUFFICES ASSUME NEW s \in Requests, pc'[s] = "raised", s \in consulted'
              PROVE  body'[s] # NoBody
  BY DEF CutOffWithMessage
<1>. USE DEF Typed, TypeOK, Go, Raise, locals, world
<1>1. pc[s] = "raised" /\ s \in consulted => body[s] # NoBody
  BY DEF CutOffWithMessage
<1>2. pc[s] \in {"deliver", "record"} => body[s] # NoBody
  BY ServiceAssumption DEF Guarded, IsCleared, IsSendable
<1>3. pc[s] = "consent" => s \notin consulted
  BY DEF Reported, HasResult, BeforeModel
<1>4. ASSUME NEW r \in Requests, Evaluate(r)
      PROVE  body'[s] # NoBody
  <2>. USE <1>4
  <2>1. CASE ConsentRaises(r) \/ ChatRaises(r) \/ ChatUnconfirmed(r) \/ SpeechRaises(r)
               \/ RecordRaises(r)
    BY <1>1, <1>2, <1>3, <2>1
       DEF ConsentRaises, ChatRaises, ChatUnconfirmed, SpeechRaises, RecordRaises
  <2>2. CASE ConsentAnswered(r) \/ ConsentUnavailable(r) \/ ScreenInput(r) \/ DrafterAnswers(r)
               \/ DrafterUnavailable(r) \/ ScreenOutputAllows(r) \/ ScreenOutputRefuses(r)
               \/ AuditBlock(r)
    BY <1>1, <2>2 DEF ConsentAnswered, ConsentUnavailable, ScreenInput, DrafterAnswers,
       DrafterUnavailable, ScreenOutputAllows, Fallback, Drafted, ScreenOutputRefuses,
       AuditBlock, AuditBlocked
  <2>3. CASE SendChat(r) \/ SendVoice(r) \/ SpeechUnavailable(r) \/ RecordSend(r)
               \/ RecordDecision(r)
    BY <1>1, <2>3 DEF SendChat, SendVoice, SpeechUnavailable, RecordSend, RecordDecision
  <2>4. ~DrafterRaises(r) /\ ~AuditRaises(r)
    BY DEF DrafterRaises, AuditRaises
  <2>. QED  BY <2>1, <2>2, <2>3, <2>4 DEF Evaluate
<1>5. ASSUME NEW r \in Requests, Begin(r) \/ Route(r)
      PROVE  body'[s] # NoBody
  BY <1>1, <1>5 DEF Begin, Route, RouteNothing, RouteOff, RouteFails, RouteHeld, RouteAs
<1>6. CASE Crash \/ ClockTick \/ UNCHANGED vars
  BY <1>1, <1>6 DEF Crash, ClockTick, vars
<1>. QED  BY <1>4, <1>5, <1>6 DEF Next, Finished

(* A drafter whose every failure is DraftingUnavailableError loses no      *)
(* request, as long as the trail can be written (COMPLIANCE.md line 33).   *)
THEOREM TranslatedFailuresAreHeld ==
  ASSUME Faults \cap {"drafter_error", "audit_error"} = {}
  PROVE  Spec => []DrafterFailureIsHeld
<1>1. Init => CutOffWithMessage
  BY DEF Init, CutOffWithMessage
<1>2. Typed /\ Guarded /\ Reported /\ CutOffWithMessage /\ [Next]_vars => CutOffWithMessage'
  BY CutOffNext
<1>3. CutOffWithMessage => DrafterFailureIsHeld
  BY DEF CutOffWithMessage, DrafterFailureIsHeld
<1>. QED  BY <1>1, <1>2, <1>3, TrailInvariant, PTL DEF Spec

=============================================================================
