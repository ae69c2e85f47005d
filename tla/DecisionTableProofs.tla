------------------------- MODULE DecisionTableProofs -------------------------
(***************************************************************************)
(* What DecisionTable promises, for every policy, event, answer and        *)
(* instant.                                                                *)
(***************************************************************************)
EXTENDS DecisionTable, EligibilityProofs

LEMMA ValidInputs == Spec => []InputsAreValid
<1>1. Init => InputsAreValid
  BY TableAssumption, NoLimitAssumption
     DEF Init, InputsAreValid, CleanAnswer, Questions, Answers
<1>2. InputsAreValid /\ [Next]_vars => InputsAreValid'
  <2> SUFFICES ASSUME InputsAreValid, [Next]_vars
               PROVE  InputsAreValid'
    OBVIOUS
  <2> USE DEF InputsAreValid
  <2>1. CASE Withdraw
    BY <2>1 DEF Withdraw
  <2>2. CASE CountSend
    BY <2>2 DEF CountSend, Answered, Answers
  <2>3. CASE StateLimit
    BY <2>3, TableAssumption DEF StateLimit, Answered, Answers
  <2>4. CASE LowerLimit
    BY <2>4 DEF LowerLimit, Answered, Answers
  <2>5. CASE Refuse
    BY <2>5 DEF Refuse, Answered, Answers
  <2>6. CASE MoveOn
    BY <2>6, TableAssumption DEF MoveOn
  <2>7. CASE UNCHANGED vars
    BY <2>7 DEF vars
  <2> QED  BY <2>1, <2>2, <2>3, <2>4, <2>5, <2>6, <2>7 DEF Next
<1> QED  BY <1>1, <1>2, PTL DEF Spec

(* The verdict is exactly the documented condition in every state.         *)
THEOREM VerdictIsExact == Spec => []EligibleExactlyWhenPermitted
<1>1. InputsAreValid => AnswerIsValid(answer) /\ EventIsValid(event)
  BY TableAssumption DEF InputsAreValid, Answers, AnswerIsValid
<1>2. InputsAreValid => EligibleExactlyWhenPermitted
  BY <1>1, EligibleMeansMayContact
     DEF InputsAreValid, EligibleExactlyWhenPermitted
<1> QED  BY <1>2, ValidInputs, PTL

(* The counters that leave with a message justify its verdict: an eligible  *)
(* contact has room left under both limits, an event that did not fire     *)
(* carries zeros.                                                          *)
THEOREM EnvelopeIsConsistent == Spec => []EnvelopeAgreesWithVerdict
<1>1. ASSUME InputsAreValid, Eligible(event, instant, answer)
      PROVE  LET left == CapRemaining(event, instant, answer)
             IN  /\ left > 0
                 /\ left + answer.sends <= FrequencyCaps[CapKey(event)]
                 /\ answer.limit # NoLimit
                      => left + answer.sends <= answer.limit
  <2> DEFINE cap == FrequencyCaps[CapKey(event)]
             limit == EffectiveLimit(event, answer)
  <2>1. /\ Fired(event, instant)
        /\ ConsentReasons(event, instant, answer) = {}
        /\ CapReasons(event, answer) = {}
    BY <1>1 DEF Eligible, DenyingReasons
  <2>2. /\ HasCap(event)
        /\ ~(SendsInWindow(answer) >= limit)
    BY <2>1 DEF CapReasons
  <2>3. answer # NoDecision
    BY <2>1 DEF ConsentReasons
  <2>4. /\ answer.sends \in Nat
        /\ answer.limit \in Nat \cup {NoLimit}
    BY <1>1, <2>3 DEF InputsAreValid, Answers
  <2>5. cap \in Nat
    BY <2>2, PolicyAssumption DEF HasCap, PolicyIsValid
  <2>6. limit = IF answer.limit # NoLimit /\ answer.limit < cap
                THEN answer.limit ELSE cap
    BY <2>3 DEF EffectiveLimit
  <2>7. SendsInWindow(answer) = answer.sends
    BY <2>3 DEF SendsInWindow
  <2>8. CapRemaining(event, instant, answer)
          = IF limit - answer.sends > 0 THEN limit - answer.sends ELSE 0
    BY <2>1, <2>2, <2>7 DEF CapRemaining, CapLimit
  <2> HIDE DEF cap, limit
  <2>9. /\ limit \in Nat /\ limit <= cap
        /\ answer.limit # NoLimit => limit <= answer.limit
    BY <2>4, <2>5, <2>6
  <2>10. /\ limit - answer.sends > 0
         /\ (limit - answer.sends) + answer.sends = limit
    BY <2>2, <2>4, <2>7, <2>9
  <2> QED  BY <2>4, <2>5, <2>8, <2>9, <2>10 DEF cap
<1>2. ~Fired(event, instant) => /\ CapLimit(event, instant, answer) = 0
                               /\ CapRemaining(event, instant, answer) = 0
  BY DEF CapLimit, CapRemaining
<1>3. InputsAreValid => EnvelopeAgreesWithVerdict
  BY <1>1, <1>2 DEF EnvelopeAgreesWithVerdict
<1> QED  BY <1>3, ValidInputs, PTL

(* A contact that is permitted after a step was permitted before it.       *)
LEMMA PermittedBefore ==
  ASSUME InputsAreValid, Next, MayContact(event', instant', answer')
  PROVE  MayContact(event, instant, answer)
<1>1. /\ Timely(event', instant') /\ CleanAllow(event', instant', answer')
      /\ UnderBothLimits(event', answer') /\ ~IsSuppressed(event')
      /\ HasQuietWindow(event')
      /\ ~InDailyWindow(QuietWindows[event'.market], instant')
  BY DEF MayContact
<1>2. ~Withdraw /\ ~Refuse /\ ~MoveOn
  <2>1. ~Withdraw
    BY <1>1 DEF Withdraw, CleanAllow
  <2>2. ~Refuse
    <3>1. HasRule(event') /\ event' \in Cases => OtherQuestion # Question(event')
      BY TableAssumption
    <3> QED  BY <1>1, <3>1
             DEF Refuse, Answered, InputsAreValid, CleanAllow, Timely, Answers
  <2>3. ~MoveOn
    BY <1>1, TableAssumption DEF MoveOn, InputsAreValid, CleanAllow
  <2> QED  BY <2>1, <2>2, <2>3
<1>3. /\ event' = event /\ instant' = instant /\ answer # NoDecision
      /\ CountSend \/ StateLimit \/ LowerLimit
  BY <1>2 DEF Next, CountSend, StateLimit, LowerLimit, Answered
<1>4. CleanAllow(event, instant, answer)
  BY <1>1, <1>3
     DEF CountSend, StateLimit, LowerLimit, CleanAllow, InputsAreValid, Answers
<1>5. UnderBothLimits(event, answer)
  <2> DEFINE cap == FrequencyCaps[CapKey(event)]
  <2>1. /\ HasCap(event) /\ answer'.sends < cap
        /\ answer'.limit # NoLimit => answer'.sends < answer'.limit
    BY <1>1, <1>3 DEF UnderBothLimits
  <2>2. cap \in Nat
    BY <2>1, PolicyAssumption DEF HasCap, PolicyIsValid
  <2> HIDE DEF cap
  <2>3. answer \in Answers(Questions \cup {OtherQuestion})
    BY <1>3 DEF InputsAreValid
  <2>4. answer.sends < cap /\ (answer.limit # NoLimit => answer.sends < answer.limit)
    <3>1. CASE CountSend
      BY <2>1, <2>2, <2>3, <3>1, NoLimitAssumption DEF CountSend, Answers
    <3>2. CASE StateLimit
      BY <2>1, <2>2, <2>3, <3>2, NoLimitAssumption DEF StateLimit, Answers
    <3>3. CASE LowerLimit
      BY <2>1, <2>2, <2>3, <3>3, NoLimitAssumption DEF LowerLimit, Answers
    <3> QED  BY <1>3, <3>1, <3>2, <3>3
  <2> QED  BY <2>1, <2>4 DEF UnderBothLimits, cap
<1> QED  BY <1>1, <1>3, <1>4, <1>5 DEF MayContact

(* No step of bad news turns a refusal into a permission.                  *)
THEOREM RefusalIsFinal == Spec => WorseNewsNeverPermits
<1>1. ASSUME InputsAreValid, InputsAreValid', [Next]_vars
      PROVE  [~Eligible(event, instant, answer)
                => ~Eligible(event', instant', answer')]_vars
  <2> SUFFICES ASSUME Next, Eligible(event', instant', answer')
               PROVE  Eligible(event, instant, answer)
    BY <1>1
  <2>1. /\ instant \in Int /\ instant' \in Int
        /\ EventIsValid(event) /\ EventIsValid(event')
        /\ AnswerIsValid(answer) /\ AnswerIsValid(answer')
    BY <1>1, TableAssumption DEF InputsAreValid, Answers, AnswerIsValid
  <2>2. MayContact(event', instant', answer')
    BY <2>1, EligibleMeansMayContact
  <2>3. MayContact(event, instant, answer)
    BY <1>1, <2>2, PermittedBefore
  <2> QED  BY <2>1, <2>3, EligibleMeansMayContact
<1> QED  BY <1>1, ValidInputs, PTL DEF Spec, WorseNewsNeverPermits

=============================================================================
