---------------------------- MODULE DecisionTable ----------------------------
(***************************************************************************)
(* One call of assess() (domain/eligibility.py) whose inputs only get      *)
(* worse: the store withdraws its answer, counts another send, states a    *)
(* limit or lowers one, adds a denying or an unrecognised reason, answers  *)
(* another question, or answers too early for the instant that is decided. *)
(***************************************************************************)
EXTENDS Eligibility

CONSTANTS
  Cases,        \* the events assessed
  Instants,     \* the instants an assessment may start at
  MaxSends,     \* bound: sends the store may count
  MaxLimit,     \* bound: the largest limit it may state
  Later,        \* minutes the instant moves on by
  OtherQuestion

ASSUME TableAssumption ==
  /\ \A e \in Cases : EventIsValid(e)
  /\ \A e \in Cases : HasRule(e) => OtherQuestion # Question(e)
  /\ Instants \subseteq Int
  /\ MaxSends \in Nat /\ MaxLimit \in Nat /\ Later \in Nat \ {0}

VARIABLES event, instant, answer

vars == <<event, instant, answer>>

Answered == answer # NoDecision

CleanAnswer(e, t) ==
  [outcome |-> "allowed", denying |-> FALSE, unknown |-> FALSE,
   about |-> IF HasRule(e) THEN Question(e) ELSE OtherQuestion,
   asOf |-> t, hasId |-> TRUE, limit |-> NoLimit, sends |-> 0]

Init ==
  /\ event \in Cases
  /\ instant \in Instants
  /\ answer = CleanAnswer(event, instant)

Withdraw ==
  /\ Answered
  /\ answer' = NoDecision
  /\ UNCHANGED <<event, instant>>

CountSend ==
  /\ Answered /\ answer.sends < MaxSends
  /\ answer' = [answer EXCEPT !.sends = @ + 1]
  /\ UNCHANGED <<event, instant>>

StateLimit ==
  /\ Answered /\ answer.limit = NoLimit
  /\ \E limit \in 0..MaxLimit : answer' = [answer EXCEPT !.limit = limit]
  /\ UNCHANGED <<event, instant>>

LowerLimit ==
  /\ Answered /\ answer.limit # NoLimit /\ answer.limit > 0
  /\ answer' = [answer EXCEPT !.limit = @ - 1]
  /\ UNCHANGED <<event, instant>>

Refuse ==
  /\ Answered
  /\ \/ answer' = [answer EXCEPT !.outcome = "denied"]
     \/ answer' = [answer EXCEPT !.denying = TRUE]
     \/ answer' = [answer EXCEPT !.unknown = TRUE]
     \/ answer' = [answer EXCEPT !.about = OtherQuestion]
  /\ UNCHANGED <<event, instant>>

MoveOn ==
  /\ Answered /\ answer.asOf = instant
  /\ instant' = instant + Later
  /\ UNCHANGED <<event, answer>>

Next == Withdraw \/ CountSend \/ StateLimit \/ LowerLimit \/ Refuse \/ MoveOn

Spec == Init /\ [][Next]_vars

-----------------------------------------------------------------------------
Questions == {Question(e) : e \in {f \in Cases : HasRule(f)}}

InputsAreValid ==
  /\ event \in Cases
  /\ instant \in Int
  /\ answer \in Answers(Questions \cup {OtherQuestion}) \cup {NoDecision}

(* The reason sets compose to exactly the documented conditions: no        *)
(* combination of answer, policy gap and instant permits a contact that    *)
(* MayContact does not describe, and none is refused without a reason.     *)
EligibleExactlyWhenPermitted ==
  Eligible(event, instant, answer) <=> MayContact(event, instant, answer)

(* The counters that travel with the message agree with the verdict they   *)
(* justify: an eligible contact has room left under both limits and a      *)
(* refused event that never reached the cap carries zeros.                 *)
EnvelopeAgreesWithVerdict ==
  LET left == CapRemaining(event, instant, answer)
  IN  /\ Eligible(event, instant, answer) =>
           /\ left > 0
           /\ left + answer.sends <= FrequencyCaps[CapKey(event)]
           /\ answer.limit # NoLimit => left + answer.sends <= answer.limit
      /\ ~Fired(event, instant) => left = 0 /\ CapLimit(event, instant, answer) = 0

(* Worst wins: once refused, nothing further that speaks against the       *)
(* contact turns the verdict into a permission: a denial, a send counted,  *)
(* a limit lowered, an answer withdrawn or grown old                       *)
(* (domain/eligibility.py 91-189).                                         *)
WorseNewsNeverPermits ==
  [][~Eligible(event, instant, answer) => ~Eligible(event', instant', answer')]_vars

=============================================================================
