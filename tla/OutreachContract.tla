--------------------------- MODULE OutreachContract ---------------------------
(***************************************************************************)
(* What the outreach service promises about one request, without how       *)
(* (SPEC.md and the docstrings of OutreachService and OutreachResult).     *)
(*                                                                         *)
(* A request is taken, its customer is contacted at most once and only     *)
(* while the request is open, and it concludes once, in a verdict that     *)
(* agrees with whether the customer was contacted: a held or refused       *)
(* request contacted nobody and never will.  Reviewers only ever see held  *)
(* requests.  A request may instead be aborted, with or without contact.   *)
(***************************************************************************)
CONSTANT Requests

VARIABLES
  status,     \* where each request is
  contacted,  \* requests whose customer has been contacted
  reviewed    \* requests handed to a human

vars == <<status, contacted, reviewed>>

Verdicts == {"refused", "held", "undelivered", "delivered"}

TypeOK ==
  /\ status \in [Requests -> {"new", "open", "aborted"} \cup Verdicts]
  /\ contacted \subseteq Requests
  /\ reviewed \subseteq Requests

Init ==
  /\ status = [r \in Requests |-> "new"]
  /\ contacted = {}
  /\ reviewed = {}

Accept(r) ==
  /\ status[r] = "new"
  /\ status' = [status EXCEPT ![r] = "open"]
  /\ UNCHANGED <<contacted, reviewed>>

Contact(r) ==
  /\ status[r] = "open" /\ r \notin contacted
  /\ contacted' = contacted \cup {r}
  /\ UNCHANGED <<status, reviewed>>

Conclude(r) ==
  /\ status[r] = "open"
  /\ \E verdict \in Verdicts :
       /\ verdict = "delivered" <=> r \in contacted
       /\ status' = [status EXCEPT ![r] = verdict]
  /\ UNCHANGED <<contacted, reviewed>>

(* A failure aborts a request, a crash all those that are open; the        *)
(* contact may be the very call that failed.                               *)
Abort(S) ==
  /\ S # {} /\ \A r \in S : status[r] = "open"
  /\ status' = [r \in Requests |-> IF r \in S THEN "aborted" ELSE status[r]]
  /\ \/ UNCHANGED contacted
     \/ \E r \in S \ contacted : contacted' = contacted \cup {r}
  /\ UNCHANGED reviewed

HandOver(r) ==
  /\ status[r] = "held" /\ r \notin reviewed
  /\ reviewed' = reviewed \cup {r}
  /\ UNCHANGED <<status, contacted>>

Next ==
  \/ \E r \in Requests : Accept(r) \/ Contact(r) \/ Conclude(r) \/ HandOver(r)
  \/ \E S \in SUBSET Requests : Abort(S)

Spec == Init /\ [][Next]_vars

(* An accepted request does not stay open. *)
Resolve(r) == Conclude(r) \/ \E S \in SUBSET Requests : r \in S /\ Abort(S)

Fairness == \A r \in Requests : WF_vars(Resolve(r))

FairSpec == Spec /\ Fairness

=============================================================================
