-------------------------------- MODULE Sweep --------------------------------
(***************************************************************************)
(* Concurrent sweeps in the offline profile: OutreachService.sweep with    *)
(* the surfaces that call it (api/app.py, cli/main.py, agent/tools.py), on *)
(* the local consent adapter (adapters/local/consent.py) and the container *)
(* that binds it (config.py).                                              *)
(*                                                                         *)
(* A sweep evaluates every event of a feed, one after the other, and only  *)
(* when all are evaluated are their results handed to the review router.   *)
(* A single evaluation is a sweep of one event.                            *)
(*                                                                         *)
(*   new -> bind (-> store) -> moment -> detect                            *)
(*       -> (decide -> prepare -> deliver -> read -> write -> audit)*      *)
(*       -> route* -> done                                                 *)
(*                                                                         *)
(* The calls of the API share a container, whose consent adapter is built  *)
(* on first use; a tool call or a command builds a container of its own.   *)
(* The ways a single evaluation fails or is held are in OutreachService:   *)
(* here a draft is kept or discarded, an audit record may fail and review  *)
(* routing is on.                                                          *)
(***************************************************************************)
EXTENDS EventFeed, Eligibility

CONSTANTS
  Calls,           \* the sweeps asked for
  MaxConcurrent,   \* sweeps in progress at a time
  Feeds,           \* what the event source may hold when it is read
  Queries,         \* what a sweep may ask for
  ConsentRecords,  \* subject |-> [outcome, denying, sends, limit]
  Faults,          \* the failures that may happen
  NoQuery,         \* of a sweep not begun
  NoAdapter,       \* no consent adapter is bound
  MaxNow,          \* bound: the last instant, in minutes
  Tick             \* bound: the clock moves in steps of this many minutes

Records == UNION {{feed[i] : i \in DOMAIN feed} : feed \in Feeds}

(* The key of a send in the local counter. *)
CountKey(e) == <<e.subject, Rule(e).purpose, Rule(e).channel>>

Keys == {CountKey(rec) : rec \in {r \in Records : HasRule(r)}}

ASSUME SweepAssumption ==
  /\ IsFiniteSet(Calls) /\ MaxConcurrent \in Nat \ {0}
  /\ Faults \subseteq {"audit_error", "router_error", "crash"}
  /\ NoAdapter \notin Calls
  /\ MaxNow \in Nat /\ Tick \in Nat \ {0}

(* A record states an instant or an age, under an id of its own, and has   *)
(* its place in the order of what is written.                              *)
ASSUME FeedAssumption ==
  /\ \A rec \in Records :
       /\ rec.ago # NoAge => rec.ago \in Int
       /\ rec.id \in Int /\ rec.written \in Int
       /\ rec.occurred \in Int \cup {BadTime}
  /\ \A f \in Feeds :
       /\ f \in Seq(Records)
       /\ \A i, j \in DOMAIN f : f[i].id = f[j].id => i = j

(* Some query has the largest limit. *)
ASSUME QueryAssumption ==
  /\ \A q \in Queries : q.limit \in Int
  /\ \E longest \in Queries : \A q \in Queries : q.limit <= longest.limit

ASSUME ConsentAssumption ==
  \A subject \in DOMAIN ConsentRecords :
    LET rec == ConsentRecords[subject]
    IN  rec.sends \in Nat /\ rec.limit \in Nat \cup {NoLimit}

VARIABLES
  now,      \* the wall clock
  pc,       \* where each sweep is
  surface,  \* where it was asked: the API, or a tool or command of its own
  feed,     \* what the source held when the sweep read it
  query,    \* what the sweep asks for
  moment,   \* the instant all its events are decided at
  batch,    \* the events it was given, in order
  verdict,  \* of the event being evaluated: "none" before, "open" until known
  seen,     \* the count read by record_send and not yet written
  trail,    \* what the audit trail says of each event evaluated
  handed,   \* what the response says of the hand-off of each result
  adapter,  \* the consent adapter the sweep's service holds
  bound,    \* the consent adapter the API's container holds
  counter,  \* per adapter, the sends it counts under each key
  ledger,   \* per adapter, the sends it was told of
  sent,     \* <<sweep, position>> of the messages that left
  queue     \* <<sweep, position>> of the results held for a reviewer

inputs   == <<surface, feed, query, moment, batch>>
progress == <<verdict, seen, trail, handed>>
store    == <<counter, ledger>>
world    == <<adapter, bound, store, sent, queue>>
vars     == <<now, pc, inputs, progress, world>>

Ended == {"done", "raised", "lost"}

PCs == {"new", "bind", "store", "moment", "detect", "decide", "prepare",
        "deliver", "read", "write", "audit", "route"} \cup Ended

Verdicts == {"refused", "held", "delivered"}

Outcomes == {"not_required", "routed", "failed"}

InFlight == {c \in Calls : pc[c] \notin Ended \cup {"new"}}

Go(c, label) == pc' = [pc EXCEPT ![c] = label]

(* An exception leaves the sweep: the results before it are dropped. *)
Raise(c) == Go(c, "raised")

(* The position and the event the sweep is at, the result being handed on. *)
At(c)      == Len(trail[c]) + 1
Current(c) == batch[c][At(c)]
Result(c)  == Len(handed[c]) + 1

Conclude(c, v) == verdict' = [verdict EXCEPT ![c] = v] /\ Go(c, "audit")

-----------------------------------------------------------------------------
(* A plausible bug: the answer forgets what this process has sent. *)
LocalAnswerForgetful(c, e) ==
  LET known == e.subject \in DOMAIN ConsentRecords
      rec   == ConsentRecords[e.subject]
  IN  [outcome |-> IF known THEN rec.outcome ELSE "denied",
       denying |-> known => rec.denying, unknown |-> FALSE,
       about |-> Question(e), asOf |-> moment[c], hasId |-> TRUE,
       limit |-> IF known THEN rec.limit ELSE NoLimit,
       sends |-> IF known THEN rec.sends ELSE 0]

(* decide(): the fixture's answer, plus what this adapter has counted. *)
LocalAnswer(c, e) ==
  LET known == e.subject \in DOMAIN ConsentRecords
      rec   == ConsentRecords[e.subject]
      extra == counter[adapter[c]][CountKey(e)]
  IN  [outcome |-> IF known THEN rec.outcome ELSE "denied",
       denying |-> known => rec.denying, unknown |-> FALSE,
       about |-> Question(e), asOf |-> moment[c], hasId |-> TRUE,
       limit |-> IF known THEN rec.limit ELSE NoLimit,
       sends |-> IF known THEN rec.sends + extra ELSE extra]

EligibleNow(c, e) ==
  Fired(e, moment[c]) /\ Eligible(e, moment[c], LocalAnswer(c, e))

-----------------------------------------------------------------------------
Init ==
  /\ now = 0
  /\ pc = [c \in Calls |-> "new"]
  /\ surface = [c \in Calls |-> "none"]
  /\ feed = [c \in Calls |-> <<>>]
  /\ query = [c \in Calls |-> NoQuery]
  /\ moment = [c \in Calls |-> 0]
  /\ batch = [c \in Calls |-> <<>>]
  /\ verdict = [c \in Calls |-> "none"]
  /\ seen = [c \in Calls |-> 0]
  /\ trail = [c \in Calls |-> <<>>]
  /\ handed = [c \in Calls |-> <<>>]
  /\ adapter = [c \in Calls |-> NoAdapter]
  /\ bound = NoAdapter
  /\ counter = [c \in Calls |-> [k \in Keys |-> 0]]
  /\ ledger = [c \in Calls |-> {}]
  /\ sent = {} /\ queue = {}

Start(c) ==
  /\ pc[c] = "new"
  /\ Cardinality(InFlight) < MaxConcurrent
  /\ \E s \in {"api", "own"}, q \in Queries :
       /\ surface' = [surface EXCEPT ![c] = s]
       /\ query' = [query EXCEPT ![c] = q]
  /\ Go(c, "bind")
  /\ UNCHANGED <<now, feed, moment, batch, progress, world>>

(* An adapter is named after the call that built it. *)
BindOwn(c) ==
  /\ pc[c] = "bind" /\ surface[c] = "own"
  /\ adapter' = [adapter EXCEPT ![c] = c]
  /\ Go(c, "moment")
  /\ UNCHANGED <<now, inputs, progress, bound, store, sent, queue>>

BindCached(c) ==
  /\ pc[c] = "bind" /\ surface[c] = "api" /\ bound # NoAdapter
  /\ adapter' = [adapter EXCEPT ![c] = bound]
  /\ Go(c, "moment")
  /\ UNCHANGED <<now, inputs, progress, bound, store, sent, queue>>

(* cached_property holds no lock: others may miss before this one stores. *)
BindMissed(c) ==
  /\ pc[c] = "bind" /\ surface[c] = "api" /\ bound = NoAdapter
  /\ adapter' = [adapter EXCEPT ![c] = c]
  /\ Go(c, "store")
  /\ UNCHANGED <<now, inputs, progress, bound, store, sent, queue>>

BindStored(c) ==
  /\ pc[c] = "store"
  /\ bound' = c
  /\ Go(c, "moment")
  /\ UNCHANGED <<now, inputs, progress, adapter, store, sent, queue>>

(* A plausible bug: the instant is rounded up to the next minute. *)
ReadMomentRounded(c) ==
  /\ pc[c] = "moment"
  /\ moment' = [moment EXCEPT ![c] = now + 1]
  /\ Go(c, "detect")
  /\ UNCHANGED <<now, surface, feed, query, batch, progress, world>>

ReadMoment(c) ==
  /\ pc[c] = "moment"
  /\ moment' = [moment EXCEPT ![c] = now]
  /\ Go(c, "detect")
  /\ UNCHANGED <<now, surface, feed, query, batch, progress, world>>

(* The source resolves ages by a clock reading of its own, a later one;    *)
(* one record it cannot convert fails the sweep.                           *)
Detect(c) ==
  /\ pc[c] = "detect"
  /\ \E f \in Feeds :
       LET events == Events(f, query[c], now)
       IN  /\ feed' = [feed EXCEPT ![c] = f]
           /\ IF Readable(f)
              THEN /\ batch' = [batch EXCEPT ![c] = events]
                   /\ Go(c, IF events = <<>> THEN "done" ELSE "decide")
              ELSE Raise(c) /\ UNCHANGED batch
  /\ UNCHANGED <<now, surface, query, moment, progress, world>>

-----------------------------------------------------------------------------
(* The trigger, the store's answer and the eligibility engine. *)
Decide(c) ==
  /\ pc[c] = "decide"
  /\ LET e == Current(c)
     IN  IF EligibleNow(c, e)
         THEN verdict' = [verdict EXCEPT ![c] = "open"] /\ Go(c, "prepare")
         ELSE Conclude(c, IF Consequential(e, moment[c]) THEN "held" ELSE "refused")
  /\ UNCHANGED <<now, inputs, seen, trail, handed, world>>

(* The screens, the drafter and the validator keep a draft or discard it. *)
Prepare(c) ==
  /\ pc[c] = "prepare"
  /\ \E discarded \in BOOLEAN :
       IF discarded \/ Consequential(Current(c), moment[c])
       THEN Conclude(c, "held")
       ELSE Go(c, "deliver") /\ UNCHANGED verdict
  /\ UNCHANGED <<now, inputs, seen, trail, handed, world>>

(* A plausible bug: a channel that does not count what it sends. *)
DeliverUncounted(c) ==
  /\ pc[c] = "deliver"
  /\ sent' = sent \cup {<<c, At(c)>>}
  /\ Conclude(c, "refused")
  /\ UNCHANGED <<now, inputs, seen, trail, handed, adapter, bound, store, queue>>

(* The local outbox and synthesiser take every message: a local answer has *)
(* a decision id, the hash of the question and the answer.                 *)
Deliver(c) ==
  /\ pc[c] = "deliver"
  /\ sent' = sent \cup {<<c, At(c)>>}
  /\ Go(c, "read")
  /\ UNCHANGED <<now, inputs, progress, adapter, bound, store, queue>>

(* record_send() reads the count and writes it back, without a lock. *)
ReadCount(c) ==
  /\ pc[c] = "read"
  /\ seen' = [seen EXCEPT ![c] = counter[adapter[c]][CountKey(Current(c))]]
  /\ Go(c, "write")
  /\ UNCHANGED <<now, inputs, verdict, trail, handed, world>>

(* A plausible bug: only the count moves and the ledger is not told. *)
WriteCountOnly(c) ==
  /\ pc[c] = "write"
  /\ counter' = [counter EXCEPT ![adapter[c]][CountKey(Current(c))] = seen[c] + 1]
  /\ seen' = [seen EXCEPT ![c] = 0]
  /\ Conclude(c, "delivered")
  /\ UNCHANGED <<now, inputs, trail, handed, adapter, bound, ledger, sent, queue>>

WriteCount(c) ==
  /\ pc[c] = "write"
  /\ counter' = [counter EXCEPT ![adapter[c]][CountKey(Current(c))] = seen[c] + 1]
  /\ ledger' = [ledger EXCEPT ![adapter[c]] = @ \cup {<<c, At(c)>>}]
  /\ seen' = [seen EXCEPT ![c] = 0]
  /\ Conclude(c, "delivered")
  /\ UNCHANGED <<now, inputs, trail, handed, adapter, bound, sent, queue>>

(* A plausible bug: a refused event is left out of the results, and the    *)
(* results say how far the sweep is.                                       *)
RecordDecisionIfAny(c) ==
  /\ pc[c] = "audit"
  /\ trail' = [trail EXCEPT ![c] = IF verdict[c] = "refused" THEN @
                                    ELSE Append(@, verdict[c])]
  /\ verdict' = [verdict EXCEPT ![c] = "none"]
  /\ Go(c, IF Len(trail'[c]) < Len(batch[c]) THEN "decide" ELSE "route")
  /\ UNCHANGED <<now, inputs, seen, handed, world>>

RecordDecision(c) ==
  /\ pc[c] = "audit"
  /\ trail' = [trail EXCEPT ![c] = Append(@, verdict[c])]
  /\ verdict' = [verdict EXCEPT ![c] = "none"]
  /\ Go(c, IF At(c) < Len(batch[c]) THEN "decide" ELSE "route")
  /\ UNCHANGED <<now, inputs, seen, handed, world>>

(* A refused draft is recorded while it is prepared, every decision at the *)
(* end; either record may fail.                                            *)
AuditRaises(c) ==
  /\ pc[c] \in {"prepare", "audit"}
  /\ "audit_error" \in Faults
  /\ Raise(c)
  /\ UNCHANGED <<now, inputs, progress, world>>

-----------------------------------------------------------------------------
(* A plausible bug: one recorder serves the sweep, and reports the worst   *)
(* hand-off so far.                                                        *)
ReportShared(c, outcome) ==
  handed' = [handed EXCEPT ![c] =
    Append(@, IF \E i \in DOMAIN @ : @[i] = "failed" THEN "failed" ELSE outcome)]

(* One recorder per result. *)
Report(c, outcome) == handed' = [handed EXCEPT ![c] = Append(@, outcome)]

HandOn(c, outcome) ==
  /\ Report(c, outcome)
  /\ Go(c, IF Result(c) < Len(trail[c]) THEN "route" ELSE "done")
  /\ UNCHANGED <<now, inputs, verdict, seen, trail, adapter, bound, store, sent>>

IsHeld(c) == trail[c][Result(c)] = "held"

(* A plausible bug: nothing is recorded for a result nobody reviews. *)
RouteNothingUnreported(c) ==
  /\ pc[c] = "route" /\ ~IsHeld(c)
  /\ HandOn(c, "") /\ UNCHANGED queue

RouteNothing(c) ==
  /\ pc[c] = "route" /\ ~IsHeld(c)
  /\ HandOn(c, "not_required") /\ UNCHANGED queue

RouteHeld(c) ==
  /\ pc[c] = "route" /\ IsHeld(c)
  /\ queue' = queue \cup {<<c, Result(c)>>}
  /\ HandOn(c, "routed")

(* A hand-off that fails may have been taken all the same. *)
RouteFails(c) ==
  /\ pc[c] = "route" /\ IsHeld(c)
  /\ "router_error" \in Faults
  /\ queue' \in {queue, queue \cup {<<c, Result(c)>>}}
  /\ HandOn(c, "failed")

-----------------------------------------------------------------------------
(* A process dies with its sweeps and its container: the API's with all of *)
(* its calls, a tool call or a command alone.                              *)
ApiCrash ==
  /\ "crash" \in Faults
  /\ \E c \in InFlight : surface[c] = "api"
  /\ pc' = [c \in Calls |->
              IF c \in InFlight /\ surface[c] = "api" THEN "lost" ELSE pc[c]]
  /\ bound' = NoAdapter
  /\ UNCHANGED <<now, inputs, progress, adapter, store, sent, queue>>

OwnCrash(c) ==
  /\ "crash" \in Faults
  /\ c \in InFlight /\ surface[c] = "own"
  /\ Go(c, "lost")
  /\ UNCHANGED <<now, inputs, progress, world>>

ClockTick ==
  /\ now + Tick <= MaxNow
  /\ now' = now + Tick
  /\ UNCHANGED <<pc, inputs, progress, world>>

Finished ==
  /\ \A c \in Calls : pc[c] \in Ended
  /\ now + Tick > MaxNow
  /\ UNCHANGED vars

Bind(c) == BindOwn(c) \/ BindCached(c) \/ BindMissed(c) \/ BindStored(c)

Evaluate(c) ==
  \/ Decide(c) \/ Prepare(c) \/ Deliver(c)
  \/ ReadCount(c) \/ WriteCount(c)
  \/ RecordDecision(c) \/ AuditRaises(c)

Route(c) == RouteNothing(c) \/ RouteHeld(c) \/ RouteFails(c)

Run(c) == Bind(c) \/ ReadMoment(c) \/ Detect(c) \/ Evaluate(c) \/ Route(c)

Next ==
  \/ \E c \in Calls : Start(c) \/ Run(c) \/ OwnCrash(c)
  \/ ApiCrash
  \/ ClockTick
  \/ Finished

Spec == Init /\ [][Next]_vars

(* A sweep that was begun keeps running; nothing is assumed of the others. *)
Fairness == \A c \in Calls : WF_vars(Run(c))

FairSpec == Spec /\ Fairness

=============================================================================
