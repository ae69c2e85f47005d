--------------------------- MODULE SweepProperties ---------------------------
(***************************************************************************)
(* What concurrent offline sweeps keep, and where the documentation and    *)
(* the code part.                                                          *)
(***************************************************************************)
EXTENDS Sweep

(* The types of the sweeps' state (Sweep as a whole). *)
TypeOK ==
  /\ now \in 0..MaxNow
  /\ pc \in [Calls -> PCs]
  /\ \A c \in Calls :
       /\ pc[c] # "new" => query[c] \in Queries /\ surface[c] \in {"api", "own"}
       /\ moment[c] \in Nat
       /\ feed[c] \in Feeds \cup {<<>>}
       /\ \A i \in DOMAIN batch[c] : EventIsValid(batch[c][i])
       /\ \A i \in DOMAIN trail[c] : trail[c][i] \in Verdicts
       /\ \A i \in DOMAIN handed[c] : handed[c][i] \in Outcomes
       /\ Len(handed[c]) <= Len(trail[c]) /\ Len(trail[c]) <= Len(batch[c])
  /\ verdict \in [Calls -> Verdicts \cup {"none", "open"}]
  /\ seen \in [Calls -> Nat]
  /\ adapter \in [Calls -> Calls \cup {NoAdapter}]
  /\ bound \in Calls \cup {NoAdapter}
  /\ counter \in [Calls -> [Keys -> Nat]]

KeyOf(p) == CountKey(batch[p[1]][p[2]])

UsersOf(a) == {c \in Calls : adapter[c] = a}

-----------------------------------------------------------------------------
(* A sweep whose consent adapter nobody else holds never overshoots a cap, *)
(* however many of its events are about one customer: each is decided on a *)
(* count that has the sends of those before it (outreach_service.py lines  *)
(* 157-161, local/consent.py lines 101-124).                               *)
LoneSweepIsCapped ==
  \A a \in Calls : Cardinality(UsersOf(a)) = 1 =>
    \A k \in Keys :
      LET sends == {p \in sent : adapter[p[1]] = a /\ KeyOf(p) = k}
      IN  sends # {} => Cardinality(sends) <= FrequencyCaps[<<k[2], k[3]>>]

(* The local store never refuses for a send that was not made: what it     *)
(* counts it has in its ledger, and that left; racing writers and racing   *)
(* bindings only ever lose sends (local/consent.py lines 119-121).         *)
CountedSendsWereMade ==
  \A a \in Calls :
    /\ ledger[a] \subseteq sent
    /\ \A k \in Keys :
         counter[a][k] <= Cardinality({p \in ledger[a] : KeyOf(p) = k})

(* A feed in which every instant is written in UTC. *)
IsUniform(f) ==
  \A i \in DOMAIN f : f[i].ago = NoAge => f[i].written = f[i].occurred

(* A sweep of such a feed is given its matching events oldest first, and   *)
(* leaves one out only for events that are no younger (ports/events.py     *)
(* lines 8-12, local/events.py lines 103-119).                             *)
DetectionIsOldestPrefix ==
  \A c \in Calls : batch[c] # <<>> /\ IsUniform(feed[c]) =>
    LET given == batch[c]
        ids   == {given[i].id : i \in DOMAIN given}
        left  == {feed[c][i] : i \in {j \in DOMAIN feed[c] :
                    /\ feed[c][j].id \notin ids
                    /\ feed[c][j].ago = NoAge
                    /\ Matches(feed[c][j], query[c], 0)}}
    IN  /\ Len(given) <= query[c].limit
        /\ \A i, j \in DOMAIN given : i < j => given[i].occurred <= given[j].occurred
        /\ \A rec \in left :
             Len(given) = query[c].limit /\ rec.occurred >= given[Len(given)].occurred

(* The source reads a clock of its own after the sweep read its instant,   *)
(* once for the whole batch. So all relative events are judged younger     *)
(* than the feed said by one and the same delay, which is no more than has *)
(* passed since: none becomes stale on the way, none changes its distance  *)
(* from another, and one that is younger than the delay is judged to be    *)
(* one of the future (outreach_service.py 157, local/events.py 27-55,      *)
(* 109).                                                                   *)
RelativeAgesShareOneDelay ==
  \A c \in Calls : \E delay \in 0..(now - moment[c]) :
    \A i \in DOMAIN batch[c], j \in DOMAIN feed[c] :
      batch[c][i].id = feed[c][j].id /\ feed[c][j].ago # NoAge =>
        moment[c] - batch[c][i].occurred = feed[c][j].ago - delay

(* A sweep that answers says of each result what became of it and of no    *)
(* other: held results are routed or said to have failed, and nothing else *)
(* reaches a reviewer (api/app.py lines 392-401).                          *)
EachResultSaysItsOwnRouting ==
  \A c \in Calls : pc[c] = "done" =>
    /\ Len(trail[c]) = Len(batch[c]) /\ Len(handed[c]) = Len(batch[c])
    /\ \A i \in DOMAIN batch[c] :
         /\ trail[c][i] = "held" <=> handed[c][i] # "not_required"
         /\ trail[c][i] = "delivered" <=> <<c, i>> \in sent
         /\ handed[c][i] = "routed" => <<c, i>> \in queue
         /\ <<c, i>> \in queue => handed[c][i] \in {"routed", "failed"}

(* A sweep that was begun ends: answered, failed or lost with its process. *)
EverySweepEnds == \A c \in Calls : (pc[c] # "new") ~> (pc[c] \in Ended)

-----------------------------------------------------------------------------
(* Each event of a sweep as a request of the contract. *)
MaxBatch ==
  CHOOSE n \in {q.limit : q \in Queries} : \A q \in Queries : q.limit <= n

StatusOf(c, i) ==
  IF i < At(c) THEN trail[c][i]
  ELSE IF i > At(c) \/ verdict[c] = "none" THEN "new"
  ELSE IF pc[c] \in {"raised", "lost"} THEN "aborted"
  ELSE "open"

Contract ==
  INSTANCE OutreachContract
    WITH Requests <- Calls \X (1..MaxBatch),
         status <- [r \in Calls \X (1..MaxBatch) |-> StatusOf(r[1], r[2])],
         contacted <- sent, reviewed <- queue

(* Whatever a sweep does to one event it does as the contract of a single  *)
(* evaluation allows, events of other sweeps in between.                   *)
SweepImplementsContract == Contract!Spec

-----------------------------------------------------------------------------
(* README.md line 96: "Each of them routes a held result to human review   *)
(* in the same call that produced it".                                     *)
EscalationIsRoutedByItsCall ==
  \A c \in Calls : pc[c] \in Ended =>
    \A i \in DOMAIN trail[c] : trail[c][i] = "held" => i \in DOMAIN handed[c]

=============================================================================
