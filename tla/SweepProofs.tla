----------------------------- MODULE SweepProofs -----------------------------
(***************************************************************************)
(* What concurrent offline sweeps keep, for every number of sweeps, every  *)
(* feed and every policy: types, what the results say, the truth of the    *)
(* counters, the ages and the order of events, the cap of a sweep nobody   *)
(* races, and that each event is treated as the contract of one says.      *)
(***************************************************************************)
EXTENDS SweepProperties, FiniteSetTheorems, TLAPS

(* An event comes from a record of a feed, read at some instant.           *)
GivenEvents == {ToEvent(rec, t) : rec \in Records, t \in 0..MaxNow}

Positions == Nat \ {0}

Shaped ==
  /\ now \in 0..MaxNow
  /\ pc \in [Calls -> PCs]
  /\ surface \in [Calls -> {"none", "api", "own"}]
  /\ feed \in [Calls -> Feeds \cup {<<>>}]
  /\ query \in [Calls -> Queries \cup {NoQuery}]
  /\ moment \in [Calls -> 0..MaxNow]
  /\ batch \in [Calls -> Seq(GivenEvents)]
  /\ verdict \in [Calls -> Verdicts \cup {"none", "open"}]
  /\ seen \in [Calls -> Nat]
  /\ trail \in [Calls -> Seq(Verdicts)]
  /\ handed \in [Calls -> Seq(Outcomes)]
  /\ adapter \in [Calls -> Calls \cup {NoAdapter}]
  /\ bound \in Calls \cup {NoAdapter}
  /\ counter \in [Calls -> [Keys -> Nat]]
  /\ ledger \in [Calls -> SUBSET (Calls \X Positions)]
  /\ sent \subseteq Calls \X Positions
  /\ queue \subseteq Calls \X Positions

Unbound  == {"new", "bind"}
Early    == Unbound \cup {"store", "moment", "detect"}
Underway == {"prepare", "deliver", "read", "write"}
OnEvent  == Underway \cup {"decide", "audit"}

(* Where a sweep is says how far its batch, its trail and its hand-offs    *)
(* have come, and that an event in hand fired.                             *)
Placed(c) ==
  /\ pc[c] # "new" => query[c] \in Queries /\ surface[c] \in {"api", "own"}
  /\ pc[c] \in Unbound => adapter[c] = NoAdapter
  /\ pc[c] \notin Unbound \cup Ended => adapter[c] \in Calls
  /\ pc[c] \in Early => batch[c] = <<>> /\ verdict[c] = "none"
  /\ pc[c] \in OnEvent => Len(trail[c]) < Len(batch[c]) /\ handed[c] = <<>>
  /\ pc[c] \in Underway => Fired(Current(c), moment[c])
  /\ pc[c] = "audit" => verdict[c] \in Verdicts
  /\ pc[c] = "route" => Len(handed[c]) < Len(trail[c])
  /\ pc[c] \in {"route", "done"} => Len(trail[c]) = Len(batch[c])
  /\ pc[c] = "done" => Len(handed[c]) = Len(trail[c])
  /\ Len(handed[c]) <= Len(trail[c]) /\ Len(trail[c]) <= Len(batch[c])

Typed == Shaped /\ \A c \in Calls : Placed(c)

-----------------------------------------------------------------------------
(* The order of the positions of a feed is strict and total.               *)
LEMMA PrecedesIsOrder ==
  ASSUME NEW f \in Feeds, NEW t \in 0..MaxNow,
         NEW i \in DOMAIN f, NEW j \in DOMAIN f
  PROVE  /\ ~Precedes(f, i, i, t)
         /\ i # j => Precedes(f, i, j, t) \/ Precedes(f, j, i, t)
         /\ Precedes(f, i, j, t) => ~Precedes(f, j, i, t)
         /\ \A k \in DOMAIN f :
              Precedes(f, i, j, t) /\ Precedes(f, j, k, t) => Precedes(f, i, k, t)
<1>1. DOMAIN f \subseteq Int
  BY FeedAssumption
<1>2. \A k \in DOMAIN f : WrittenAt(f[k], t) \in Int /\ f[k].id \in Int
  <2>1. \A k \in DOMAIN f : f[k] \in Records
    BY DEF Records
  <2> QED  BY <2>1, FeedAssumption, SweepAssumption DEF WrittenAt
<1> DEFINE W(k) == WrittenAt(f[k], t)
           N(k) == f[k].id
<1>3. \A k \in DOMAIN f : W(k) \in Int /\ N(k) \in Int /\ k \in Int
  BY <1>1, <1>2
<1>4. \A k, l \in DOMAIN f :
        Precedes(f, k, l, t) <=> \/ W(k) < W(l)
                                 \/ W(k) = W(l) /\ N(k) < N(l)
                                 \/ W(k) = W(l) /\ N(k) = N(l) /\ k < l
  BY DEF Precedes
<1> HIDE DEF W, N
<1> QED  BY <1>3, <1>4

(* So every position has a place of its own, and every place is taken.     *)
LEMMA PlacesAreTaken ==
  ASSUME NEW f \in Feeds, NEW t \in 0..MaxNow, NEW I \in SUBSET DOMAIN f
  PROVE  /\ IsFiniteSet(I) /\ Cardinality(I) \in Nat
         /\ \A i \in I : Place(f, I, i, t) \in 1..Cardinality(I)
         /\ \A i, j \in I : Precedes(f, i, j, t) => Place(f, I, i, t) < Place(f, I, j, t)
         /\ \A k \in 1..Cardinality(I) : \E i \in I : Place(f, I, i, t) = k
<1> DEFINE Upto(i) == {j \in I : j = i \/ Precedes(f, j, i, t)}
<1>1. IsFiniteSet(I) /\ Cardinality(I) \in Nat
  <2>1. DOMAIN f = 1..Len(f) /\ Len(f) \in Nat
    BY FeedAssumption
  <2>2. IsFiniteSet(DOMAIN f)
    BY <2>1, FS_Interval
  <2> QED  BY <2>2, FS_Subset, FS_CardinalityType
<1>2. \A i \in I : /\ Upto(i) \in SUBSET I /\ IsFiniteSet(Upto(i))
                   /\ Cardinality(Upto(i)) \in Nat /\ Cardinality(Upto(i)) <= Cardinality(I)
  <2> SUFFICES ASSUME NEW i \in I
               PROVE  /\ Upto(i) \in SUBSET I /\ IsFiniteSet(Upto(i))
                      /\ Cardinality(Upto(i)) \in Nat /\ Cardinality(Upto(i)) <= Cardinality(I)
    OBVIOUS
  <2>1. Upto(i) \in SUBSET I
    OBVIOUS
  <2> HIDE DEF Upto
  <2> QED  BY <1>1, <2>1, FS_Subset, FS_CardinalityType
<1>3. \A i \in I : Place(f, I, i, t) = Cardinality(Upto(i))
  BY DEF Place
<1>4. \A i \in I : Cardinality(Upto(i)) # 0
  <2>1. \A i \in I : Upto(i) # {}
    OBVIOUS
  <2> HIDE DEF Upto
  <2> QED  BY <1>2, <2>1, FS_EmptySet
<1>5. \A i, j \in I : Precedes(f, i, j, t) => Cardinality(Upto(i)) < Cardinality(Upto(j))
  <2> SUFFICES ASSUME NEW i \in I, NEW j \in I, Precedes(f, i, j, t)
               PROVE  Cardinality(Upto(i)) < Cardinality(Upto(j))
    OBVIOUS
  <2>1. Upto(i) \in SUBSET Upto(j)
    BY PrecedesIsOrder
  <2>2. j \in Upto(j) /\ j \notin Upto(i)
    BY PrecedesIsOrder
  <2> HIDE DEF Upto
  <2>3. /\ Cardinality(Upto(i)) <= Cardinality(Upto(j))
        /\ Cardinality(Upto(i)) # Cardinality(Upto(j))
    BY <1>2, <2>1, <2>2, FS_Subset
  <2> QED  BY <1>2, <2>3
<1> HIDE DEF Upto
<1>6. \A i \in I : Place(f, I, i, t) \in 1..Cardinality(I)
  BY <1>1, <1>2, <1>3, <1>4
<1> DEFINE place == [i \in I |-> Place(f, I, i, t)]
<1>7. place \in Injection(I, 1..Cardinality(I))
  <2>1. \A i, j \in I : place[i] = place[j] => i = j
    BY <1>2, <1>3, <1>5, PrecedesIsOrder
  <2> QED  BY <1>6, <2>1 DEF Injection, IsInjective
<1>8. place \in Surjection(I, 1..Cardinality(I))
  <2>1. IsFiniteSet(1..Cardinality(I)) /\ Cardinality(1..Cardinality(I)) = Cardinality(I)
    BY <1>1, FS_Interval
  <2> QED  BY <1>7, <2>1, FS_Injection
<1>9. \A k \in 1..Cardinality(I) : \E i \in I : Place(f, I, i, t) = k
  BY <1>8 DEF Surjection
<1> QED  BY <1>1, <1>2, <1>3, <1>5, <1>6, <1>9

(* What is sorted is there once, in order.                                 *)
LEMMA SortedIsSorted ==
  ASSUME NEW f \in Feeds, NEW t \in 0..MaxNow, NEW I \in SUBSET DOMAIN f
  PROVE  /\ Cardinality(I) \in Nat /\ DOMAIN Sorted(f, I, t) = 1..Cardinality(I)
         /\ Sorted(f, I, t) \in Seq({f[i] : i \in DOMAIN f})
         /\ \A k \in 1..Cardinality(I) :
              \E i \in I : Place(f, I, i, t) = k /\ Sorted(f, I, t)[k] = f[i]
         /\ \A i, j \in I : Place(f, I, i, t) = Place(f, I, j, t) => i = j
         /\ \A i, j \in I : Place(f, I, i, t) < Place(f, I, j, t) => Precedes(f, i, j, t)
<1>1. /\ Cardinality(I) \in Nat
      /\ \A i \in I : Place(f, I, i, t) \in 1..Cardinality(I)
      /\ \A i, j \in I : Precedes(f, i, j, t) => Place(f, I, i, t) < Place(f, I, j, t)
      /\ \A k \in 1..Cardinality(I) : \E i \in I : Place(f, I, i, t) = k
  BY PlacesAreTaken
<1>2. \A i, j \in I : i = j \/ Precedes(f, i, j, t) \/ Precedes(f, j, i, t)
  BY PrecedesIsOrder
<1>3. /\ \A i, j \in I : Place(f, I, i, t) = Place(f, I, j, t) => i = j
      /\ \A i, j \in I : Place(f, I, i, t) < Place(f, I, j, t) => Precedes(f, i, j, t)
  BY <1>1, <1>2
<1>4. \A k \in 1..Cardinality(I) :
        \E i \in I : Place(f, I, i, t) = k /\ Sorted(f, I, t)[k] = f[i]
  BY <1>1 DEF Sorted
<1>5. /\ DOMAIN Sorted(f, I, t) = 1..Cardinality(I)
      /\ Sorted(f, I, t) = [k \in 1..Cardinality(I) |-> Sorted(f, I, t)[k]]
  BY DEF Sorted
<1>6. \A k \in 1..Cardinality(I) : Sorted(f, I, t)[k] \in {f[i] : i \in DOMAIN f}
  BY <1>4
<1> HIDE DEF Sorted
<1>7. Sorted(f, I, t) \in Seq({f[i] : i \in DOMAIN f})
  BY <1>1, <1>5, <1>6
<1> QED  BY <1>1, <1>3, <1>4, <1>5, <1>7

(* What is selected is what was sorted, up to the limit.                   *)
LEMMA SelectedIsPrefix ==
  ASSUME NEW f \in Feeds, NEW q \in Queries, NEW t \in 0..MaxNow
  PROVE  LET sorted == Sorted(f, Wanted(f, q, t), t)
             n      == Len(Select(f, q, t))
         IN  /\ sorted \in Seq({f[i] : i \in DOMAIN f}) /\ n \in Nat
             /\ Select(f, q, t) \in Seq({f[i] : i \in DOMAIN f})
             /\ \A k \in 1..n : Select(f, q, t)[k] = sorted[k]
             /\ n <= Len(sorted) /\ (n # 0 => n <= q.limit)
             /\ n < Len(sorted) /\ n # 0 => n = q.limit
<1> DEFINE sorted == Sorted(f, Wanted(f, q, t), t)
           given  == {f[i] : i \in DOMAIN f}
           n      == IF q.limit > Len(sorted) THEN Len(sorted)
                     ELSE IF q.limit < 0 THEN 0 ELSE q.limit
<1>1. sorted \in Seq(given)
  <2>1. Wanted(f, q, t) \in SUBSET DOMAIN f
    BY DEF Wanted
  <2> QED  BY <2>1, SortedIsSorted
<1>2. Select(f, q, t) = SubSeq(sorted, 1, n)
  BY DEF Select, UpTo
<1> HIDE DEF sorted, given
<1>3. q.limit \in Int /\ Len(sorted) \in Nat
  BY <1>1, QueryAssumption
<1>4. n \in Nat /\ n <= Len(sorted) /\ (n # 0 => n <= q.limit) /\ (n < Len(sorted) /\ n # 0 => n = q.limit)
  BY <1>3
<1> HIDE DEF n
<1>5. /\ SubSeq(sorted, 1, n) \in Seq(given) /\ Len(SubSeq(sorted, 1, n)) = n
      /\ \A k \in 1..n : SubSeq(sorted, 1, n)[k] = sorted[k]
  BY <1>1, <1>3, <1>4
<1> QED  BY <1>1, <1>2, <1>4, <1>5 DEF sorted, given

(* What detection gives are events of the feed.                            *)
LEMMA DetectionGivesEvents ==
  ASSUME NEW f \in Feeds, NEW q \in Queries, NEW t \in 0..MaxNow
  PROVE  /\ Events(f, q, t) \in Seq(GivenEvents)
         /\ \A i \in DOMAIN Events(f, q, t) :
              \E j \in DOMAIN f : Events(f, q, t)[i] = ToEvent(f[j], t)
<1> DEFINE selected == Select(f, q, t)
<1>1. selected \in Seq({f[i] : i \in DOMAIN f})
  BY SelectedIsPrefix
<1>2. Events(f, q, t) = [i \in DOMAIN selected |-> ToEvent(selected[i], t)]
  BY DEF Events
<1> HIDE DEF selected
<1>3. DOMAIN selected = 1..Len(selected) /\ Len(selected) \in Nat
  BY <1>1
<1>4. \A i \in DOMAIN selected : \E j \in DOMAIN f : selected[i] = f[j]
  BY <1>1
<1>5. \A i \in DOMAIN f : f[i] \in Records
  BY DEF Records
<1>6. \A i \in DOMAIN selected : ToEvent(selected[i], t) \in GivenEvents
  BY <1>4, <1>5 DEF GivenEvents
<1>7. Events(f, q, t) \in Seq(GivenEvents)
  BY <1>2, <1>3, <1>6
<1> QED  BY <1>2, <1>4, <1>7

(* An event with a rule has a count of its own.                            *)
LEMMA GivenEventHasKey ==
  ASSUME NEW e \in GivenEvents, HasRule(e)
  PROVE  CountKey(e) \in Keys
<1>1. PICK rec \in Records, t \in 0..MaxNow : e = ToEvent(rec, t)
  BY DEF GivenEvents
<1>2. HasRule(rec) /\ CountKey(e) = CountKey(rec)
  BY <1>1 DEF ToEvent, HasRule, CountKey, Rule
<1> QED  BY <1>2 DEF Keys

LEMMA GivenEventIsValid ==
  ASSUME NEW e \in GivenEvents
  PROVE  EventIsValid(e)
<1>1. PICK rec \in Records, t \in 0..MaxNow : e = ToEvent(rec, t)
  BY DEF GivenEvents
<1>2. e.occurred = OccurredAt(rec, t)
  BY <1>1 DEF ToEvent
<1>3. OccurredAt(rec, t) \in Int \cup {BadTime}
  BY FeedAssumption, SweepAssumption DEF OccurredAt
<1> QED  BY <1>2, <1>3 DEF EventIsValid

(* The event in hand is one of the batch.                                  *)
LEMMA CurrentIsGiven ==
  ASSUME Shaped, NEW c \in Calls, Placed(c), pc[c] \in OnEvent
  PROVE  /\ At(c) \in DOMAIN batch[c] /\ At(c) \in Positions
         /\ Current(c) \in GivenEvents
         /\ pc[c] \in Underway => CountKey(Current(c)) \in Keys
<1>1. /\ batch[c] \in Seq(GivenEvents) /\ Len(trail[c]) \in Nat
      /\ Len(trail[c]) < Len(batch[c])
  BY DEF Shaped, Placed
<1>2. At(c) \in 1..Len(batch[c])
  BY <1>1 DEF At
<1>3. Current(c) \in GivenEvents
  BY <1>1, <1>2 DEF Current
<1>4. pc[c] \in Underway => HasRule(Current(c))
  BY DEF Placed, Fired, TriggerReason
<1> QED  BY <1>1, <1>2, <1>3, <1>4, GivenEventHasKey DEF Positions

(* The position a sweep is at is one past its trail.                       *)
LEMMA PositionOf ==
  ASSUME Shaped, NEW c \in Calls
  PROVE  /\ Len(trail[c]) \in Nat /\ DOMAIN trail[c] = 1..Len(trail[c])
         /\ Len(batch[c]) \in Nat /\ DOMAIN batch[c] = 1..Len(batch[c])
         /\ Len(handed[c]) \in Nat /\ DOMAIN handed[c] = 1..Len(handed[c])
         /\ At(c) \in Positions /\ At(c) = Len(trail[c]) + 1
         /\ Result(c) \in Positions /\ Result(c) = Len(handed[c]) + 1
<1>1. trail[c] \in Seq(Verdicts) /\ batch[c] \in Seq(GivenEvents) /\ handed[c] \in Seq(Outcomes)
  BY DEF Shaped
<1> QED  BY <1>1 DEF At, Result, Positions

-----------------------------------------------------------------------------
LEMMA TypedInit == Init => Typed
<1> SUFFICES ASSUME Init  PROVE Typed
  OBVIOUS
<1>1. Shaped
  BY SweepAssumption DEF Init, Shaped, PCs
<1>2. ASSUME NEW c \in Calls  PROVE Placed(c)
  BY DEF Init, Placed, Unbound, Early, Underway, OnEvent, Ended
<1> QED  BY <1>1, <1>2 DEF Typed

LEMMA ShapedRun ==
  ASSUME Typed, NEW c \in Calls, Start(c) \/ Run(c) \/ OwnCrash(c)
  PROVE  Shaped'
<1> USE DEF Shaped, PCs, Ended, Go, Raise, inputs, progress, world, store
<1>0. Shaped /\ Placed(c)
  BY DEF Typed
<1>1. CASE Start(c)
  BY <1>0, <1>1 DEF Start
<1>2. CASE Bind(c)
  <2>1. CASE BindOwn(c) \/ BindMissed(c)
    <3>1. adapter' = [adapter EXCEPT ![c] = c]
      BY <2>1 DEF BindOwn, BindMissed
    <3>2. adapter' \in [Calls -> Calls \cup {NoAdapter}]
      BY <1>0, <3>1
    <3>3. pc' \in [Calls -> PCs]
      BY <1>0, <2>1 DEF BindOwn, BindMissed
    <3> QED  BY <1>0, <2>1, <3>2, <3>3 DEF BindOwn, BindMissed
  <2>2. CASE BindCached(c)
    BY <1>0, <2>2 DEF BindCached
  <2>3. CASE BindStored(c)
    BY <1>0, <2>3 DEF BindStored
  <2> QED  BY <1>2, <2>1, <2>2, <2>3 DEF Bind
<1>3. CASE ReadMoment(c)
  BY <1>0, <1>3 DEF ReadMoment
<1>4. CASE Detect(c)
  <2>1. query[c] \in Queries /\ now \in 0..MaxNow
    BY <1>0, <1>4 DEF Placed, Detect
  <2>2. PICK f \in Feeds :
          /\ feed' = [feed EXCEPT ![c] = f]
          /\ IF Readable(f)
             THEN /\ batch' = [batch EXCEPT ![c] = Events(f, query[c], now)]
                  /\ Go(c, IF Events(f, query[c], now) = <<>> THEN "done" ELSE "decide")
             ELSE Raise(c) /\ UNCHANGED batch
    BY <1>4 DEF Detect
  <2>3. Events(f, query[c], now) \in Seq(GivenEvents)
    BY <2>1, DetectionGivesEvents
  <2>4. batch' \in [Calls -> Seq(GivenEvents)] /\ pc' \in [Calls -> PCs]
    BY <1>0, <2>2, <2>3
  <2> QED  BY <1>0, <1>4, <2>2, <2>4 DEF Detect
<1>5. CASE Decide(c) \/ Prepare(c) \/ AuditRaises(c)
  BY <1>0, <1>5 DEF Decide, Prepare, AuditRaises, Conclude, Verdicts
<1>6. CASE Deliver(c)
  <2>1. At(c) \in Positions
    BY <1>0, <1>6, CurrentIsGiven DEF Deliver, OnEvent, Underway
  <2> QED  BY <1>0, <1>6, <2>1 DEF Deliver
<1>7. CASE ReadCount(c)
  <2>1. CountKey(Current(c)) \in Keys /\ adapter[c] \in Calls
    BY <1>0, <1>7, CurrentIsGiven DEF ReadCount, Placed, OnEvent, Underway, Unbound, Ended
  <2> QED  BY <1>0, <1>7, <2>1 DEF ReadCount
<1>8. CASE WriteCount(c)
  <2>1. CountKey(Current(c)) \in Keys /\ adapter[c] \in Calls /\ At(c) \in Positions
    BY <1>0, <1>8, CurrentIsGiven DEF WriteCount, Placed, OnEvent, Underway, Unbound, Ended
  <2>2. counter' \in [Calls -> [Keys -> Nat]]
    <3> DEFINE row == [counter[adapter[c]] EXCEPT ![CountKey(Current(c))] = seen[c] + 1]
    <3>1. row \in [Keys -> Nat]
      BY <1>0, <2>1
    <3>2. counter' = [counter EXCEPT ![adapter[c]] = row]
      BY <1>8 DEF WriteCount
    <3> HIDE DEF row
    <3> QED  BY <1>0, <3>1, <3>2
  <2>3. ledger' \in [Calls -> SUBSET (Calls \X Positions)]
    <3> DEFINE told == ledger[adapter[c]] \cup {<<c, At(c)>>}
    <3>1. told \subseteq Calls \X Positions
      BY <1>0, <2>1
    <3>2. ledger' = [ledger EXCEPT ![adapter[c]] = told]
      BY <1>8 DEF WriteCount
    <3> HIDE DEF told
    <3> QED  BY <1>0, <3>1, <3>2
  <2> QED  BY <1>0, <1>8, <2>2, <2>3 DEF WriteCount, Conclude, Verdicts
<1>9. CASE RecordDecision(c)
  BY <1>0, <1>9 DEF RecordDecision, Placed
<1>10. CASE Route(c)
  <2>1. PICK outcome \in Outcomes : HandOn(c, outcome)
    BY <1>10 DEF Route, RouteNothing, RouteHeld, RouteFails, Outcomes
  <2>2. handed' \in [Calls -> Seq(Outcomes)]
    BY <1>0, <2>1 DEF HandOn, Report
  <2>3. Result(c) \in Positions
    BY <1>0 DEF Result, Positions
  <2>4. queue' \subseteq Calls \X Positions
    BY <1>0, <1>10, <2>3 DEF Route, RouteNothing, RouteHeld, RouteFails
  <2> QED  BY <1>0, <2>1, <2>2, <2>4 DEF HandOn
<1>11. CASE OwnCrash(c)
  BY <1>0, <1>11 DEF OwnCrash
<1> QED  BY <1>1, <1>2, <1>3, <1>4, <1>5, <1>6, <1>7, <1>8, <1>9, <1>10,
            <1>11 DEF Run, Evaluate

(* What a sweep keeps while another one moves.                             *)
Unmoved(d) ==
  /\ pc'[d] = pc[d] /\ surface'[d] = surface[d] /\ query'[d] = query[d]
  /\ feed'[d] = feed[d] /\ moment'[d] = moment[d] /\ batch'[d] = batch[d]
  /\ verdict'[d] = verdict[d] /\ seen'[d] = seen[d] /\ trail'[d] = trail[d]
  /\ handed'[d] = handed[d] /\ adapter'[d] = adapter[d]

LEMMA OthersUnmoved ==
  ASSUME Shaped, NEW c \in Calls, NEW d \in Calls \ {c},
         Start(c) \/ Run(c) \/ OwnCrash(c)
  PROVE  Unmoved(d)
<1> USE DEF Shaped, Unmoved, Go, Raise, Conclude, inputs, progress, world, store
<1>1. CASE Start(c)
  BY <1>1 DEF Start
<1>2. CASE Bind(c) \/ ReadMoment(c)
  BY <1>2 DEF Bind, BindOwn, BindCached, BindMissed, BindStored, ReadMoment
<1>3. CASE Detect(c)
  BY <1>3 DEF Detect
<1>4. CASE Decide(c) \/ Prepare(c) \/ AuditRaises(c)
  BY <1>4 DEF Decide, Prepare, AuditRaises
<1>5. CASE Deliver(c) \/ ReadCount(c) \/ WriteCount(c)
  BY <1>5 DEF Deliver, ReadCount, WriteCount
<1>6. CASE RecordDecision(c)
  BY <1>6 DEF RecordDecision
<1>7. CASE Route(c)
  BY <1>7 DEF Route, RouteNothing, RouteHeld, RouteFails, HandOn, Report
<1>8. CASE OwnCrash(c)
  BY <1>8 DEF OwnCrash
<1> QED  BY <1>1, <1>2, <1>3, <1>4, <1>5, <1>6, <1>7, <1>8 DEF Run, Evaluate

LEMMA PlacedRun ==
  ASSUME Typed, NEW c \in Calls, Start(c) \/ Run(c) \/ OwnCrash(c)
  PROVE  Placed(c)'
<1>0. Shaped /\ Placed(c) /\ Shaped'
  BY ShapedRun DEF Typed
<1> USE DEF Placed, Unbound, Early, Underway, OnEvent, Ended, Go, Raise,
            inputs, progress, world, store
<1>1. CASE Start(c)
  BY <1>0, <1>1 DEF Start, Shaped
<1>2. CASE Bind(c)
  BY <1>0, <1>2 DEF Bind, BindOwn, BindCached, BindMissed, BindStored, Shaped
<1>3. CASE ReadMoment(c)
  BY <1>0, <1>3 DEF ReadMoment, Shaped
<1>4. CASE Detect(c)
  <2>1. /\ trail[c] = <<>> /\ handed[c] = <<>> /\ verdict[c] = "none"
        /\ trail'[c] = trail[c] /\ handed'[c] = handed[c]
        /\ Len(batch[c]) = 0 /\ verdict'[c] = verdict[c]
        /\ adapter[c] \in Calls /\ adapter' = adapter
        /\ query' = query /\ surface' = surface
        /\ query[c] \in Queries /\ surface[c] \in {"api", "own"}
    BY <1>0, <1>4 DEF Detect, Shaped
  <2>2. /\ batch'[c] \in Seq(GivenEvents)
        /\ \/ pc'[c] = "done" /\ batch'[c] = <<>>
           \/ pc'[c] = "decide" /\ batch'[c] # <<>>
           \/ pc'[c] = "raised"
    BY <1>0, <1>4 DEF Detect, Shaped
  <2> QED  BY <2>1, <2>2
<1>5. CASE Decide(c)
  <2>1. /\ pc[c] = "decide" /\ UNCHANGED <<inputs, trail, handed, adapter>>
        /\ \/ /\ pc'[c] = "prepare" /\ verdict'[c] = "open"
              /\ Fired(Current(c), moment[c])
           \/ pc'[c] = "audit" /\ verdict'[c] \in Verdicts
    BY <1>0, <1>5 DEF Decide, Conclude, EligibleNow, Shaped, Verdicts
  <2> QED  BY <1>0, <2>1 DEF Current, At
<1>6. CASE Prepare(c)
  BY <1>0, <1>6 DEF Prepare, Conclude, Shaped, Verdicts, Current, At
<1>7. CASE Deliver(c) \/ ReadCount(c) \/ AuditRaises(c)
  BY <1>0, <1>7 DEF Deliver, ReadCount, AuditRaises, Shaped, Current, At
<1>8. CASE WriteCount(c)
  BY <1>0, <1>8 DEF WriteCount, Conclude, Shaped, Verdicts
<1>9. CASE RecordDecision(c)
  <2>1. /\ pc[c] = "audit" /\ UNCHANGED <<inputs, handed, adapter>>
        /\ trail'[c] = Append(trail[c], verdict[c]) /\ verdict'[c] = "none"
        /\ pc'[c] = IF At(c) < Len(batch[c]) THEN "decide" ELSE "route"
    BY <1>0, <1>9 DEF RecordDecision, Shaped
  <2>2. /\ trail[c] \in Seq(Verdicts) /\ verdict[c] \in Verdicts
        /\ batch[c] \in Seq(GivenEvents) /\ Len(trail[c]) < Len(batch[c])
        /\ handed[c] = <<>>
    BY <1>0, <2>1 DEF Shaped
  <2>3. Len(trail'[c]) = Len(trail[c]) + 1 /\ Len(trail[c]) \in Nat /\ Len(batch[c]) \in Nat
    BY <2>1, <2>2
  <2>4. /\ Len(trail'[c]) = At(c) /\ At(c) \in Positions /\ At(c) <= Len(batch[c])
    BY <2>2, <2>3 DEF At, Positions
  <2> QED  BY <1>0, <2>1, <2>2, <2>3, <2>4
<1>10. CASE Route(c)
  <2>1. PICK outcome \in Outcomes : HandOn(c, outcome) /\ pc[c] = "route"
    BY <1>10 DEF Route, RouteNothing, RouteHeld, RouteFails, Outcomes
  <2> QED  BY <1>0, <2>1 DEF HandOn, Report, Result, Shaped
<1>11. CASE OwnCrash(c)
  BY <1>0, <1>11 DEF OwnCrash, InFlight, Shaped
<1> QED  BY <1>1, <1>2, <1>3, <1>4, <1>5, <1>6, <1>7, <1>8, <1>9, <1>10,
            <1>11 DEF Run, Evaluate

LEMMA TypedNext == Typed /\ [Next]_vars => Typed'
<1> SUFFICES ASSUME Typed, [Next]_vars  PROVE Typed'
  OBVIOUS
<1>1. ASSUME NEW c \in Calls, Start(c) \/ Run(c) \/ OwnCrash(c)
      PROVE  Typed'
  <2>1. Shaped'
    BY <1>1, ShapedRun
  <2>2. ASSUME NEW d \in Calls \ {c}  PROVE Placed(d)'
    <3>1. Unmoved(d)
      BY <1>1, OthersUnmoved DEF Typed
    <3> QED  BY <3>1 DEF Unmoved, Typed, Placed, Current, At
  <2> QED  BY <1>1, <2>1, <2>2, PlacedRun DEF Typed
<1>2. CASE ApiCrash
  <2>1. Shaped'
    BY <1>2 DEF ApiCrash, Typed, Shaped, PCs, Ended, inputs, progress, store
  <2>2. ASSUME NEW d \in Calls  PROVE Placed(d)'
    BY <1>2 DEF ApiCrash, Typed, Shaped, Placed, Unbound, Early, Underway, OnEvent,
                Ended, InFlight, inputs, progress, store, Current, At
  <2> QED  BY <2>1, <2>2 DEF Typed
<1>3. CASE ClockTick
  BY <1>3, SweepAssumption
     DEF ClockTick, Typed, Shaped, Placed, Current, At, inputs, progress, world, store
<1>4. CASE UNCHANGED vars
  BY <1>4 DEF vars, Typed, Shaped, Placed, Current, At, inputs, progress, world, store
<1> QED  BY <1>1, <1>2, <1>3, <1>4 DEF Next, Finished

(* The state of the sweeps keeps its type.                                 *)
THEOREM SweepTypeCorrect == Spec => []TypeOK
<1>1. ASSUME Typed  PROVE TypeOK
  <2>1. ASSUME NEW c \in Calls, NEW i \in DOMAIN batch[c]
        PROVE  EventIsValid(batch[c][i])
    BY <1>1, GivenEventIsValid DEF Typed, Shaped
  <2> QED  BY <1>1, <2>1, SweepAssumption DEF Typed, Shaped, Placed, TypeOK
<1> QED  BY <1>1, TypedInit, TypedNext, PTL DEF Spec

-----------------------------------------------------------------------------
(* The trail says "delivered" of exactly the messages that left, and only  *)
(* the event in hand may have left without the trail saying so yet.        *)
Told(c) ==
  /\ \A i \in Positions :
       /\ <<c, i>> \in sent => pc[c] \notin Early /\ i <= At(c) /\ i <= Len(batch[c])
       /\ i \in DOMAIN trail[c] => (trail[c][i] = "delivered" <=> <<c, i>> \in sent)
  /\ pc[c] \in {"decide", "prepare", "deliver"} => <<c, At(c)>> \notin sent
  /\ pc[c] \in {"read", "write"} => <<c, At(c)>> \in sent
  /\ pc[c] = "audit" => (verdict[c] = "delivered" <=> <<c, At(c)>> \in sent)

(* The response says of each result handed on what became of it.           *)
Answered(c) ==
  \A i \in Positions :
    /\ <<c, i>> \in queue => i \in DOMAIN handed[c] /\ handed[c][i] \in {"routed", "failed"}
    /\ i \in DOMAIN handed[c] =>
         /\ handed[c][i] = "routed" => <<c, i>> \in queue
         /\ trail[c][i] = "held" <=> handed[c][i] # "not_required"

Reported == \A c \in Calls : Told(c) /\ Answered(c)

LEMMA ToldRun ==
  ASSUME Typed, NEW c \in Calls, Told(c), Start(c) \/ Run(c) \/ OwnCrash(c)
  PROVE  Told(c)'
<1>0. Shaped /\ Placed(c) /\ Shaped' /\ Placed(c)'
  BY ShapedRun, PlacedRun DEF Typed
<1> USE DEF Told, Early, Unbound, Go, Raise, At, inputs, progress, world, store
<1>1. CASE Start(c) \/ Bind(c) \/ ReadMoment(c)
  BY <1>0, <1>1 DEF Start, Bind, BindOwn, BindCached, BindMissed, BindStored,
                    ReadMoment, Shaped
<1>2. CASE Detect(c)
  <2>1. /\ pc[c] = "detect" /\ UNCHANGED <<trail, verdict, sent>>
        /\ pc'[c] \in {"done", "decide", "raised"}
        /\ \A i \in Positions : <<c, i>> \notin sent
    BY <1>0, <1>2 DEF Detect, Shaped
  <2>2. At(c) \in Positions /\ trail'[c] = trail[c]
    BY <1>0, <2>1, PositionOf
  <2> QED  BY <1>0, <2>1, <2>2
<1>3. CASE Decide(c) \/ Prepare(c)
  <2>1. /\ pc[c] \in {"decide", "prepare"} /\ UNCHANGED <<batch, trail, sent>>
        /\ \/ pc'[c] \in {"prepare", "deliver"}
           \/ pc'[c] = "audit" /\ verdict'[c] # "delivered"
    <3>1. CASE Decide(c)
      BY <1>0, <3>1 DEF Decide, Conclude, Shaped
    <3>2. CASE Prepare(c)
      BY <1>0, <3>2 DEF Prepare, Conclude, Shaped
    <3> QED  BY <1>3, <3>1, <3>2
  <2> QED  BY <2>1
<1>4. CASE Deliver(c)
  <2>1. At(c) \in Positions /\ At(c) <= Len(batch[c])
    <3>1. pc[c] \in OnEvent
      BY <1>4 DEF Deliver, OnEvent, Underway
    <3> QED  BY <1>0, <3>1, CurrentIsGiven, PositionOf
  <2>2. /\ sent' = sent \cup {<<c, At(c)>>} /\ pc'[c] = "read" /\ pc[c] = "deliver"
        /\ UNCHANGED <<trail, verdict, batch>>
    BY <1>0, <1>4 DEF Deliver, Shaped
  <2>3. At(c) \notin DOMAIN trail[c]
    BY <1>0 DEF Shaped
  <2> QED  BY <1>0, <2>1, <2>2, <2>3
<1>5. CASE ReadCount(c) \/ AuditRaises(c)
  BY <1>0, <1>5 DEF ReadCount, AuditRaises, Shaped
<1>6. CASE WriteCount(c)
  BY <1>0, <1>6 DEF WriteCount, Conclude, Shaped
<1>7. CASE RecordDecision(c)
  <2>1. /\ pc[c] = "audit" /\ UNCHANGED <<batch, sent>>
        /\ trail'[c] = Append(trail[c], verdict[c])
        /\ pc'[c] \in {"decide", "route"}
    BY <1>0, <1>7 DEF RecordDecision, Shaped
  <2>2. trail[c] \in Seq(Verdicts) /\ verdict[c] \in Verdicts
    BY <1>0, <2>1 DEF Shaped, Placed
  <2>3. /\ Len(trail'[c]) = Len(trail[c]) + 1 /\ Len(trail[c]) \in Nat
        /\ DOMAIN trail'[c] = 1..At(c) /\ DOMAIN trail[c] = 1..Len(trail[c])
        /\ trail'[c][At(c)] = verdict[c]
        /\ \A i \in DOMAIN trail[c] : trail'[c][i] = trail[c][i]
    BY <2>1, <2>2
  <2>4. At(c) \in Positions /\ At(c) + 1 \in Positions
    BY <2>3 DEF Positions
  <2>5. At(c)' = At(c) + 1
    BY <2>3
  <2>6. \A i \in Positions : i <= At(c) => i = At(c) \/ i \in DOMAIN trail[c]
    BY <2>3 DEF Positions
  <2>7. \A i \in Positions : i <= At(c) => i <= At(c) + 1 /\ i # At(c) + 1
    BY <2>3 DEF Positions
  <2> HIDE DEF At
  <2> QED  BY <1>0, <2>1, <2>3, <2>4, <2>5, <2>6, <2>7
<1>8. CASE Route(c)
  BY <1>0, <1>8 DEF Route, RouteNothing, RouteHeld, RouteFails, HandOn, Shaped
<1>9. CASE OwnCrash(c)
  BY <1>0, <1>9 DEF OwnCrash, InFlight, Shaped
<1> QED  BY <1>1, <1>2, <1>3, <1>4, <1>5, <1>6, <1>7, <1>8, <1>9 DEF Run, Evaluate

(* Nothing but its own steps concerns the messages and reviews of a sweep. *)
LEMMA OthersUntouched ==
  ASSUME NEW c \in Calls, NEW d \in Calls \ {c}, NEW i,
         Start(c) \/ Run(c) \/ OwnCrash(c)
  PROVE  /\ <<d, i>> \in sent' <=> <<d, i>> \in sent
         /\ <<d, i>> \in queue' <=> <<d, i>> \in queue
<1> USE DEF inputs, progress, world, store
<1>1. CASE Start(c) \/ Bind(c) \/ ReadMoment(c) \/ Detect(c)
  BY <1>1 DEF Start, Bind, BindOwn, BindCached, BindMissed, BindStored, ReadMoment, Detect
<1>2. CASE Evaluate(c)
  BY <1>2 DEF Evaluate, Decide, Prepare, Deliver, ReadCount, WriteCount, RecordDecision,
              AuditRaises
<1>3. CASE Route(c)
  BY <1>3 DEF Route, RouteNothing, RouteHeld, RouteFails, HandOn
<1>4. CASE OwnCrash(c)
  BY <1>4 DEF OwnCrash
<1> QED  BY <1>1, <1>2, <1>3, <1>4 DEF Run

LEMMA AnsweredRun ==
  ASSUME Typed, NEW c \in Calls, Answered(c), Start(c) \/ Run(c) \/ OwnCrash(c)
  PROVE  Answered(c)'
<1>0. Shaped /\ Placed(c)
  BY DEF Typed
<1> USE DEF Answered, Go, Raise, inputs, progress, world, store
<1>1. CASE Start(c) \/ Bind(c) \/ ReadMoment(c) \/ Detect(c)
  BY <1>1 DEF Start, Bind, BindOwn, BindCached, BindMissed, BindStored, ReadMoment, Detect
<1>2. CASE Decide(c) \/ Prepare(c) \/ AuditRaises(c)
  BY <1>2 DEF Decide, Prepare, AuditRaises
<1>3. CASE Deliver(c) \/ ReadCount(c) \/ WriteCount(c)
  BY <1>3 DEF Deliver, ReadCount, WriteCount
<1>4. CASE RecordDecision(c)
  <2>1. handed[c] = <<>> /\ UNCHANGED <<handed, queue>>
    BY <1>0, <1>4 DEF RecordDecision, Placed, OnEvent
  <2>2. DOMAIN handed[c] = {}
    BY <1>0, <2>1, PositionOf
  <2> QED  BY <2>1, <2>2
<1>5. CASE Route(c)
  <2>1. PICK outcome \in Outcomes :
          /\ pc[c] = "route" /\ HandOn(c, outcome)
          /\ queue \subseteq queue' /\ queue' \subseteq queue \cup {<<c, Result(c)>>}
          /\ outcome = "routed" => <<c, Result(c)>> \in queue'
          /\ outcome = "not_required" => queue' = queue
          /\ IsHeld(c) <=> outcome # "not_required"
    BY <1>5 DEF Route, RouteNothing, RouteHeld, RouteFails, Outcomes
  <2>2. /\ handed'[c] = Append(handed[c], outcome) /\ handed[c] \in Seq(Outcomes)
        /\ trail' = trail
    BY <1>0, <2>1 DEF HandOn, Report, Shaped
  <2>3. /\ DOMAIN handed'[c] = 1..Result(c) /\ DOMAIN handed[c] = 1..Len(handed[c])
        /\ Result(c) = Len(handed[c]) + 1 /\ Len(handed[c]) \in Nat
        /\ handed'[c][Result(c)] = outcome
        /\ \A i \in DOMAIN handed[c] : handed'[c][i] = handed[c][i]
    BY <2>2 DEF Result
  <2>4. \A i \in Positions :
          /\ i \in DOMAIN handed'[c] <=> i = Result(c) \/ i \in DOMAIN handed[c]
          /\ i \in DOMAIN handed[c] => i # Result(c)
    BY <2>3 DEF Positions
  <2>5. \A i \in Positions : i # Result(c) => (<<c, i>> \in queue' <=> <<c, i>> \in queue)
    BY <2>1
  <2>6. outcome \in {"routed", "failed"} <=> outcome # "not_required"
    BY DEF Outcomes
  <2>7. Result(c) \in Positions /\ <<c, Result(c)>> \notin queue
    BY <1>0, <2>4, PositionOf
  <2>8. trail[c][Result(c)] = "held" <=> outcome # "not_required"
    BY <2>1 DEF IsHeld
  <2>9. <<c, Result(c)>> \in queue' => outcome \in {"routed", "failed"}
    BY <2>1, <2>6, <2>7
  <2>10. outcome = "routed" => <<c, Result(c)>> \in queue'
    BY <2>1
  <2> HIDE DEF Result
  <2> QED  BY <2>2, <2>3, <2>4, <2>5, <2>8, <2>9, <2>10
<1>6. CASE OwnCrash(c)
  BY <1>6 DEF OwnCrash
<1> QED  BY <1>1, <1>2, <1>3, <1>4, <1>5, <1>6 DEF Run, Evaluate

LEMMA ReportedInit == Init => Reported
  BY DEF Init, Reported, Told, Answered, Positions, At

LEMMA ReportedNext == Typed /\ Reported /\ [Next]_vars => Reported'
<1> SUFFICES ASSUME Typed, Reported, [Next]_vars  PROVE Reported'
  OBVIOUS
<1>1. ASSUME NEW c \in Calls, Start(c) \/ Run(c) \/ OwnCrash(c)
      PROVE  Reported'
  <2>1. ASSUME NEW d \in Calls \ {c}  PROVE Told(d)' /\ Answered(d)'
    <3>1. Unmoved(d)
      BY <1>1, OthersUnmoved DEF Typed
    <3>2. \A i : /\ <<d, i>> \in sent' <=> <<d, i>> \in sent
                 /\ <<d, i>> \in queue' <=> <<d, i>> \in queue
      BY <1>1, OthersUntouched
    <3>3. Told(d)'
      BY <3>1, <3>2 DEF Unmoved, Reported, Told, At
    <3>4. Answered(d)'
      BY <3>1, <3>2 DEF Unmoved, Reported, Answered
    <3> QED  BY <3>3, <3>4
  <2> QED  BY <1>1, <2>1, ToldRun, AnsweredRun DEF Reported
<1>2. CASE ApiCrash
  BY <1>2 DEF ApiCrash, Typed, Shaped, Reported, Told, Answered, Early, Unbound, At,
              InFlight, Ended, inputs, progress, store
<1>3. CASE ClockTick \/ UNCHANGED vars
  BY <1>3 DEF ClockTick, vars, Reported, Told, Answered, At, inputs, progress, world, store
<1> QED  BY <1>1, <1>2, <1>3 DEF Next, Finished

(* A sweep that answers says of each result what became of it.             *)
THEOREM ResultsSayWhatBecame == Spec => []EachResultSaysItsOwnRouting
<1>1. ASSUME Typed, Reported  PROVE EachResultSaysItsOwnRouting
  <2> SUFFICES ASSUME NEW c \in Calls, pc[c] = "done"
               PROVE  /\ Len(trail[c]) = Len(batch[c]) /\ Len(handed[c]) = Len(batch[c])
                      /\ \A i \in DOMAIN batch[c] :
                           /\ trail[c][i] = "held" <=> handed[c][i] # "not_required"
                           /\ trail[c][i] = "delivered" <=> <<c, i>> \in sent
                           /\ handed[c][i] = "routed" => <<c, i>> \in queue
                           /\ <<c, i>> \in queue => handed[c][i] \in {"routed", "failed"}
    BY DEF EachResultSaysItsOwnRouting
  <2>1. /\ Len(trail[c]) = Len(batch[c]) /\ Len(handed[c]) = Len(batch[c])
        /\ Told(c) /\ Answered(c)
    BY <1>1 DEF Typed, Placed, Reported
  <2>2. /\ DOMAIN trail[c] = DOMAIN batch[c] /\ DOMAIN handed[c] = DOMAIN batch[c]
        /\ \A i \in DOMAIN batch[c] : i \in Positions
    BY <1>1, <2>1, PositionOf DEF Typed, Positions
  <2> QED  BY <2>1, <2>2 DEF Told, Answered
<1> QED  BY <1>1, TypedInit, TypedNext, ReportedInit, ReportedNext, PTL DEF Spec

-----------------------------------------------------------------------------
CountedOf(a, k) == {p \in ledger[a] : KeyOf(p) = k}

InHand(c) == CountKey(Current(c))

(* An adapter counts at most what it was told of, and a writer holds no    *)
(* higher count: its own message is not yet among them.                    *)
Tallied(a) ==
  /\ IsFiniteSet(ledger[a]) /\ ledger[a] \subseteq sent
  /\ \A k \in Keys : counter[a][k] <= Cardinality(CountedOf(a, k))

Held(c) ==
  /\ pc[c] \in {"read", "write"} => \A a \in Calls : <<c, At(c)>> \notin ledger[a]
  /\ pc[c] = "write" => seen[c] <= Cardinality(CountedOf(adapter[c], InHand(c)))

Truthful == \A c \in Calls : Tallied(c) /\ Held(c)

(* What a message was about never changes once it left.                    *)
LEMMA KeysStay ==
  ASSUME Typed, Reported, [Next]_vars, NEW p \in sent
  PROVE  KeyOf(p)' = KeyOf(p) /\ p \in sent'
<1>1. PICK d \in Calls, i \in Positions : p = <<d, i>>
  BY DEF Typed, Shaped
<1>2. pc[d] \notin Early
  BY <1>1 DEF Reported, Told
<1>3. batch'[d] = batch[d] /\ p \in sent'
  <2> USE DEF inputs, progress, world, store
  <2>1. ASSUME NEW c \in Calls \ {d}, Start(c) \/ Run(c) \/ OwnCrash(c)
        PROVE  batch'[d] = batch[d] /\ p \in sent'
    <3>1. Unmoved(d)
      BY <2>1, OthersUnmoved DEF Typed
    <3>2. <<d, i>> \in sent' <=> <<d, i>> \in sent
      BY <2>1, OthersUntouched
    <3> QED  BY <1>1, <3>1, <3>2 DEF Unmoved
  <2>2. CASE Start(d) \/ Bind(d) \/ ReadMoment(d)
    BY <2>2 DEF Start, Bind, BindOwn, BindCached, BindMissed, BindStored, ReadMoment
  <2>3. ~Detect(d)
    BY <1>2 DEF Detect, Early
  <2>4. CASE Evaluate(d)
    BY <2>4 DEF Evaluate, Decide, Prepare, Deliver, ReadCount, WriteCount, RecordDecision,
                AuditRaises
  <2>5. CASE Route(d)
    BY <2>5 DEF Route, RouteNothing, RouteHeld, RouteFails, HandOn
  <2>6. CASE OwnCrash(d) \/ ApiCrash \/ ClockTick \/ UNCHANGED vars
    BY <2>6 DEF OwnCrash, ApiCrash, ClockTick, vars
  <2> QED  BY <2>1, <2>2, <2>3, <2>4, <2>5, <2>6 DEF Next, Finished, Run
<1> QED  BY <1>1, <1>3 DEF KeyOf

LEMMA TruthfulInit == Init => Truthful
<1> SUFFICES ASSUME Init, NEW c \in Calls  PROVE Tallied(c) /\ Held(c)
  BY DEF Truthful
<1>1. ledger[c] = {} /\ pc[c] = "new" /\ \A k \in Keys : counter[c][k] = 0
  BY DEF Init
<1>2. \A k \in Keys : CountedOf(c, k) = {}
  BY <1>1 DEF CountedOf
<1> QED  BY <1>1, <1>2, FS_EmptySet DEF Tallied, Held

(* Where nothing was written, the adapters are as they were.               *)
LEMMA TalliesStay ==
  ASSUME Typed, Reported, Truthful, [Next]_vars,
         NEW a \in Calls, ledger'[a] = ledger[a]
  PROVE  /\ \A k : CountedOf(a, k)' = CountedOf(a, k)
         /\ counter'[a] = counter[a] => Tallied(a)'
<1>1. ledger[a] \subseteq sent
  BY DEF Truthful, Tallied
<1>2. \A p \in ledger[a] : KeyOf(p)' = KeyOf(p) /\ p \in sent'
  BY <1>1, KeysStay
<1>3. \A k : CountedOf(a, k)' = CountedOf(a, k)
  BY <1>2 DEF CountedOf
<1> QED  BY <1>2, <1>3 DEF Truthful, Tallied

(* A write tells the adapter of one message more, and counts it.           *)
LEMMA WriteTells ==
  ASSUME Typed, Reported, Truthful, NEW c \in Calls, WriteCount(c)
  PROVE  /\ adapter[c] \in Calls /\ InHand(c) \in Keys /\ pc[c] = "write"
         /\ <<c, At(c)>> \notin ledger[adapter[c]] /\ <<c, At(c)>> \in sent
         /\ KeyOf(<<c, At(c)>>) = InHand(c)
         /\ ledger' = [ledger EXCEPT ![adapter[c]] = @ \cup {<<c, At(c)>>}]
         /\ counter' = [counter EXCEPT ![adapter[c]] = [@ EXCEPT ![InHand(c)] = seen[c] + 1]]
         /\ UNCHANGED <<batch, trail, sent, adapter>>
<1>1. /\ Shaped /\ Placed(c) /\ pc[c] \in OnEvent \cap Underway /\ pc[c] = "write"
  BY DEF WriteCount, Typed, OnEvent, Underway
<1>2. adapter[c] \in Calls /\ CountKey(Current(c)) \in Keys
  BY <1>1, CurrentIsGiven DEF Placed, Unbound, Ended
<1> QED  BY <1>1, <1>2
         DEF WriteCount, Truthful, Held, Reported, Told, KeyOf, Current, InHand,
             inputs, Typed

(* What a sweep holds it still holds while no adapter is told anything.    *)
LEMMA HeldStays ==
  ASSUME Typed, Reported, Truthful, [Next]_vars, ledger' = ledger,
         NEW d \in Calls, Unmoved(d) \/ pc'[d] \notin {"read", "write"}
  PROVE  Held(d)'
<1>1. CASE pc'[d] \notin {"read", "write"}
  BY <1>1 DEF Held
<1>2. CASE Unmoved(d) /\ pc'[d] \in {"read", "write"}
  <2>1. adapter[d] \in Calls /\ pc[d] = pc'[d] /\ adapter'[d] = adapter[d]
    BY <1>2 DEF Unmoved, Typed, Placed, Unbound, Ended
  <2>2. At(d)' = At(d) /\ InHand(d)' = InHand(d) /\ seen'[d] = seen[d]
    BY <1>2 DEF Unmoved, At, InHand, Current
  <2>3. \A k : CountedOf(adapter[d], k)' = CountedOf(adapter[d], k)
    BY <2>1, TalliesStay
  <2>4. CountedOf(adapter[d], InHand(d))' = CountedOf(adapter[d], InHand(d))
    BY <2>1, <2>2, <2>3 DEF CountedOf
  <2> QED  BY <2>1, <2>2, <2>4 DEF Truthful, Held
<1> QED  BY <1>1, <1>2

LEMMA WriteIsTruthful ==
  ASSUME Typed, Reported, Truthful, NEW c \in Calls, WriteCount(c)
  PROVE  Truthful'
<1> DEFINE a == adapter[c]
           p == <<c, At(c)>>
<1>1. /\ a \in Calls /\ InHand(c) \in Keys /\ p \notin ledger[a] /\ p \in sent
      /\ KeyOf(p) = InHand(c)
      /\ ledger' = [ledger EXCEPT ![a] = @ \cup {p}]
      /\ counter' = [counter EXCEPT ![a] = [@ EXCEPT ![InHand(c)] = seen[c] + 1]]
      /\ UNCHANGED <<batch, trail, sent, adapter>>
  BY WriteTells
<1>2. /\ ledger'[a] = ledger[a] \cup {p} /\ \A b \in Calls \ {a} : ledger'[b] = ledger[b]
      /\ counter[a] \in [Keys -> Nat] /\ seen[c] \in Nat
      /\ counter'[a] = [counter[a] EXCEPT ![InHand(c)] = seen[c] + 1]
      /\ \A b \in Calls \ {a} : counter'[b] = counter[b]
  BY <1>1 DEF Typed, Shaped
<1>3. \A q : KeyOf(q)' = KeyOf(q)
  BY <1>1 DEF KeyOf
<1>4. IsFiniteSet(ledger[a]) /\ ledger[a] \subseteq sent
  BY <1>1 DEF Truthful, Tallied
<1>5. ASSUME NEW b \in Calls, NEW k
      PROVE  /\ CountedOf(b, k)' = IF b = a /\ k = InHand(c) THEN CountedOf(b, k) \cup {p}
                                   ELSE CountedOf(b, k)
             /\ Cardinality(CountedOf(b, k)) \in Nat
             /\ p \notin CountedOf(a, k)
             /\ Cardinality(CountedOf(b, k)') =
                  IF b = a /\ k = InHand(c) THEN Cardinality(CountedOf(b, k)) + 1
                  ELSE Cardinality(CountedOf(b, k))
  <2>1. IsFiniteSet(CountedOf(b, k)) /\ Cardinality(CountedOf(b, k)) \in Nat
    <3>1. IsFiniteSet(ledger[b]) /\ CountedOf(b, k) \subseteq ledger[b]
      BY DEF Truthful, Tallied, CountedOf
    <3> QED  BY <3>1, FS_Subset, FS_CardinalityType
  <2>2. p \notin CountedOf(a, k)
    BY <1>1 DEF CountedOf
  <2>3. CountedOf(b, k)' = IF b = a /\ k = InHand(c) THEN CountedOf(b, k) \cup {p}
                          ELSE CountedOf(b, k)
    BY <1>1, <1>2, <1>3 DEF CountedOf
  <2> QED  BY <2>1, <2>2, <2>3, FS_AddElement
<1> HIDE DEF a, p
<1>6. seen[c] <= Cardinality(CountedOf(a, InHand(c)))
  BY WriteTells DEF Truthful, Held, a
<1>7. ASSUME NEW b \in Calls  PROVE Tallied(b)'
  <2>1. IsFiniteSet(ledger'[b]) /\ ledger'[b] \subseteq sent'
    <3>1. CASE b = a
      BY <1>1, <1>2, <1>4, <3>1, FS_AddElement
    <3>2. CASE b # a
      BY <1>1, <1>2, <3>2 DEF Truthful, Tallied
    <3> QED  BY <3>1, <3>2
  <2>2. ASSUME NEW k \in Keys  PROVE counter'[b][k] <= Cardinality(CountedOf(b, k)')
    <3>1. counter[b][k] <= Cardinality(CountedOf(b, k)) /\ counter[b][k] \in Nat
      BY DEF Truthful, Tallied, Typed, Shaped
    <3>2. counter'[b][k] = IF b = a /\ k = InHand(c) THEN seen[c] + 1 ELSE counter[b][k]
      BY <1>1, <1>2
    <3>3. CASE b = a /\ k = InHand(c)
      BY <1>2, <1>5, <1>6, <3>2, <3>3
    <3>4. CASE ~(b = a /\ k = InHand(c))
      BY <1>5, <3>1, <3>2, <3>4
    <3> QED  BY <3>3, <3>4
  <2> QED  BY <2>1, <2>2 DEF Tallied
<1>8. ASSUME NEW d \in Calls  PROVE Held(d)'
  <2>1. CASE d = c
    BY <2>1 DEF WriteCount, Conclude, Go, Typed, Shaped, Held
  <2>2. CASE d # c
    <3>1. Unmoved(d)
      BY <2>2, OthersUnmoved DEF Typed, Run, Evaluate
    <3>2. At(d)' = At(d) /\ InHand(d)' = InHand(d) /\ pc'[d] = pc[d]
          /\ seen'[d] = seen[d] /\ adapter'[d] = adapter[d]
      BY <3>1 DEF Unmoved, At, InHand, Current
    <3>3. \A b \in Calls : <<d, At(d)>> \in ledger'[b] => <<d, At(d)>> \in ledger[b]
      BY <1>2, <2>2 DEF p
    <3>4. CASE pc[d] = "write"
      <4>1. adapter[d] \in Calls /\ seen[d] \in Nat
        BY <3>4 DEF Typed, Shaped, Placed, Unbound, Ended
      <4>2. seen[d] <= Cardinality(CountedOf(adapter[d], InHand(d)))
        BY <3>4 DEF Truthful, Held
      <4>3. /\ Cardinality(CountedOf(adapter[d], InHand(d))) \in Nat
            /\ Cardinality(CountedOf(adapter[d], InHand(d))') \in Nat
            /\ Cardinality(CountedOf(adapter[d], InHand(d)))
                 <= Cardinality(CountedOf(adapter[d], InHand(d))')
        BY <1>5, <4>1, <3>2
      <4>4. seen'[d] <= Cardinality(CountedOf(adapter[d], InHand(d))')
        BY <3>2, <4>1, <4>2, <4>3
      <4>5. \A b \in Calls : <<d, At(d)>> \notin ledger[b]
        BY <3>4 DEF Truthful, Held
      <4> QED  BY <3>2, <3>3, <4>4, <4>5 DEF Held
    <3>5. CASE pc[d] # "write"
      BY <3>2, <3>3, <3>5 DEF Truthful, Held
    <3> QED  BY <3>4, <3>5
  <2> QED  BY <2>1, <2>2
<1> QED  BY <1>7, <1>8 DEF Truthful

(* Every other step of a sweep leaves the adapters alone, and only Deliver *)
(* and ReadCount lead to a read or a write of the count.                   *)
LEMMA OnlyWritesCount ==
  ASSUME Shaped, NEW c \in Calls, Start(c) \/ Run(c) \/ OwnCrash(c)
  PROVE  \/ WriteCount(c)
         \/ /\ UNCHANGED store
            /\ Deliver(c) \/ ReadCount(c) \/ pc'[c] \notin {"read", "write"}
<1> USE DEF Shaped, Go, Raise, inputs, progress, world, store
<1>1. CASE Start(c) \/ Bind(c) \/ ReadMoment(c)
  BY <1>1 DEF Start, Bind, BindOwn, BindCached, BindMissed, BindStored, ReadMoment
<1>2. CASE Detect(c)
  BY <1>2 DEF Detect
<1>3. CASE Decide(c) \/ Prepare(c)
  BY <1>3 DEF Decide, Prepare, Conclude
<1>4. CASE Deliver(c) \/ ReadCount(c)
  BY <1>4 DEF Deliver, ReadCount
<1>5. CASE RecordDecision(c) \/ AuditRaises(c)
  BY <1>5 DEF RecordDecision, AuditRaises
<1>6. CASE Route(c)
  BY <1>6 DEF Route, RouteNothing, RouteHeld, RouteFails, HandOn
<1>7. CASE OwnCrash(c)
  BY <1>7 DEF OwnCrash
<1> QED  BY <1>1, <1>2, <1>3, <1>4, <1>5, <1>6, <1>7 DEF Run, Evaluate

LEMMA TruthfulNext == Typed /\ Reported /\ Truthful /\ [Next]_vars => Truthful'
<1> SUFFICES ASSUME Typed, Reported, Truthful, [Next]_vars  PROVE Truthful'
  OBVIOUS
<1>1. ASSUME UNCHANGED store,
             \A d \in Calls : Unmoved(d) \/ pc'[d] \notin {"read", "write"} \/ Held(d)'
      PROVE  Truthful'
  <2>1. \A a \in Calls : Tallied(a)'
    BY <1>1, TalliesStay DEF store
  <2>2. \A d \in Calls : Held(d)'
    BY <1>1, HeldStays DEF store
  <2> QED  BY <2>1, <2>2 DEF Truthful
<1>2. ASSUME NEW c \in Calls, Start(c) \/ Run(c) \/ OwnCrash(c)
      PROVE  Truthful'
  <2>1. CASE WriteCount(c)
    BY <2>1, WriteIsTruthful
  <2>2. CASE UNCHANGED store /\ (Held(c)' \/ pc'[c] \notin {"read", "write"})
    <3>1. \A d \in Calls \ {c} : Unmoved(d)
      BY <1>2, OthersUnmoved DEF Typed
    <3> QED  BY <1>1, <2>2, <3>1
  <2>3. CASE Deliver(c)
    <3>1. /\ pc'[c] = "read" /\ <<c, At(c)>> \notin sent /\ At(c)' = At(c)
          /\ UNCHANGED store
      BY <2>3 DEF Deliver, Go, At, Typed, Shaped, Reported, Told, progress
    <3>2. \A a \in Calls : <<c, At(c)>> \notin ledger[a]
      BY <3>1 DEF Truthful, Tallied
    <3>3. Held(c)'
      BY <3>1, <3>2 DEF Held, store
    <3> QED  BY <2>2, <3>1, <3>3
  <2>4. CASE ReadCount(c)
    <3>1. /\ pc[c] = "read" /\ pc'[c] = "write" /\ pc[c] \in OnEvent /\ pc[c] \in Underway
          /\ seen'[c] = counter[adapter[c]][InHand(c)]
          /\ UNCHANGED <<inputs, trail, world>>
      BY <2>4 DEF ReadCount, Go, Typed, Shaped, InHand, OnEvent, Underway
    <3>2. adapter[c] \in Calls /\ InHand(c) \in Keys
      BY <3>1, CurrentIsGiven DEF Typed, Placed, Unbound, Ended, InHand
    <3>3. seen'[c] <= Cardinality(CountedOf(adapter[c], InHand(c)))
      BY <3>1, <3>2 DEF Truthful, Tallied
    <3>4. /\ At(c)' = At(c) /\ ledger' = ledger /\ store' = store
          /\ CountedOf(adapter[c], InHand(c))' = CountedOf(adapter[c], InHand(c))
      BY <3>1 DEF At, InHand, Current, CountedOf, KeyOf, inputs, world, store
    <3>5. \A a \in Calls : <<c, At(c)>> \notin ledger[a]
      BY <3>1 DEF Truthful, Held
    <3>6. Held(c)'
      BY <3>3, <3>4, <3>5 DEF Held
    <3> QED  BY <2>2, <3>4, <3>6
  <2> QED  BY <1>2, <2>1, <2>2, <2>3, <2>4, OnlyWritesCount DEF Typed
<1>3. CASE ApiCrash
  BY <1>1, <1>3 DEF ApiCrash, Unmoved, inputs, progress, store, Typed, Shaped
<1>4. CASE ClockTick \/ UNCHANGED vars
  BY <1>1, <1>4 DEF ClockTick, vars, Unmoved, inputs, progress, world, store
<1> QED  BY <1>2, <1>3, <1>4 DEF Next, Finished

(* The local store never refuses for a send that was not made.             *)
THEOREM CountsAreOfSends == Spec => []CountedSendsWereMade
<1>1. Truthful => CountedSendsWereMade
  BY DEF Truthful, Tallied, CountedOf, CountedSendsWereMade
<1> QED  BY <1>1, TypedInit, TypedNext, ReportedInit, ReportedNext,
            TruthfulInit, TruthfulNext, PTL DEF Spec

-----------------------------------------------------------------------------
(* All the events of a batch were read at one instant, which is none       *)
(* before the sweep's own and none still to come.                          *)
ReadAt(c, t) ==
  \A i \in DOMAIN batch[c] : \E j \in DOMAIN feed[c] : batch[c][i] = ToEvent(feed[c][j], t)

Dated(c) ==
  /\ pc[c] = "detect" => moment[c] <= now
  /\ \E t \in 0..MaxNow : moment[c] <= t /\ t <= now /\ ReadAt(c, t)

LEMMA DatedInit == Init => \A c \in Calls : Dated(c)
<1> SUFFICES ASSUME Init, NEW c \in Calls  PROVE Dated(c)
  OBVIOUS
<1>1. pc[c] = "new" /\ moment[c] = 0 /\ batch[c] = <<>> /\ now = 0
  BY DEF Init
<1>2. 0 \in 0..MaxNow /\ ReadAt(c, 0)
  BY <1>1, SweepAssumption DEF ReadAt
<1> QED  BY <1>1, <1>2 DEF Dated

LEMMA DatedRun ==
  ASSUME Typed, NEW c \in Calls, Dated(c), Start(c) \/ Run(c) \/ OwnCrash(c)
  PROVE  Dated(c)'
<1>0. Shaped /\ Placed(c)
  BY DEF Typed
<1> USE DEF Go, Raise, inputs, progress, world, store
<1>1. CASE ReadMoment(c)
  <2>1. moment'[c] = now /\ now' = now /\ batch[c] = <<>> /\ UNCHANGED batch /\ now \in 0..MaxNow
    BY <1>0, <1>1 DEF ReadMoment, Placed, Early, Shaped
  <2> QED  BY <2>1 DEF Dated, ReadAt
<1>2. CASE Detect(c)
  <2>1. /\ query[c] \in Queries /\ now \in 0..MaxNow /\ pc[c] = "detect" /\ batch[c] = <<>>
        /\ moment[c] <= now /\ UNCHANGED <<now, moment>>
    BY <1>0, <1>2 DEF Detect, Placed, Early, Shaped, Dated
  <2>2. PICK f \in Feeds :
          /\ feed'[c] = f /\ pc'[c] # "detect"
          /\ batch'[c] = Events(f, query[c], now) \/ batch'[c] = <<>>
    BY <1>0, <1>2, <2>1 DEF Detect, Shaped
  <2>3. \A i \in DOMAIN Events(f, query[c], now) :
          \E j \in DOMAIN f : Events(f, query[c], now)[i] = ToEvent(f[j], now)
    BY <2>1, DetectionGivesEvents
  <2>4. ReadAt(c, now)'
    BY <2>1, <2>2, <2>3 DEF ReadAt
  <2> QED  BY <2>1, <2>2, <2>4 DEF Dated
<1>3. CASE UNCHANGED <<now, moment, feed, batch>> /\ (pc'[c] # "detect" \/ pc'[c] = pc[c])
  BY <1>3 DEF Dated, ReadAt
<1>4. CASE Start(c) \/ Bind(c)
  BY <1>0, <1>3, <1>4 DEF Start, Bind, BindOwn, BindCached, BindMissed, BindStored, Shaped,
     Dated, ReadAt, Placed, Early, Unbound
<1>5. CASE Evaluate(c)
  BY <1>0, <1>3, <1>5
     DEF Evaluate, Decide, Prepare, Deliver, ReadCount, WriteCount, RecordDecision,
         AuditRaises, Conclude, Shaped
<1>6. CASE Route(c)
  BY <1>0, <1>3, <1>6 DEF Route, RouteNothing, RouteHeld, RouteFails, HandOn, Shaped
<1>7. CASE OwnCrash(c)
  BY <1>0, <1>3, <1>7 DEF OwnCrash, Shaped
<1> QED  BY <1>1, <1>2, <1>4, <1>5, <1>6, <1>7 DEF Run

LEMMA DatedNext ==
  Typed /\ (\A c \in Calls : Dated(c)) /\ [Next]_vars => (\A c \in Calls : Dated(c))'
<1> SUFFICES ASSUME Typed, \A c \in Calls : Dated(c), [Next]_vars, NEW d \in Calls
             PROVE  Dated(d)'
  OBVIOUS
<1>1. ASSUME NEW c \in Calls \ {d}, Start(c) \/ Run(c) \/ OwnCrash(c)
      PROVE  Dated(d)'
  <2>1. Unmoved(d)
    BY <1>1, OthersUnmoved DEF Typed
  <2>2. now' = now
    BY <1>1 DEF Run, Start, Bind, BindOwn, BindCached, BindMissed, BindStored, ReadMoment,
       Detect, Evaluate, Decide, Prepare, Deliver, ReadCount, WriteCount, RecordDecision,
       AuditRaises, Route, RouteNothing, RouteHeld, RouteFails, HandOn, OwnCrash
  <2> QED  BY <2>1, <2>2 DEF Unmoved, Dated, ReadAt
<1>2. CASE Start(d) \/ Run(d) \/ OwnCrash(d)
  BY <1>2, DatedRun
<1>3. CASE ApiCrash
  BY <1>3 DEF ApiCrash, Dated, ReadAt, inputs, InFlight
<1>4. CASE ClockTick \/ UNCHANGED vars
  <2>1. now' >= now /\ UNCHANGED <<pc, inputs>>
    BY <1>4, SweepAssumption DEF ClockTick, vars, Typed, Shaped
  <2>2. moment[d] \in Nat /\ now \in Nat /\ now' \in Nat
    BY <1>4, SweepAssumption DEF ClockTick, vars, Typed, Shaped
  <2> QED  BY <2>1, <2>2 DEF Dated, ReadAt, inputs
<1> QED  BY <1>1, <1>2, <1>3, <1>4 DEF Next, Finished

(* Every relative event is judged by one and the same delay.               *)
THEOREM AgesShareOneDelay == Spec => []RelativeAgesShareOneDelay
<1>1. ASSUME Typed, \A c \in Calls : Dated(c)  PROVE RelativeAgesShareOneDelay
  <2> SUFFICES ASSUME NEW c \in Calls
               PROVE  \E delay \in 0..(now - moment[c]) :
                        \A i \in DOMAIN batch[c], j \in DOMAIN feed[c] :
                          batch[c][i].id = feed[c][j].id /\ feed[c][j].ago # NoAge =>
                            moment[c] - batch[c][i].occurred = feed[c][j].ago - delay
    BY DEF RelativeAgesShareOneDelay
  <2>1. PICK t \in 0..MaxNow : moment[c] <= t /\ t <= now /\ ReadAt(c, t)
    BY <1>1 DEF Dated
  <2>2. moment[c] \in Nat /\ now \in Nat /\ t \in Nat
    BY <1>1, <2>1, SweepAssumption DEF Typed, Shaped
  <2>3. t - moment[c] \in 0..(now - moment[c])
    BY <2>1, <2>2
  <2>4. ASSUME NEW i \in DOMAIN batch[c], NEW j \in DOMAIN feed[c],
               batch[c][i].id = feed[c][j].id, feed[c][j].ago # NoAge
        PROVE  moment[c] - batch[c][i].occurred = feed[c][j].ago - (t - moment[c])
    <3>1. PICK k \in DOMAIN feed[c] : batch[c][i] = ToEvent(feed[c][k], t)
      BY <2>1 DEF ReadAt
    <3>2. feed[c][k].id = feed[c][j].id
      BY <2>4, <3>1 DEF ToEvent
    <3>3. feed[c] \in Feeds
      BY <1>1, <2>4 DEF Typed, Shaped
    <3>4. k = j
      BY <3>2, <3>3, FeedAssumption
    <3>5. batch[c][i].occurred = t - feed[c][j].ago
      BY <2>4, <3>1, <3>4 DEF ToEvent, OccurredAt
    <3>6. feed[c][j].ago \in Int
      BY <2>4, <3>3, FeedAssumption DEF Records
    <3> QED  BY <2>2, <3>5, <3>6
  <2> QED  BY <2>3, <2>4
<1> QED  BY <1>1, TypedInit, TypedNext, DatedInit, DatedNext, PTL DEF Spec

-----------------------------------------------------------------------------
(* A batch is what the query selects of the feed at some instant.          *)
Detected(c) ==
  batch[c] # <<>> =>
    \E t \in 0..MaxNow : batch[c] = Events(feed[c], query[c], t)

LEMMA DetectedInit == Init => \A c \in Calls : Detected(c)
  BY DEF Init, Detected

LEMMA DetectedNext ==
  Typed /\ (\A c \in Calls : Detected(c)) /\ [Next]_vars => (\A c \in Calls : Detected(c))'
<1> SUFFICES ASSUME Typed, \A c \in Calls : Detected(c), [Next]_vars, NEW d \in Calls
             PROVE  Detected(d)'
  OBVIOUS
<1>0. Shaped /\ Placed(d)
  BY DEF Typed
<1> USE DEF inputs, progress, world, store
<1>1. ASSUME NEW c \in Calls \ {d}, Start(c) \/ Run(c) \/ OwnCrash(c)
      PROVE  Detected(d)'
  <2>1. Unmoved(d)
    BY <1>1, OthersUnmoved DEF Typed
  <2> QED  BY <2>1 DEF Unmoved, Detected
<1>2. CASE Start(d)
  BY <1>0, <1>2 DEF Start, Placed, Early, Unbound, Detected
<1>3. CASE Detect(d)
  <2>1. /\ batch[d] = <<>> /\ now \in 0..MaxNow /\ query' = query
        /\ feed \in [Calls -> Feeds \cup {<<>>}] /\ batch \in [Calls -> Seq(GivenEvents)]
    BY <1>0, <1>3 DEF Detect, Placed, Early, Shaped
  <2>2. PICK f \in Feeds : /\ feed'[d] = f
                           /\ batch'[d] = Events(f, query[d], now) \/ batch'[d] = <<>>
    BY <1>3, <2>1 DEF Detect
  <2> QED  BY <2>1, <2>2 DEF Detected
<1>4. CASE Bind(d) \/ ReadMoment(d) \/ Evaluate(d) \/ Route(d) \/ OwnCrash(d)
  <2>1. UNCHANGED <<feed, query, batch>>
    BY <1>4 DEF Bind, BindOwn, BindCached, BindMissed, BindStored, ReadMoment, Evaluate, Decide,
       Prepare, Deliver, ReadCount, WriteCount, RecordDecision, AuditRaises, Route,
       RouteNothing, RouteHeld, RouteFails, HandOn, OwnCrash
  <2> QED  BY <2>1 DEF Detected
<1>5. CASE ApiCrash \/ ClockTick \/ UNCHANGED vars
  <2>1. UNCHANGED <<feed, query, batch>>
    BY <1>5 DEF ApiCrash, ClockTick, vars
  <2> QED  BY <2>1 DEF Detected
<1> QED  BY <1>1, <1>2, <1>3, <1>4, <1>5 DEF Next, Run, Finished

(* In a uniform feed what is written is what is meant.                     *)
LEMMA UniformMeansWritten ==
  ASSUME NEW f \in Feeds, IsUniform(f), NEW i \in DOMAIN f, NEW t \in 0..MaxNow
  PROVE  WrittenAt(f[i], t) = OccurredAt(f[i], t) /\ OccurredAt(f[i], t) \in Int
<1>1. f[i] \in Records
  BY DEF Records
<1> QED  BY <1>1, FeedAssumption, SweepAssumption DEF IsUniform, WrittenAt, OccurredAt

(* A sweep is given the oldest of its matching events, oldest first.       *)
THEOREM OldestAreGiven == Spec => []DetectionIsOldestPrefix
<1>1. ASSUME Typed, \A c \in Calls : Detected(c)  PROVE DetectionIsOldestPrefix
  <2> SUFFICES ASSUME NEW c \in Calls, batch[c] # <<>>, IsUniform(feed[c])
               PROVE  /\ Len(batch[c]) <= query[c].limit
                      /\ \A i, j \in DOMAIN batch[c] :
                           i < j => batch[c][i].occurred <= batch[c][j].occurred
                      /\ \A rec \in {feed[c][i] : i \in {j \in DOMAIN feed[c] :
                              /\ feed[c][j].id \notin {batch[c][k].id : k \in DOMAIN batch[c]}
                              /\ feed[c][j].ago = NoAge
                              /\ Matches(feed[c][j], query[c], 0)}} :
                           /\ Len(batch[c]) = query[c].limit
                           /\ rec.occurred >= batch[c][Len(batch[c])].occurred
    BY DEF DetectionIsOldestPrefix
  <2>1. PICK t \in 0..MaxNow : batch[c] = Events(feed[c], query[c], t)
    BY <1>1 DEF Detected
  <2>2. feed[c] \in Feeds /\ query[c] \in Queries
    <3>1. pc[c] # "new"
      BY <1>1 DEF Typed, Placed, Early, Unbound
    <3>2. query[c] \in Queries
      BY <1>1, <3>1 DEF Typed, Placed
    <3>3. feed[c] \in Feeds \cup {<<>>} /\ batch[c] \in Seq(GivenEvents)
      BY <1>1 DEF Typed, Shaped
    <3>4. CASE feed[c] = <<>>
      <4>1. Wanted(feed[c], query[c], t) = {}
        BY <3>4 DEF Wanted
      <4>2. Sorted(feed[c], {}, t) = <<>>
        BY FS_EmptySet DEF Sorted
      <4>3. Select(feed[c], query[c], t) = <<>>
        BY <3>2, <4>1, <4>2, QueryAssumption DEF Select, UpTo
      <4>4. batch[c] = <<>>
        BY <2>1, <4>3 DEF Events
      <4> QED  BY <4>4
    <3> QED  BY <3>2, <3>3, <3>4
  <2> DEFINE f == feed[c]
             q == query[c]
             I == Wanted(f, q, t)
             sorted == Sorted(f, I, t)
             selected == Select(f, q, t)
             n == Len(selected)
             Rank(i) == Place(f, I, i, t)
  <2>3. I \in SUBSET DOMAIN f
    BY DEF Wanted
  <2>4. /\ sorted \in Seq({f[i] : i \in DOMAIN f}) /\ n \in Nat
        /\ selected \in Seq({f[i] : i \in DOMAIN f})
        /\ \A k \in 1..n : selected[k] = sorted[k]
        /\ n <= Len(sorted) /\ (n # 0 => n <= q.limit)
        /\ n < Len(sorted) /\ n # 0 => n = q.limit
    BY <2>2, SelectedIsPrefix
  <2>5. /\ Cardinality(I) \in Nat /\ DOMAIN sorted = 1..Cardinality(I)
        /\ \A k \in 1..Cardinality(I) : \E i \in I : Rank(i) = k /\ sorted[k] = f[i]
        /\ \A i, j \in I : Rank(i) = Rank(j) => i = j
        /\ \A i, j \in I : Rank(i) < Rank(j) => Precedes(f, i, j, t)
    BY <2>2, <2>3, SortedIsSorted
  <2>6. \A i \in I : Rank(i) \in 1..Cardinality(I)
    BY <2>2, <2>3, PlacesAreTaken
  <2>7. batch[c] = [k \in DOMAIN selected |-> ToEvent(selected[k], t)]
    BY <2>1 DEF Events
  <2>8. \A i, j \in I : Precedes(f, i, j, t) => OccurredAt(f[i], t) <= OccurredAt(f[j], t)
    <3> SUFFICES ASSUME NEW i \in I, NEW j \in I, Precedes(f, i, j, t)
                 PROVE  OccurredAt(f[i], t) <= OccurredAt(f[j], t)
      OBVIOUS
    <3>1. WrittenAt(f[i], t) = OccurredAt(f[i], t) /\ OccurredAt(f[i], t) \in Int
      BY <2>2, <2>3, UniformMeansWritten
    <3>2. WrittenAt(f[j], t) = OccurredAt(f[j], t) /\ OccurredAt(f[j], t) \in Int
      BY <2>2, <2>3, UniformMeansWritten
    <3>3. WrittenAt(f[i], t) < WrittenAt(f[j], t) \/ WrittenAt(f[i], t) = WrittenAt(f[j], t)
      BY DEF Precedes
    <3> QED  BY <3>1, <3>2, <3>3
  <2>d. \A i \in I : /\ Matches(f[i], q, t)
                     /\ OccurredAt(f[i], t) \in Int
    BY <2>2, UniformMeansWritten DEF Wanted
  <2>w. \A j \in DOMAIN f : f[j].ago = NoAge /\ Matches(f[j], q, 0) =>
          j \in I /\ OccurredAt(f[j], t) = f[j].occurred
    BY DEF Wanted, Matches, WrittenAt, OccurredAt
  <2> HIDE DEF I, sorted, selected, Rank
  <2>9. /\ Len(sorted) = Cardinality(I) /\ DOMAIN selected = 1..n
        /\ DOMAIN batch[c] = 1..n /\ Len(batch[c]) = n
    <3>1. Len(sorted) = Cardinality(I) /\ DOMAIN selected = 1..n
      BY <2>4, <2>5
    <3>2. batch[c] \in Seq(GivenEvents)
      BY <1>1 DEF Typed, Shaped
    <3> QED  BY <2>4, <2>7, <3>1, <3>2
  <2>10. n # 0
    <3>1. batch[c] \in Seq(GivenEvents)
      BY <1>1 DEF Typed, Shaped
    <3> QED  BY <2>9, <3>1
  <2>11. \A k \in 1..n : \E i \in I : /\ Rank(i) = k /\ batch[c][k].id = f[i].id
                                     /\ batch[c][k].occurred = OccurredAt(f[i], t)
    <3> SUFFICES ASSUME NEW k \in 1..n
                 PROVE  \E i \in I : /\ Rank(i) = k /\ batch[c][k].id = f[i].id
                                    /\ batch[c][k].occurred = OccurredAt(f[i], t)
      OBVIOUS
    <3>1. k \in 1..Cardinality(I) /\ selected[k] = sorted[k]
      BY <2>4, <2>5, <2>9
    <3>2. PICK i \in I : Rank(i) = k /\ sorted[k] = f[i]
      BY <2>5, <3>1
    <3>3. batch[c][k] = ToEvent(f[i], t)
      BY <2>7, <2>9, <3>1, <3>2
    <3> QED  BY <3>2, <3>3 DEF ToEvent
  <2>12. \A i, j \in DOMAIN batch[c] :
           i < j => batch[c][i].occurred <= batch[c][j].occurred
    BY <2>5, <2>8, <2>9, <2>11
  <2>13. ASSUME NEW j \in DOMAIN f, f[j].id \notin {batch[c][k].id : k \in DOMAIN batch[c]},
                f[j].ago = NoAge, Matches(f[j], q, 0)
         PROVE  n = q.limit /\ f[j].occurred >= batch[c][n].occurred
    <3>1. j \in I /\ OccurredAt(f[j], t) = f[j].occurred
      BY <2>13, <2>w
    <3>2. Rank(j) \in 1..Cardinality(I)
      BY <2>6, <3>1
    <3>3. Rank(j) > n
      <4> SUFFICES ASSUME Rank(j) <= n  PROVE FALSE
        BY <2>4, <2>5, <3>2
      <4>1. Rank(j) \in 1..n
        BY <2>4, <2>5, <3>2
      <4>2. PICK i \in I : Rank(i) = Rank(j) /\ batch[c][Rank(j)].id = f[i].id
        BY <2>11, <4>1
      <4>3. i = j
        BY <2>5, <3>1, <4>2
      <4> QED  BY <2>9, <2>13, <4>1, <4>2, <4>3
    <3>4. n < Len(sorted)
      BY <2>4, <2>5, <2>9, <3>2, <3>3
    <3>5. PICK i \in I : Rank(i) = n /\ batch[c][n].occurred = OccurredAt(f[i], t)
      BY <2>4, <2>10, <2>11
    <3>6. OccurredAt(f[i], t) <= OccurredAt(f[j], t)
      BY <2>5, <2>8, <3>1, <3>3, <3>5
    <3>7. OccurredAt(f[i], t) \in Int /\ OccurredAt(f[j], t) \in Int
      BY <2>d, <3>1
    <3> QED  BY <2>4, <2>10, <3>1, <3>4, <3>5, <3>6, <3>7
  <2> QED  BY <2>4, <2>9, <2>10, <2>12, <2>13
<1> QED  BY <1>1, TypedInit, TypedNext, DetectedInit, DetectedNext, PTL DEF Spec

-----------------------------------------------------------------------------
(* A bound adapter was built by the sweep it is named after, which holds   *)
(* it; an adapter nobody built counts nothing.                             *)
Owned ==
  /\ IsFiniteSet(sent)
  /\ bound \in Calls => adapter[bound] = bound
  /\ \A d \in Calls :
       /\ pc[d] = "store" => adapter[d] = d
       /\ adapter[d] \in Calls => adapter[adapter[d]] = adapter[d]
       /\ adapter[d] # d => \A k \in Keys : counter[d][k] = 0

LEMMA OwnedInit == Init => Owned
  BY FS_EmptySet, SweepAssumption DEF Init, Owned

LEMMA OwnedRun ==
  ASSUME Typed, Owned, NEW c \in Calls, Start(c) \/ Run(c) \/ OwnCrash(c)
  PROVE  /\ Owned'
         /\ \A d \in Calls : adapter[d] \in Calls => adapter'[d] = adapter[d]
<1>0. Shaped /\ Placed(c)
  BY DEF Typed
<1> USE DEF Go, Raise, inputs, progress, world, store
<1>1. CASE BindOwn(c) \/ BindMissed(c)
  <2>1. /\ adapter[c] = NoAdapter /\ adapter' = [adapter EXCEPT ![c] = c]
        /\ pc[c] = "bind" /\ pc' = [pc EXCEPT ![c] = pc'[c]]
        /\ UNCHANGED <<bound, counter, sent>>
    BY <1>0, <1>1 DEF BindOwn, BindMissed, Placed, Unbound, Shaped
  <2>2. \A d \in Calls : adapter[d] # c
    BY <2>1, SweepAssumption DEF Owned
  <2>3. bound # c
    BY <2>1, SweepAssumption DEF Owned
  <2>4. adapter'[c] = c /\ \A d \in Calls \ {c} : adapter'[d] = adapter[d] /\ pc'[d] = pc[d]
    BY <1>0, <2>1 DEF Shaped
  <2> QED  BY <2>1, <2>2, <2>3, <2>4, SweepAssumption DEF Owned
<1>2. CASE BindCached(c)
  <2>1. /\ adapter[c] = NoAdapter /\ bound \in Calls /\ adapter' = [adapter EXCEPT ![c] = bound]
        /\ pc[c] = "bind" /\ pc' = [pc EXCEPT ![c] = "moment"]
        /\ UNCHANGED <<bound, counter, sent>>
    BY <1>0, <1>2 DEF BindCached, Placed, Unbound, Shaped
  <2>2. bound # c /\ adapter[bound] = bound /\ \A d \in Calls : adapter[d] # c
    BY <2>1, SweepAssumption DEF Owned
  <2>3. adapter'[c] = bound /\ \A d \in Calls \ {c} : adapter'[d] = adapter[d] /\ pc'[d] = pc[d]
    BY <1>0, <2>1 DEF Shaped
  <2>4. pc'[c] = "moment" /\ \A k \in Keys : counter[c][k] = 0
    BY <1>0, <2>1, SweepAssumption DEF Shaped, Owned
  <2> QED  BY <2>1, <2>2, <2>3, <2>4, SweepAssumption DEF Owned
<1>3. CASE BindStored(c)
  <2>1. /\ adapter[c] = c /\ UNCHANGED <<adapter, counter, sent>>
        /\ bound' = c /\ pc' = [pc EXCEPT ![c] = "moment"]
    BY <1>3 DEF BindStored, Owned
  <2> QED  BY <1>0, <2>1 DEF Owned, Shaped
<1>4. CASE /\ UNCHANGED <<adapter, bound, counter>>
           /\ sent' = sent \/ (\E p : sent' = sent \cup {p})
           /\ \A d \in Calls : pc'[d] = "store" => pc[d] = "store"
  BY <1>4, FS_AddElement DEF Owned
<1>5. CASE WriteCount(c)
  <2>1. /\ UNCHANGED <<adapter, bound, sent>> /\ adapter[c] \in Calls
        /\ \A d \in Calls : d # adapter[c] => counter'[d] = counter[d]
        /\ \A d \in Calls : pc'[d] = "store" => pc[d] = "store"
    BY <1>0, <1>5 DEF WriteCount, Conclude, Shaped, Placed, Unbound, Ended
  <2> QED  BY <2>1 DEF Owned
<1>6. CASE Start(c) \/ ReadMoment(c) \/ Detect(c) \/ OwnCrash(c)
  <2>1. /\ UNCHANGED <<adapter, bound, counter, sent>>
        /\ \A d \in Calls : pc'[d] = "store" => pc[d] = "store"
    BY <1>0, <1>6 DEF Start, ReadMoment, Detect, OwnCrash, Shaped
  <2> QED  BY <1>4, <2>1
<1>7. CASE Evaluate(c) /\ ~WriteCount(c)
  <2>1. \A d \in Calls : pc'[d] = "store" => pc[d] = "store"
    BY <1>0, <1>7
       DEF Evaluate, Decide, Prepare, Deliver, ReadCount, RecordDecision,
           AuditRaises, Conclude, Shaped
  <2>2. /\ UNCHANGED <<adapter, bound, counter>>
        /\ sent' = sent \/ (\E p : sent' = sent \cup {p})
    BY <1>7 DEF Evaluate, Decide, Prepare, Deliver, ReadCount, RecordDecision, AuditRaises
  <2> QED  BY <1>4, <2>1, <2>2
<1>8. CASE Route(c)
  <2>1. /\ UNCHANGED <<adapter, bound, counter, sent>>
        /\ \A d \in Calls : pc'[d] = "store" => pc[d] = "store"
    BY <1>0, <1>8 DEF Route, RouteNothing, RouteHeld, RouteFails, HandOn, Shaped
  <2> QED  BY <1>4, <2>1
<1> QED  BY <1>1, <1>2, <1>3, <1>5, <1>6, <1>7, <1>8 DEF Run, Bind

LEMMA OwnedNext ==
  ASSUME Typed, Owned, [Next]_vars
  PROVE  /\ Owned'
         /\ \A d \in Calls : adapter[d] \in Calls => adapter'[d] = adapter[d]
<1>1. CASE \E c \in Calls : Start(c) \/ Run(c) \/ OwnCrash(c)
  BY <1>1, OwnedRun
<1>2. CASE ApiCrash
  <2>1. /\ UNCHANGED <<adapter, counter, sent>> /\ bound' = NoAdapter
        /\ \A d \in Calls : pc'[d] = "store" => pc[d] = "store"
    BY <1>2 DEF ApiCrash, store
  <2> QED  BY <2>1, SweepAssumption DEF Owned
<1>3. CASE ClockTick \/ UNCHANGED vars
  BY <1>3 DEF ClockTick, vars, Owned, world, store
<1> QED  BY <1>1, <1>2, <1>3 DEF Next, Finished

(* A sweep whose own adapter nobody else holds. *)
Lone(c) == adapter[c] = c /\ \A d \in Calls : adapter[d] = c => d = c

Mine(c, k) == {p \in sent : p[1] = c /\ KeyOf(p) = k}

Uncounted(c, k) == IF pc[c] \in {"read", "write"} /\ k = InHand(c) THEN 1 ELSE 0

CapOf(k) == FrequencyCaps[<<k[2], k[3]>>]

(* Its adapter counts every message it sent but the one in hand, and an    *)
(* event found eligible leaves room for one more.                          *)
Settled(c) ==
  /\ \A k \in Keys :
       /\ pc[c] \notin Ended => Cardinality(Mine(c, k)) = counter[c][k] + Uncounted(c, k)
       /\ Mine(c, k) # {} => Cardinality(Mine(c, k)) <= CapOf(k)
  /\ pc[c] \in {"prepare", "deliver"} =>
       CapOf(InHand(c)) \in Nat /\ counter[c][InHand(c)] < CapOf(InHand(c))
  /\ pc[c] = "write" => seen[c] = counter[c][InHand(c)]

Capped == \A c \in Calls : Lone(c) => Settled(c)

(* An eligible event has a cap, and the adapter's count is below it.       *)
LEMMA EligibleLeavesRoom ==
  ASSUME Shaped, NEW c \in Calls, NEW e \in GivenEvents,
         adapter[c] \in Calls, CountKey(e) \in Keys, EligibleNow(c, e)
  PROVE  /\ CapOf(CountKey(e)) \in Nat
         /\ counter[adapter[c]][CountKey(e)] < CapOf(CountKey(e))
<1> DEFINE answer == LocalAnswer(c, e)
           extra  == counter[adapter[c]][CountKey(e)]
<1>1. extra \in Nat
  BY DEF Shaped
<1>2. answer.sends \in Nat /\ answer.sends >= extra
  <2>1. answer.sends = IF e.subject \in DOMAIN ConsentRecords
                       THEN ConsentRecords[e.subject].sends + extra ELSE extra
    BY DEF LocalAnswer
  <2> QED  BY <1>1, <2>1, ConsentAssumption
<1> HIDE DEF answer, extra
<1>3. /\ ConsentReasons(e, moment[c], answer) = {} /\ CapReasons(e, answer) = {}
      /\ answer = LocalAnswer(c, e)
  BY DEF EligibleNow, Eligible, DenyingReasons, answer
<1>4. answer # NoDecision /\ HasCap(e) /\ ~(answer.sends >= EffectiveLimit(e, answer))
  BY <1>3 DEF ConsentReasons, CapReasons, SendsInWindow
<1>5. CapOf(CountKey(e)) = FrequencyCaps[CapKey(e)] /\ FrequencyCaps[CapKey(e)] \in Nat
  BY <1>4, PolicyAssumption DEF CapOf, CountKey, CapKey, HasCap, PolicyIsValid
<1>6. answer.limit \in Nat \cup {NoLimit}
  BY <1>3, ConsentAssumption DEF LocalAnswer
<1>7. answer.sends < FrequencyCaps[CapKey(e)]
  BY <1>2, <1>4, <1>5, <1>6 DEF EffectiveLimit
<1> QED  BY <1>1, <1>2, <1>5, <1>7 DEF extra

(* The messages of a sweep and their keys while it sends none.             *)
LEMMA MineStays ==
  ASSUME Typed, Reported, [Next]_vars, NEW c \in Calls,
         \A i \in Positions : <<c, i>> \in sent' => <<c, i>> \in sent
  PROVE  \A k : Mine(c, k)' = Mine(c, k)
<1>1. \A p \in sent : KeyOf(p)' = KeyOf(p) /\ p \in sent'
  BY KeysStay
<1>2. Typed'
  BY TypedNext
<1>3. \A p \in sent' : p[1] = c => p \in sent
  <2> SUFFICES ASSUME NEW p \in sent', p[1] = c  PROVE p \in sent
    OBVIOUS
  <2>1. PICK d \in Calls, i \in Positions : p = <<d, i>>
    BY <1>2 DEF Typed, Shaped
  <2> QED  BY <2>1
<1> QED  BY <1>1, <1>3 DEF Mine

LEMMA MineIsFinite ==
  ASSUME Owned, NEW c, NEW k
  PROVE  IsFiniteSet(Mine(c, k)) /\ Cardinality(Mine(c, k)) \in Nat
<1>1. Mine(c, k) \in SUBSET sent /\ IsFiniteSet(sent)
  BY DEF Mine, Owned
<1> QED  BY <1>1, FS_Subset, FS_CardinalityType

(* A step that neither sends nor counts, decides nor ends a count.         *)
LEMMA SettledStays ==
  ASSUME Typed, Reported, Owned, [Next]_vars, NEW c \in Calls, Settled(c),
         \A i \in Positions : <<c, i>> \in sent' => <<c, i>> \in sent,
         counter'[c] = counter[c],
         \/ Unmoved(c)
         \/ pc'[c] \in Ended
         \/ pc[c] \notin {"read", "write"} \cup Ended /\ pc'[c] \notin Underway
  PROVE  Settled(c)'
<1>1. \A k : Mine(c, k)' = Mine(c, k)
  BY MineStays
<1>2. \A k \in Keys : Mine(c, k)' # {} => Cardinality(Mine(c, k)') <= CapOf(k)'
  BY <1>1 DEF Settled, CapOf
<1>3. CASE Unmoved(c)
  <2>1. /\ InHand(c)' = InHand(c) /\ pc'[c] = pc[c] /\ seen'[c] = seen[c]
        /\ \A k : Uncounted(c, k)' = Uncounted(c, k)
    BY <1>3 DEF Unmoved, InHand, Current, At, Uncounted
  <2>2. CapOf(InHand(c))' = CapOf(InHand(c))
    BY <2>1 DEF CapOf
  <2>3. \A k \in Keys : pc'[c] \notin Ended =>
          Cardinality(Mine(c, k)') = counter'[c][k] + Uncounted(c, k)'
    BY <1>1, <2>1 DEF Settled
  <2> QED  BY <1>2, <2>1, <2>2, <2>3 DEF Settled
<1>4. CASE pc'[c] \in Ended
  BY <1>2, <1>4 DEF Settled, Ended
<1>5. CASE pc[c] \notin {"read", "write"} \cup Ended /\ pc'[c] \notin Underway
  <2>1. \A k : Uncounted(c, k)' = 0 /\ Uncounted(c, k) = 0
    BY <1>5 DEF Uncounted, Underway
  <2> QED  BY <1>1, <1>2, <1>5, <2>1 DEF Settled, Underway
<1> QED  BY <1>3, <1>4, <1>5

(* The sweep's own steps, the binding of its adapter left aside.           *)
LEMMA SettledRun ==
  ASSUME Typed, Reported, Owned, [Next]_vars, NEW c \in Calls, Lone(c), Settled(c),
         Start(c) \/ Run(c) \/ OwnCrash(c), ~Bind(c)
  PROVE  Settled(c)'
<1>0. Shaped /\ Placed(c) /\ adapter[c] = c /\ c # NoAdapter
  BY SweepAssumption DEF Typed, Lone
<1> USE DEF Go, Raise, inputs, progress, world, store
<1>1. CASE Start(c) \/ ReadMoment(c)
  BY <1>0, <1>1, SettledStays DEF Start, ReadMoment, Shaped, Ended, Underway
<1>2. CASE Detect(c)
  <2>1. pc[c] = "detect" /\ pc'[c] \notin Underway /\ UNCHANGED <<sent, counter>>
    BY <1>0, <1>2 DEF Detect, Shaped, Underway
  <2> QED  BY <2>1, SettledStays DEF Ended
<1>3. CASE Decide(c)
  <2>1. /\ pc[c] = "decide" /\ pc[c] \in OnEvent /\ UNCHANGED <<inputs, trail, sent, counter>>
        /\ \/ pc'[c] = "prepare" /\ EligibleNow(c, Current(c))
           \/ pc'[c] = "audit"
    BY <1>0, <1>3 DEF Decide, Conclude, Shaped, OnEvent
  <2>2. CASE pc'[c] = "audit"
    BY <2>1, <2>2, SettledStays DEF Underway, Ended
  <2>3. CASE pc'[c] = "prepare"
    <3>1. Current(c) \in GivenEvents /\ EligibleNow(c, Current(c))
      BY <1>0, <2>1, <2>3, CurrentIsGiven
    <3>2. HasRule(Current(c))
      BY <3>1 DEF EligibleNow, Fired, TriggerReason
    <3>3. InHand(c) \in Keys
      BY <3>1, <3>2, GivenEventHasKey DEF InHand
    <3>4. CapOf(InHand(c)) \in Nat /\ counter[c][InHand(c)] < CapOf(InHand(c))
      BY <1>0, <3>1, <3>3, EligibleLeavesRoom DEF InHand
    <3>5. InHand(c)' = InHand(c) /\ counter' = counter /\ \A k : Mine(c, k)' = Mine(c, k)
      BY <2>1, MineStays DEF InHand, Current, At
    <3>6. \A k : Uncounted(c, k) = 0 /\ Uncounted(c, k)' = 0
      BY <2>1, <2>3 DEF Uncounted
    <3>7. CapOf(InHand(c))' = CapOf(InHand(c))
      BY <3>5 DEF CapOf
    <3>8. pc[c] \notin Ended
      BY <2>1 DEF Ended
    <3> QED  BY <2>3, <3>4, <3>5, <3>6, <3>7, <3>8 DEF Settled, CapOf
  <2> QED  BY <2>1, <2>2, <2>3
<1>4. CASE Prepare(c)
  <2>1. /\ pc[c] = "prepare" /\ UNCHANGED <<inputs, trail, sent, counter>>
        /\ pc'[c] \in {"audit", "deliver"}
    BY <1>0, <1>4 DEF Prepare, Conclude, Shaped
  <2>2. InHand(c)' = InHand(c) /\ counter' = counter /\ \A k : Mine(c, k)' = Mine(c, k)
    BY <2>1, MineStays DEF InHand, Current, At
  <2>3. \A k : Uncounted(c, k) = 0 /\ Uncounted(c, k)' = 0
    BY <2>1 DEF Uncounted
  <2>4. pc[c] \notin Ended /\ CapOf(InHand(c))' = CapOf(InHand(c))
    BY <2>1, <2>2 DEF Ended, CapOf
  <2> QED  BY <2>1, <2>2, <2>3, <2>4 DEF Settled, CapOf
<1>5. CASE Deliver(c)
  <2> DEFINE p == <<c, At(c)>>
  <2>1. /\ pc[c] = "deliver" /\ pc'[c] = "read" /\ sent' = sent \cup {p}
        /\ UNCHANGED <<batch, trail, counter>> /\ p \notin sent
    BY <1>0, <1>5 DEF Deliver, Shaped, Reported, Told
  <2>2. InHand(c) \in Keys /\ KeyOf(p) = InHand(c)
    <3>1. pc[c] \in OnEvent /\ pc[c] \in Underway
      BY <2>1 DEF OnEvent, Underway
    <3> QED  BY <1>0, <3>1, CurrentIsGiven DEF InHand, KeyOf, Current
  <2>3. InHand(c)' = InHand(c) /\ counter' = counter /\ \A q : KeyOf(q)' = KeyOf(q)
    BY <2>1 DEF InHand, Current, At, KeyOf
  <2>4. \A k : Mine(c, k)' = IF k = InHand(c) THEN Mine(c, k) \cup {p} ELSE Mine(c, k)
    BY <2>1, <2>2, <2>3 DEF Mine
  <2>5. p \notin Mine(c, InHand(c))
    BY <2>1 DEF Mine
  <2>6. /\ CapOf(InHand(c)) \in Nat /\ counter[c][InHand(c)] < CapOf(InHand(c))
        /\ \A k \in Keys : counter[c][k] \in Nat /\ Cardinality(Mine(c, k)) = counter[c][k]
    BY <1>0, <2>1 DEF Settled, Uncounted, Ended, Shaped
  <2>7. Cardinality(Mine(c, InHand(c))') = counter[c][InHand(c)] + 1
    <3>1. IsFiniteSet(Mine(c, InHand(c)))
      BY MineIsFinite
    <3>2. Cardinality(Mine(c, InHand(c)) \cup {p}) = Cardinality(Mine(c, InHand(c))) + 1
      BY <2>5, <3>1, FS_AddElement
    <3>3. Mine(c, InHand(c))' = Mine(c, InHand(c)) \cup {p}
      BY <2>1, <2>2, <2>3 DEF Mine
    <3> HIDE DEF p
    <3> QED  BY <2>2, <2>6, <3>2, <3>3
  <2> HIDE DEF p
  <2>8. ASSUME NEW k \in Keys
        PROVE  /\ Cardinality(Mine(c, k)') = counter'[c][k] + Uncounted(c, k)'
               /\ Mine(c, k)' # {} => Cardinality(Mine(c, k)') <= CapOf(k)'
    <3>1. CASE k = InHand(c)
      <4>1. Uncounted(c, k)' = 1 /\ CapOf(k)' = CapOf(k)
        BY <2>1, <2>3, <3>1 DEF Uncounted, CapOf
      <4>2. Cardinality(Mine(c, k)') = counter[c][k] + 1 /\ counter'[c][k] = counter[c][k]
        BY <2>3, <2>7, <3>1
      <4> QED  BY <2>2, <2>6, <3>1, <4>1, <4>2
    <3>2. CASE k # InHand(c)
      <4>1. Uncounted(c, k)' = 0 /\ CapOf(k)' = CapOf(k) /\ Mine(c, k)' = Mine(c, k)
        BY <2>1, <2>3, <2>4, <3>2 DEF Uncounted, CapOf
      <4> QED  BY <2>3, <2>6, <4>1 DEF Settled
    <3> QED  BY <3>1, <3>2
  <2> QED  BY <2>1, <2>8 DEF Settled
<1>6. CASE ReadCount(c)
  <2>1. /\ pc[c] = "read" /\ pc'[c] = "write" /\ UNCHANGED <<batch, trail, sent, counter>>
        /\ seen'[c] = counter[c][InHand(c)]
    BY <1>0, <1>6 DEF ReadCount, InHand, Shaped
  <2>2. /\ InHand(c)' = InHand(c) /\ counter' = counter /\ \A k : Mine(c, k)' = Mine(c, k)
        /\ pc[c] \notin Ended
    BY <2>1, MineStays DEF InHand, Current, At, Ended
  <2>3. \A k : Uncounted(c, k)' = Uncounted(c, k)
    BY <2>1, <2>2 DEF Uncounted
  <2> QED  BY <2>1, <2>2, <2>3 DEF Settled, CapOf
<1>7. CASE WriteCount(c)
  <2>1. /\ pc[c] = "write" /\ pc'[c] = "audit" /\ UNCHANGED <<batch, trail, sent>>
        /\ counter'[c] = [counter[c] EXCEPT ![InHand(c)] = seen[c] + 1]
        /\ counter[c] \in [Keys -> Nat] /\ pc[c] \notin Ended
    BY <1>0, <1>7 DEF WriteCount, Conclude, InHand, Shaped, Ended
  <2>2. /\ \A k : Mine(c, k)' = Mine(c, k)
        /\ \A k : Uncounted(c, k)' = 0
        /\ \A k : Uncounted(c, k) = IF k = InHand(c) THEN 1 ELSE 0
    BY <2>1, MineStays DEF Uncounted
  <2>3. seen[c] = counter[c][InHand(c)]
    BY <2>1 DEF Settled
  <2>4. \A k \in Keys : counter'[c][k] = counter[c][k] + Uncounted(c, k)
    BY <2>1, <2>2, <2>3
  <2>5. \A k \in Keys : counter'[c][k] \in Nat
    BY <1>0, <2>1, <2>3 DEF Shaped
  <2>6. \A k \in Keys : Cardinality(Mine(c, k)') = counter'[c][k] + Uncounted(c, k)'
    BY <2>1, <2>2, <2>4, <2>5 DEF Settled
  <2> QED  BY <2>1, <2>2, <2>6 DEF Settled, CapOf
<1>8. CASE RecordDecision(c)
  <2>1. pc[c] = "audit" /\ pc'[c] \in {"decide", "route"} /\ UNCHANGED <<sent, counter>>
    BY <1>0, <1>8 DEF RecordDecision, Shaped
  <2> QED  BY <2>1, SettledStays DEF Ended, Underway
<1>9. CASE AuditRaises(c) \/ OwnCrash(c)
  <2>1. pc'[c] \in Ended /\ UNCHANGED <<sent, counter>>
    BY <1>0, <1>9 DEF AuditRaises, OwnCrash, Shaped, Ended
  <2> QED  BY <2>1, SettledStays
<1>10. CASE Route(c)
  <2>1. pc[c] = "route" /\ pc'[c] \in {"route", "done"} /\ UNCHANGED <<sent, counter>>
    BY <1>0, <1>10 DEF Route, RouteNothing, RouteHeld, RouteFails, HandOn, Shaped
  <2> QED  BY <2>1, SettledStays DEF Ended, Underway
<1> QED  BY <1>1, <1>2, <1>3, <1>4, <1>5, <1>6, <1>7, <1>8, <1>9, <1>10 DEF Run, Evaluate

LEMMA CappedInit == Init => Capped
<1> SUFFICES ASSUME Init, NEW c \in Calls  PROVE ~Lone(c)
  BY DEF Capped
<1> QED  BY SweepAssumption DEF Init, Lone

LEMMA CappedRun ==
  ASSUME Typed, Reported, Owned, Capped, [Next]_vars,
         NEW c \in Calls, Start(c) \/ Run(c) \/ OwnCrash(c), NEW d \in Calls, Lone(d)'
  PROVE  Settled(d)'
<1>0. Shaped /\ Placed(c) /\ Placed(d) /\ Told(d)
  BY DEF Typed, Reported
<1>1. CASE adapter[d] = NoAdapter
  <2>1. pc[d] \in Unbound \cup Ended /\ \A k \in Keys : counter[d][k] = 0
    BY <1>0, <1>1, SweepAssumption DEF Placed, Owned
  <2>2. c = d /\ adapter'[d] = d
    BY <1>1, OthersUnmoved, SweepAssumption DEF Unmoved, Lone, Typed
  <2>3. /\ BindOwn(c) \/ BindMissed(c) \/ BindCached(c)
    <3> USE DEF inputs, progress, world, store
    <3>1. adapter' # adapter
      BY <1>1, <2>2, SweepAssumption
    <3>2. ~Start(c) /\ ~ReadMoment(c) /\ ~Detect(c) /\ ~OwnCrash(c) /\ ~BindStored(c)
      BY <3>1 DEF Start, ReadMoment, Detect, OwnCrash, BindStored
    <3>3. ~Evaluate(c)
      BY <3>1 DEF Evaluate, Decide, Prepare, Deliver, ReadCount, WriteCount, RecordDecision,
                  AuditRaises
    <3>4. ~Route(c)
      BY <3>1 DEF Route, RouteNothing, RouteHeld, RouteFails, HandOn
    <3> QED  BY <3>2, <3>3, <3>4 DEF Run, Bind
  <2>4. /\ pc[d] = "bind" /\ pc'[d] \in {"moment", "store"} /\ UNCHANGED <<sent, counter>>
    BY <1>0, <2>2, <2>3 DEF BindOwn, BindMissed, BindCached, Go, Shaped, store
  <2>5. \A k : Mine(d, k) = {}
    <3>1. \A p \in sent : p[1] # d
      <4> SUFFICES ASSUME NEW p \in sent  PROVE p[1] # d
        OBVIOUS
      <4>1. PICK b \in Calls, i \in Positions : p = <<b, i>>
        BY <1>0 DEF Shaped
      <4> QED  BY <1>0, <2>4, <4>1 DEF Told, Early, Unbound
    <3> QED  BY <3>1 DEF Mine
  <2>6. \A k : Mine(d, k)' = {} /\ Uncounted(d, k)' = 0
    BY <2>4, <2>5, MineStays DEF Uncounted
  <2> QED  BY <2>1, <2>4, <2>6, FS_EmptySet DEF Settled
<1>2. CASE adapter[d] # NoAdapter
  <2>1. adapter[d] \in Calls /\ \A b \in Calls : adapter[b] \in Calls => adapter'[b] = adapter[b]
    BY <1>0, <1>2, OwnedRun DEF Shaped
  <2>2. Lone(d)
    BY <1>0, <2>1 DEF Lone
  <2>3. Settled(d)
    BY <2>2 DEF Capped
  <2>4. CASE c = d
    <3>1. CASE Bind(c)
      <4>1. pc[d] = "store" /\ pc'[d] = "moment" /\ UNCHANGED <<sent, counter>>
        BY <1>0, <1>2, <2>4, <3>1
           DEF Bind, BindOwn, BindCached, BindMissed, BindStored, Placed, Unbound, Go, Shaped, store
      <4> QED  BY <2>3, <4>1, SettledStays DEF Ended, Underway
    <3>2. CASE ~Bind(c)
      BY <2>2, <2>3, <2>4, <3>2, SettledRun
    <3> QED  BY <3>1, <3>2
  <2>5. CASE c # d
    <3>1. Unmoved(d) /\ \A i : <<d, i>> \in sent' => <<d, i>> \in sent
      BY <2>5, OthersUnmoved, OthersUntouched DEF Typed
    <3>2. counter'[d] = counter[d]
      <4>1. CASE WriteCount(c)
        <5>1. adapter[c] # d
          BY <2>2, <2>5 DEF Lone
        <5> QED  BY <1>0, <4>1, <5>1 DEF WriteCount, Shaped
      <4> QED  BY <4>1, OnlyWritesCount DEF Typed, store
    <3> QED  BY <2>3, <3>1, <3>2, SettledStays
  <2> QED  BY <2>4, <2>5
<1> QED  BY <1>1, <1>2

LEMMA CappedNext == Typed /\ Reported /\ Owned /\ Capped /\ [Next]_vars => Capped'
<1> SUFFICES ASSUME Typed, Reported, Owned, Capped, [Next]_vars, NEW d \in Calls, Lone(d)'
             PROVE  Settled(d)'
  BY DEF Capped
<1>1. CASE \E c \in Calls : Start(c) \/ Run(c) \/ OwnCrash(c)
  BY <1>1, CappedRun
<1>2. CASE ApiCrash \/ ClockTick \/ UNCHANGED vars
  <2>1. UNCHANGED <<inputs, progress, adapter, store, sent>>
    BY <1>2 DEF ApiCrash, ClockTick, vars, world
  <2>2. Lone(d) /\ Settled(d)
    BY <2>1 DEF Lone, Capped
  <2>3. pc'[d] = pc[d] \/ pc'[d] \in Ended
    BY <1>2 DEF ApiCrash, ClockTick, vars, Ended
  <2>4. Unmoved(d) \/ pc'[d] \in Ended
    BY <2>1, <2>3 DEF Unmoved, inputs, progress
  <2> QED  BY <2>1, <2>2, <2>4, SettledStays DEF store
<1> QED  BY <1>1, <1>2 DEF Next, Finished

(* A sweep whose consent adapter nobody else holds keeps its cap, however  *)
(* many of its events are about one customer.                              *)
THEOREM LoneSweepsKeepTheirCap == Spec => []LoneSweepIsCapped
<1>1. ASSUME Typed, Owned, Capped  PROVE LoneSweepIsCapped
  <2> SUFFICES ASSUME NEW a \in Calls, Cardinality(UsersOf(a)) = 1, NEW k \in Keys,
                      {p \in sent : adapter[p[1]] = a /\ KeyOf(p) = k} # {}
               PROVE  Cardinality({p \in sent : adapter[p[1]] = a /\ KeyOf(p) = k})
                        <= FrequencyCaps[<<k[2], k[3]>>]
    BY DEF LoneSweepIsCapped
  <2>1. IsFiniteSet(UsersOf(a))
    BY SweepAssumption, FS_Subset DEF UsersOf
  <2>2. PICK c : UsersOf(a) = {c}
    BY <2>1, FS_Singleton
  <2>3. c \in Calls /\ adapter[c] = a
    BY <2>2 DEF UsersOf
  <2>4. adapter[a] = a
    BY <1>1, <2>3 DEF Owned
  <2>5. c = a /\ Lone(a)
    BY <2>2, <2>4 DEF UsersOf, Lone
  <2>6. \A p \in sent : adapter[p[1]] = a <=> p[1] = a
    <3> SUFFICES ASSUME NEW p \in sent  PROVE adapter[p[1]] = a <=> p[1] = a
      OBVIOUS
    <3>1. p[1] \in Calls
      BY <1>1 DEF Typed, Shaped
    <3> QED  BY <2>5, <3>1 DEF Lone
  <2>7. {p \in sent : adapter[p[1]] = a /\ KeyOf(p) = k} = Mine(a, k)
    BY <2>6 DEF Mine
  <2> QED  BY <1>1, <2>5, <2>7 DEF Capped, Settled, CapOf
<1> QED  BY <1>1, TypedInit, TypedNext, ReportedInit, ReportedNext, OwnedInit, OwnedNext,
            CappedInit, CappedNext, PTL DEF Spec

-----------------------------------------------------------------------------
(* No batch is longer than the longest that may be asked for, and an event *)
(* has a verdict, open or known, from its decision to its record.          *)
Fitting(c) ==
  /\ batch[c] # <<>> => Len(batch[c]) <= MaxBatch
  /\ pc[c] \in {"decide", "route", "done"} => verdict[c] = "none"
  /\ pc[c] \in Underway => verdict[c] = "open"

LEMMA MaxBatchIsLargest ==
  MaxBatch \in Int /\ \A q \in Queries : q.limit <= MaxBatch
<1>1. \E n \in {q.limit : q \in Queries} : \A q \in Queries : q.limit <= n
  BY QueryAssumption
<1>2. MaxBatch \in {q.limit : q \in Queries} /\ \A q \in Queries : q.limit <= MaxBatch
  BY <1>1 DEF MaxBatch
<1> QED  BY <1>2, QueryAssumption

LEMMA FittingInit == Init => \A c \in Calls : Fitting(c)
  BY DEF Init, Fitting, Underway

LEMMA FittingRun ==
  ASSUME Typed, NEW c \in Calls, Fitting(c), Start(c) \/ Run(c) \/ OwnCrash(c)
  PROVE  Fitting(c)'
<1>0. Shaped /\ Placed(c)
  BY DEF Typed
<1> USE DEF Fitting, Underway, Go, Raise, inputs, progress, world, store
<1>1. CASE Start(c) \/ Bind(c) \/ ReadMoment(c)
  BY <1>0, <1>1 DEF Start, Bind, BindOwn, BindCached, BindMissed, BindStored, ReadMoment, Shaped
<1>2. CASE Detect(c)
  <2>1. /\ query[c] \in Queries /\ now \in 0..MaxNow /\ verdict[c] = "none" /\ batch[c] = <<>>
        /\ verdict' = verdict /\ pc'[c] \in {"done", "decide", "raised"}
    BY <1>0, <1>2 DEF Detect, Placed, Early, Shaped
  <2>2. PICK f \in Feeds : batch'[c] = Events(f, query[c], now) \/ batch'[c] = <<>>
    BY <1>0, <1>2, <2>1 DEF Detect, Shaped
  <2> DEFINE selected == Select(f, query[c], now)
  <2>3. selected \in Seq({f[i] : i \in DOMAIN f}) /\ (selected # <<>> => Len(selected) <= query[c].limit)
    <3>1. /\ selected \in Seq({f[i] : i \in DOMAIN f})
          /\ Len(selected) # 0 => Len(selected) <= query[c].limit
      BY <2>1, SelectedIsPrefix
    <3> HIDE DEF selected
    <3> QED  BY <3>1
  <2>4. Events(f, query[c], now) = [i \in DOMAIN selected |-> ToEvent(selected[i], now)]
    BY DEF Events
  <2> HIDE DEF selected
  <2>5. /\ Len(Events(f, query[c], now)) = Len(selected) /\ Len(selected) \in Nat
        /\ selected = <<>> => Events(f, query[c], now) = <<>>
    <3>1. DOMAIN selected = 1..Len(selected) /\ Len(selected) \in Nat
      BY <2>3
    <3>2. Len([i \in 1..Len(selected) |-> ToEvent(selected[i], now)]) = Len(selected)
      BY <3>1
    <3> QED  BY <2>4, <3>1, <3>2
  <2>6. query[c].limit <= MaxBatch /\ query[c].limit \in Int /\ MaxBatch \in Int
    BY <2>1, MaxBatchIsLargest, QueryAssumption
  <2>7. batch'[c] # <<>> => Len(batch'[c]) <= MaxBatch
    BY <2>2, <2>3, <2>5, <2>6
  <2> QED  BY <2>1, <2>7
<1>3. CASE Decide(c) \/ Prepare(c) \/ AuditRaises(c)
  BY <1>0, <1>3 DEF Decide, Prepare, AuditRaises, Conclude, Shaped
<1>4. CASE Deliver(c) \/ ReadCount(c) \/ WriteCount(c)
  BY <1>0, <1>4 DEF Deliver, ReadCount, WriteCount, Conclude, Shaped
<1>5. CASE RecordDecision(c)
  BY <1>0, <1>5 DEF RecordDecision, Shaped
<1>6. CASE Route(c)
  BY <1>0, <1>6 DEF Route, RouteNothing, RouteHeld, RouteFails, HandOn, Shaped
<1>7. CASE OwnCrash(c)
  BY <1>0, <1>7 DEF OwnCrash, Shaped
<1> QED  BY <1>1, <1>2, <1>3, <1>4, <1>5, <1>6, <1>7 DEF Run, Evaluate

LEMMA FittingNext ==
  Typed /\ (\A c \in Calls : Fitting(c)) /\ [Next]_vars => (\A c \in Calls : Fitting(c))'
<1> SUFFICES ASSUME Typed, \A c \in Calls : Fitting(c), [Next]_vars, NEW d \in Calls
             PROVE  Fitting(d)'
  OBVIOUS
<1>1. ASSUME NEW c \in Calls \ {d}, Start(c) \/ Run(c) \/ OwnCrash(c)
      PROVE  Fitting(d)'
  <2>1. Unmoved(d)
    BY <1>1, OthersUnmoved DEF Typed
  <2> QED  BY <2>1 DEF Unmoved, Fitting
<1>2. CASE Start(d) \/ Run(d) \/ OwnCrash(d)
  BY <1>2, FittingRun
<1>3. CASE ApiCrash
  BY <1>3 DEF ApiCrash, Fitting, Underway, inputs, progress, InFlight
<1>4. CASE ClockTick \/ UNCHANGED vars
  BY <1>4 DEF ClockTick, vars, Fitting, inputs, progress
<1> QED  BY <1>1, <1>2, <1>3, <1>4 DEF Next, Finished

(* The events of the sweeps as requests of the contract.                   *)
Slots == Calls \X (1..MaxBatch)

SlotStatuses == [r \in Slots |-> StatusOf(r[1], r[2])]

SameStatuses(c) == \A i \in 1..MaxBatch : StatusOf(c, i)' = StatusOf(c, i)

(* A sweep that judges an event is at a position of its batch.             *)
LEMMA JudgedIsSlot ==
  ASSUME Typed, NEW c \in Calls, Fitting(c), pc[c] \in OnEvent
  PROVE  At(c) \in 1..MaxBatch /\ <<c, At(c)>> \in Slots
<1>1. At(c) \in 1..Len(batch[c]) /\ Len(batch[c]) \in Nat
  BY CurrentIsGiven, PositionOf DEF Typed
<1>2. batch[c] # <<>>
  BY <1>1
<1>3. Len(batch[c]) <= MaxBatch /\ MaxBatch \in Int
  BY <1>2, MaxBatchIsLargest DEF Fitting
<1> QED  BY <1>1, <1>3 DEF Slots

LEMMA JudgingIsOnEvent ==
  ASSUME Typed, NEW c \in Calls, Fitting(c), pc[c] \notin Ended, verdict[c] # "none"
  PROVE  pc[c] \in OnEvent
  BY DEF Typed, Shaped, PCs, Placed, Fitting, Ended, OnEvent, Underway, Early, Unbound

LEMMA UnmovedStatuses ==
  ASSUME NEW c, Unmoved(c)
  PROVE  SameStatuses(c)
  BY DEF Unmoved, SameStatuses, StatusOf, At

(* One event, or a set of them, changes its status.                        *)
LEMMA OneSlot ==
  ASSUME NEW c \in Calls, NEW i \in 1..MaxBatch, NEW v, StatusOf(c, i)' = v,
         \A j \in 1..MaxBatch : j # i => StatusOf(c, j)' = StatusOf(c, j),
         \A d \in Calls \ {c} : SameStatuses(d)
  PROVE  /\ SlotStatuses' = [SlotStatuses EXCEPT ![<<c, i>>] = v]
         /\ SlotStatuses' = [r \in Slots |-> IF r \in {<<c, i>>} THEN v ELSE SlotStatuses[r]]
<1>1. ASSUME NEW r \in Slots
      PROVE  StatusOf(r[1], r[2])' = IF r = <<c, i>> THEN v ELSE StatusOf(r[1], r[2])
  <2>1. PICK d \in Calls, j \in 1..MaxBatch : r = <<d, j>>
    BY DEF Slots
  <2> QED  BY <2>1 DEF SameStatuses
<1> QED  BY <1>1 DEF SlotStatuses

LEMMA SameSlots ==
  ASSUME \A d \in Calls : SameStatuses(d)
  PROVE  SlotStatuses' = SlotStatuses
<1>1. ASSUME NEW r \in Slots  PROVE StatusOf(r[1], r[2])' = StatusOf(r[1], r[2])
  <2>1. PICK d \in Calls, j \in 1..MaxBatch : r = <<d, j>>
    BY DEF Slots
  <2> QED  BY <2>1 DEF SameStatuses
<1> QED  BY <1>1 DEF SlotStatuses

LEMMA SweepContractInit == Init => Contract!Init
<1> SUFFICES ASSUME Init  PROVE Contract!Init
  OBVIOUS
<1>1. \A c \in Calls, i \in 1..MaxBatch : StatusOf(c, i) = "new"
  BY MaxBatchIsLargest DEF Init, StatusOf, At
<1>2. sent = {} /\ queue = {}
  BY DEF Init
<1> QED  BY <1>1, <1>2 DEF Contract!Init

(* The steps of a sweep that change no status.                             *)
LEMMA QuietSlots ==
  ASSUME Typed, NEW c \in Calls, Fitting(c), trail'[c] = trail[c],
         \/ verdict[c] = "none" /\ verdict'[c] = "none"
         \/ /\ verdict[c] # "none" /\ verdict'[c] # "none"
            /\ pc[c] \notin {"raised", "lost"} /\ pc'[c] \notin {"raised", "lost"}
  PROVE  SameStatuses(c)
  BY DEF SameStatuses, StatusOf, At

(* A step of a sweep is a step of the contract or none.                    *)
LEMMA SweepContractRun ==
  ASSUME Typed, Reported, \A d \in Calls : Fitting(d),
         NEW c \in Calls, Start(c) \/ Run(c) \/ OwnCrash(c)
  PROVE  [Contract!Next]_Contract!vars
<1>0. /\ Shaped /\ Placed(c) /\ Fitting(c) /\ Told(c) /\ Answered(c)
      /\ \A d \in Calls \ {c} : SameStatuses(d)
  BY OthersUnmoved, UnmovedStatuses DEF Typed, Reported
<1>p. PICK p \in Positions : p = At(c)
  BY <1>0, PositionOf
<1>a. ASSUME SameStatuses(c), UNCHANGED <<sent, queue>>
      PROVE  [Contract!Next]_Contract!vars
  <2>1. SlotStatuses' = SlotStatuses
    BY <1>0, <1>a, SameSlots
  <2>2. UNCHANGED Contract!vars
    BY <1>a, <2>1 DEF Contract!vars, SlotStatuses, Slots
  <2> QED  BY <2>2
<1>b. ASSUME pc[c] \in OnEvent, pc'[c] \in {"raised", "lost"}, verdict[c] # "none",
             UNCHANGED <<sent, queue, verdict, trail>>
      PROVE  [Contract!Next]_Contract!vars
  <2>1. <<c, p>> \in Slots /\ p \in 1..MaxBatch
    BY <1>0, <1>b, JudgedIsSlot, <1>p
  <2>2. /\ StatusOf(c, p) = "open" /\ StatusOf(c, p)' = "aborted"
        /\ \A j \in 1..MaxBatch : j # p => StatusOf(c, j)' = StatusOf(c, j)
    BY <1>0, <1>b, <1>p, PositionOf DEF StatusOf, At, OnEvent, Underway, Positions
  <2>3. SlotStatuses' = [r \in Slots |-> IF r \in {<<c, p>>} THEN "aborted" ELSE SlotStatuses[r]]
    BY <1>0, <2>1, <2>2, OneSlot
  <2>4. SlotStatuses[<<c, p>>] = "open"
    BY <2>1, <2>2 DEF SlotStatuses, Slots
  <2>5. Contract!Abort({<<c, p>>})
    BY <1>b, <2>1, <2>3, <2>4 DEF Contract!Abort, SlotStatuses, Slots
  <2>6. {<<c, p>>} \in SUBSET (Calls \X (1..MaxBatch))
    BY <2>1 DEF Slots
  <2> QED  BY <2>5, <2>6 DEF Contract!Next
<1> USE DEF Go, Raise, inputs, progress, world, store
<1>1. CASE Start(c) \/ Bind(c) \/ ReadMoment(c)
  <2>1. /\ trail'[c] = trail[c] /\ verdict[c] = "none" /\ verdict'[c] = "none"
        /\ UNCHANGED <<sent, queue>>
    BY <1>0, <1>1 DEF Start, Bind, BindOwn, BindCached, BindMissed, BindStored, ReadMoment,
       Placed, Early, Unbound
  <2> QED  BY <1>0, <1>a, <2>1, QuietSlots
<1>2. CASE Detect(c)
  <2>1. /\ trail'[c] = trail[c] /\ verdict[c] = "none" /\ verdict'[c] = "none"
        /\ UNCHANGED <<sent, queue>>
    BY <1>0, <1>2 DEF Detect, Placed, Early
  <2> QED  BY <1>0, <1>a, <2>1, QuietSlots
<1>3. CASE Decide(c)
  <2>1. /\ pc[c] \in OnEvent /\ verdict[c] = "none" /\ verdict'[c] # "none"
        /\ pc'[c] \in {"prepare", "audit"} /\ UNCHANGED <<trail, sent, queue>>
    BY <1>0, <1>3 DEF Decide, Conclude, Shaped, OnEvent, Fitting
  <2>2. <<c, p>> \in Slots /\ p \in 1..MaxBatch
    BY <1>0, <2>1, JudgedIsSlot, <1>p
  <2>3. /\ StatusOf(c, p) = "new" /\ StatusOf(c, p)' = "open"
        /\ \A j \in 1..MaxBatch : j # p => StatusOf(c, j)' = StatusOf(c, j)
    BY <1>0, <1>p, <2>1, PositionOf DEF StatusOf, At, Positions
  <2>4. SlotStatuses' = [SlotStatuses EXCEPT ![<<c, p>>] = "open"]
    BY <1>0, <2>2, <2>3, OneSlot
  <2>5. SlotStatuses[<<c, p>>] = "new"
    BY <2>2, <2>3 DEF SlotStatuses, Slots
  <2>6. Contract!Accept(<<c, p>>)
    BY <2>1, <2>4, <2>5 DEF Contract!Accept, SlotStatuses, Slots
  <2> QED  BY <2>2, <2>6 DEF Contract!Next, Slots
<1>4. CASE Prepare(c) \/ ReadCount(c) \/ WriteCount(c)
  <2>1. /\ verdict[c] # "none" /\ verdict'[c] # "none" /\ UNCHANGED <<trail, sent, queue>>
        /\ pc[c] \notin {"raised", "lost"} /\ pc'[c] \notin {"raised", "lost"}
    BY <1>0, <1>4 DEF Prepare, ReadCount, WriteCount, Conclude, Shaped, Fitting, Underway
  <2> QED  BY <1>0, <1>a, <2>1, QuietSlots
<1>5. CASE Deliver(c)
  <2>1. /\ pc[c] = "deliver" /\ pc[c] \in OnEvent /\ pc'[c] = "read" /\ verdict[c] = "open"
        /\ sent' = sent \cup {<<c, p>>} /\ <<c, p>> \notin sent
        /\ UNCHANGED <<trail, verdict, queue>>
    BY <1>0, <1>p, <1>5 DEF Deliver, Shaped, OnEvent, Underway, Fitting, Told
  <2>2. <<c, p>> \in Slots /\ p \in 1..MaxBatch
    BY <1>0, <2>1, JudgedIsSlot, <1>p
  <2>3. SameStatuses(c)
    BY <1>0, <2>1, QuietSlots
  <2>4. SlotStatuses' = SlotStatuses
    BY <1>0, <2>3, SameSlots
  <2>5. StatusOf(c, p) = "open"
    BY <1>0, <1>p, <2>1, PositionOf DEF StatusOf
  <2>6. SlotStatuses[<<c, p>>] = "open"
    BY <2>2, <2>5 DEF SlotStatuses, Slots
  <2>7. Contract!Contact(<<c, p>>)
    BY <2>1, <2>4, <2>6 DEF Contract!Contact, SlotStatuses, Slots
  <2> QED  BY <2>2, <2>7 DEF Contract!Next, Slots
<1>6. CASE RecordDecision(c)
  <2>1. /\ pc[c] = "audit" /\ pc[c] \in OnEvent /\ pc'[c] \in {"decide", "route"}
        /\ trail'[c] = Append(trail[c], verdict[c]) /\ verdict'[c] = "none"
        /\ verdict[c] \in Verdicts /\ verdict[c] # "none"
        /\ verdict[c] = "delivered" <=> <<c, p>> \in sent
        /\ UNCHANGED <<sent, queue>> /\ trail[c] \in Seq(Verdicts)
    BY <1>0, <1>p, <1>6 DEF RecordDecision, Shaped, OnEvent, Placed, Told, Verdicts
  <2>2. <<c, p>> \in Slots /\ p \in 1..MaxBatch
    BY <1>0, <2>1, JudgedIsSlot, <1>p
  <2>3. /\ p = Len(trail[c]) + 1 /\ Len(trail[c]) \in Nat /\ At(c)' = p + 1
        /\ trail'[c][p] = verdict[c]
        /\ \A j \in 1..MaxBatch : j < p => trail'[c][j] = trail[c][j]
    BY <1>p, <2>1 DEF At
  <2>4. StatusOf(c, p) = "open" /\ StatusOf(c, p)' = verdict[c]
    BY <1>p, <2>1, <2>2, <2>3 DEF StatusOf
  <2>5. ASSUME NEW j \in 1..MaxBatch, j # p  PROVE StatusOf(c, j)' = StatusOf(c, j)
    <3>1. CASE j < p
      BY <1>p, <2>1, <2>3, <3>1 DEF StatusOf
    <3>2. CASE j > p
      BY <1>p, <2>1, <2>3, <3>2 DEF StatusOf
    <3> QED  BY <2>3, <2>5, <3>1, <3>2
  <2>6. SlotStatuses' = [SlotStatuses EXCEPT ![<<c, p>>] = verdict[c]]
    BY <1>0, <2>2, <2>4, <2>5, OneSlot
  <2>7. SlotStatuses[<<c, p>>] = "open"
    BY <2>2, <2>4 DEF SlotStatuses, Slots
  <2>8. verdict[c] \in Contract!Verdicts
    BY <2>1 DEF Verdicts, Contract!Verdicts
  <2>9. Contract!Conclude(<<c, p>>)
    BY <2>1, <2>6, <2>7, <2>8 DEF Contract!Conclude, SlotStatuses, Slots
  <2> QED  BY <2>2, <2>9 DEF Contract!Next, Slots
<1>7. CASE AuditRaises(c)
  <2>1. /\ pc[c] \in OnEvent /\ pc'[c] = "raised" /\ verdict[c] # "none"
        /\ UNCHANGED <<sent, queue, verdict, trail>>
    BY <1>0, <1>7 DEF AuditRaises, Shaped, OnEvent, Underway, Fitting, Placed, Verdicts
  <2> QED  BY <1>b, <2>1
<1>8. CASE OwnCrash(c)
  <2>1. /\ pc[c] \notin Ended /\ pc'[c] = "lost" /\ UNCHANGED <<sent, queue, verdict, trail>>
    BY <1>0, <1>8 DEF OwnCrash, InFlight, Shaped
  <2>2. CASE verdict[c] = "none"
    BY <1>0, <1>a, <2>1, <2>2, QuietSlots
  <2>3. CASE verdict[c] # "none"
    <3>1. pc[c] \in OnEvent
      BY <1>0, <2>1, <2>3, JudgingIsOnEvent
    <3> QED  BY <1>b, <2>1, <2>3, <3>1
  <2> QED  BY <2>2, <2>3
<1>9. CASE Route(c)
  <2> DEFINE i == Result(c)
  <2>1. /\ pc[c] = "route" /\ pc'[c] \in {"route", "done"} /\ verdict[c] = "none"
        /\ UNCHANGED <<sent, verdict, trail>>
        /\ queue' = queue \/ (trail[c][i] = "held" /\ queue' = queue \cup {<<c, i>>})
    BY <1>0, <1>9 DEF Route, RouteNothing, RouteHeld, RouteFails, HandOn, IsHeld, Shaped, Fitting
  <2>2. SameStatuses(c)
    BY <1>0, <2>1, QuietSlots
  <2>3. SlotStatuses' = SlotStatuses
    BY <1>0, <2>2, SameSlots
  <2>4. CASE queue' = queue
    BY <1>a, <2>1, <2>2, <2>4
  <2>5. CASE trail[c][i] = "held" /\ queue' = queue \cup {<<c, i>>} /\ queue' # queue
    <3>1. /\ i = Len(handed[c]) + 1 /\ Len(handed[c]) \in Nat /\ Len(handed[c]) < Len(trail[c])
          /\ Len(trail[c]) \in Nat /\ Len(trail[c]) = Len(batch[c])
      BY <1>0, <2>1, PositionOf DEF Placed
    <3>2. Len(batch[c]) <= MaxBatch /\ MaxBatch \in Int
      <4>1. batch[c] # <<>>
        BY <3>1
      <4> QED  BY <1>0, <4>1, MaxBatchIsLargest DEF Fitting
    <3>3. i \in 1..MaxBatch /\ i < At(c)
      BY <3>1, <3>2 DEF At
    <3>4. StatusOf(c, i) = "held"
      BY <2>5, <3>3 DEF StatusOf
    <3>5. <<c, i>> \notin queue
      BY <2>5
    <3> HIDE DEF i
    <3>6. SlotStatuses[<<c, i>>] = "held"
      BY <3>3, <3>4 DEF SlotStatuses, Slots
    <3>7. Contract!HandOver(<<c, i>>)
      BY <2>1, <2>3, <2>5, <3>5, <3>6 DEF Contract!HandOver, SlotStatuses, Slots
    <3>8. <<c, i>> \in Calls \X (1..MaxBatch)
      BY <3>3
    <3> QED  BY <3>7, <3>8 DEF Contract!Next
  <2> QED  BY <2>1, <2>4, <2>5
<1> QED  BY <1>1, <1>2, <1>3, <1>4, <1>5, <1>6, <1>7, <1>8, <1>9 DEF Run, Evaluate

(* A crash of the API aborts every event its sweeps are at.                *)
LEMMA SweepContractCrash ==
  ASSUME Typed, \A c \in Calls : Fitting(c), ApiCrash
  PROVE  [Contract!Next]_Contract!vars
<1> DEFINE Hit == {c \in InFlight : surface[c] = "api" /\ verdict[c] # "none"}
           S   == {<<c, At(c)>> : c \in Hit}
<1>1. /\ UNCHANGED <<trail, verdict, sent, queue>>
      /\ \A c \in Calls : At(c)' = At(c)
      /\ \A c \in Calls : pc'[c] = IF c \in InFlight /\ surface[c] = "api" THEN "lost" ELSE pc[c]
  BY DEF ApiCrash, inputs, progress, At
<1>2. \A c \in Hit : /\ c \in Calls /\ pc[c] \in OnEvent /\ pc[c] \notin Ended
                     /\ At(c) \in 1..MaxBatch /\ <<c, At(c)>> \in Slots
  BY JudgingIsOnEvent, JudgedIsSlot DEF InFlight, Typed
<1>3. ASSUME NEW c \in Calls \ Hit  PROVE SameStatuses(c)
  <2>1. CASE verdict[c] = "none"
    BY <1>1, <2>1, QuietSlots
  <2>2. CASE verdict[c] # "none"
    <3>1. pc'[c] = pc[c]
      BY <1>1, <1>3, <2>2
    <3> QED  BY <1>1, <3>1 DEF SameStatuses, StatusOf
  <2> QED  BY <2>1, <2>2
<1>4. ASSUME NEW c \in Hit, NEW i \in 1..MaxBatch
      PROVE  /\ i = At(c) => StatusOf(c, i) = "open" /\ StatusOf(c, i)' = "aborted"
             /\ i # At(c) => StatusOf(c, i)' = StatusOf(c, i)
  <2>1. /\ At(c) \in 1..MaxBatch /\ verdict[c] # "none" /\ pc[c] \notin {"raised", "lost"}
        /\ c \in InFlight /\ surface[c] = "api" /\ c \in Calls
    BY <1>2 DEF Ended
  <2>2. pc'[c] = "lost" /\ At(c)' = At(c) /\ verdict'[c] = verdict[c] /\ trail'[c] = trail[c]
    BY <1>1, <2>1
  <2>3. PICK p \in 1..MaxBatch : p = At(c)
    BY <2>1
  <2>4. MaxBatch \in Int
    BY MaxBatchIsLargest
  <2> HIDE DEF Hit, S
  <2> QED  BY <2>1, <2>2, <2>3, <2>4 DEF StatusOf
<1> HIDE DEF Hit
<1>5. S \subseteq Slots
  BY <1>2
<1>6. ASSUME NEW r \in Slots
      PROVE  /\ r \in S => SlotStatuses[r] = "open" /\ SlotStatuses'[r] = "aborted"
             /\ r \notin S => SlotStatuses'[r] = SlotStatuses[r]
  <2>1. PICK c \in Calls, i \in 1..MaxBatch : r = <<c, i>>
    BY DEF Slots
  <2>2. SlotStatuses[r] = StatusOf(c, i) /\ SlotStatuses'[r] = StatusOf(c, i)'
    BY <2>1 DEF SlotStatuses
  <2>3. r \in S <=> c \in Hit /\ i = At(c)
    BY <2>1
  <2>4. CASE c \in Hit
    BY <1>4, <2>2, <2>3, <2>4
  <2>5. CASE c \notin Hit
    BY <1>3, <2>2, <2>3, <2>5 DEF SameStatuses
  <2> QED  BY <2>4, <2>5
<1> HIDE DEF S
<1>7. CASE S = {}
  <2>1. SlotStatuses' = SlotStatuses
    BY <1>6, <1>7 DEF SlotStatuses
  <2> QED  BY <1>1, <2>1 DEF Contract!vars, SlotStatuses, Slots
<1>8. CASE S # {}
  <2>1. SlotStatuses' = [r \in Slots |-> IF r \in S THEN "aborted" ELSE SlotStatuses[r]]
    BY <1>6 DEF SlotStatuses
  <2>2. \A r \in S : SlotStatuses[r] = "open"
    BY <1>5, <1>6
  <2>3. Contract!Abort(S)
    BY <1>1, <1>8, <2>1, <2>2 DEF Contract!Abort, SlotStatuses, Slots
  <2> QED  BY <1>5, <2>3 DEF Contract!Next, Slots
<1> QED  BY <1>7, <1>8

LEMMA SweepContractNext ==
  ASSUME Typed, Reported, \A c \in Calls : Fitting(c), [Next]_vars
  PROVE  [Contract!Next]_Contract!vars
<1>1. ASSUME NEW c \in Calls, Start(c) \/ Run(c) \/ OwnCrash(c)
      PROVE  [Contract!Next]_Contract!vars
  BY <1>1, SweepContractRun
<1>2. CASE ClockTick \/ UNCHANGED vars
  <2>1. UNCHANGED <<pc, trail, verdict, sent, queue>>
    BY <1>2 DEF ClockTick, vars, inputs, progress, world
  <2>2. \A c \in Calls : SameStatuses(c)
    BY <2>1 DEF SameStatuses, StatusOf, At
  <2>3. SlotStatuses' = SlotStatuses
    BY <2>2, SameSlots
  <2> QED  BY <2>1, <2>3 DEF Contract!vars, SlotStatuses, Slots
<1> QED  BY <1>1, <1>2, SweepContractCrash DEF Next, Finished

(* Whatever a sweep does to one event it does as the contract of a single  *)
(* evaluation allows (outreach_service.py lines 157-190).                  *)
THEOREM SweepsKeepContract == Spec => SweepImplementsContract
<1> DEFINE Fit == \A c \in Calls : Fitting(c)
<1>1. Init => Typed /\ Reported /\ Fit /\ Contract!Init
  BY TypedInit, ReportedInit, FittingInit, SweepContractInit
<1>2. Typed /\ Reported /\ Fit /\ [Next]_vars
      => Typed' /\ Reported' /\ Fit' /\ [Contract!Next]_Contract!vars
  <2>1. Typed /\ Reported /\ Fit /\ [Next]_vars => Typed' /\ Reported' /\ Fit'
    BY TypedNext, ReportedNext, FittingNext
  <2>2. Typed /\ Reported /\ Fit /\ [Next]_vars => [Contract!Next]_Contract!vars
    BY SweepContractNext
  <2> QED  BY <2>1, <2>2
<1> QED  BY <1>1, <1>2, PTL DEF Spec, SweepImplementsContract, Contract!Spec

-----------------------------------------------------------------------------
(* Where every record is written and nothing dies, what ends a sweep early *)
(* is a feed it cannot read, and then nothing has been decided yet.        *)
CutOffUndecided ==
  \A c \in Calls : pc[c] # "lost" /\ (pc[c] = "raised" => trail[c] = <<>>)

LEMMA CutOffUndecidedNext ==
  ASSUME Typed, CutOffUndecided, [Next]_vars, Faults \cap {"audit_error", "crash"} = {}
  PROVE  CutOffUndecided'
<1> USE DEF CutOffUndecided, Typed, Shaped, Go, Raise, inputs, progress, world, store
<1>1. ASSUME NEW c \in Calls, Detect(c)
      PROVE  CutOffUndecided'
  <2>1. batch[c] = <<>> /\ Len(trail[c]) <= Len(batch[c]) /\ trail[c] \in Seq(Verdicts)
    BY <1>1 DEF Detect, Placed, Early
  <2>2. trail[c] = <<>>
    BY <2>1
  <2> QED  BY <1>1, <2>2 DEF Detect
<1>2. ASSUME NEW c \in Calls, Start(c) \/ Bind(c) \/ ReadMoment(c)
      PROVE  CutOffUndecided'
  BY <1>2 DEF Start, Bind, BindOwn, BindCached, BindMissed, BindStored, ReadMoment
<1>3. ASSUME NEW c \in Calls, Evaluate(c)
      PROVE  CutOffUndecided'
  <2>1. CASE Decide(c) \/ Prepare(c) \/ Deliver(c) \/ ReadCount(c) \/ WriteCount(c)
    BY <2>1 DEF Decide, Prepare, Deliver, ReadCount, WriteCount, Conclude
  <2>2. CASE RecordDecision(c)
    BY <2>2 DEF RecordDecision
  <2>3. ~AuditRaises(c)
    BY DEF AuditRaises
  <2> QED  BY <1>3, <2>1, <2>2, <2>3 DEF Evaluate
<1>4. ASSUME NEW c \in Calls, Route(c)
      PROVE  CutOffUndecided'
  BY <1>4 DEF Route, RouteNothing, RouteHeld, RouteFails, HandOn
<1>5. ~ApiCrash /\ \A c \in Calls : ~OwnCrash(c)
  BY DEF ApiCrash, OwnCrash
<1>6. CASE ClockTick \/ UNCHANGED vars
  BY <1>6 DEF ClockTick, vars
<1> QED  BY <1>1, <1>2, <1>3, <1>4, <1>5, <1>6 DEF Next, Run, Finished

(* How far README.md line 96 is right: while every audit record is written *)
(* and no process dies, a call that ended has handed on every result it    *)
(* held, whatever the router, the feed and the other sweeps did.           *)
THEOREM WrittenTrailsAreRouted ==
  ASSUME Faults \cap {"audit_error", "crash"} = {}
  PROVE  Spec => []EscalationIsRoutedByItsCall
<1>1. Init => CutOffUndecided
  BY DEF Init, CutOffUndecided
<1>2. Typed /\ CutOffUndecided /\ [Next]_vars => CutOffUndecided'
  BY CutOffUndecidedNext
<1>3. Typed /\ CutOffUndecided => EscalationIsRoutedByItsCall
  <2> SUFFICES ASSUME Typed, CutOffUndecided, NEW c \in Calls, pc[c] \in Ended,
                      NEW i \in DOMAIN trail[c]
               PROVE  i \in DOMAIN handed[c]
    BY DEF EscalationIsRoutedByItsCall
  <2>1. pc[c] = "done"
    BY DEF CutOffUndecided, Ended
  <2>2. Len(handed[c]) = Len(trail[c])
    BY <2>1 DEF Typed, Placed
  <2> QED  BY <2>2 DEF Typed, Shaped
<1> QED  BY <1>1, <1>2, <1>3, TypedInit, TypedNext, PTL DEF Spec

=============================================================================
