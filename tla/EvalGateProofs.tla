---------------------------- MODULE EvalGateProofs ----------------------------
(***************************************************************************)
(* What a green smoke check is worth, for every dataset of fewer than      *)
(* 2 * Scale lines: a metric that must be perfect is met by perfect scores *)
(* only, and each scored line leaves its trace in the counts.              *)
(***************************************************************************)
EXTENDS EvalGate, TLAPS

PERFECT == {"consent_fail_closed", "drafting_groundedness", "review_safety"}

Counted ==
  /\ hits \in [METRICS -> Nat] /\ scored \in [METRICS -> Nat]
  /\ \A m \in METRICS : hits[m] <= scored[m]
  /\ scored["pii_safety"] <= MaxCases
  /\ scored["drafting_groundedness"] <= MaxDrafts
  /\ \A m \in METRICS \ {"drafting_groundedness"} : scored[m] <= scored["pii_safety"]

Protected(c) == c \in Cases /\ c.family \in FAIL_CLOSED_FAMILIES

(* A perfect count is one of perfect lines, and is over none only when     *)
(* there was none.                                                         *)
Traced ==
  /\ dataset \subseteq Cases \cup Drafts
  /\ hits["consent_fail_closed"] = scored["consent_fail_closed"] =>
       \A c \in dataset : Protected(c) => ConsentScore(c)
  /\ hits["review_safety"] = scored["review_safety"] =>
       \A c \in dataset \cap Cases : ReviewScore(c)
  /\ hits["drafting_groundedness"] = scored["drafting_groundedness"] =>
       \A d \in dataset \ Cases : d.accepted = d.safe
  /\ scored["consent_fail_closed"] > 0 => \E c \in dataset : Protected(c)

GreenIsPerfect ==
  verdict = "green" =>
    at = "ended" /\ \A m \in PERFECT : hits[m] = scored[m] /\ scored[m] > 0

GateInv == Counted /\ Traced /\ GreenIsPerfect

-----------------------------------------------------------------------------
(* Over fewer than 2 * Scale lines a mean rounds to one only if it is one. *)
LEMMA RoundsToOne ==
  ASSUME NEW h \in Nat, NEW n \in Nat, h <= n,
         Scale \in Nat \ {0}, n < 2 * Scale, Mean(h, n) >= Scale
  PROVE  h = n /\ n > 0
<1>1. n > 0
  BY DEF Mean
<1>2. DEFINE x == 2 * h * Scale + n
             q == x \div (2 * n)
<1>3. x \in Nat /\ 2 * n \in Nat \ {0}
  BY <1>1
<1>4. q >= Scale /\ q \in Int
  BY <1>1, <1>3 DEF Mean
<1>5. (2 * n) * q <= x
  <2>. HIDE DEF x
  <2>1. \A a \in Nat, b \in Nat \ {0} : b * (a \div b) <= a
    BY SMT
  <2>2. QED
    BY <1>3, <2>1
<1>6. (2 * n) * Scale <= (2 * n) * q
  <2>. HIDE DEF q
  <2>1. \A a \in Nat, b, c \in Int : b <= c => a * b <= a * c
    BY SMT
  <2>2. QED
    BY <1>3, <1>4, <2>1
<1>7. (2 * n) * Scale <= 2 * h * Scale + n
  <2>. HIDE DEF q
  <2>1. (2 * n) * Scale \in Int /\ (2 * n) * q \in Int
    BY <1>4
  <2>2. QED
    BY <1>5, <1>6, <2>1
<1>8. h = n
  <2>. SUFFICES ASSUME h # n PROVE FALSE
    OBVIOUS
  <2>1. n - h \in Nat /\ n - h >= 1
    OBVIOUS
  <2>2. (2 * n) * Scale = 2 * h * Scale + 2 * Scale * (n - h)
    BY SMT
  <2>3. 2 * Scale * (n - h) >= 2 * Scale
    <3>1. \A a \in Nat, b \in Nat : b >= 1 => a * b >= a
      BY SMT
    <3>2. QED
      BY <2>1, <3>1
  <2>4. 2 * Scale * (n - h) \in Int /\ 2 * h * Scale \in Int
    OBVIOUS
  <2>5. QED
    BY <1>7, <2>2, <2>3, <2>4
<1>9. QED
  BY <1>1, <1>8

(* A metric that must be perfect passes over perfect scores, and over some. *)
LEMMA PassIsPerfect ==
  ASSUME DatasetAssumption, Counted, NEW m \in PERFECT, Passes(m)
  PROVE  hits[m] = scored[m] /\ scored[m] > 0
<1>1. hits[m] \in Nat /\ scored[m] \in Nat /\ hits[m] <= scored[m]
  BY DEF Counted, PERFECT, METRICS
<1>2. scored[m] < 2 * Scale
  BY <1>1 DEF Counted, DatasetAssumption, PERFECT, METRICS
<1>3. 100 * Mean(hits[m], scored[m]) >= 100 * Scale
  BY DEF Passes, THRESHOLDS, PERFECT, METRICS
<1>4. Mean(hits[m], scored[m]) \in Int
  <2>1. \A a \in Nat, b \in Nat \ {0} : a \div b \in Int
    BY SMT
  <2>2. 2 * hits[m] * Scale + scored[m] \in Nat
    BY <1>1 DEF DatasetAssumption
  <2>3. CASE scored[m] = 0
    BY <2>3 DEF Mean
  <2>4. CASE scored[m] # 0
    BY <1>1, <2>1, <2>2, <2>4 DEF Mean
  <2>5. QED
    BY <2>3, <2>4
<1>5. Mean(hits[m], scored[m]) >= Scale
  <2>. HIDE DEF Mean
  <2>1. Scale \in Nat
    BY DEF DatasetAssumption
  <2>2. QED
    BY <1>3, <1>4, <2>1
<1>6. QED
  BY <1>1, <1>2, <1>5, RoundsToOne DEF DatasetAssumption

(* What scoring one line adds to the counts. *)
LEMMA TallyCounts ==
  ASSUME NEW count \in [METRICS -> Nat], NEW metrics
  PROVE  /\ Tallied(count, metrics) \in [METRICS -> Nat]
         /\ \A m \in METRICS \cap metrics : Tallied(count, metrics)[m] = count[m] + 1
         /\ \A m \in METRICS \ metrics : Tallied(count, metrics)[m] = count[m]
BY DEF Tallied

LEMMA ScoresOf ==
  ASSUME NEW c
  PROVE  /\ Scores(c)["consent_fail_closed"] = ConsentScore(c)
         /\ Scores(c)["review_safety"] = ReviewScore(c)
BY DEF Scores, METRICS

LEMMA GateInit == DatasetAssumption /\ Init => GateInv
<1> SUFFICES ASSUME DatasetAssumption, Init PROVE GateInv
  OBVIOUS
<1>1. Counted
  BY DEF Init, Counted, METRICS, DatasetAssumption
<1>2. Traced
  BY <1>1 DEF Init, Traced, METRICS
<1>3. QED
  BY <1>1, <1>2 DEF Init, GateInv, GreenIsPerfect

-----------------------------------------------------------------------------
LEMMA CaseScored ==
  ASSUME DatasetAssumption, GateInv, ScoreCase
  PROVE  GateInv'
<1>1. PICK c \in Cases :
        /\ dataset' = dataset \cup {c}
        /\ scored' = Tallied(scored, ScoredBy(c))
        /\ hits' = Tallied(hits, {m \in ScoredBy(c) : Scores(c)[m]})
  BY DEF ScoreCase
<1>2. at = "cases" /\ at' = at /\ verdict' = verdict /\ scored["pii_safety"] < MaxCases
  BY DEF ScoreCase
<1>. DEFINE S == ScoredBy(c)
            H == {m \in ScoredBy(c) : Scores(c)[m]}
<1>3. /\ S \subseteq METRICS /\ H \subseteq S
      /\ "drafting_groundedness" \notin S
      /\ "pii_safety" \in S /\ "review_safety" \in S
      /\ "consent_fail_closed" \in S <=> c.family \in FAIL_CLOSED_FAMILIES
      /\ "consent_fail_closed" \in H => ConsentScore(c)
      /\ "review_safety" \in H => ReviewScore(c)
  BY ScoresOf DEF ScoredBy, METRICS
<1>4. /\ scored' \in [METRICS -> Nat] /\ hits' \in [METRICS -> Nat]
      /\ \A m \in S : scored'[m] = scored[m] + 1
      /\ \A m \in METRICS \ S : scored'[m] = scored[m]
      /\ \A m \in H : hits'[m] = hits[m] + 1
      /\ \A m \in METRICS \ H : hits'[m] = hits[m]
  <2>. HIDE DEF S, H
  <2>1. scored \in [METRICS -> Nat] /\ hits \in [METRICS -> Nat]
    BY DEF GateInv, Counted
  <2>2. scored' = Tallied(scored, S) /\ hits' = Tallied(hits, H)
    BY <1>1 DEF S, H
  <2>3. QED
    BY <1>3, <2>1, <2>2, TallyCounts
<1>. HIDE DEF S, H
<1>5. Counted'
  <2>1. \A m \in METRICS : hits'[m] <= scored'[m]
    BY <1>3, <1>4 DEF GateInv, Counted
  <2>2. scored'["pii_safety"] <= MaxCases
    BY <1>2, <1>3, <1>4 DEF GateInv, Counted, DatasetAssumption, METRICS
  <2>3. scored'["drafting_groundedness"] <= MaxDrafts
    BY <1>3, <1>4 DEF GateInv, Counted, METRICS
  <2>4. \A m \in METRICS \ {"drafting_groundedness"} : scored'[m] <= scored'["pii_safety"]
    BY <1>3, <1>4 DEF GateInv, Counted, METRICS
  <2>5. QED
    BY <1>4, <2>1, <2>2, <2>3, <2>4 DEF Counted
<1>6. \A m \in METRICS : hits'[m] = scored'[m] =>
        hits[m] = scored[m] /\ (m \in S => m \in H)
  BY <1>3, <1>4 DEF GateInv, Counted
<1>7. Traced'
  <2>1. dataset' \subseteq Cases \cup Drafts
    BY <1>1 DEF GateInv, Traced
  <2>2. hits'["consent_fail_closed"] = scored'["consent_fail_closed"] =>
          \A d \in dataset' : Protected(d) => ConsentScore(d)
    BY <1>1, <1>3, <1>6 DEF GateInv, Traced, Protected, METRICS
  <2>3. hits'["review_safety"] = scored'["review_safety"] =>
          \A d \in dataset' \cap Cases : ReviewScore(d)
    BY <1>1, <1>3, <1>6 DEF GateInv, Traced, METRICS
  <2>4. hits'["drafting_groundedness"] = scored'["drafting_groundedness"] =>
          \A d \in dataset' \ Cases : d.accepted = d.safe
    BY <1>1, <1>6 DEF GateInv, Traced, METRICS
  <2>5. scored'["consent_fail_closed"] > 0 => \E d \in dataset' : Protected(d)
    <3>1. CASE c.family \in FAIL_CLOSED_FAMILIES
      BY <1>1, <3>1 DEF Protected
    <3>2. CASE c.family \notin FAIL_CLOSED_FAMILIES
      BY <1>1, <1>3, <1>4, <3>2 DEF GateInv, Traced, METRICS
    <3>3. QED
      BY <3>1, <3>2
  <2>6. QED
    BY <2>1, <2>2, <2>3, <2>4, <2>5 DEF Traced
<1>8. GreenIsPerfect'
  BY <1>2 DEF GateInv, GreenIsPerfect
<1>9. QED
  BY <1>5, <1>7, <1>8 DEF GateInv

LEMMA DraftScored ==
  ASSUME DatasetAssumption, GateInv, ScoreDraft
  PROVE  GateInv'
<1>. DEFINE D == {"drafting_groundedness"}
<1>1. PICK d \in Drafts :
        /\ dataset' = dataset \cup {d}
        /\ scored' = Tallied(scored, D)
        /\ hits' = Tallied(hits, IF d.accepted = d.safe THEN D ELSE {})
  BY DEF ScoreDraft
<1>2. at = "drafts" /\ at' = at /\ verdict' = verdict
      /\ scored["drafting_groundedness"] < MaxDrafts
  BY DEF ScoreDraft
<1>3. /\ scored' \in [METRICS -> Nat] /\ hits' \in [METRICS -> Nat]
      /\ scored'["drafting_groundedness"] = scored["drafting_groundedness"] + 1
      /\ hits'["drafting_groundedness"] =
           IF d.accepted = d.safe THEN hits["drafting_groundedness"] + 1
                                  ELSE hits["drafting_groundedness"]
      /\ \A m \in METRICS \ D : scored'[m] = scored[m] /\ hits'[m] = hits[m]
  <2>1. scored \in [METRICS -> Nat] /\ hits \in [METRICS -> Nat]
    BY DEF GateInv, Counted
  <2>2. "drafting_groundedness" \in METRICS \cap D
    BY DEF METRICS
  <2>3. CASE d.accepted = d.safe
    BY <1>1, <2>1, <2>2, <2>3, TallyCounts
  <2>4. CASE d.accepted # d.safe
    BY <1>1, <2>1, <2>2, <2>4, TallyCounts
  <2>5. QED
    BY <2>3, <2>4
<1>4. d \notin Cases
  BY DEF DatasetAssumption
<1>5. Counted'
  <2>1. \A m \in METRICS : hits'[m] <= scored'[m]
    BY <1>3 DEF GateInv, Counted
  <2>2. scored'["drafting_groundedness"] <= MaxDrafts
    BY <1>2, <1>3 DEF GateInv, Counted, DatasetAssumption, METRICS
  <2>3. QED
    BY <1>3, <2>1, <2>2 DEF GateInv, Counted, METRICS
<1>6. Traced'
  <2>1. hits'["drafting_groundedness"] = scored'["drafting_groundedness"] =>
          hits["drafting_groundedness"] = scored["drafting_groundedness"] /\ d.accepted = d.safe
    BY <1>3 DEF GateInv, Counted, METRICS
  <2>2. QED
    BY <1>1, <1>3, <1>4, <2>1 DEF GateInv, Traced, Protected, METRICS
<1>7. QED
  BY <1>2, <1>5, <1>6 DEF GateInv, GreenIsPerfect

LEMMA GateStep ==
  ASSUME DatasetAssumption, GateInv, [Next]_vars
  PROVE  GateInv'
<1>1. CASE ScoreCase
  BY <1>1, CaseScored
<1>2. CASE ScoreDraft
  BY <1>2, DraftScored
<1>3. CASE CasesEnd \/ DraftsEnd \/ Promote \/ UNCHANGED vars
  <2>1. UNCHANGED <<dataset, hits, scored>>
    BY <1>3 DEF CasesEnd, DraftsEnd, Promote, vars
  <2>2. verdict' = "green" => verdict = "green" /\ at' = at
    BY <1>3 DEF CasesEnd, DraftsEnd, Promote, vars, End, GateInv, GreenIsPerfect
  <2>3. QED
    BY <2>1, <2>2 DEF GateInv, Counted, Traced, GreenIsPerfect
<1>4. CASE Report
  <2>1. UNCHANGED <<dataset, hits, scored>> /\ at' = "ended"
    BY <1>4 DEF Report, End
  <2>2. verdict' = "green" => \A m \in METRICS : Passes(m)
    BY <1>4 DEF Report, End
  <2>3. verdict' = "green" => \A m \in PERFECT : hits[m] = scored[m] /\ scored[m] > 0
    BY <2>2, PassIsPerfect DEF GateInv, PERFECT, METRICS
  <2>4. QED
    BY <2>1, <2>3 DEF GateInv, Counted, Traced, GreenIsPerfect
<1>5. QED
  BY <1>1, <1>2, <1>3, <1>4 DEF Next

(* A green smoke check hides no miss: over any cases and drafts, whatever  *)
(* the pipeline did with them, as long as a dataset holds fewer than two   *)
(* lines for each unit of the last rounded place (eval/run_eval.py         *)
(* 84-100, 124-125, 250-295).                                              *)
THEOREM GreenIsTruthful ==
  ASSUME DatasetAssumption
  PROVE  Spec => []GreenHidesNoMiss
<1>1. Init => GateInv
  BY GateInit
<1>2. GateInv /\ [Next]_vars => GateInv'
  BY GateStep
<1>3. GateInv => GreenHidesNoMiss
  <2> SUFFICES ASSUME GateInv, verdict = "green" PROVE GreenHidesNoMiss
    BY DEF GreenHidesNoMiss
  <2>1. \E c \in dataset : Protected(c)
    BY DEF GateInv, Traced, GreenIsPerfect, PERFECT
  <2>2. \A c \in dataset : Protected(c) => ConsentScore(c)
    BY DEF GateInv, Traced, GreenIsPerfect, PERFECT
  <2>3. \A c \in dataset \cap Cases : ReviewScore(c)
    BY DEF GateInv, Traced, GreenIsPerfect, PERFECT
  <2>4. \A d \in dataset \ Cases : d.accepted = d.safe
    BY DEF GateInv, Traced, GreenIsPerfect, PERFECT
  <2>5. QED
    BY <2>1, <2>2, <2>3, <2>4 DEF GreenHidesNoMiss, Protected, ConsentScore, ReviewScore
<1>4. QED
  BY <1>1, <1>2, <1>3, PTL DEF Spec
=============================================================================
