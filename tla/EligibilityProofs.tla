-------------------------- MODULE EligibilityProofs --------------------------
(***************************************************************************)
(* Facts about the pure engines, for every policy, event, answer and       *)
(* instant.                                                                *)
(***************************************************************************)
EXTENDS Eligibility, TLAPS

(* An instant is some whole days, an hour of the day and some minutes.     *)
LEMMA HourOfDay ==
  ASSUME NEW m \in Int
  PROVE  \E d \in Int, k \in 0..59 :
           /\ (m \div 60) % 24 \in 0..23
           /\ m = 1440 * d + 60 * ((m \div 60) % 24) + k
<1> DEFINE w == m \div 60
           d == w \div 24
           h == w % 24
           k == m % 60
<1>1. w \in Int /\ k \in 0..59 /\ m = 60 * w + k
  BY SMT
<1> HIDE DEF w, k
<1>2. d \in Int /\ h \in 0..23 /\ w = 24 * d + h
  BY <1>1, SMT
<1> HIDE DEF d, h
<1>3. m = 1440 * d + 60 * h + k
  BY <1>1, <1>2, SMT
<1> QED  BY <1>1, <1>2, <1>3 DEF d, h, w, k

(* A distance shorter than a day either way is its own remainder, or is    *)
(* one day short of it.                                                    *)
LEMMA DayRemainder ==
  ASSUME NEW d \in Int, NEW x \in Int, -1440 < x, x < 1440
  PROVE  (1440 * d + x) % 1440 = IF x >= 0 THEN x ELSE x + 1440
  BY SMT

LEMMA HourRemainder ==
  ASSUME NEW x \in Int, -24 < x, x < 24
  PROVE  x % 24 = IF x >= 0 THEN x ELSE x + 24
  BY SMT

(* The hour comparison is the daily window it stands for.                  *)
LEMMA QuietHoursAreADailyWindow ==
  ASSUME NEW q \in QuietWindow, NEW t \in Int
  PROVE  Contains(q, t) <=> InDailyWindow(q, t)
<1> DEFINE m == t + q.offset
           h == (m \div 60) % 24
           s == q.start
           f == q.end
<1>1. s \in 0..23 /\ f \in 0..23 /\ m \in Int /\ q.offset \in Int
  BY DEF QuietWindow
<1> HIDE DEF m
<1>2. PICK d \in Int, k \in 0..59 : h \in 0..23 /\ m = 1440 * d + 60 * h + k
  BY <1>1, HourOfDay
<1>3. Contains(q, t) <=> \/ s < f /\ s <= h /\ h < f
                         \/ s > f /\ (h >= s \/ h < f)
  <2>1. s < f => s # f
    BY <1>1
  <2>2. s > f <=> s # f /\ ~(s < f)
    BY <1>1
  <2> QED  BY <2>1, <2>2, Zenon DEF Contains, LocalHour, m
<1>4. InDailyWindow(q, t) <=> (m - 60 * s) % 1440 < 60 * ((f - s) % 24)
  <2>1. MinutesSinceOpening(q, t) = (m - 60 * s) % 1440
    BY <1>1 DEF MinutesSinceOpening, MinutesPerDay, m
  <2>2. WindowMinutes(q) = 60 * ((f - s) % 24)
    BY DEF WindowMinutes
  <2> HIDE DEF s, f
  <2> QED  BY <2>1, <2>2 DEF InDailyWindow
<1> HIDE DEF h, s, f
<1> DEFINE x == 60 * (h - s) + k
<1>5. x \in Int /\ -1440 < x /\ x < 1440 /\ m - 60 * s = 1440 * d + x
  BY <1>1, <1>2, SMT
<1>6. (m - 60 * s) % 1440 = IF x >= 0 THEN x ELSE x + 1440
  BY <1>2, <1>5, DayRemainder
<1>7. (f - s) % 24 = IF f >= s THEN f - s ELSE f - s + 24
  BY <1>1, HourRemainder
<1>8. x >= 0 <=> h >= s
  BY <1>1, <1>2
<1>9. (m - 60 * s) % 1440 < 60 * ((f - s) % 24)
        <=> \/ s < f /\ s <= h /\ h < f
            \/ s > f /\ (h >= s \/ h < f)
  <2>1. CASE h >= s /\ f >= s
    BY <1>1, <1>2, <1>6, <1>7, <1>8, <2>1
  <2>2. CASE h >= s /\ f < s
    BY <1>1, <1>2, <1>6, <1>7, <1>8, <2>2
  <2>3. CASE h < s /\ f >= s
    BY <1>1, <1>2, <1>6, <1>7, <1>8, <2>3
  <2>4. CASE h < s /\ f < s
    BY <1>1, <1>2, <1>6, <1>7, <1>8, <2>4
  <2> QED  BY <1>1, <1>2, <2>1, <2>2, <2>3, <2>4
<1> QED  BY <1>3, <1>4, <1>9

-----------------------------------------------------------------------------
(* The early returns of the trigger engine fire exactly the events that    *)
(* are timely and carry every required fact.                               *)
LEMMA FiredMeansTimely ==
  ASSUME NEW e, NEW t \in Int, EventIsValid(e)
  PROVE  Fired(e, t) <=> Timely(e, t)
<1>1. CASE ~HasRule(e)
  BY <1>1 DEF Fired, TriggerReason, Timely
<1>2. CASE HasRule(e) /\ e.occurred = BadTime
  BY <1>2 DEF Fired, TriggerReason, Timely
<1>3. CASE HasRule(e) /\ e.occurred # BadTime
  <2>1. e.occurred \in Int /\ Rule(e).maxAgeHours \in Nat
    BY <1>3, PolicyAssumption
       DEF EventIsValid, PolicyIsValid, RuleIsValid, HasRule, Rule
  <2>2. Missing(e) = {} <=> Rule(e).required \subseteq DOMAIN e.attributes
    BY DEF Missing
  <2>3. Fired(e, t) <=> /\ ~(t - e.occurred < 0)
                        /\ ~(t - e.occurred > 60 * Rule(e).maxAgeHours)
                        /\ Missing(e) = {}
    BY <1>3, Zenon DEF Fired, TriggerReason
  <2>4. /\ ~(t - e.occurred < 0) <=> e.occurred <= t
        /\ ~(t - e.occurred > 60 * Rule(e).maxAgeHours)
             <=> t <= e.occurred + 60 * Rule(e).maxAgeHours
    BY <2>1
  <2> QED  BY <1>3, <2>2, <2>3, <2>4 DEF Timely
<1> QED  BY <1>1, <1>2, <1>3

LEMMA NoConsentReasonMeansCleanAllow ==
  ASSUME NEW e, NEW t, NEW c
  PROVE  ConsentReasons(e, t, c) = {} <=> CleanAllow(e, t, c)
<1>1. CASE c = NoDecision
  BY <1>1 DEF ConsentReasons, CleanAllow
<1>2. CASE c # NoDecision
  <2>1. ConsentReasons(e, t, c) = {} =>
          /\ ~(c.outcome # "allowed" \/ c.denying) /\ ~c.unknown
          /\ ~(c.about # Question(e)) /\ ~(c.asOf # t)
    BY <1>2 DEF ConsentReasons
  <2>2. CleanAllow(e, t, c) => ConsentReasons(e, t, c) = {}
    BY <1>2 DEF ConsentReasons, CleanAllow
  <2> QED  BY <1>2, <2>1, <2>2 DEF CleanAllow
<1> QED  BY <1>1, <1>2

(* Staying under the smaller limit is staying under both.                  *)
LEMMA NoCapReasonMeansUnderBothLimits ==
  ASSUME NEW e, NEW c, c # NoDecision, AnswerIsValid(c)
  PROVE  CapReasons(e, c) = {} <=> UnderBothLimits(e, c)
<1>1. CASE ~HasCap(e)
  BY <1>1 DEF CapReasons, UnderBothLimits
<1>2. CASE HasCap(e)
  <2> DEFINE cap == FrequencyCaps[CapKey(e)]
  <2>1. cap \in Nat /\ c.sends \in Nat /\ c.limit \in Nat \cup {NoLimit}
    BY <1>2, PolicyAssumption DEF HasCap, PolicyIsValid, AnswerIsValid
  <2>2. CapReasons(e, c) = {} <=> ~(c.sends >= EffectiveLimit(e, c))
    BY <1>2 DEF CapReasons, SendsInWindow
  <2>3. EffectiveLimit(e, c) =
          IF c.limit # NoLimit /\ c.limit < cap THEN c.limit ELSE cap
    BY DEF EffectiveLimit
  <2>4. UnderBothLimits(e, c) <=>
          c.sends < cap /\ (c.limit # NoLimit => c.sends < c.limit)
    BY <1>2 DEF UnderBothLimits
  <2> HIDE DEF cap
  <2>5. CASE c.limit = NoLimit
    BY <2>1, <2>2, <2>3, <2>4, <2>5
  <2>6. CASE c.limit \in Nat
    BY <2>1, <2>2, <2>3, <2>4, <2>6, NoLimitAssumption
  <2> QED  BY <2>1, <2>5, <2>6
<1> QED  BY <1>1, <1>2

LEMMA NoQuietReasonMeansOpen ==
  ASSUME NEW e, NEW t \in Int
  PROVE  QuietReasons(e, t) = {} <=>
           /\ HasQuietWindow(e)
           /\ ~InDailyWindow(QuietWindows[e.market], t)
<1>1. HasQuietWindow(e) => QuietWindows[e.market] \in QuietWindow
  BY PolicyAssumption DEF HasQuietWindow, PolicyIsValid
<1>2. HasQuietWindow(e) =>
        (Contains(QuietWindows[e.market], t)
           <=> InDailyWindow(QuietWindows[e.market], t))
  BY <1>1, QuietHoursAreADailyWindow
<1> QED  BY <1>2 DEF QuietReasons

(* The verdict of assess() is exactly the documented condition.            *)
LEMMA EligibleMeansMayContact ==
  ASSUME NEW e, NEW t \in Int, NEW c, EventIsValid(e), AnswerIsValid(c)
  PROVE  Eligible(e, t, c) <=> MayContact(e, t, c)
<1>1. Fired(e, t) <=> Timely(e, t)
  BY FiredMeansTimely
<1>2. ConsentReasons(e, t, c) = {} <=> CleanAllow(e, t, c)
  BY NoConsentReasonMeansCleanAllow
<1>3. SuppressionReasons(e) = {} <=> ~IsSuppressed(e)
  BY DEF SuppressionReasons
<1>4. CleanAllow(e, t, c) => (CapReasons(e, c) = {} <=> UnderBothLimits(e, c))
  BY NoCapReasonMeansUnderBothLimits DEF CleanAllow
<1>5. QuietReasons(e, t) = {} <=>
        HasQuietWindow(e) /\ ~InDailyWindow(QuietWindows[e.market], t)
  BY NoQuietReasonMeansOpen
<1>6. Eligible(e, t, c) <=>
        /\ Fired(e, t)
        /\ ConsentReasons(e, t, c) = {} /\ SuppressionReasons(e) = {}
        /\ CapReasons(e, c) = {} /\ QuietReasons(e, t) = {}
  BY DEF Eligible, DenyingReasons
<1> QED  BY <1>1, <1>2, <1>3, <1>4, <1>5, <1>6 DEF MayContact

=============================================================================
