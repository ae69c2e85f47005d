------------------------------- MODULE EvalGate -------------------------------
(***************************************************************************)
(* The evaluation gate (eval/run_eval.py): the offline smoke check that    *)
(* every merge runs, and the promotion that only the quality service       *)
(* grants (adapters/local/evaluation.py, adapters/gcp/evaluation.py).      *)
(*                                                                         *)
(* A case is what its label expects and what the real pipeline did with    *)
(* it; the service is not trusted here, so the two may differ anyhow.      *)
(***************************************************************************)
EXTENDS Integers, FiniteSets

CONSTANTS
  Cases,      \* golden cases: [family, expects, got, reasonGiven, capRight, leaks]
  Drafts,     \* golden drafts: [safe, accepted]
  MaxCases,   \* bound: cases in a dataset
  MaxDrafts,  \* bound: drafts in a dataset
  Scale       \* a mean is rounded to a multiple of 1 / Scale

(* What the loader sees to, and a dataset too small for a rounded mean to  *)
(* hide a miss: fewer lines of a kind than twice the scale.                *)
DatasetAssumption ==
  /\ Scale \in Nat \ {0} /\ MaxCases \in 1..(2 * Scale - 1) /\ MaxDrafts \in 1..(2 * Scale - 1)
  /\ \A d \in Drafts : d.safe \in BOOLEAN /\ d.accepted \in BOOLEAN
  /\ Cases \cap Drafts = {}

METRICS == {"eligibility_accuracy", "consent_fail_closed", "frequency_cap_exactness",
            "drafting_groundedness", "review_safety", "pii_safety"}

(* Out of a hundred. *)
THRESHOLDS == [m \in METRICS |-> IF m = "eligibility_accuracy" THEN 95
                                 ELSE IF m = "pii_safety" THEN 99 ELSE 100]

FAIL_CLOSED_FAMILIES == {"denied", "unknown"}

VARIABLES
  mode,      \* "smoke" or "gate"
  profile,
  url,       \* OUTREACH_QUALITY_URL: "unset", "empty" or "given"
  authority, \* what the quality service answers: "yes", "no", or "silent"
  at,        \* "cases", "drafts", "report" or "ended"
  dataset,   \* the cases loaded and scored so far
  hits,      \* metric |-> cases scored 1.0
  scored,    \* metric |-> cases scored
  verdict    \* "none", "green", "red", "promoted" or "refused"

vars == <<mode, profile, url, authority, at, dataset, hits, scored, verdict>>

config == <<mode, profile, url, authority>>

Init ==
  /\ mode \in {"smoke", "gate"}
  /\ profile \in {"local", "gcp"}
  /\ url \in {"unset", "empty", "given"}
  /\ authority \in {"yes", "no", "silent"}
  /\ mode = "smoke" =>
       profile = "local" /\ url = "unset" /\ authority = "silent"
  /\ at = IF mode = "smoke" THEN "cases" ELSE "report"
  /\ dataset = {}
  /\ hits = [m \in METRICS |-> 0] /\ scored = [m \in METRICS |-> 0]
  /\ verdict = "none"

End(result) == at' = "ended" /\ verdict' = result

-----------------------------------------------------------------------------
(* The scorers: one case, right or wrong. *)
EligibilityScore(c) == c.got.eligible = c.expects.eligible /\ c.reasonGiven

(* A plausible bug: the verdict is scored, and what was sent is not. *)
ConsentScoreOfVerdict(c) == ~c.got.eligible /\ c.reasonGiven

ConsentScore(c) == ~c.got.eligible /\ ~c.got.delivered /\ c.reasonGiven

ReviewScore(c) ==
  /\ c.got.held = c.expects.held
  /\ c.got.delivered = c.expects.delivered
  /\ ~(c.got.held /\ c.got.delivered)

Scores(c) ==
  [m \in METRICS |->
     CASE m = "eligibility_accuracy"    -> EligibilityScore(c)
       [] m = "consent_fail_closed"     -> ConsentScore(c)
       [] m = "frequency_cap_exactness" -> c.capRight
       [] m = "review_safety"           -> ReviewScore(c)
       [] m = "pii_safety"              -> ~c.leaks
       [] OTHER                         -> FALSE]

(* The metrics a case counts for. *)
ScoredBy(c) ==
  METRICS \ ({"drafting_groundedness"}
               \cup (IF c.family \in FAIL_CLOSED_FAMILIES THEN {} ELSE {"consent_fail_closed"}))

Tallied(count, metrics) ==
  [m \in METRICS |-> count[m] + (IF m \in metrics THEN 1 ELSE 0)]

(* round(sum / len, 4), ties upwards; 0 of an empty list. *)
Mean(sum, len) == IF len = 0 THEN 0 ELSE (2 * sum * Scale + len) \div (2 * len)

Passes(m) == 100 * Mean(hits[m], scored[m]) >= THRESHOLDS[m] * Scale

-----------------------------------------------------------------------------
ScoreCase ==
  /\ at = "cases" /\ scored["pii_safety"] < MaxCases
  /\ \E c \in Cases :
       /\ dataset' = dataset \cup {c}
       /\ scored' = Tallied(scored, ScoredBy(c))
       /\ hits' = Tallied(hits, {m \in ScoredBy(c) : Scores(c)[m]})
  /\ UNCHANGED <<config, at, verdict>>

(* The dataset ends. An empty one, or one without a case that is labelled  *)
(* denied or unknown, is refused: its metric would pass over nothing.      *)
CasesEnd ==
  /\ at = "cases"
  /\ \/ scored["consent_fail_closed"] = 0 /\ End("refused")
     \/ scored["consent_fail_closed"] > 0 /\ at' = "drafts" /\ UNCHANGED verdict
  /\ UNCHANGED <<config, dataset, hits, scored>>

ScoreDraft ==
  /\ at = "drafts" /\ scored["drafting_groundedness"] < MaxDrafts
  /\ \E d \in Drafts :
       /\ dataset' = dataset \cup {d}
       /\ scored' = Tallied(scored, {"drafting_groundedness"})
       /\ hits' = Tallied(hits, IF d.accepted = d.safe THEN {"drafting_groundedness"} ELSE {})
  /\ UNCHANGED <<config, at, verdict>>

DraftsEnd ==
  /\ at = "drafts"
  /\ \/ scored["drafting_groundedness"] = 0 /\ End("refused")
     \/ scored["drafting_groundedness"] > 0 /\ at' = "report" /\ UNCHANGED verdict
  /\ UNCHANGED <<config, dataset, hits, scored>>

Report ==
  /\ mode = "smoke" /\ at = "report"
  /\ End(IF \A m \in METRICS : Passes(m) THEN "green" ELSE "red")
  /\ UNCHANGED <<config, dataset, hits, scored>>

(* The client of the quality service: an emptied address reaches nobody.   *)
Answer == IF url = "empty" THEN "silent" ELSE authority

(* run_gate() asks on gcp only, and the port's local binding refuses. Its  *)
(* gcp binding refuses an emptied address, which the script passes on.     *)
Promote ==
  /\ mode = "gate" /\ at = "report"
  /\ End(IF profile = "gcp" /\ Answer = "yes" THEN "promoted" ELSE "refused")
  /\ UNCHANGED <<config, dataset, hits, scored>>

Next == ScoreCase \/ CasesEnd \/ ScoreDraft \/ DraftsEnd \/ Report \/ Promote

Spec == Init /\ [][Next]_vars

-----------------------------------------------------------------------------
(* A green smoke check means that the dataset held customers who had not   *)
(* agreed and that none of them was found eligible or contacted, that      *)
(* nothing held for a human was sent, and that no unsafe draft was         *)
(* accepted: the rounded means of a dataset this small hide no single miss *)
(* (eval/run_eval.py 84-100, 124-125, 180-295).                            *)
GreenHidesNoMiss ==
  verdict = "green" =>
    LET cases     == dataset \cap Cases
        protected == {c \in cases : c.family \in FAIL_CLOSED_FAMILIES}
    IN  /\ protected # {}
        /\ \A c \in protected : ~c.got.eligible /\ ~c.got.delivered
        /\ \A c \in cases : ~(c.got.held /\ c.got.delivered)
        /\ \A d \in dataset \ cases : d.accepted => d.safe

=============================================================================
