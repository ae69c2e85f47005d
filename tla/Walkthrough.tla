----------------------------- MODULE Walkthrough -----------------------------
(***************************************************************************)
(* The presenter's walkthrough (scripts/walkthrough.py), the demo server   *)
(* it starts and drives over HTTP (scripts/demo_server.py), and a browser  *)
(* on the same page whose Next and Restart buttons anyone may click.       *)
(*                                                                         *)
(* The server performs one click at a time under its lock; the walkthrough *)
(* posts an instruction and fetches the state in two requests.             *)
(***************************************************************************)
EXTENDS DemoRun

CONSTANT MaxClicks  \* bound: Next clicks in the browser, and jumps of the presenter

VARIABLES
  auto,      \* --auto: nobody is asked
  server,    \* "starting", "up" or "exited"
  run,       \* the run it serves
  replaced,  \* that run is not the one the walkthrough fetched from last
  clicks,    \* Next clicks in the browser
  clicked,   \* it was clicked Restart
  jumps,     \* how often the presenter asked for a step by its number
  at,        \* where the walkthrough is
  shown,     \* the state it fetched last
  target,    \* the number a jump goes to
  seen,      \* the steps checked since the presenter's last restart
  failed,    \* a check failed, ever
  passed,    \* the steps whose check passed on the run served now
  verdict

vars == <<auto, server, run, replaced, clicks, clicked, jumps, at, shown, target,
          seen, failed, passed, verdict>>

served == <<server, run, replaced>>
browser == <<clicks, clicked>>
tally == <<seen, failed, passed>>

Snapshot == [step |-> run.performed, done |-> IsDone(run), facts |-> run.facts]

Init ==
  /\ auto \in BOOLEAN
  /\ server = "starting" /\ run = FreshRun /\ replaced = FALSE
  /\ clicks = 0 /\ clicked = FALSE /\ jumps = 0
  /\ at = "waiting" /\ shown = Snapshot /\ target = 0
  /\ seen = {} /\ failed = FALSE /\ passed = {} /\ verdict = "none"

Places == {"waiting", "checking", "prompt", "fetching", "jumping", "jump_fetching",
           "concluding", "ended"}

End(result) == at' = "ended" /\ verdict' = result

-----------------------------------------------------------------------------
ServerReady ==
  /\ server = "starting" /\ at # "ended"
  /\ server' = "up"
  /\ UNCHANGED <<auto, run, replaced, browser, jumps, at, shown, target, tally, verdict>>

ServerExits ==
  /\ server # "exited" /\ at # "ended"
  /\ server' = "exited"
  /\ UNCHANGED <<auto, run, replaced, browser, jumps, at, shown, target, tally, verdict>>

(* POST /next from the page. *)
ClickNext ==
  /\ server = "up" /\ at # "ended" /\ clicks < MaxClicks
  /\ clicks' = clicks + 1
  /\ run' = Advanced(run)
  /\ UNCHANGED <<auto, server, replaced, clicked, jumps, at, shown, target, tally, verdict>>

(* POST /restart from the page, as often as anyone likes. *)
ClickRestart ==
  /\ server = "up" /\ at # "ended"
  /\ clicked' = TRUE /\ replaced' = TRUE
  /\ run' = FreshRun /\ passed' = {}
  /\ UNCHANGED <<auto, server, clicks, jumps, at, shown, target, seen, failed, verdict>>

-----------------------------------------------------------------------------
(* _wait_for(): until /healthz answers, the process exits or 30 s are up.  *)
Ready ==
  /\ at = "waiting" /\ server = "up"
  /\ at' = "checking" /\ shown' = Snapshot /\ replaced' = FALSE
  /\ UNCHANGED <<auto, server, run, browser, jumps, target, tally, verdict>>

NeverReady ==
  /\ at = "waiting" /\ server # "up"
  /\ End("aborted")
  /\ UNCHANGED <<auto, served, browser, jumps, shown, target, tally>>

(* CHECKS: what the facts of a step must say. *)
CheckOpened(facts) ==
  /\ Cardinality(facts.profiles) >= 3 /\ Cardinality(facts.triggerRules) >= 5
  /\ facts.caps # {} /\ facts.markets # {}

CheckTriggers(facts) ==
  /\ {"failed_payment", "delivery_exception", "expiring_card", "fraud_hold", "outage"}
       \subseteq facts.fired
  /\ {"event_stale", "event_attribute_missing"} \subseteq facts.refusedReasons

CheckEligibility(facts) ==
  /\ {"consent_unknown", "consent_withdrawn", "consent_unknown_reason",
      "frequency_cap_exceeded", "suppressed", "quiet_hours"} \subseteq facts.refusals
  /\ facts.permitted = 1

CheckDrafting(facts) ==
  facts.accepted /\ facts.rejected /\ "draft_ungrounded_figure" \in facts.rejectionReasons

CheckDelivery(facts) ==
  facts.delivered >= 2 /\ facts.recordedSends >= 2 /\ facts.refusalAudited

CheckReviewQueue(facts) == ~facts.delivered /\ facts.routed /\ facts.pending >= 1

CheckAudit(facts) ==
  facts.chainOk /\ facts.anchored /\ facts.roundTripOk /\ facts.entries >= 3

CheckTamper(facts) == ~facts.chainOk /\ facts.detected

CheckPortability(facts) == facts.refused \cup facts.absent = ExitCalls

Expected(key, facts) ==
  CASE key = "opened"       -> CheckOpened(facts)
    [] key = "triggers"     -> CheckTriggers(facts)
    [] key = "eligibility"  -> CheckEligibility(facts)
    [] key = "drafting"     -> CheckDrafting(facts)
    [] key = "delivery"     -> CheckDelivery(facts)
    [] key = "review_queue" -> CheckReviewQueue(facts)
    [] key = "audit"        -> CheckAudit(facts)
    [] key = "tamper"       -> CheckTamper(facts)
    [] key = "portability"  -> CheckPortability(facts)

(* The runs of the arc, one for each step, when nobody else clicks; and    *)
(* that the facts of each are what its check expects.                      *)
Arc ==
  LET r1 == FreshRun
      r2 == Advanced(r1)
      r3 == Advanced(r2)
      r4 == Advanced(r3)
      r5 == Advanced(r4)
      r6 == Advanced(r5)
      r7 == Advanced(r6)
      r8 == Advanced(r7)
      r9 == Advanced(r8)
  IN  <<r1, r2, r3, r4, r5, r6, r7, r8, r9>>

ArcPasses == \A i \in DOMAIN STEPS : Expected(STEPS[i], Arc[i].facts)

(* The expectation of the step that is shown, whatever step was expected.  *)
Check ==
  /\ at = "checking"
  /\ LET key == STEPS[shown.step]
         ok  == Expected(key, shown.facts)
     IN  /\ seen' = seen \cup {key}
         /\ failed' = (failed \/ ~ok)
         /\ passed' = IF ok /\ ~replaced THEN passed \cup {key} ELSE passed
  /\ at' = IF shown.done THEN "concluding" ELSE "prompt"
  /\ UNCHANGED <<auto, served, browser, jumps, shown, target, verdict>>

(* POST /next, and POST /restart, which forgets what was seen but not what *)
(* failed; the state is fetched afterwards.                                *)
PostNext ==
  /\ at = "prompt" /\ server = "up"
  /\ run' = Advanced(run)
  /\ at' = "fetching"
  /\ UNCHANGED <<auto, server, replaced, browser, jumps, shown, target, tally, verdict>>

PostRestart ==
  /\ at = "prompt" /\ ~auto /\ server = "up"
  /\ run' = FreshRun /\ replaced' = TRUE
  /\ seen' = {} /\ passed' = {}
  /\ at' = "fetching"
  /\ UNCHANGED <<auto, server, browser, jumps, shown, target, failed, verdict>>

(* A plausible bug: the state that follows a post is not kept. *)
FetchDropped ==
  /\ at = "fetching" /\ server = "up"
  /\ replaced' = FALSE /\ at' = "checking"
  /\ UNCHANGED <<auto, server, run, browser, jumps, shown, target, tally, verdict>>

Fetch ==
  /\ at = "fetching" /\ server = "up"
  /\ shown' = Snapshot /\ replaced' = FALSE /\ at' = "checking"
  /\ UNCHANGED <<auto, server, run, browser, jumps, target, tally, verdict>>

Quit ==
  /\ at = "prompt" /\ ~auto
  /\ End(IF ~failed THEN "quit" ELSE "failed")
  /\ UNCHANGED <<auto, served, browser, jumps, shown, target, tally>>

(* A number: the steps up to it are performed, and only it is checked.     *)
Jump ==
  /\ at = "prompt" /\ ~auto
  /\ target' \in DOMAIN STEPS
  /\ jumps < MaxClicks /\ jumps' = jumps + 1
  /\ at' = "jumping"
  /\ UNCHANGED <<auto, served, browser, shown, tally, verdict>>

JumpPost ==
  /\ at = "jumping" /\ shown.step < target /\ ~shown.done /\ server = "up"
  /\ run' = Advanced(run)
  /\ at' = "jump_fetching"
  /\ UNCHANGED <<auto, server, replaced, browser, jumps, shown, target, tally, verdict>>

JumpFetch ==
  /\ at = "jump_fetching" /\ server = "up"
  /\ shown' = Snapshot /\ replaced' = FALSE /\ at' = "jumping"
  /\ UNCHANGED <<auto, server, run, browser, jumps, target, tally, verdict>>

JumpEnds ==
  /\ at = "jumping" /\ (shown.step >= target \/ shown.done)
  /\ at' = "checking"
  /\ UNCHANGED <<auto, served, browser, jumps, shown, target, tally, verdict>>

(* A request to a server that is gone raises. *)
RequestFails ==
  /\ \/ at \in {"prompt", "fetching", "jump_fetching"}
     \/ at = "jumping" /\ shown.step < target
  /\ server = "exited"
  /\ End("aborted")
  /\ UNCHANGED <<auto, served, browser, jumps, shown, target, tally>>

(* A plausible bug: only failed checks fail the walkthrough. *)
ConcludeWithoutMissing ==
  /\ at = "concluding"
  /\ End(IF ~failed THEN "pass" ELSE "failed")
  /\ UNCHANGED <<auto, served, browser, jumps, shown, target, tally>>

(* A step never reached fails the walkthrough too. *)
Conclude ==
  /\ at = "concluding"
  /\ End(IF ~failed /\ seen = {STEPS[i] : i \in DOMAIN STEPS} THEN "pass" ELSE "failed")
  /\ UNCHANGED <<auto, served, browser, jumps, shown, target, tally>>

Presenter ==
  \/ Ready \/ NeverReady \/ Check
  \/ PostNext \/ PostRestart \/ Fetch \/ Quit
  \/ Jump \/ JumpPost \/ JumpFetch \/ JumpEnds
  \/ RequestFails \/ Conclude

Next ==
  \/ ServerReady \/ ServerExits
  \/ ClickNext \/ ClickRestart
  \/ Presenter

Spec == Init /\ [][Next]_vars

(* The walkthrough is one process, and each of its requests and its wait   *)
(* for the server have a time-out. The Presenter's actions are those that  *)
(* change where it is, and until it has ended one of them is possible: this*)
(* is WF_vars(Presenter), spelled so that TLC evaluates no step of the arc.*)
PresenterMoves == at # "ended" /\ at' \in Places \ {at}

Fairness == WF_at(PresenterMoves)

-----------------------------------------------------------------------------
(* A pass asserts every step, on the run that reached the end unless the   *)
(* browser replaced it; and the verdict fails only when a hand other than  *)
(* the walkthrough's moved the run on, or steps were jumped: a restart     *)
(* alone fails nothing, and the arc itself, the shipped policy through the *)
(* engines, passes its own checks (scripts/walkthrough.py 281-341,         *)
(* scripts/demo.py 205-1010).                                              *)
VerdictIsHonest ==
  /\ verdict = "pass" /\ ~clicked => \A i \in DOMAIN STEPS : STEPS[i] \in passed
  /\ verdict = "failed" => clicks > 0 \/ jumps > 0

(* A click on Restart that takes steps away from the run. *)
BrowserRestarts == at' = at /\ run' # run /\ run' = FreshRun

(* The unattended walkthrough ends, also when the server dies or never     *)
(* comes up, unless the browser restarts the run over and over: the loop   *)
(* has no bound of its own (scripts/walkthrough.py 237-247 and 292-327).   *)
WalkthroughEnds == <>[][~BrowserRestarts]_vars => (auto ~> verdict # "none")

=============================================================================
