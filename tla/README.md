# A TLA+ verification of the proactive service outreach

The service watches for operational events (a failed payment, a fraud hold, an
outage) and decides, for each one, whether a customer may be contacted about it,
what the message may say, and whether a human has to look first. It contacts
nobody unless a consent store said so, and it must keep that promise when its
ports fail, when requests interleave and when the process dies. This directory
models that decision, the posture in which it is served and the programs that
vouch for it, model-checks them with TLC and proves the most important of their
promises with TLAPS.

Paths below are relative to the Python package `src/proactive_outreach/`;
`scripts/`, `eval/` and the documents are at the root of the repository.

## The system

| Part | Source | State it keeps | Operations | What must be right |
| --- | --- | --- | --- | --- |
| trigger engine | `domain/trigger_engine.py` | none | `evaluate` | an event fires only if it is configured, fresh and carries its facts |
| eligibility engine | `domain/eligibility.py` | none | `assess` | every reason to refuse refuses; the counters it reports agree with the verdict |
| policy | `domain/policy.py` | frozen | lookups, load-time validation | an absent rule, cap or quiet window never permits; quiet windows wrap midnight |
| drafting engine | `domain/drafting.py` | none | `render_template`, `validate_draft` | a text says no figure its event does not ground and leaves no required fact out |
| outreach service | `domain/outreach_service.py` | none of its own; the state of its ports | `evaluate`, `sweep` | order of the checks, of the delivery, the record and the audit; nothing sent that a human must see |
| consent store | `adapters/*/consent.py` | sends per customer, purpose, channel | `decide`, `record_send` | every recorded send is counted by later answers |
| delivery, speech | `adapters/*/delivery.py`, `speech.py` | outbox, bucket | `send`, `synthesize` | no send without a decision id |
| guardrail, drafter | `adapters/*/guardrail.py`, `drafting.py` | none | `screen`, `draft` | a screen that did not decide is a refusal |
| audit sink | `adapters/*/audit.py` and a library | an append-only trail | `record` | a refusal is recorded before anything follows it |
| review routing | `adapters/controls.py`, `adapters/*/review_router.py` | the console's queue | `route` | an escalation reaches the console or its failure is reported |
| API, CLI, agent tools | `api/`, `cli/`, `agent/` | a container per process or call | one evaluation, one sweep | every result is handed to the router |
| configuration, identity | `config.py`, `envread.py`, `adapters/*/identity.py`, `api/app.py` | posture read at import, lazily built container | boot, exposure guard, `resolve` | a posture nobody chose gives nothing away; a control that cannot work is refused before a decision |
| audit trail | `adapters/local/audit.py` and a library | rows, an anchor file | record, re-anchor, export, import | a trail that verifies is what was recorded, and under its anchor all of it |
| portability tour | `scripts/portability_demo.py` | a count of failures | eight checks | it passes exactly the portable codebases |
| demo, walkthrough | `scripts/demo.py`, `demo_server.py`, `walkthrough.py` | one run, behind the server's lock | next, restart, jump, check | a pass means that every step was shown; a failure that somebody interfered |
| evaluation gate | `eval/run_eval.py`, `adapters/*/evaluation.py` | hits per metric | smoke check, promotion | a green gate hides no miss |
| lock script | `scripts/lock.py` | two lockfiles | export, header, restore | a run leaves whole files or the old ones |

`evaluate` is synchronous and runs in a thread of the web server's pool, so
several requests are in it at once. It calls, in this order: the trigger engine,
`consent.decide`, the eligibility engine, `guardrail.screen` on the prompt, the
drafter, `guardrail.screen` on its answer, the validator, `delivery.send` or
`speech.synthesize`, `consent.record_send`, `audit.record`. The surface then
hands the result to the review router. Requests share nothing but the state
behind these ports, which is where every interleaving hazard lies: the consent
store is asked long before it is told of the send.

Hard behaviours, each at its line in `PROJECT.json` (`hazards`): the count read
and moved at two ends of a request; a call that fails after its effect; an
exception no frame catches; a crash between two effects; nine ways to a refusal
and four to a human; boundaries of ages, caps and windows; a sweep that routes
only when all of it is done; settings read twice with an edit between; the order
of refusals when several things are missing; a walkthrough and a browser that
drive one server; a trail that lost its newest rows and still verifies; a file
that another program replaced before the script looks at it; a rounded mean.

## Modules

| Module | Models | Correspondence |
| --- | --- | --- |
| `QuietHours` | `QuietHours` of `policy.py` | `Contains` is `contains`; `InDailyWindow` is its reference meaning: a window that opens once a day and lasts `(end - start) mod 24` hours |
| `ServicePolicy` | `OutreachPolicy` | constants for the policy's mappings, one operator per lookup; `PolicyIsValid` is what `__post_init__` enforces |
| `TriggerEngine` | `trigger_engine.evaluate` | `TriggerReason` has the early returns in the code's order |
| `Eligibility` | `eligibility.assess` | one operator per group of reasons, their union in `DenyingReasons`; `MayContact` is the documented condition without reasons or order |
| `Drafting` | `render_template`, `validate_draft` | a text is the record of what the validator reads of it |
| `DecisionTable` | one call of `assess` on inputs that get worse | the reachable states are the combinations of inputs |
| `OutreachService` | `evaluate` and the hand-off that follows, for several concurrent requests | one action per port call and outcome; see below |
| `OutreachContract` | what the service promises about a request, without how | taken, contacted at most once and only while open, concluded once in a verdict that says whether the customer was contacted |
| `OutreachProperties` | invariants, action and liveness properties, the refinement mapping and statements of the documentation | |
| `EventFeed` | `FixtureEventSource` of `adapters/local/events.py` | `Select` is `detect`: conversion of every record, selection, order, limit; `Sorted` puts each record at its rank, which is what the stable sort does |
| `Sweep` | concurrent sweeps of the offline profile, from the API, a tool or a command | one action per step of `sweep`, of the binding of the consent adapter and of its unlocked `record_send`; see below |
| `SweepProperties` | properties of the sweeps, the refinement mapping of `OutreachContract`, a statement of the documentation | |
| `Posture` | `config.py`, `envread.py`, the module scope and the routes of `api/app.py`, the identity adapters, the verdict of the managed guardrail | `Boot` is an import under an environment, then one action per route, `Guarded` and `Broken` for the requests the guard or the settings stop; see below |
| `AuditChain` | the chained log of the library, as this repository uses it | a hash is the sequence of bodies it commits to; `Verifies` is `verify_chain` |
| `AuditTrail` | one durable trail over its life | `Record`, `Reopen` (the anchor switched on or off), `Reanchor`, `Export`, `Import`, and edits by whoever has the file |
| `Portability` | `scripts/portability_demo.py` | a codebase is what the checks would find; `Holds` is one check, `RunCheck` the loop that counts |
| `DemoRun` | `scripts/demo.py` | `Perform` is a step of the arc over the engines of `TriggerEngine`, `Eligibility`, `Drafting` and `AuditChain`, with the facts it shows |
| `Walkthrough` | `scripts/walkthrough.py`, `demo_server.py` | one action per prompt, request and check; `ClickNext` and `ClickRestart` are the browser |
| `LockExport` | `scripts/lock.py` | one action per step between two effects on a file, with every failure and a kill |
| `EvalGate` | `eval/run_eval.py`, `adapters/*/evaluation.py` | one case or draft scored per step, then the report or the promotion |
| `MakeTargets` | the programs an operator starts, side by side (`Makefile`) | an `INSTANCE` of each module above that is a program of its own, and one step of one of them |
| `MCOutreach`, `MCDecisions`, `MCSweep`, `MCMakeTargets` | the instances | policies, events, answers, texts, feeds, environments, files, codebases, datasets |
| `EligibilityProofs`, `DecisionTableProofs`, `OutreachProofs`, `SweepProofs`, `PostureProofs`, `AuditTrailProofs`, `EvalGateProofs`, `MakeTargetsProofs` | theorems | see below |

`OutreachService` keeps, per request, a program counter and the local variables
of `evaluate` (`event`, `asOf`, `consent`, `body`, `discarded`, `delivered`,
`routing`) and, shared, the world behind the ports: `sent` (messages that left),
`ledger` (sends the store recorded), `consulted` (requests for which the model
was called), `audit` (the trail of each request) and `queue` (the console). The
computation between two port calls belongs to the step of the call before it. A
port call that can fail has one action per way: before its effect, after its
effect, with the exception the service catches and with one it does not.

Abstractions, and why they lose nothing the properties see:

- a text is its form, its length, its figures, the facts it quotes and two flags:
  that is all `validate_draft` reads;
- an instant is a whole minute; the code compares ages and reads hours;
- a consent answer keeps whether it carries a denying or an unknown reason, not
  which; `assess` treats all of a kind alike;
- a screen is a choice between allowing and refusing; a guardrail that raises is
  a refusal in the code too;
- the store counts each recorded send once and atomically: it is another service.
  The offline stand-in does not; `Sweep` models it;
- a request is made once. A retry is another request with the same event.

`Sweep` keeps, per sweep, what it asked for (`surface`, `query`), what it was
given (`feed`, `moment`, `batch`), the verdict it is working on, the decisions it
has recorded (`trail`) and what the response says of their hand-off (`handed`);
the lengths of the last two are the positions of its two loops. Behind it are
the API container's cached consent adapter (`bound`), the adapter each sweep
holds, and per adapter the counter and the ledger. Binding reads the cache,
builds and stores in separate steps, since `cached_property` has no lock;
`record_send` reads and writes in separate steps for the same reason. Building
the container itself races too, but harmlessly: a handler asks for it again
after its identity was checked, and by then one is cached. The preparation of a
message is a choice between keeping and discarding a draft: `OutreachService`
has the ways. Both modules are shown to implement the same `OutreachContract`,
which is what lets one stand for the other. The instants of a feed are strings
that the code compares as written; a record has its place in that order apart
from the instant it means.

`Posture` keeps the environment and the settings file of one API process
(`env`, `file`), what the import decided (`posture`, `host`), the settings of the
cached container, the switched-off controls the log names and the last answer.
The settings are read at import for the exposure guard and again at the first
request that needs them for the container; `Edit` may come between, and
`stale` says that it did. An environment says of each variable whether it is
unset, emptied, known or unknown, since those are the cases `envread.py` tells
apart. A failed binding of an identity adapter, a missing audience, a missing
verifier library and a bad assertion are refused in the order of the code, so
what a caller is told is part of the model. A text is the set of filters it trips.
The managed screen may have run only some of them (`Reports`, external); the offline
heuristics are taken to find what they look for.

`AuditTrail`, `Portability` and `DemoRun` share `AuditChain`. The hash is taken
to be unforgeable and the library to do what the repository's own tour and
runbook say of it; those definitions are marked external in `PROJECT.json`.
`written`, `vouched` and `exported` are history: what was recorded, what the
anchor was established for, what was exported.

`Walkthrough` runs `DemoRun` on the shipped policy. Posting an instruction and
fetching the state are two requests; the server holds its lock for one of them
at a time, so a browser's click falls between. `passed` is history: the steps
whose check passed on the run that is served now.

In `LockExport` a lockfile is the resolution it was exported from, whether the
script's header is on it and whether a commons is left without a commit: all
the script reads or writes of it. In `EvalGate` a case is what its label expects
and what the pipeline did; the pipeline is not trusted, so the two may differ.

## Runs

| Run | Instance | Shows |
| --- | --- | --- |
| `service_faults` | two requests, three events, clean and id-less answers, a grounded and an ungrounded text, every fault and a crash | the safety invariants under every interleaving of failures |
| `service_refusals` | one request, one event per way out of the two engines, every answer shape, every text, routing off | each refusal is taken and permits nothing |
| `service_cap` | three requests of one customer on two threads, a cap of one, failures around the send | how far the cap can be overshot, and that a delivered send binds the next answer |
| `service_live` | two requests, caught and uncaught failures, a crash, with fairness | every request begun ends; the service implements `OutreachContract` |
| `decision_table` | seven event kinds, five quiet windows, instants on both sides of every boundary, counts and limits around a cap of two | the verdict is exactly the documented condition and never improves |
| `sweep` | two sweeps from any surface, a customer with two events and a cap of one, an event of another zone, an unreadable record, failing records and hand-offs, crashes, with fairness | a sweep nobody races keeps its cap; what the local store counts was sent; the oldest events are given; results say what became of them; sweeps end; each event obeys `OutreachContract` |
| `make_targets` | the programs an operator starts, one per behaviour: environments at most two departures from the usual, eight settings files and an edit; a trail of three records and two edits of it; codebases with at most two defects; the shipped demo with a click on Next in the browser, a jump and any number of restarts; three lock runs; datasets of five cases and two drafts | what an API process exposes and to whom, that its controls can work and that its refusals blame the right party; what a trail proves; what the verdicts of the tour, the walkthrough and the smoke check are worth, and that the unattended walkthrough ends once nobody restarts it; what a lock run leaves |
| `claim_sweep_routes` | one sweep of two events, an audit record that fails | a violation: an escalation that is audited and that nobody routes |
| `claim_capped` | as `service_cap`, no faults | a violation: two concurrent requests overshoot the cap |
| `claim_audited` | one `record_send` that fails | a violation: a contact without a decision in the trail |
| `claim_decision_id` | an answer without an id, a voice event | a violation: speech never sees the envelope |
| `claim_drafter_failure` | a drafter error that is not `DraftingUnavailableError` | a violation: the request is lost instead of held |

The five violations are statements of the repository's own documents that the
code does not keep; `PROJECT.json` (`findings`) quotes them. For each there is a
theorem that says under which conditions it is kept (`OutreachProofs`, `SweepProofs`).

Bounds. Two requests are enough for every pairwise interleaving, and requests
interact only through the store's count, for which `service_cap` has three on
two threads: one more than can run, so that a request also starts after another
ended. The clock ticks once, across the opening of the quiet window and the age
limit of the events. A cap of one (two in the table) puts a count below, at and
above the limit. In `sweep` two sweeps are the fewest that race for the container and the
counter, two events the fewest of which the second must count the first, and
the clock ticks once, between the reading of the sweep and that of the source.
`MaxNow` and `Tick` bound the clock; nothing else is bounded in these runs but by
the size of the constants.

The programs of `make_targets` share no state: `program` says which one a
behaviour is of, the others keep to one initial state, and the run is the sum of
six small ones. Two departures from the usual environment meet every pair of
settings that the code reads together, with a file that departs in a third way
(`MaxDepartures`, `MaxEdits`); `PostureProofs` covers the rest. Three records are the
fewest with a first, a middle and a last, and two edits the fewest that undo or
hide each other (`MaxRecords`, `MaxTrailEdits`); `AuditTrailProofs` covers trails
of any length. Two defects show one that hides another; the theorem about the
tour covers every codebase. One click on Next in the browser and one jump of the
presenter (`MaxClicks`) fall at every place of the walkthrough; restarts, of either,
are not bounded. Three lock runs are one
that is killed, one that aborts over what it left, and one that succeeds
(`MaxRuns`). With a `Scale` of three, five cases are the most whose rounded mean
hides no miss.

Deadlock is checked: a service that has used up its requests and its clock stutters in `Finished`. It is not checked in
`decision_table`, whose inputs stop getting worse, nor in `make_targets`, whose
programs end.

Fairness. `FairSpec` assumes weak fairness of the steps of each request that has
begun: its thread is scheduled, and each call it makes returns or raises. The
code justifies that: no step of `evaluate` waits for another request, the
managed calls carry deadlines or the client library's own, and no loop surrounds
a call. The same holds of a sweep, whose loops run over a batch that no longer
grows. Nothing is assumed about new requests, the clock or a crash. In
`make_targets` weak fairness is assumed of the walkthrough's own steps: it is one
process, and its requests and its wait for the server have time-outs. It is
spelled over the steps that change its place, which are all of them, so that TLC
need not evaluate the arc to decide whether one is enabled. The liveness
property is about the unattended walkthrough; a presenter may stay at a prompt
as long as they like. The server may die or never come up. Of the browser
`WalkthroughEnds` has one hypothesis, that it does not restart the run for ever: the
loop of `walkthrough.py` (292-327) has no bound of its own, and without the
hypothesis TLC shows a restart between any two posts that keeps it going.

## Proofs

`tlapm` checks every obligation of the eight proof modules. The constants are
arbitrary but for the named assumptions: `PolicyAssumption` (what the policy
classes accept), `BadTimeAssumption`, `NoLimitAssumption` and
`ServiceAssumption` (finitely many requests; the marker values differ from the
values they mark), `SweepAssumption`, `FeedAssumption` (a feed is a sequence of
records with ids of their own), `QueryAssumption` (some query has the largest
limit), `ConsentAssumption`, `TableAssumption`, `PostureAssumption`,
`NoSettingsAssumption` and `DatasetAssumption`. In `MakeTargets`,
`GateAssumption` is `DatasetAssumption` of the gate it composes, `TourAssumption`
(`CodebaseAssumption`) types what the tour may find, and `ArcAssumption` says that
the arc of the demo, left to itself, passes its own checks: a fact of the policy and
the consent store that are shipped, nine evaluations that TLC carries out on them
at each run.

- `EligibilityProofs`: the hour comparison of `contains` is a daily window, for
  every pair of hours and every offset (`QuietHoursAreADailyWindow`, by writing
  the instant as days, hours and minutes); the early returns of the trigger
  engine fire exactly the timely events; each group of reasons is empty exactly
  when its part of the documented condition holds. Together:
  `EligibleMeansMayContact`.
- `DecisionTableProofs`: `VerdictIsExact`, `EnvelopeIsConsistent` and
  `RefusalIsFinal`. The invariant is that the inputs stay valid; that the
  counters agree with the verdict follows from the absence of a cap reason;
  finality is proved backwards, from a contact permitted after a step to one
  permitted before it.
- `OutreachProofs`: `TypeCorrect`, `OnlyPermittedContacts`, `HeldContactsNobody`
  and `OnlyGroundedTexts`. None is inductive alone: a message leaves many steps
  after it was permitted. `Typed` adds to the types that a request past its start
  carries an event and one that asks for consent a fired event, without which
  the question put to the store is not defined. `Guarded` carries the permission
  from the answer to the send (`Cleared`), the accepted draft and the absence of
  a reason for review from the validator to the send (`IsSendable`), and keeps
  all of it for every request that was sent, because what it was judged on never
  changes afterwards.

  On top of `Guarded`: `BlockedThenEscalated`, `ResultsAreTruthful`,
  `ModelOnlyIfPermitted` and `EscalationsAreReported`.
  `Trailed` says that where a request is determines what its trail can hold:
  nothing before the first record, a refused screen or nothing before the
  decision, a decision after it, preceded at most by a refused screen that
  stopped the message. `Reported` ties the result to the world: a request past
  its send has recorded it and says so, the model was called only for eligible
  requests, and a finished escalation is in the queue or reported otherwise.
  Failures and crashes end a request in the middle, so both are stated for every
  ended request as well.

  The cap, `OvershootIsBounded`, is counted: `Claims` of a question are the
  requests found eligible and not done and those in the ledger. An answer that
  permits found fewer in the ledger than the limit and adds its request to at most
  `MaxConcurrent` in flight; every other step leaves the claims alone or gives one
  up (`Roomy`), and whatever left has a claim. `DeliveriesAreCounted` is the same
  ledger seen from the answer. `ServiceKeepsContract` maps a request to the
  contract by where it is (`HasStatus`): every step either moves one request from
  its status to the next or, in a crash, aborts all that are open.

  Last, how far the documents are right: for each statement that a `claim_` run
  refutes, the failures and the concurrency without which it is a theorem, all
  others kept. The cap holds for one thread whose messages reach their record
  (`LoneThreadIsCapped`: nothing sent is missing from the ledger, `NoneForgotten`, so
  the bound on the overshoot is zero). Every send is audited unless something ends
  the request between the two (`UninterruptedSendsAreAudited`, by `NoneCutOff`).
  A chat names its decision whatever fails (`ChatsNameTheirDecision`): only
  speech does not. And a request is held, not lost, by a drafter whose every
  failure is the one the service expects (`TranslatedFailuresAreHeld`); the trail
  must be writable too, because a refused draft is recorded before it is replaced.
- `SweepProofs`: `Placed` says how far the batch, the trail and the hand-offs of a
  sweep have come; from it the types. `Told` and `Answered` tie the trail and the
  response to the messages and the queue position by position
  (`ResultsSayWhatBecame`). `Tallied` and `Held` bound what an adapter counts, and
  what a writer between its read and its write believes, by the ledger: the
  message in hand is not in it yet, so the write stays within it whoever wrote in
  between (`CountsAreOfSends`). `Dated` carries the instant of the reading, which
  no variable keeps and which is the delay of every event (`AgesShareOneDelay`). The order of a feed is written by
  ranks, not with a sort: each position has a place of its own and every place is
  taken (`PlacesAreTaken`, by counting who precedes), so what is selected is the
  beginning of the order (`OldestAreGiven`). `Owned` says that an adapter bound to
  the container is held by the sweep that built it, so a sweep that is alone was
  always alone; then `Settled`, that its adapter counts all its messages but the
  one in hand, is inductive (`LoneSweepsKeepTheirCap`). `Fitting` keeps batches
  within the positions of the contract; each step changes the status of at most
  one of them, a crash that of every event in hand (`SweepsKeepContract`).
  `WrittenTrailsAreRouted` is what is left of the statement `claim_sweep_routes`
  refutes: with every record written and no crash, only an unreadable feed ends a
  sweep early, before anything was decided (`CutOffUndecided`).
- `PostureProofs`: every invariant of `Posture`, for any set of environments and
  of files. A request alone cannot carry them: the answer depends on a container
  built earlier, possibly from another file than the posture. `ContainerSound`
  says that a cached container was accepted under this environment, that the
  log names what it switched off and that its guardrail is on unless the
  environment says off, `PostureSound` that a posture nobody chose
  relaxes nothing, `ReadingsAgree` that posture and container come from
  one file unless `stale`. The rest is the order of the refusals in one request, and
  `CompleteScreenIsClean`: a screen all of whose filters ran reports any that was
  tripped (`TrippingTextsAreStopped`).
- `AuditTrailProofs`: the chain, for rows of any number. What a chain says of its
  rows is not proved by induction over them but by the least row that would be an
  exception (`LeastOf`, from the well-foundedness of the finite sets of numbers):
  in a chain that verifies each hash is the sequence of the bodies up to its row
  (`ChainCommits`), so its head commits to all of them (`HeadCommits`). From it
  what an edit does to a chain: a rewritten row is found where it is
  (`RewriteIsFound`), a deleted one too unless it is the last (`DeletionIsFound`), and
  a lost tail only by the anchor (`TruncationNeedsTheAnchor`). Then the trail over
  its life: edits make no new hash, so every hash in the file, the export and the
  anchor is the beginning of something that was recorded (`HashesAreGenuine`), the
  anchor names what it vouches for (`AnchorIsVouched`) and the header what was
  exported (`ExportIsWhole`): `TrailIsGenuine` and `AnchoredTrailIsKept`. A
  subsequence is given by an increasing function between positions, which a proof
  can extend by one row.
- `EvalGateProofs`: `GreenIsTruthful`. `Counted` says that no metric has more hits
  than scores, `Traced` that a metric with as many hits as scores was perfect on
  every line it counts; the lemma `RoundsToOne`, that a mean which rounds to one
  over fewer than twice the scale is one, makes a green report `GreenIsPerfect`.
- `MakeTargetsProofs`: the composition that the run `make_targets` explores. A step
  of one program is none of the others (`OneProgramMoves`), so each keeps its own
  specification (`EachKeepsItsSpec`), and what is proved of the API, the trail and
  the gate alone holds here (`ApiKeepsItsPosture`, `RecordedTrailIsGenuine`,
  `RecordedTrailIsWhole`, `GreenIsEarned`). Three programs are proved here:
  - the tour (`TourTellsTheTruth`): nothing has failed exactly when every claim
    made so far is true (`TourInv`). That the checks of three records speak for every
    edit of a trail rests on the theorems about the chain: what the log lacks is
    what they find (`AuditChecks`);
  - the walkthrough (`WalkthroughIsHonest`): `HonestPass` says that a step seen and
    not failed has passed on the run that is served, for as long as the browser does
    not replace it; `OnTheArc`, that without jumps and foreign Next clicks the
    presenter follows the arc (`Following`: the run is at step k and the first m
    steps were seen; a restart takes the run back and the presenter not), so no step
    is skipped and each check meets the step it is about.
    A failure therefore needs more than restarts. `ArcAssumption` gives the checks of the arc itself; every
    interleaving of the presenter, the browser and the server, any number of clicks,
    jumps and restarts, is proved;
  - the lock script (`LockRunsAreSafe`): `LockUnderway` says, for each step of a run,
    which lockfiles are already whole, which one is in hand and what it held, and
    that the files not yet reached are as the run found them.

Every invariant that a run checks is stated by a theorem, or holds of the
composition by `ApiKeepsItsPosture`. Only model-checked: `EveryRequestIsAnswered`,
`EverySweepEnds`, `WalkthroughEnds` and the fairness of the contract in
`ImplementsContract`, which are temporal properties under fairness and out of the
prover's reach (`ServiceKeepsContract` is the rest of that refinement); and that the
shipped arc passes its own checks, which is an evaluation of one concrete script. No
property bounds how far overlapping offline sweeps overshoot a cap: a writer that was
held up can set the count back, any number of times.

## Plan

1. Done: the engines, the service under concurrent requests, its contract, the
   runs above, the inductive invariant for who is contacted and with what.
2. Done: the sweep of the offline profile, its feed and its consent adapter, and
   the invariants of the trail and of the hand-off.
3. Done: the posture of the API with its theorems; the audit trail, the tour, the
   demo and its walkthrough, the evaluation gate and the lock script.
4. The offline hand-off: the outbox of one router instance, bound like the
   consent adapter, and what the review payload carries of a result.
5. Done: the bound on the overshoot, both refinements of the contract and every
   invariant of the sweeps, of the audit trail and of the other programs proved.

## Seen while modelling

Where the code and its text differ without a run of their own, or where a
property needed an exception:

- `api/app.py` settles its posture through `end_user_auth_kind`, which turns every
  error of the settings into the client-asserted kind (`config.py` 826-832), and
  nothing else loads the settings at import. A process with routing on and no
  console, or a guardrail on and no template, therefore boots and answers each
  request with a 500, where `config.py` 662 and the runbook (217-244) say that it
  refuses to boot. `ServedControlsWork` holds all the same: no decision is served.
- The settings are read at import and again for the container (`api/app.py` 112
  and 274); `OffHostIsVerified` excepts a file edited between the two.
- With the profile local by choice and a verifying identity bound to it, the
  exposure guard stands down, and a service call without a configured token is
  answered to every host; the comment at `api/app.py` 171-174 says it is bounded
  by the exposure.
- A verifier library that is not installed is found only after the header was
  read, so a caller may be told 401 by a deployment that can verify nobody;
  `BareRefusalIsTheCallers` excepts it.
- `config.py` 32-35 says that a variable set and empty resolves to empty, while
  the expansion of a settings file refuses it; `run_eval.py` 307 takes an emptied
  quality URL for an absent one, while the managed adapter refuses it.
- The docstring of `_consent_decision` (`outreach_service.py` 259) turns "ANY failure"
  of the store into an unknown consent; the code catches `ConsentUnavailableError`
  alone, and any other error ends the request without a decision. Nobody is
  contacted either way.
- Instants are ordered as strings (`adapters/local/events.py` 116-118), so a feed that
  mixes zones is not given oldest first; `DetectionIsOldestPrefix` is stated of feeds
  in UTC.
- A contact refused for eligibility is recorded with the outcome `ALLOWED`
  (`outreach_service.py` 216): the outcome is that of the safety screens.
- The tour's truncation check builds its own log, so it stays green if the
  adapter loses its anchor (`adapters/local/audit.py` 24); a fact of the demo
  shows it instead.
- The demo narrates a chat and a voice delivery (`demo.py` 222); both it makes
  are chat.
- An aborted first lock run leaves uv's file without its header, having nothing
  to restore; `LockfilesStayWhole` excepts it.
- With twice ten thousand golden cases or more, a rounded mean of one could hide
  a miss; `DatasetAssumption` is where that is said.

## Not modelled

Parsing of settings, schemas and wire formats; the libraries behind the audit
sinks of the cloud, the consent client and the review client, which are used
through their ports; redaction and the offline heuristics, which are text
processing; the warehouse query, which is SQL run elsewhere; CORS, response
headers and the masking of tool payloads; the wording and pages of the demo;
spans, infrastructure, documentation scripts and the user interface, none of
which decides whether somebody is contacted.
