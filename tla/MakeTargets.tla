----------------------------- MODULE MakeTargets -----------------------------
(***************************************************************************)
(* The programs an operator starts with make, side by side: the API        *)
(* process (whose module this one extends), a process that keeps an audit  *)
(* trail, the portability tour, the presenter's walkthrough, the lock      *)
(* script and the evaluation gate. They share no state, so a behaviour is  *)
(* of one of them, and the others keep to one initial state.               *)
(***************************************************************************)
EXTENDS Posture, Sequences

CONSTANTS
  Bodies, MaxRecords, MaxTrailEdits,              \* the trail
  Ports, Codebases,                               \* the tour
  TriggerRules, FrequencyCaps, QuietWindows, Templates, SuppressedSubjects,
  MaxBodyChars, FixtureConsent, MaxClicks,        \* the walkthrough
  BadTime, NoDecision, NoLimit, NoBody, TemplateBody,
  MaxRuns,                                        \* the lock script
  Cases, Drafts, MaxCases, MaxDrafts, Scale       \* the gate

VARIABLES
  program,
  rows, anchor, wired, export, restored, edited, written, vouched, exported,
  code, tour_at, tour_failures, loaded, tour_verdict,
  auto, server, run, replaced, clicks, clicked, jumps, walk_at, shown, target,
  seen, failed, passed, walk_verdict,
  lock_at, runs, resolution, files, index, previous, began, rc,
  mode, profile, url, authority, gate_at, dataset, hits, scored, gate_verdict

Trail == INSTANCE AuditTrail WITH MaxEdits <- MaxTrailEdits

Tour == INSTANCE Portability WITH
  at <- tour_at, failures <- tour_failures, verdict <- tour_verdict

Walk == INSTANCE Walkthrough WITH at <- walk_at, verdict <- walk_verdict

Lock == INSTANCE LockExport WITH at <- lock_at

Gate == INSTANCE EvalGate WITH at <- gate_at, verdict <- gate_verdict

ASSUME GateAssumption == Gate!DatasetAssumption
ASSUME TourAssumption == Tour!CodebaseAssumption

(* Of the policy and the consent store that are shipped: the arc, left to  *)
(* itself, passes its own checks.                                          *)
ASSUME ArcAssumption == Walk!ArcPasses

-----------------------------------------------------------------------------
trailVars == <<rows, anchor, wired, export, restored, edited, written, vouched, exported>>
tourVars  == <<code, tour_at, tour_failures, loaded, tour_verdict>>
walkVars  == <<auto, server, run, replaced, clicks, clicked, jumps, walk_at, shown, target,
               seen, failed, passed, walk_verdict>>
lockVars  == <<lock_at, runs, resolution, files, index, previous, began, rc>>
gateVars  == <<mode, profile, url, authority, gate_at, dataset, hits, scored, gate_verdict>>

targetVars == <<program, vars, trailVars, tourVars, walkVars, lockVars, gateVars>>

Programs == {"api", "trail", "tour", "walkthrough", "lock", "gate"}

(* What a program that is not the one started finds. *)
IdleCodebase == CHOOSE c \in Codebases : TRUE
IdleEnvironment == CHOOSE e \in Environments : TRUE
IdleFile == CHOOSE f \in Files : TRUE

TargetsInit ==
  /\ program \in Programs
  /\ Trail!Init /\ (program = "trail" \/ ~wired)
  /\ Tour!Init /\ (program = "tour" \/ code = IdleCodebase)
  /\ Walk!Init /\ (program = "walkthrough" \/ ~auto)
  /\ Lock!Init /\ (program = "lock" \/ \A t \in DOMAIN files : files[t] = Lock!Absent)
  /\ Gate!Init /\ (program = "gate" \/ mode = "smoke")
  /\ Init /\ (program = "api" \/ (env = IdleEnvironment /\ file = IdleFile))

TargetsNext ==
  \/ /\ program = "api" /\ Next
     /\ UNCHANGED <<program, trailVars, tourVars, walkVars, lockVars, gateVars>>
  \/ /\ program = "trail" /\ Trail!Next
     /\ UNCHANGED <<program, vars, tourVars, walkVars, lockVars, gateVars>>
  \/ /\ program = "tour" /\ Tour!Next
     /\ UNCHANGED <<program, vars, trailVars, walkVars, lockVars, gateVars>>
  \/ /\ program = "walkthrough" /\ Walk!Next
     /\ UNCHANGED <<program, vars, trailVars, tourVars, lockVars, gateVars>>
  \/ /\ program = "lock" /\ Lock!Next
     /\ UNCHANGED <<program, vars, trailVars, tourVars, walkVars, gateVars>>
  \/ /\ program = "gate" /\ Gate!Next
     /\ UNCHANGED <<program, vars, trailVars, tourVars, walkVars, lockVars>>

TargetsFairness == WF_walk_at(program = "walkthrough" /\ Walk!PresenterMoves)

TargetsSpec ==
  /\ TargetsInit
  /\ [][TargetsNext]_targetVars
  /\ TargetsFairness

-----------------------------------------------------------------------------
(* A trail that verifies holds only bodies that were recorded (AuditTrail). *)
VerifiedTrailIsGenuine == Trail!VerifiedTrailIsGenuine

(* A trail under its anchor has lost no record (AuditTrail). *)
AnchoredTrailIsWhole == Trail!AnchoredTrailIsWhole

(* The tour passes exactly the portable codebases (Portability). *)
TourIsDiscriminating == Tour!TourIsDiscriminating

(* What a walkthrough's pass and its failure mean (Walkthrough). *)
VerdictIsHonest == Walk!VerdictIsHonest

(* The unattended walkthrough ends, unless it is restarted over and over   *)
(* (Walkthrough).                                                          *)
WalkthroughEnds == Walk!WalkthroughEnds

(* What a finished lock run leaves on disk (LockExport). *)
LockfilesStayWhole == Lock!LockfilesStayWhole

(* What a green smoke check means (EvalGate). *)
GreenHidesNoMiss == Gate!GreenHidesNoMiss
=============================================================================
