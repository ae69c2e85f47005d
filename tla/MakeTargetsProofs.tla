-------------------------- MODULE MakeTargetsProofs --------------------------
(***************************************************************************)
(* The programs side by side: each keeps to its own specification, so what *)
(* is proved of a program alone holds where it is one of several; and the  *)
(* proofs of the tour, the walkthrough and the lock script.                *)
(***************************************************************************)
EXTENDS MakeTargets, PostureProofs, Integers, TLAPS

TrailProofsOf == INSTANCE AuditTrailProofs WITH MaxEdits <- MaxTrailEdits

GateProofsOf == INSTANCE EvalGateProofs WITH at <- gate_at, verdict <- gate_verdict

-----------------------------------------------------------------------------
LEMMA OneProgramMoves ==
  ASSUME [TargetsNext]_targetVars
  PROVE  /\ [Next]_vars
         /\ [Trail!Next]_(Trail!vars) /\ [Tour!Next]_(Tour!vars)
         /\ [Walk!Next]_(Walk!vars) /\ [Lock!Next]_(Lock!vars)
         /\ [Gate!Next]_(Gate!vars)
<1>. USE DEF trailVars, tourVars, walkVars, lockVars, gateVars, Trail!vars, Tour!vars,
         Walk!vars, Lock!vars, Gate!vars
<1>1. CASE program = "api" /\ Next
           /\ UNCHANGED <<program, trailVars, tourVars, walkVars, lockVars, gateVars>>
  BY <1>1
<1>2. CASE program = "trail" /\ Trail!Next
           /\ UNCHANGED <<program, vars, tourVars, walkVars, lockVars, gateVars>>
  BY <1>2
<1>3. CASE program = "tour" /\ Tour!Next
           /\ UNCHANGED <<program, vars, trailVars, walkVars, lockVars, gateVars>>
  BY <1>3
<1>4. CASE program = "walkthrough" /\ Walk!Next
           /\ UNCHANGED <<program, vars, trailVars, tourVars, lockVars, gateVars>>
  BY <1>4
<1>5. CASE program = "lock" /\ Lock!Next
           /\ UNCHANGED <<program, vars, trailVars, tourVars, walkVars, gateVars>>
  BY <1>5
<1>6. CASE program = "gate" /\ Gate!Next
           /\ UNCHANGED <<program, vars, trailVars, tourVars, walkVars, lockVars>>
  BY <1>6
<1>7. CASE UNCHANGED targetVars
  BY <1>7 DEF targetVars
<1>. QED  BY <1>1, <1>2, <1>3, <1>4, <1>5, <1>6, <1>7 DEF TargetsNext

(* No program of the model disturbs another: side by side, each keeps to   *)
(* its own specification (Makefile: one target, one process).              *)
THEOREM EachKeepsItsSpec ==
  TargetsSpec => Spec /\ Trail!Spec /\ Tour!Spec /\ Walk!Spec /\ Lock!Spec /\ Gate!Spec
<1>1. TargetsInit => Init /\ Trail!Init /\ Tour!Init /\ Walk!Init /\ Lock!Init /\ Gate!Init
  BY DEF TargetsInit
<1>2. [TargetsNext]_targetVars =>
        /\ [Next]_vars
        /\ [Trail!Next]_(Trail!vars) /\ [Tour!Next]_(Tour!vars)
        /\ [Walk!Next]_(Walk!vars) /\ [Lock!Next]_(Lock!vars)
        /\ [Gate!Next]_(Gate!vars)
  BY OneProgramMoves
<1>. QED  BY <1>1, <1>2, PTL
          DEF TargetsSpec, Spec, Trail!Spec, Tour!Spec, Walk!Spec, Lock!Spec, Gate!Spec

(* What is proved of the API process (PostureProofs) holds of it here.     *)
THEOREM ApiKeepsItsPosture ==
  TargetsSpec => [](/\ TypeOK /\ UnchosenGrantsNothing /\ OffHostIsVerified
                    /\ BindAgreesWithGuard /\ ServedControlsWork /\ TrippingTextIsStopped
                    /\ BareRefusalIsTheCallers)
BY EachKeepsItsSpec, PostureTypeCorrect, UnchosenIsConfined, OffHostCallersAreVerified,
   BindNeverRefusesAll, DecisionsAreControlled, TrippingTextsAreStopped,
   RefusalsBlameTheRightParty, PTL

-----------------------------------------------------------------------------
LEMMA SameTrail ==
  /\ Trail!Spec => TrailProofsOf!Spec
  /\ TrailProofsOf!VerifiedTrailIsGenuine => VerifiedTrailIsGenuine
  /\ TrailProofsOf!AnchoredTrailIsWhole => AnchoredTrailIsWhole
<1>. USE DEF Trail!First, TrailProofsOf!First, Trail!HashAt, TrailProofsOf!HashAt,
         Trail!Linked, TrailProofsOf!Linked, Trail!FirstBad, TrailProofsOf!FirstBad,
         Trail!NoHead, TrailProofsOf!NoHead, Trail!HeadOf, TrailProofsOf!HeadOf,
         Trail!BodiesOf, TrailProofsOf!BodiesOf, Trail!Verifies, TrailProofsOf!Verifies
<1>1. Trail!Spec => TrailProofsOf!Spec
  BY DEF Trail!Spec, TrailProofsOf!Spec, Trail!Init, TrailProofsOf!Init, Trail!Next,
     TrailProofsOf!Next, Trail!vars, TrailProofsOf!vars, Trail!NoExport, TrailProofsOf!NoExport,
     Trail!Record, TrailProofsOf!Record, Trail!Reopen, TrailProofsOf!Reopen,
     Trail!Reanchor, TrailProofsOf!Reanchor, Trail!EditStore, TrailProofsOf!EditStore,
     Trail!EditExport, TrailProofsOf!EditExport, Trail!Export, TrailProofsOf!Export,
     Trail!Import, TrailProofsOf!Import, Trail!ghosts, TrailProofsOf!ghosts,
     Trail!EditsOf, TrailProofsOf!EditsOf, Trail!Rewritten, TrailProofsOf!Rewritten,
     Trail!Without, TrailProofsOf!Without, Trail!Appended, TrailProofsOf!Appended
<1>2. TrailProofsOf!VerifiedTrailIsGenuine => VerifiedTrailIsGenuine
  BY DEF VerifiedTrailIsGenuine, Trail!VerifiedTrailIsGenuine,
     TrailProofsOf!VerifiedTrailIsGenuine, Trail!IsSubsequence, TrailProofsOf!IsSubsequence
<1>3. TrailProofsOf!AnchoredTrailIsWhole => AnchoredTrailIsWhole
  BY DEF AnchoredTrailIsWhole, Trail!AnchoredTrailIsWhole, TrailProofsOf!AnchoredTrailIsWhole
<1>. QED  BY <1>1, <1>2, <1>3

(* A trail that verifies tells only what was recorded, in the order it was *)
(* recorded, however the file was edited (docs/runbook.md 262-267).        *)
THEOREM RecordedTrailIsGenuine == TargetsSpec => []VerifiedTrailIsGenuine
<1>1. TrailProofsOf!Spec => []TrailProofsOf!VerifiedTrailIsGenuine
  BY TrailProofsOf!TrailIsGenuine
<1>. QED  BY <1>1, EachKeepsItsSpec, SameTrail, PTL

(* A trail that verifies against its anchor holds everything recorded      *)
(* under it, and an export is restored whole (docs/runbook.md 269-281).    *)
THEOREM RecordedTrailIsWhole == TargetsSpec => []AnchoredTrailIsWhole
<1>1. TrailProofsOf!Spec => []TrailProofsOf!AnchoredTrailIsWhole
  BY TrailProofsOf!AnchoredTrailIsKept
<1>. QED  BY <1>1, EachKeepsItsSpec, SameTrail, PTL

-----------------------------------------------------------------------------
LEMMA SameGate ==
  /\ Gate!DatasetAssumption => GateProofsOf!DatasetAssumption
  /\ Gate!Spec => GateProofsOf!Spec
  /\ GateProofsOf!GreenHidesNoMiss => GreenHidesNoMiss
<1>. USE DEF Gate!METRICS, GateProofsOf!METRICS, Gate!FAIL_CLOSED_FAMILIES,
         GateProofsOf!FAIL_CLOSED_FAMILIES
<1>1. Gate!DatasetAssumption => GateProofsOf!DatasetAssumption
  BY DEF Gate!DatasetAssumption, GateProofsOf!DatasetAssumption
<1>2. Gate!Spec => GateProofsOf!Spec
  BY DEF Gate!Spec, GateProofsOf!Spec, Gate!Init, GateProofsOf!Init, Gate!Next,
     GateProofsOf!Next, Gate!vars, GateProofsOf!vars, Gate!config, GateProofsOf!config,
     Gate!End, GateProofsOf!End, Gate!ScoreCase, GateProofsOf!ScoreCase,
     Gate!CasesEnd, GateProofsOf!CasesEnd, Gate!ScoreDraft, GateProofsOf!ScoreDraft,
     Gate!DraftsEnd, GateProofsOf!DraftsEnd, Gate!Report, GateProofsOf!Report,
     Gate!Promote, GateProofsOf!Promote, Gate!Answer, GateProofsOf!Answer,
     Gate!Passes, GateProofsOf!Passes, Gate!Mean, GateProofsOf!Mean,
     Gate!THRESHOLDS, GateProofsOf!THRESHOLDS, Gate!Tallied, GateProofsOf!Tallied,
     Gate!ScoredBy, GateProofsOf!ScoredBy, Gate!Scores, GateProofsOf!Scores,
     Gate!EligibilityScore, GateProofsOf!EligibilityScore,
     Gate!ConsentScore, GateProofsOf!ConsentScore,
     Gate!ReviewScore, GateProofsOf!ReviewScore
<1>3. GateProofsOf!GreenHidesNoMiss => GreenHidesNoMiss
  BY DEF GreenHidesNoMiss, Gate!GreenHidesNoMiss, GateProofsOf!GreenHidesNoMiss
<1>. QED  BY <1>1, <1>2, <1>3

(* A green smoke check hides no customer contacted without consent and no  *)
(* unsafe draft, for every dataset the scale allows (eval/run_eval.py      *)
(* 84-100, 180-295).                                                       *)
THEOREM GreenIsEarned == TargetsSpec => []GreenHidesNoMiss
<1>1. GateProofsOf!DatasetAssumption
  BY GateAssumption, SameGate
<1>2. GateProofsOf!Spec => []GateProofsOf!GreenHidesNoMiss
  BY <1>1, GateProofsOf!GreenIsTruthful
<1>. QED  BY <1>2, EachKeepsItsSpec, SameGate, PTL

-----------------------------------------------------------------------------
(* The tour's three records, as one more chain of the audit log: what the  *)
(* log is known to detect in every trail, it detects in them.              *)
LEMMA SameChain ==
  \A table, body, i :
    /\ Tour!FirstBad(table) = TrailProofsOf!FirstBad(table)
    /\ Tour!HeadOf(table) = TrailProofsOf!HeadOf(table)
    /\ Tour!Appended(table, body) = TrailProofsOf!Appended(table, body)
    /\ Tour!Rewritten(table, i, body) = TrailProofsOf!Rewritten(table, i, body)
    /\ Tour!NoHead = TrailProofsOf!NoHead
BY DEF Tour!First, TrailProofsOf!First, Tour!HashAt, TrailProofsOf!HashAt,
   Tour!Linked, TrailProofsOf!Linked, Tour!FirstBad, TrailProofsOf!FirstBad,
   Tour!NoHead, TrailProofsOf!NoHead, Tour!HeadOf, TrailProofsOf!HeadOf,
   Tour!Appended, TrailProofsOf!Appended, Tour!Rewritten, TrailProofsOf!Rewritten

TourBodies == {"high", "low"}

(* A sound chain of high records only. *)
HighChain(table, n) ==
  /\ table \in TrailProofsOf!RowsOver(TourBodies)
  /\ TrailProofsOf!FirstBad(table) = 0
  /\ Len(table) = n
  /\ \A i \in 1..n : table[i].body = "high"

LEMMA OneMoreHigh ==
  ASSUME NEW n \in Nat, NEW table, HighChain(table, n)
  PROVE  HighChain(TrailProofsOf!Appended(table, "high"), n + 1)
<1>. DEFINE longer == TrailProofsOf!Appended(table, "high")
            row == [body |-> "high",
                    hash |-> Append(TrailProofsOf!HashAt(table, Len(table)), "high")]
<1>1. /\ "high" \in TourBodies /\ table \in TrailProofsOf!RowsOver(TourBodies)
      /\ TrailProofsOf!FirstBad(table) = 0 /\ Len(table) = n
      /\ \A i \in 1..n : table[i].body = "high"
  BY DEF TourBodies, HighChain
<1>2. /\ longer \in TrailProofsOf!RowsOver(TourBodies)
      /\ Len(longer) = Len(table) + 1
      /\ \A i \in 1..Len(table) : longer[i] = table[i]
      /\ longer[Len(table) + 1] = row
  BY <1>1, TrailProofsOf!AppendedIsTyped
<1>3. TrailProofsOf!FirstBad(longer) = 0
  BY <1>1, TrailProofsOf!AppendKeepsLinks
<1>4. row.body = "high"
  OBVIOUS
<1>. HIDE DEF longer, row
<1>5. \A i \in 1..(n + 1) : longer[i].body = "high"
  <2>. SUFFICES ASSUME NEW i \in 1..(n + 1) PROVE longer[i].body = "high"
    OBVIOUS
  <2>1. i \in 1..n \/ i = n + 1
    OBVIOUS
  <2>. QED  BY <1>1, <1>2, <1>4, <2>1
<1>6. HighChain(longer, n + 1)
  BY <1>1, <1>2, <1>3, <1>5 DEF HighChain
<1>. QED  BY <1>6 DEF longer

LEMMA ThreeRecordsAreSound ==
  HighChain(Tour!ThreeRecords, 3) /\ DOMAIN Tour!ThreeRecords = 1..3
<1>. DEFINE one   == TrailProofsOf!Appended(<<>>, "high")
            two   == TrailProofsOf!Appended(one, "high")
            three == TrailProofsOf!Appended(two, "high")
<1>1. HighChain(<<>>, 0)
  BY DEF HighChain, TrailProofsOf!RowsOver, TrailProofsOf!FirstBad, TrailProofsOf!First
<1>2. HighChain(one, 0 + 1)
  BY <1>1, OneMoreHigh
<1>3. HighChain(two, 1 + 1)
  <2>. HIDE DEF one
  <2>1. HighChain(one, 1)
    BY <1>2
  <2>. QED  BY <2>1, OneMoreHigh
<1>4. HighChain(three, 2 + 1)
  <2>. HIDE DEF two
  <2>1. HighChain(two, 2)
    BY <1>3
  <2>. QED  BY <2>1, OneMoreHigh
<1>5. Tour!ThreeRecords = three
  BY SameChain DEF Tour!ThreeRecords
<1>. HIDE DEF three
<1>6. DOMAIN three = 1..3
  BY <1>4 DEF HighChain, TrailProofsOf!RowsOver
<1>. QED  BY <1>4, <1>5, <1>6

LEMMA ThreeRecordsGuarded ==
  /\ Tour!FirstBad(Tour!ThreeRecords) = 0
  /\ \A i \in 1..3 : Tour!FirstBad(Tour!Rewritten(Tour!ThreeRecords, i, "low")) = i
  /\ \A n \in 0..2 :
       LET left == SubSeq(Tour!ThreeRecords, 1, n)
       IN  Tour!FirstBad(left) = 0 /\ Tour!HeadOf(left) # Tour!HeadOf(Tour!ThreeRecords)
  /\ Tour!HeadOf(Tour!ThreeRecords) # Tour!NoHead
<1>. DEFINE table == Tour!ThreeRecords
<1>1. /\ table \in TrailProofsOf!RowsOver(TourBodies) /\ TrailProofsOf!FirstBad(table) = 0
      /\ Len(table) = 3 /\ DOMAIN table = 1..3 /\ \A i \in 1..3 : table[i].body = "high"
  BY ThreeRecordsAreSound DEF HighChain
<1>. HIDE DEF table
<1>2. \A i \in 1..3 : TrailProofsOf!FirstBad(TrailProofsOf!Rewritten(table, i, "low")) = i
  <2>. SUFFICES ASSUME NEW i \in 1..3
                PROVE  TrailProofsOf!FirstBad(TrailProofsOf!Rewritten(table, i, "low")) = i
    OBVIOUS
  <2>1. "low" \in TourBodies /\ "low" # table[i].body /\ i \in DOMAIN table
    BY <1>1 DEF TourBodies
  <2>. QED  BY <1>1, <2>1, TrailProofsOf!RewriteIsFound
<1>3. ASSUME NEW n \in 0..2
      PROVE  LET left == SubSeq(table, 1, n)
             IN  /\ TrailProofsOf!FirstBad(left) = 0
                 /\ TrailProofsOf!HeadOf(left) # TrailProofsOf!HeadOf(table)
                 /\ TrailProofsOf!HeadOf(table) # TrailProofsOf!NoHead
  <2>. DEFINE left == SubSeq(table, 1, n)
  <2>1. n \in 0..(Len(table) - 1)
    BY <1>1
  <2>2. /\ TrailProofsOf!Verifies(left, TrailProofsOf!NoHead)
        /\ ~TrailProofsOf!Verifies(left, TrailProofsOf!HeadOf(table))
    BY <1>1, <2>1, TrailProofsOf!TruncationNeedsTheAnchor
  <2>. HIDE DEF left
  <2>3. /\ TrailProofsOf!FirstBad(left) = 0
        /\ TrailProofsOf!HeadOf(left) # TrailProofsOf!HeadOf(table)
        /\ TrailProofsOf!HeadOf(table) # TrailProofsOf!NoHead
    BY <2>2 DEF TrailProofsOf!Verifies
  <2>. QED  BY <2>3 DEF left
<1>4. TrailProofsOf!HeadOf(table) # TrailProofsOf!NoHead
  <2>1. 0 \in 0..2
    OBVIOUS
  <2>. QED  BY <1>3, <2>1
<1>. QED  BY <1>1, <1>2, <1>3, <1>4, SameChain DEF table

(* What the audit checks of the tour find is which checks the log lacks.  *)
LEMMA AuditChecks ==
  ASSUME code \in Codebases
  PROVE  /\ Tour!RewriteDetected <=> code.links
         /\ Tour!TruncationDetected <=> code.anchors /\ ~code.relaunders
         /\ Tour!RecordLeavesIntact <=> code.header
         /\ Tour!Portable <=>
              /\ code.unbound = {} /\ code.misfits = {} /\ code.answers
              /\ Tour!ExitFamilyRefuses
              /\ code.links /\ code.anchors /\ ~code.relaunders /\ code.header
              /\ code.sdk = "none"
<1>. DEFINE table == Tour!ThreeRecords
            low(i) == Tour!Rewritten(table, i, "low")
            left(n) == SubSeq(table, 1, n)
<1>1. /\ Tour!FirstBad(table) = 0
      /\ \A i \in 1..3 : Tour!FirstBad(low(i)) = i
      /\ \A n \in 0..2 : /\ Tour!FirstBad(left(n)) = 0
                         /\ Tour!HeadOf(left(n)) # Tour!HeadOf(table)
      /\ Tour!HeadOf(table) # Tour!NoHead
      /\ DOMAIN table = 1..3
  BY ThreeRecordsGuarded, ThreeRecordsAreSound
<1>2. /\ code.calls \subseteq Ports
      /\ code.answers \in BOOLEAN /\ code.links \in BOOLEAN /\ code.anchors \in BOOLEAN
      /\ code.header \in BOOLEAN /\ code.relaunders \in BOOLEAN
  BY TourAssumption DEF Tour!CodebaseAssumption
<1>. HIDE DEF table
<1>3. \A n \in 0..2 : /\ Tour!LogVerifies(left(n), Tour!NoHead)
                      /\ ~Tour!LogVerifies(left(n), Tour!HeadOf(table)) <=> code.anchors
                      /\ ~Tour!LogImports(left(n), Tour!HeadOf(table)) <=> code.header
  <2>. HIDE DEF left
  <2>. QED  BY <1>1, <1>2 DEF Tour!LogVerifies, Tour!LogImports, Tour!LogBad
<1>4. \A i \in 1..3 : Tour!LogBad(low(i)) = i <=> code.links
  <2>. HIDE DEF low
  <2>. QED  BY <1>1, <1>2 DEF Tour!LogBad
<1>5. Tour!LogBad(table) = 0 /\ Tour!LogImports(table, Tour!HeadOf(table))
  BY <1>1 DEF Tour!LogBad, Tour!LogImports
<1>6. Tour!RewriteDetected <=> code.links
  BY <1>4, <1>5 DEF Tour!RewriteDetected, table
<1>7. Tour!TruncationDetected <=> code.anchors /\ ~code.relaunders
  <2>1. Tour!TruncationDetected <=>
          /\ ~Tour!LogVerifies(left(2), Tour!HeadOf(table))
          /\ Tour!LogVerifies(left(2), Tour!NoHead)
          /\ ~code.relaunders
    BY DEF Tour!TruncationDetected, table
  <2>. QED  BY <1>3, <2>1
<1>8. Tour!RecordLeavesIntact <=> code.header
  <2>1. Tour!RecordLeavesIntact <=> /\ Tour!LogImports(table, Tour!HeadOf(table))
                                    /\ ~Tour!LogImports(left(2), Tour!HeadOf(table))
    BY DEF Tour!RecordLeavesIntact, table
  <2>. QED  BY <1>3, <1>5, <2>1
<1>9. (\A i \in DOMAIN table : /\ Tour!LogBad(low(i)) = i
                               /\ ~Tour!LogVerifies(left(i - 1), Tour!HeadOf(table))
                               /\ ~Tour!LogImports(left(i - 1), Tour!HeadOf(table)))
        <=> code.links /\ code.anchors /\ code.header
  <2>1. \A i \in 1..3 : i - 1 \in 0..2
    OBVIOUS
  <2>2. 1 \in 1..3
    OBVIOUS
  <2>. HIDE DEF low, left
  <2>. QED  BY <1>1, <1>3, <1>4, <2>1, <2>2
<1>10. (/\ \A port \in Ports \ Tour!ExitAbsent :
              port \in code.calls /\ code.exit[port] = "refuses"
        /\ \A port \in Ports \cap Tour!ExitAbsent :
              port \in code.calls /\ code.exit[port] = "completes")
        <=> Tour!ExitFamilyRefuses
  BY <1>2 DEF Tour!ExitFamilyRefuses
<1>11. Tour!Portable <=>
         /\ code.unbound = {} /\ code.misfits = {} /\ code.answers /\ code.sdk = "none"
         /\ ~code.relaunders
         /\ (/\ \A port \in Ports \ Tour!ExitAbsent :
                   port \in code.calls /\ code.exit[port] = "refuses"
             /\ \A port \in Ports \cap Tour!ExitAbsent :
                   port \in code.calls /\ code.exit[port] = "completes")
         /\ \A i \in DOMAIN table : /\ Tour!LogBad(low(i)) = i
                                     /\ ~Tour!LogVerifies(left(i - 1), Tour!HeadOf(table))
                                     /\ ~Tour!LogImports(left(i - 1), Tour!HeadOf(table))
  BY DEF Tour!Portable, table
<1>12. Tour!Portable <=>
         /\ code.unbound = {} /\ code.misfits = {} /\ code.answers
         /\ Tour!ExitFamilyRefuses
         /\ code.links /\ code.anchors /\ ~code.relaunders /\ code.header
         /\ code.sdk = "none"
  BY <1>9, <1>10, <1>11
<1>. QED  BY <1>6, <1>7, <1>8, <1>12

(* What the k-th check claims of the codebase, whenever it is run. *)
Claim(k) ==
  /\ k = 1 => code.unbound = {}
  /\ k = 2 => code.unbound \cup code.misfits = {}
  /\ k = 3 => code.answers
  /\ k = 4 => Tour!ExitFamilyRefuses
  /\ k = 5 => code.links
  /\ k = 6 => code.anchors /\ ~code.relaunders
  /\ k = 7 => code.header
  /\ k = 8 => code.sdk = "none"

(* Nothing has failed exactly when every claim made so far is true; and    *)
(* the SDK is loaded once something imported it.                           *)
TourInv ==
  /\ code \in Codebases
  /\ tour_at \in 1..9 /\ tour_failures \in Nat
  /\ loaded \in BOOLEAN
  /\ loaded <=> code.sdk = "ambient" \/ (tour_at > 2 /\ code.sdk = "eager")
  /\ tour_failures = 0 <=> \A k \in 1..(tour_at - 1) : Claim(k)
  /\ \/ tour_verdict = "running"
     \/ tour_at = 9 /\ tour_verdict = IF tour_failures = 0 THEN "PASS" ELSE "FAILED"

LEMMA ChecksInOrder ==
  /\ Len(Tour!Checks) = 8
  /\ Tour!Checks[1] = "port map complete"
  /\ Tour!Checks[2] = "adapters construct and conform"
  /\ Tour!Checks[3] = "offline family answers"
  /\ Tour!Checks[4] = "exit family refuses"
  /\ Tour!Checks[5] = "rewrite detected"
  /\ Tour!Checks[6] = "truncation detected when anchored"
  /\ Tour!Checks[7] = "record leaves intact"
  /\ Tour!Checks[8] = "no cloud SDK imported"
BY DEF Tour!Checks

LEMMA CheckFinds ==
  ASSUME TourInv, tour_at \in 1..8
  PROVE  Tour!Holds(Tour!Checks[tour_at]) <=> Claim(tour_at)
<1>1. code.sdk \in {"none", "eager", "ambient"} /\ code \in Codebases
  BY TourAssumption DEF TourInv, Tour!CodebaseAssumption
<1>2. /\ Tour!RewriteDetected <=> code.links
      /\ Tour!TruncationDetected <=> code.anchors /\ ~code.relaunders
      /\ Tour!RecordLeavesIntact <=> code.header
  BY <1>1, AuditChecks
<1>3. tour_at = 8 => (~loaded <=> code.sdk = "none")
  BY <1>1 DEF TourInv
<1>4. \/ tour_at = 1 \/ tour_at = 2 \/ tour_at = 3 \/ tour_at = 4
      \/ tour_at = 5 \/ tour_at = 6 \/ tour_at = 7 \/ tour_at = 8
  OBVIOUS
<1>5. /\ Tour!Holds(Tour!Checks[1]) <=> code.unbound = {}
      /\ Tour!Holds(Tour!Checks[2]) <=> code.unbound \cup code.misfits = {}
      /\ Tour!Holds(Tour!Checks[3]) <=> code.answers
      /\ Tour!Holds(Tour!Checks[4]) <=> Tour!ExitFamilyRefuses
      /\ Tour!Holds(Tour!Checks[5]) <=> Tour!RewriteDetected
      /\ Tour!Holds(Tour!Checks[6]) <=> Tour!TruncationDetected
      /\ Tour!Holds(Tour!Checks[7]) <=> Tour!RecordLeavesIntact
      /\ Tour!Holds(Tour!Checks[8]) <=> ~loaded
  BY ChecksInOrder DEF Tour!Holds
<1>. QED  BY <1>2, <1>3, <1>4, <1>5 DEF Claim

LEMMA CheckKeeps ==
  ASSUME TourInv, Tour!RunCheck
  PROVE  TourInv'
<1>1. tour_at \in 1..8 /\ tour_at' = tour_at + 1 /\ UNCHANGED <<code, tour_verdict>>
  <2>1. Len(Tour!Checks) = 8
    BY ChecksInOrder
  <2>2. tour_at <= Len(Tour!Checks)
    BY DEF Tour!RunCheck
  <2>3. tour_at' = tour_at + 1 /\ UNCHANGED <<code, tour_verdict>>
    BY DEF Tour!RunCheck
  <2>. QED  BY <2>1, <2>2, <2>3 DEF TourInv
<1>2. Tour!Holds(Tour!Checks[tour_at]) <=> Claim(tour_at)
  BY <1>1, CheckFinds
<1>3. tour_failures' = IF Claim(tour_at) THEN tour_failures ELSE tour_failures + 1
  BY <1>2 DEF Tour!RunCheck
<1>4. Tour!Checks[tour_at] = "adapters construct and conform" <=> tour_at = 2
  <2>1. \/ tour_at = 1 \/ tour_at = 2 \/ tour_at = 3 \/ tour_at = 4
        \/ tour_at = 5 \/ tour_at = 6 \/ tour_at = 7 \/ tour_at = 8
    BY <1>1
  <2>. QED  BY <2>1, ChecksInOrder
<1>5. loaded' \in BOOLEAN /\ (loaded' <=> loaded \/ (tour_at = 2 /\ code.sdk = "eager"))
  BY <1>4 DEF Tour!RunCheck
<1>6. loaded' <=> code.sdk = "ambient" \/ (tour_at' > 2 /\ code.sdk = "eager")
  <2>1. loaded <=> code.sdk = "ambient" \/ (tour_at > 2 /\ code.sdk = "eager")
    BY DEF TourInv
  <2>2. tour_at' > 2 <=> tour_at > 2 \/ tour_at = 2
    BY <1>1
  <2>. QED  BY <1>1, <1>5, <2>1, <2>2
<1>7. \A k : Claim(k)' <=> Claim(k)
  BY <1>1 DEF Claim, Tour!ExitFamilyRefuses
<1>8. tour_failures \in Nat /\ (tour_failures = 0 <=> \A k \in 1..(tour_at - 1) : Claim(k))
  BY DEF TourInv
<1>9. 1..(tour_at' - 1) = 1..(tour_at - 1) \cup {tour_at}
  BY <1>1
<1>10. tour_failures' = 0 <=> \A k \in 1..(tour_at' - 1) : Claim(k)'
  <2>1. tour_failures' = 0 <=> tour_failures = 0 /\ Claim(tour_at)
    BY <1>3, <1>8
  <2>. QED  BY <1>7, <1>8, <1>9, <2>1
<1>11. tour_failures' \in Nat
  BY <1>3, <1>8
<1>12. tour_verdict' = "running"
  BY <1>1 DEF TourInv
<1>. QED  BY <1>1, <1>5, <1>6, <1>10, <1>11, <1>12 DEF TourInv

LEMMA ConclusionKeeps ==
  ASSUME TourInv, Tour!Conclude
  PROVE  TourInv'
<1>1. tour_at = 9
  <2>1. Len(Tour!Checks) = 8
    BY ChecksInOrder
  <2>. QED  BY <2>1 DEF TourInv, Tour!Conclude
<1>2. \A k : Claim(k)' <=> Claim(k)
  BY DEF Claim, Tour!ExitFamilyRefuses, Tour!Conclude
<1>. QED  BY <1>1, <1>2 DEF TourInv, Tour!Conclude

LEMMA TourStep == TourInv /\ [Tour!Next]_(Tour!vars) => TourInv'
<1>1. TourInv /\ UNCHANGED Tour!vars => TourInv'
  BY DEF TourInv, Claim, Tour!ExitFamilyRefuses, Tour!vars
<1>. QED  BY <1>1, CheckKeeps, ConclusionKeeps DEF Tour!Next

(* A pass of the tour means that all it claims is so, of every port and of *)
(* every record; and a failure, that some claim is false                   *)
(* (scripts/portability_demo.py 8-17, 306-325).                            *)
THEOREM TourTellsTheTruth == TargetsSpec => []TourIsDiscriminating
<1>1. Tour!Init => TourInv
  <2>. SUFFICES ASSUME Tour!Init PROVE TourInv
    OBVIOUS
  <2>1. code \in Codebases /\ tour_at = 1 /\ tour_failures = 0 /\ tour_verdict = "running"
    BY DEF Tour!Init
  <2>2. loaded \in BOOLEAN /\ (loaded <=> code.sdk = "ambient")
    BY DEF Tour!Init
  <2>. QED  BY <2>1, <2>2 DEF TourInv
<1>2. TourInv => TourIsDiscriminating
  <2>. SUFFICES ASSUME TourInv, tour_at = 9,
                       tour_verdict = IF tour_failures = 0 THEN "PASS" ELSE "FAILED"
                PROVE  TourIsDiscriminating
    BY DEF TourInv, TourIsDiscriminating, Tour!TourIsDiscriminating
  <2>1. tour_failures = 0 <=> \A k \in 1..8 : Claim(k)
    BY DEF TourInv
  <2>2. (\A k \in 1..8 : Claim(k)) <=>
          Claim(1) /\ Claim(2) /\ Claim(3) /\ Claim(4)
            /\ Claim(5) /\ Claim(6) /\ Claim(7) /\ Claim(8)
    <3>1. \A k \in 1..8 : \/ k = 1 \/ k = 2 \/ k = 3 \/ k = 4
                          \/ k = 5 \/ k = 6 \/ k = 7 \/ k = 8
      OBVIOUS
    <3>2. 1 \in 1..8 /\ 2 \in 1..8 /\ 3 \in 1..8 /\ 4 \in 1..8
            /\ 5 \in 1..8 /\ 6 \in 1..8 /\ 7 \in 1..8 /\ 8 \in 1..8
      OBVIOUS
    <3>. QED  BY <3>1, <3>2
  <2>3. Tour!Portable <=>
          /\ code.unbound = {} /\ code.misfits = {} /\ code.answers
          /\ Tour!ExitFamilyRefuses
          /\ code.links /\ code.anchors /\ ~code.relaunders /\ code.header
          /\ code.sdk = "none"
    BY AuditChecks DEF TourInv
  <2>4. Tour!Portable <=> \A k \in 1..8 : Claim(k)
    BY <2>2, <2>3 DEF Claim
  <2>. QED  BY <2>1, <2>4 DEF TourIsDiscriminating, Tour!TourIsDiscriminating
<1>3. Tour!Spec => []TourIsDiscriminating
  BY <1>1, <1>2, TourStep, PTL DEF Tour!Spec
<1>. QED  BY <1>3, EachKeepsItsSpec, PTL

-----------------------------------------------------------------------------
(* The arc of the walkthrough, whatever the policy: a step performed is    *)
(* counted, so the runs of the arc are numbered by their place.            *)
LEMMA DoneCounts ==
  ASSUME NEW r, NEW facts, "performed" \in DOMAIN r
  PROVE  /\ "performed" \in DOMAIN Walk!Done(r, facts)
         /\ Walk!Done(r, facts).performed = r.performed + 1
BY DEF Walk!Done

LEMMA EvaluatedCountsNoStep ==
  ASSUME NEW r, NEW events, "performed" \in DOMAIN r
  PROVE  /\ "performed" \in DOMAIN Walk!Evaluated(r, events)
         /\ Walk!Evaluated(r, events).performed = r.performed
BY DEF Walk!Evaluated

LEMMA StepCounts ==
  ASSUME NEW r, "performed" \in DOMAIN r, r.performed \in 0..8
  PROVE  /\ "performed" \in DOMAIN Walk!Perform(r)
         /\ Walk!Perform(r).performed = r.performed + 1
<1>. DEFINE Counted(other) == /\ "performed" \in DOMAIN other
                              /\ other.performed = r.performed + 1
<1>1. \A facts : Counted(Walk!Done(r, facts))
  BY DoneCounts
<1>2. \A other, facts :
        "performed" \in DOMAIN other /\ other.performed = r.performed =>
          Counted(Walk!Done(other, facts))
  BY DoneCounts
<1>3. \A events : /\ "performed" \in DOMAIN Walk!Evaluated(r, events)
                  /\ Walk!Evaluated(r, events).performed = r.performed
  BY EvaluatedCountsNoStep
<1>4. \A other, pending :
        "performed" \in DOMAIN other =>
          /\ "performed" \in DOMAIN [other EXCEPT !.pending = pending]
          /\ [other EXCEPT !.pending = pending].performed = other.performed
  OBVIOUS
<1>5. \A ok : /\ "performed" \in DOMAIN [r EXCEPT !.chainOk = ok]
              /\ [r EXCEPT !.chainOk = ok].performed = r.performed
  OBVIOUS
<1>6. \A table, ok :
        /\ "performed" \in DOMAIN [r EXCEPT !.rows = table, !.chainOk = ok]
        /\ [r EXCEPT !.rows = table, !.chainOk = ok].performed = r.performed
  OBVIOUS
<1>. HIDE DEF Counted
<1>7. Counted(Walk!Opened(r)) /\ Counted(Walk!Triggers(r))
        /\ Counted(Walk!DraftingStep(r)) /\ Counted(Walk!PortabilityStep(r))
  BY <1>1 DEF Walk!Opened, Walk!Triggers, Walk!DraftingStep, Walk!PortabilityStep
<1>8. Counted(Walk!EligibilityStep(r))
  BY <1>1 DEF Walk!EligibilityStep
<1>9. Counted(Walk!Delivery(r))
  BY <1>2, <1>3 DEF Walk!Delivery
<1>10. Counted(Walk!ReviewQueue(r))
  BY <1>2, <1>3, <1>4 DEF Walk!ReviewQueue
<1>11. Counted(Walk!Audit(r))
  BY <1>2, <1>5 DEF Walk!Audit
<1>12. Counted(Walk!Tamper(r))
  BY <1>2, <1>6 DEF Walk!Tamper
<1>13. Walk!Perform(r) \in {Walk!Opened(r), Walk!Triggers(r), Walk!EligibilityStep(r),
                            Walk!DraftingStep(r), Walk!Delivery(r), Walk!ReviewQueue(r),
                            Walk!Audit(r), Walk!Tamper(r), Walk!PortabilityStep(r)}
  <2>1. LET key == Walk!STEPS[r.performed + 1]
        IN  \/ key = "opened" \/ key = "triggers" \/ key = "eligibility"
            \/ key = "drafting" \/ key = "delivery" \/ key = "review_queue"
            \/ key = "audit" \/ key = "tamper" \/ key = "portability"
    BY DEF Walk!STEPS
  <2>. QED  BY <2>1 DEF Walk!Perform
<1>14. Counted(Walk!Perform(r))
  BY <1>7, <1>8, <1>9, <1>10, <1>11, <1>12, <1>13
<1>. QED  BY <1>14 DEF Counted

LEMMA ArcAdvances ==
  /\ Len(Walk!STEPS) = 9 /\ DOMAIN Walk!STEPS = 1..9
  /\ Walk!Arc[1] = Walk!FreshRun
  /\ \A k \in 1..8 : Walk!Arc[k + 1] = Walk!Advanced(Walk!Arc[k])
<1>1. Len(Walk!STEPS) = 9 /\ DOMAIN Walk!STEPS = 1..9
  BY DEF Walk!STEPS
<1>2. /\ Walk!Arc[1] = Walk!FreshRun
      /\ Walk!Arc[2] = Walk!Advanced(Walk!Arc[1])
      /\ Walk!Arc[3] = Walk!Advanced(Walk!Arc[2])
      /\ Walk!Arc[4] = Walk!Advanced(Walk!Arc[3])
      /\ Walk!Arc[5] = Walk!Advanced(Walk!Arc[4])
      /\ Walk!Arc[6] = Walk!Advanced(Walk!Arc[5])
      /\ Walk!Arc[7] = Walk!Advanced(Walk!Arc[6])
      /\ Walk!Arc[8] = Walk!Advanced(Walk!Arc[7])
      /\ Walk!Arc[9] = Walk!Advanced(Walk!Arc[8])
  BY DEF Walk!Arc
<1>3. \A k \in 1..8 : \/ k = 1 \/ k = 2 \/ k = 3 \/ k = 4
                      \/ k = 5 \/ k = 6 \/ k = 7 \/ k = 8
  OBVIOUS
<1>. QED  BY <1>1, <1>2, <1>3

LEMMA ArcIsNumbered ==
  \A k \in 1..9 : Walk!Arc[k].performed = k
<1>. DEFINE Numbered(k) == "performed" \in DOMAIN Walk!Arc[k] /\ Walk!Arc[k].performed = k
<1>1. Numbered(1)
  <2>. DEFINE blank ==
         [performed |-> 0, rows |-> <<>>, anchor |-> Walk!NoHead, sent |-> {}, pending |-> 0,
          totals |-> [evaluated |-> 0, delivered |-> 0, held |-> 0, refused |-> 0],
          chainOk |-> TRUE, facts |-> <<>>]
  <2>1. "performed" \in DOMAIN blank /\ blank.performed = 0
    OBVIOUS
  <2>2. Walk!FreshRun = Walk!Perform(blank)
    BY DEF Walk!FreshRun
  <2>. HIDE DEF blank
  <2>. QED  BY <2>1, <2>2, StepCounts, ArcAdvances
<1>2. ASSUME NEW k \in 1..8, Numbered(k)
      PROVE  Numbered(k + 1)
  <2>1. Walk!Arc[k + 1] = Walk!Perform(Walk!Arc[k])
    BY <1>2, ArcAdvances DEF Walk!Advanced, Walk!IsDone
  <2>. QED  BY <1>2, <2>1, StepCounts
<1>. HIDE DEF Numbered
<1>3. /\ Numbered(1) /\ Numbered(2) /\ Numbered(3) /\ Numbered(4) /\ Numbered(5)
      /\ Numbered(6) /\ Numbered(7) /\ Numbered(8) /\ Numbered(9)
  <2>1. Numbered(2)
    BY <1>1, <1>2
  <2>2. Numbered(3)
    BY <1>2, <2>1
  <2>3. Numbered(4)
    BY <1>2, <2>2
  <2>4. Numbered(5)
    BY <1>2, <2>3
  <2>5. Numbered(6)
    BY <1>2, <2>4
  <2>6. Numbered(7)
    BY <1>2, <2>5
  <2>7. Numbered(8)
    BY <1>2, <2>6
  <2>8. Numbered(9)
    BY <1>2, <2>7
  <2>. QED  BY <1>1, <2>1, <2>2, <2>3, <2>4, <2>5, <2>6, <2>7, <2>8
<1>4. \A k \in 1..9 : \/ k = 1 \/ k = 2 \/ k = 3 \/ k = 4
                      \/ k = 5 \/ k = 6 \/ k = 7 \/ k = 8 \/ k = 9
  OBVIOUS
<1>5. \A k \in 1..9 : Numbered(k)
  BY <1>3, <1>4
<1>. QED  BY <1>5 DEF Numbered

(* Until the browser restarts the run, a step that was seen and did not    *)
(* fail has passed on the run that is served.                              *)
HonestPass ==
  /\ clicked \in BOOLEAN
  /\ ~clicked /\ walk_at \notin {"fetching", "ended"} => ~replaced
  /\ ~clicked /\ ~failed => seen \subseteq passed
  /\ walk_verdict = "pass" =>
       /\ walk_at = "ended"
       /\ ~clicked => \A i \in DOMAIN Walk!STEPS : Walk!STEPS[i] \in passed

StepsUpTo(k) == {Walk!STEPS[i] : i \in 1..k}

(* A hand other than the walkthrough's has not moved the run on. *)
Untouched == clicks = 0 /\ jumps = 0

(* Where a presenter whom nobody pushes on is: the run is at step k of the *)
(* arc, the first m steps were seen, and what is shown is step j. Restarts *)
(* take the run back and the presenter not, so nothing is skipped.         *)
Following(k, m) ==
  /\ run = Walk!Arc[k] /\ seen = StepsUpTo(m)
  /\ walk_at \in {"waiting", "checking", "prompt", "fetching", "concluding"}
  /\ walk_at = "concluding" <=> m = 9
  /\ walk_at = "waiting" => k = 1 /\ m = 0
  /\ walk_at = "fetching" => k <= m + 1
  /\ walk_at = "prompt" => k <= m
  /\ walk_at = "checking" =>
       \E j \in 1..9 : /\ k <= j /\ j <= m + 1
                       /\ shown.step = j /\ shown.facts = Walk!Arc[j].facts
                       /\ shown.done <=> j = 9

OnTheArc ==
  /\ ~failed /\ walk_verdict # "failed"
  /\ walk_at # "ended" => \E k \in 1..9, m \in 0..9 : Following(k, m)

WalkInv ==
  /\ clicks \in Nat /\ jumps \in Nat
  /\ HonestPass
  /\ Untouched => OnTheArc

LEMMA StepsGrow ==
  ASSUME NEW m \in 0..9, NEW j \in 1..9, j <= m + 1
  PROVE  StepsUpTo(m) \cup {Walk!STEPS[j]} = StepsUpTo(IF j <= m THEN m ELSE j)
<1>1. CASE j <= m
  <2>1. j \in 1..m
    BY <1>1
  <2>. QED  BY <1>1, <2>1 DEF StepsUpTo
<1>2. CASE j = m + 1
  <2>1. 1..j = 1..m \cup {j}
    BY <1>2
  <2>2. ~(j <= m)
    BY <1>2
  <2>. QED  BY <2>1, <2>2 DEF StepsUpTo
<1>. QED  BY <1>1, <1>2

LEMMA AllSteps == StepsUpTo(9) = {Walk!STEPS[i] : i \in DOMAIN Walk!STEPS}
BY ArcAdvances DEF StepsUpTo

LEMMA FreshIsFirst == Walk!FreshRun.performed = 1 /\ Walk!FreshRun = Walk!Arc[1]
BY ArcAdvances, ArcIsNumbered

LEMMA StepsOfTheArc ==
  ASSUME NEW k \in 1..9
  PROVE  /\ Walk!Arc[k].performed = k
         /\ Walk!IsDone(Walk!Arc[k]) <=> k = 9
         /\ k < 9 => Walk!Advanced(Walk!Arc[k]) = Walk!Arc[k + 1]
         /\ Walk!Expected(Walk!STEPS[k], Walk!Arc[k].facts)
<1>1. Walk!Arc[k].performed = k
  BY ArcIsNumbered
<1>2. Walk!IsDone(Walk!Arc[k]) <=> k = 9
  BY <1>1, ArcAdvances DEF Walk!IsDone
<1>3. k < 9 => k \in 1..8
  OBVIOUS
<1>4. Walk!Expected(Walk!STEPS[k], Walk!Arc[k].facts)
  BY ArcAssumption, ArcAdvances DEF Walk!ArcPasses
<1>. QED  BY <1>1, <1>2, <1>3, <1>4, ArcAdvances

LEMMA WalkStarts == Walk!Init => WalkInv
<1>. SUFFICES ASSUME Walk!Init PROVE WalkInv
  OBVIOUS
<1>1. HonestPass /\ clicks \in Nat /\ jumps \in Nat
  BY DEF Walk!Init, Walk!Snapshot, HonestPass
<1>2. run.performed = 1 /\ run = Walk!Arc[1]
  BY FreshIsFirst DEF Walk!Init
<1>3. StepsUpTo(0) = {}
  BY DEF StepsUpTo
<1>4. Following(1, 0)
  BY <1>2, <1>3 DEF Walk!Init, Following
<1>5. OnTheArc
  BY <1>4 DEF Walk!Init, OnTheArc
<1>. QED  BY <1>1, <1>5 DEF WalkInv

LEMMA HonestPassKept ==
  ASSUME WalkInv, [Walk!Next]_(Walk!vars)
  PROVE  HonestPass'
<1>. USE DEF WalkInv, HonestPass, Walk!served, Walk!browser, Walk!tally, Walk!Snapshot,
             Walk!End
<1>1. CASE Walk!ServerReady \/ Walk!ServerExits
  BY <1>1 DEF Walk!ServerReady, Walk!ServerExits
<1>2. CASE Walk!ClickNext
  BY <1>2 DEF Walk!ClickNext
<1>11. CASE Walk!ClickRestart
  <2>1. clicked' = TRUE /\ walk_at # "ended" /\ UNCHANGED <<walk_at, walk_verdict>>
    BY <1>11 DEF Walk!ClickRestart
  <2>. QED  BY <2>1
<1>3. CASE Walk!Ready \/ Walk!NeverReady \/ Walk!Fetch \/ Walk!JumpFetch
  BY <1>3 DEF Walk!Ready, Walk!NeverReady, Walk!Fetch, Walk!JumpFetch
<1>4. CASE Walk!Check
  <2>. DEFINE key == Walk!STEPS[shown.step]
              ok == Walk!Expected(key, shown.facts)
  <2>1. /\ seen' = seen \cup {key} /\ (~failed' => ~failed /\ ok)
        /\ passed' = IF ok /\ ~replaced THEN passed \cup {key} ELSE passed
        /\ walk_at = "checking" /\ walk_at' \in {"concluding", "prompt"}
        /\ UNCHANGED <<clicked, replaced, walk_verdict>>
    BY <1>4 DEF Walk!Check
  <2>. HIDE DEF key, ok
  <2>. QED  BY <2>1
<1>5. CASE Walk!PostNext \/ Walk!PostRestart
  BY <1>5 DEF Walk!PostNext, Walk!PostRestart
<1>6. CASE Walk!Quit
  BY <1>6 DEF Walk!Quit
<1>7. CASE Walk!Jump \/ Walk!JumpPost \/ Walk!JumpEnds
  BY <1>7 DEF Walk!Jump, Walk!JumpPost, Walk!JumpEnds
<1>8. CASE Walk!RequestFails
  BY <1>8 DEF Walk!RequestFails
<1>9. CASE Walk!Conclude
  BY <1>9 DEF Walk!Conclude
<1>10. CASE UNCHANGED Walk!vars
  BY <1>10 DEF Walk!vars
<1>. QED  BY <1>1, <1>2, <1>11, <1>3, <1>4, <1>5, <1>6, <1>7, <1>8, <1>9, <1>10
          DEF Walk!Next, Walk!Presenter

LEMMA CountsKept ==
  ASSUME WalkInv, [Walk!Next]_(Walk!vars)
  PROVE  clicks' \in Nat /\ jumps' \in Nat /\ (Untouched' => Untouched)
<1>. USE DEF WalkInv, Untouched, Walk!browser
<1>1. CASE UNCHANGED <<clicks, jumps>>
  BY <1>1
<1>2. CASE Walk!ClickNext
  BY <1>2 DEF Walk!ClickNext
<1>3. CASE Walk!Jump
  BY <1>3 DEF Walk!Jump
<1>4. [Walk!Next]_(Walk!vars) =>
        \/ UNCHANGED <<clicks, jumps>> \/ Walk!Jump \/ Walk!ClickNext
  BY DEF Walk!Next, Walk!Presenter, Walk!vars, Walk!ServerReady, Walk!ServerExits,
     Walk!ClickRestart,
     Walk!Ready, Walk!NeverReady, Walk!Check, Walk!PostNext, Walk!PostRestart, Walk!Fetch,
     Walk!Quit, Walk!JumpPost, Walk!JumpFetch, Walk!JumpEnds, Walk!RequestFails, Walk!Conclude
<1>. QED  BY <1>1, <1>2, <1>3, <1>4

LEMMA ArcKept ==
  ASSUME WalkInv, [Walk!Next]_(Walk!vars), Untouched'
  PROVE  OnTheArc'
<1>1. /\ clicks = 0 /\ jumps = 0 /\ clicks \in Nat /\ jumps \in Nat /\ OnTheArc
      /\ clicks' = 0 /\ jumps' = 0
  BY CountsKept DEF WalkInv, Untouched
<1>. USE DEF Walk!served, Walk!browser, Walk!tally
<1>2. CASE UNCHANGED Walk!vars
  BY <1>1, <1>2 DEF OnTheArc, Following, Walk!vars
<1>3. CASE Walk!NeverReady \/ Walk!RequestFails \/ Walk!Quit
  BY <1>1, <1>3 DEF OnTheArc, Walk!NeverReady, Walk!RequestFails, Walk!Quit, Walk!End
<1>4. ~Walk!ClickNext /\ ~Walk!Jump
  BY <1>1 DEF Walk!ClickNext, Walk!Jump
<1>5. SUFFICES ASSUME walk_at # "ended",
                      NEW k \in 1..9, NEW m \in 0..9, Following(k, m),
                      Walk!Next, ~(Walk!NeverReady \/ Walk!RequestFails \/ Walk!Quit)
               PROVE  OnTheArc'
  <2>1. CASE walk_at = "ended"
    BY <1>2, <2>1
       DEF Walk!Next, Walk!Presenter, Walk!ServerReady, Walk!ServerExits, Walk!ClickNext,
       Walk!ClickRestart, Walk!Ready, Walk!NeverReady, Walk!Check, Walk!PostNext,
       Walk!PostRestart, Walk!Fetch, Walk!Quit, Walk!Jump, Walk!JumpPost, Walk!JumpFetch,
       Walk!JumpEnds, Walk!RequestFails, Walk!Conclude
  <2>2. CASE walk_at # "ended"
    BY <1>1, <1>2, <1>3, <2>2 DEF OnTheArc
  <2>. QED  BY <2>1, <2>2
<1>6. ~failed /\ walk_verdict # "failed"
  BY <1>1 DEF OnTheArc
<1>7. CASE Walk!ServerReady \/ Walk!ServerExits
  <2>1. Following(k, m)' /\ UNCHANGED <<failed, walk_verdict>>
    BY <1>5, <1>7 DEF Following, Walk!ServerReady, Walk!ServerExits
  <2>. QED  BY <1>6, <2>1 DEF OnTheArc
<1>8. CASE Walk!ClickRestart
  <2>1. run' = Walk!Arc[1] /\ UNCHANGED <<walk_at, shown, seen, failed, walk_verdict>>
    BY <1>8, FreshIsFirst DEF Walk!ClickRestart
  <2>2. Following(1, m)'
    BY <1>5, <2>1 DEF Following
  <2>. QED  BY <1>6, <2>1, <2>2 DEF OnTheArc
<1>9. CASE Walk!Ready \/ Walk!Fetch
  <2>1. /\ walk_at \in {"waiting", "fetching"} /\ walk_at' = "checking"
        /\ shown' = Walk!Snapshot
        /\ UNCHANGED <<run, seen, failed, walk_verdict>>
    BY <1>9 DEF Walk!Ready, Walk!Fetch
  <2>2. run.performed = k /\ (Walk!IsDone(run) <=> k = 9) /\ run.facts = Walk!Arc[k].facts
    BY <1>5, StepsOfTheArc DEF Following
  <2>3. shown'.step = k /\ shown'.facts = Walk!Arc[k].facts /\ (shown'.done <=> k = 9)
    BY <2>1, <2>2 DEF Walk!Snapshot
  <2>4. k <= m + 1 /\ m # 9
    BY <1>5, <2>1 DEF Following
  <2>5. Following(k, m)'
    BY <1>5, <2>1, <2>3, <2>4 DEF Following
  <2>. QED  BY <1>6, <2>1, <2>5 DEF OnTheArc
<1>10. CASE Walk!Check
  <2>1. PICK j \in 1..9 : /\ k <= j /\ j <= m + 1
                          /\ shown.step = j /\ shown.facts = Walk!Arc[j].facts
                          /\ shown.done <=> j = 9
    BY <1>5, <1>10 DEF Following, Walk!Check
  <2>2. Walk!Expected(Walk!STEPS[shown.step], shown.facts)
    BY <2>1, StepsOfTheArc
  <2>. DEFINE n == IF j <= m THEN m ELSE j
  <2>3. n \in 0..9 /\ k <= n
    BY <2>1
  <2>4. m # 9 /\ (n = 9 <=> j = 9)
    BY <1>5, <1>10, <2>1 DEF Following, Walk!Check
  <2>5. seen' = StepsUpTo(n)
    BY <1>5, <1>10, <2>1, StepsGrow DEF Following, Walk!Check
  <2>6. ~failed' /\ UNCHANGED <<run, walk_verdict>>
    BY <1>6, <1>10, <2>2 DEF Walk!Check
  <2>7. walk_at' = IF j = 9 THEN "concluding" ELSE "prompt"
    BY <1>10, <2>1 DEF Walk!Check
  <2>. HIDE DEF n
  <2>8. Following(k, n)'
    BY <1>5, <2>3, <2>4, <2>5, <2>6, <2>7 DEF Following
  <2>. QED  BY <1>6, <2>3, <2>6, <2>8 DEF OnTheArc
<1>11. CASE Walk!PostNext
  <2>1. k <= m /\ m # 9
    BY <1>5, <1>11 DEF Following, Walk!PostNext
  <2>2. run' = Walk!Arc[k + 1] /\ k + 1 \in 1..9
    BY <1>5, <1>11, <2>1, StepsOfTheArc DEF Following, Walk!PostNext
  <2>3. walk_at' = "fetching" /\ UNCHANGED <<seen, failed, walk_verdict>>
    BY <1>11 DEF Walk!PostNext
  <2>4. Following(k + 1, m)'
    BY <1>5, <2>1, <2>2, <2>3 DEF Following
  <2>. QED  BY <1>6, <2>2, <2>3, <2>4 DEF OnTheArc
<1>12. CASE Walk!PostRestart
  <2>1. /\ run' = Walk!Arc[1] /\ seen' = {}
        /\ walk_at' = "fetching" /\ UNCHANGED <<failed, walk_verdict>>
    BY <1>12, FreshIsFirst DEF Walk!PostRestart
  <2>2. StepsUpTo(0) = {}
    BY DEF StepsUpTo
  <2>3. Following(1, 0)'
    BY <2>1, <2>2 DEF Following
  <2>. QED  BY <1>6, <2>1, <2>3 DEF OnTheArc
<1>13. ~Walk!JumpPost /\ ~Walk!JumpFetch /\ ~Walk!JumpEnds
  BY <1>5 DEF Following, Walk!JumpPost, Walk!JumpFetch, Walk!JumpEnds
<1>14. CASE Walk!Conclude
  <2>1. seen = StepsUpTo(9)
    BY <1>5, <1>14 DEF Following, Walk!Conclude
  <2>2. walk_at' = "ended" /\ walk_verdict' = "pass" /\ failed' = failed
    BY <1>6, <1>14, <2>1, AllSteps DEF Walk!Conclude, Walk!End
  <2>. QED  BY <1>6, <2>2 DEF OnTheArc
<1>. QED  BY <1>4, <1>5, <1>7, <1>8, <1>9, <1>10, <1>11, <1>12, <1>13, <1>14
          DEF Walk!Next, Walk!Presenter

(* A pass asserts every step on the run that reached the end unless the    *)
(* browser replaced it, and a walkthrough that nobody pushes on never      *)
(* fails, however often it is restarted (scripts/walkthrough.py 281-341).  *)
THEOREM WalkthroughIsHonest == TargetsSpec => []VerdictIsHonest
<1>1. WalkInv /\ [Walk!Next]_(Walk!vars) => WalkInv'
  BY HonestPassKept, CountsKept, ArcKept DEF WalkInv
<1>2. WalkInv => VerdictIsHonest
  BY DEF WalkInv, HonestPass, Untouched, OnTheArc, VerdictIsHonest, Walk!VerdictIsHonest
<1>3. Walk!Spec => []VerdictIsHonest
  BY WalkStarts, <1>1, <1>2, PTL DEF Walk!Spec
<1>. QED  BY <1>3, EachKeepsItsSpec, PTL

-----------------------------------------------------------------------------
(* The lock script, however often it is run and killed: what each place of *)
(* a run knows of the two files, so that every way of ending by itself     *)
(* leaves them whole or as they were.                                      *)
Lockfiles == {"dev", "gcp"}

LockfileSet == [resolution : Int, headed : BOOLEAN, unpinned : BOOLEAN]

OtherFile == IF Lock!target = "dev" THEN "gcp" ELSE "dev"

WholeAt(t) == files[t] = Lock!File(resolution, TRUE, FALSE)

LockType ==
  /\ lock_at \in {"idle", "resolving", "reading", "exporting", "checking", "writing"}
  /\ resolution \in Nat /\ index \in 1..2
  /\ files \in [Lockfiles -> LockfileSet]
  /\ began \in [Lockfiles -> LockfileSet]

(* Within a run: the first file is done when the second is in hand, which  *)
(* is untouched until then, and the one in hand can be put back.           *)
LockUnderway ==
  /\ lock_at = "resolving" => files = began
  /\ lock_at \in {"reading", "exporting", "checking", "writing"} =>
       IF index = 1 THEN files["gcp"] = began["gcp"] ELSE WholeAt("dev")
  /\ lock_at \in {"reading", "exporting"} => files[Lock!target] = began[Lock!target]
  /\ lock_at \in {"exporting", "checking", "writing"} => previous = began[Lock!target]
  /\ lock_at \in {"checking", "writing"} =>
       \E unpinned \in BOOLEAN : files[Lock!target] = Lock!File(resolution, FALSE, unpinned)
  /\ lock_at = "writing" => ~files[Lock!target].unpinned

LockInv == LockType /\ LockUnderway /\ LockfilesStayWhole

-----------------------------------------------------------------------------
LEMMA LockTargets ==
  ASSUME LockType
  PROVE  /\ index = 1 => Lock!target = "dev"
         /\ index = 2 => Lock!target = "gcp"
         /\ Len(Lock!TARGETS) = 2
         /\ index = 1 \/ index = 2
BY DEF LockType, Lock!target, Lock!TARGETS

LEMMA LockFileType ==
  /\ \A r \in Int, headed, unpinned \in BOOLEAN : Lock!File(r, headed, unpinned) \in LockfileSet
  /\ Lock!Absent \in LockfileSet
BY DEF Lock!File, Lock!Absent, LockfileSet

LEMMA InHand == LockType => Lock!target \in Lockfiles
BY LockTargets DEF Lockfiles

LEMMA LockInit == Lock!Init => LockInv
<1> SUFFICES ASSUME Lock!Init PROVE LockInv
  OBVIOUS
<1>1. LockType
  <2>1. Lock!File(0, TRUE, FALSE) \in LockfileSet
    BY DEF Lock!File, LockfileSet
  <2>2. files \in [Lockfiles -> LockfileSet]
    BY <2>1, LockFileType DEF Lock!Init, Lockfiles
  <2>3. QED
    BY <2>2 DEF Lock!Init, LockType
<1>2. LockUnderway /\ LockfilesStayWhole
  BY DEF Lock!Init, LockUnderway, LockfilesStayWhole, Lock!LockfilesStayWhole
<1>3. QED
  BY <1>1, <1>2 DEF LockInv

LEMMA LockTypeStep ==
  ASSUME LockInv, [Lock!Next]_(Lock!vars)
  PROVE  LockType'
<1>. USE DEF LockInv, LockType
<1>1. CASE Lock!Start
  BY <1>1 DEF Lock!Start
<1>2. CASE Lock!Resolve
  BY <1>2 DEF Lock!Resolve, Lock!Ends
<1>3. CASE Lock!Read
  BY <1>3 DEF Lock!Read
<1>4. \A h, u \in BOOLEAN : Lock!File(resolution, h, u) \in LockfileSet
  BY LockFileType
<1>5. \A g \in LockfileSet : [files EXCEPT ![Lock!target] = g] \in [Lockfiles -> LockfileSet]
  OBVIOUS
<1>6. CASE Lock!Export
  <2>1. PICK u \in BOOLEAN :
          files' = [files EXCEPT ![Lock!target] = Lock!File(resolution, FALSE, u)]
    BY <1>6 DEF Lock!Export
  <2>2. Lock!File(resolution, FALSE, u) \in LockfileSet
    BY <1>4
  <2>3. QED
    BY <1>5, <1>6, <2>1, <2>2 DEF Lock!Export
<1>7. lock_at \in {"exporting", "checking"} => Lock!Restored \in [Lockfiles -> LockfileSet]
  <2>1. lock_at \in {"exporting", "checking"} => previous \in LockfileSet
    BY InHand DEF LockUnderway
  <2>2. QED
    BY <1>5, <2>1 DEF Lock!Restored
<1>8. CASE Lock!ExportFails
  <2>1. Lock!File(resolution, FALSE, FALSE) \in LockfileSet
    BY <1>4
  <2>2. QED
    BY <1>5, <1>7, <1>8, <2>1 DEF Lock!ExportFails, Lock!Ends
<1>9. CASE Lock!CheckPins
  BY <1>7, <1>9 DEF Lock!CheckPins, Lock!Ends
<1>10. CASE Lock!WriteHeader
  <2>1. Lock!File(files[Lock!target].resolution, TRUE, files[Lock!target].unpinned) \in LockfileSet
    <3>1. files[Lock!target] \in LockfileSet
      BY InHand
    <3>2. files[Lock!target].resolution \in Int /\ files[Lock!target].unpinned \in BOOLEAN
      BY <3>1 DEF LockfileSet
    <3>3. QED
      BY <3>2 DEF Lock!File, LockfileSet
  <2>2. files' = [files EXCEPT ![Lock!target] =
                    Lock!File(files[Lock!target].resolution, TRUE, files[Lock!target].unpinned)]
    BY <1>10 DEF Lock!WriteHeader
  <2>3. files' \in [Lockfiles -> LockfileSet]
    <3>. DEFINE whole == Lock!File(files[Lock!target].resolution, TRUE, files[Lock!target].unpinned)
    <3>1. whole \in LockfileSet /\ files' = [files EXCEPT ![Lock!target] = whole]
      BY <2>1, <2>2
    <3>. HIDE DEF whole
    <3>2. QED
      BY <1>5, <3>1
  <2>4. index' \in 1..2
    <3>1. Len(Lock!TARGETS) = 2 /\ (index = 1 \/ index = 2)
      BY LockTargets
    <3>2. index' = index \/ (index < Len(Lock!TARGETS) /\ index' = index + 1)
      BY <1>10 DEF Lock!WriteHeader, Lock!Ends
    <3>3. QED
      BY <3>1, <3>2
  <2>5. QED
    BY <1>10, <2>3, <2>4 DEF Lock!WriteHeader, Lock!Ends
<1>11. CASE Lock!Killed
  <2>1. Lock!File(resolution, TRUE, TRUE) \in LockfileSet
    BY <1>4
  <2>2. QED
    BY <1>5, <1>11, <2>1 DEF Lock!Killed, Lock!Ends
<1>12. CASE UNCHANGED Lock!vars
  BY <1>12 DEF Lock!vars
<1>13. QED
  BY <1>1, <1>2, <1>3, <1>6, <1>8, <1>9, <1>10, <1>11, <1>12 DEF Lock!Next

(* A run that fails with a file in hand left that file as it was, or found *)
(* none there, and the other one whole or untouched.                       *)
LEMMA FailureIsHarmless ==
  ASSUME LockInv, lock_at \in {"exporting", "checking"},
         NEW g, files' = g, UNCHANGED <<began, resolution>>,
         g[Lock!target] = began[Lock!target] \/ began[Lock!target] = Lock!Absent,
         g[OtherFile] = files[OtherFile]
  PROVE  \A t \in Lockfiles :
           g[t] = Lock!File(resolution, TRUE, FALSE) \/ g[t] = began[t] \/ began[t] = Lock!Absent
<1>1. CASE index = 1
  BY <1>1, LockTargets DEF LockInv, LockUnderway, Lockfiles, OtherFile
<1>2. CASE index = 2
  BY <1>2, LockTargets DEF LockInv, LockUnderway, Lockfiles, OtherFile, WholeAt
<1>3. QED
  BY <1>1, <1>2, LockTargets DEF LockInv

(* The header makes a pinned export whole, and touches no other file.      *)
LEMMA HeaderMakesWhole ==
  ASSUME LockType, LockUnderway, Lock!WriteHeader
  PROVE  /\ files'[Lock!target] = Lock!File(resolution, TRUE, FALSE)
         /\ \A t \in Lockfiles \ {Lock!target} : files'[t] = files[t]
<1>1. PICK u \in BOOLEAN : files[Lock!target] = Lock!File(resolution, FALSE, u)
  BY DEF LockUnderway, Lock!WriteHeader
<1>2. files[Lock!target] = Lock!File(resolution, FALSE, FALSE)
  <2>1. ~files[Lock!target].unpinned
    BY DEF LockUnderway, Lock!WriteHeader
  <2>2. files[Lock!target].unpinned = u
    BY <1>1 DEF Lock!File
  <2>3. u = FALSE
    BY <2>1, <2>2
  <2>4. QED
    BY <1>1, <2>3
<1>3. Lock!File(files[Lock!target].resolution, TRUE, files[Lock!target].unpinned)
        = Lock!File(resolution, TRUE, FALSE)
  BY <1>2 DEF Lock!File
<1>4. files' = [files EXCEPT ![Lock!target] = Lock!File(resolution, TRUE, FALSE)]
  BY <1>3 DEF Lock!WriteHeader
<1>5. QED
  BY <1>4, InHand DEF LockType

LEMMA UnderwayStep ==
  ASSUME LockInv, [Lock!Next]_(Lock!vars)
  PROVE  LockUnderway'
<1>. USE DEF LockInv, LockUnderway
<1>1. index \in 1..2 /\ Lock!target \in Lockfiles
  BY InHand DEF LockType
<1>2. CASE Lock!Start
  BY <1>2 DEF Lock!Start
<1>3. CASE Lock!Resolve
  <2>1. index' = 1 /\ UNCHANGED <<files, began>>
    BY <1>3 DEF Lock!Resolve
  <2>2. Lock!target' = "dev"
    BY <2>1 DEF Lock!target, Lock!TARGETS
  <2>3. QED
    BY <1>3, <2>1, <2>2 DEF Lock!Resolve, Lock!Ends
<1>4. CASE Lock!Read
  BY <1>4 DEF Lock!Read, Lock!target, WholeAt
<1>5. CASE Lock!Export
  <2>1. PICK u \in BOOLEAN :
          files' = [files EXCEPT ![Lock!target] = Lock!File(resolution, FALSE, u)]
    BY <1>5 DEF Lock!Export
  <2>2. /\ files'[Lock!target] = Lock!File(resolution, FALSE, u)
        /\ \A t \in Lockfiles \ {Lock!target} : files'[t] = files[t]
    BY <1>1, <2>1 DEF LockType
  <2>3. /\ lock_at = "exporting" /\ lock_at' = "checking"
        /\ UNCHANGED <<runs, resolution, index, previous, began, rc>> /\ Lock!target' = Lock!target
    BY <1>5 DEF Lock!Export, Lock!target
  <2>4. IF index = 1 THEN files'["gcp"] = began["gcp"] ELSE WholeAt("dev")'
    BY <2>2, <2>3, LockTargets DEF WholeAt, Lockfiles
  <2>5. QED
    BY <2>2, <2>3, <2>4
<1>6. CASE Lock!ExportFails
  BY <1>6 DEF Lock!ExportFails, Lock!Ends
<1>7. CASE Lock!CheckPins
  BY <1>7 DEF Lock!CheckPins, Lock!Ends, Lock!target, WholeAt
<1>8. CASE Lock!WriteHeader
  <2>1. lock_at' = "reading" => index = 1 /\ index' = 2
    <3>1. Len(Lock!TARGETS) = 2 /\ (index = 1 \/ index = 2)
      BY LockTargets
    <3>2. lock_at' = "reading" => index < Len(Lock!TARGETS) /\ index' = index + 1
      BY <1>8 DEF Lock!WriteHeader, Lock!Ends
    <3>3. QED
      BY <3>1, <3>2
  <2>2. lock_at' \in {"reading", "idle"}
    BY <1>8 DEF Lock!WriteHeader, Lock!Ends
  <2>3. lock_at' = "reading" => Lock!target = "dev" /\ Lock!target' = "gcp"
    BY <2>1 DEF Lock!target, Lock!TARGETS
  <2>4. lock_at' = "reading" => files'["dev"] = Lock!File(resolution, TRUE, FALSE)
                             /\ files'["gcp"] = files["gcp"] /\ files["gcp"] = began["gcp"]
    <3>1. lock_at = "writing"
      BY <1>8 DEF Lock!WriteHeader
    <3>2. QED
      BY <1>8, <2>1, <2>3, <3>1, HeaderMakesWhole DEF Lockfiles
  <2>5. UNCHANGED <<resolution, began>>
    BY <1>8 DEF Lock!WriteHeader
  <2>6. QED
    BY <2>1, <2>2, <2>3, <2>4, <2>5 DEF WholeAt
<1>9. CASE Lock!Killed
  BY <1>9 DEF Lock!Killed, Lock!Ends
<1>10. CASE UNCHANGED Lock!vars
  BY <1>10 DEF Lock!vars, Lock!target, WholeAt
<1>11. QED
  BY <1>2, <1>3, <1>4, <1>5, <1>6, <1>7, <1>8, <1>9, <1>10 DEF Lock!Next

LEMMA WholeStep ==
  ASSUME LockInv, [Lock!Next]_(Lock!vars)
  PROVE  LockfilesStayWhole'
<1>. USE DEF LockInv
<1>1. Lock!target \in Lockfiles /\ OtherFile \in Lockfiles \ {Lock!target}
  BY InHand DEF OtherFile, Lockfiles
<1>2. CASE Lock!Start \/ Lock!Read \/ Lock!Export \/ Lock!Killed
  BY <1>2 DEF Lock!Start, Lock!Read, Lock!Export, Lock!Killed, Lock!Ends,
           LockfilesStayWhole, Lock!LockfilesStayWhole
<1>3. CASE Lock!Resolve
  BY <1>3 DEF Lock!Resolve, Lock!Ends, LockUnderway, LockfilesStayWhole, Lock!LockfilesStayWhole
<1>4. /\ lock_at = "exporting" => files[Lock!target] = began[Lock!target]
      /\ lock_at \in {"exporting", "checking"} => previous = began[Lock!target]
  BY DEF LockUnderway
<1>5. lock_at \in {"exporting", "checking"} /\ files' = Lock!Restored =>
        /\ files'[OtherFile] = files[OtherFile]
        /\ lock_at = "exporting" \/ previous # Lock!Absent =>
             files'[Lock!target] = began[Lock!target]
  BY <1>1, <1>4 DEF Lock!Restored, LockType
<1>6. CASE Lock!ExportFails
  <2>1. files'[OtherFile] = files[OtherFile]
    BY <1>1, <1>5, <1>6 DEF Lock!ExportFails, LockType
  <2>2. files'[Lock!target] = began[Lock!target] \/ began[Lock!target] = Lock!Absent
    BY <1>4, <1>5, <1>6 DEF Lock!ExportFails
  <2>3. lock_at = "exporting" /\ UNCHANGED <<began, resolution>> /\ rc' = "failed"
    BY <1>6 DEF Lock!ExportFails, Lock!Ends
  <2>4. DOMAIN files' = Lockfiles
    BY LockTypeStep DEF LockType
  <2>5. QED
    BY <2>1, <2>2, <2>3, <2>4, FailureIsHarmless DEF LockfilesStayWhole, Lock!LockfilesStayWhole
<1>7. CASE Lock!CheckPins
  <2>1. CASE lock_at' # "idle"
    BY <2>1 DEF LockfilesStayWhole, Lock!LockfilesStayWhole
  <2>2. CASE lock_at' = "idle"
    <3>1. files' = Lock!Restored /\ lock_at = "checking" /\ rc' = "failed"
          /\ UNCHANGED <<began, resolution>>
      BY <1>7, <2>2 DEF Lock!CheckPins, Lock!Ends
    <3>2. files'[Lock!target] = began[Lock!target] \/ began[Lock!target] = Lock!Absent
      BY <1>4, <1>5, <3>1
    <3>3. DOMAIN files' = Lockfiles
      BY LockTypeStep DEF LockType
    <3>4. QED
      BY <1>5, <3>1, <3>2, <3>3, FailureIsHarmless DEF LockfilesStayWhole, Lock!LockfilesStayWhole
  <2>3. QED
    BY <2>1, <2>2
<1>8. CASE Lock!WriteHeader
  <2>1. CASE lock_at' # "idle"
    BY <2>1 DEF LockfilesStayWhole, Lock!LockfilesStayWhole
  <2>2. CASE lock_at' = "idle"
    <3>1. index = 2 /\ lock_at = "writing" /\ rc' = "ok" /\ UNCHANGED resolution
      <4>1. Len(Lock!TARGETS) = 2 /\ (index = 1 \/ index = 2)
        BY LockTargets
      <4>2. ~(index < Len(Lock!TARGETS)) /\ lock_at = "writing" /\ rc' = "ok"
            /\ UNCHANGED resolution
        BY <1>8, <2>2 DEF Lock!WriteHeader, Lock!Ends
      <4>3. QED
        BY <4>1, <4>2
    <3>2. files'["gcp"] = Lock!File(resolution, TRUE, FALSE) /\ files'["dev"] = files["dev"]
      BY <1>8, <3>1, LockTargets, HeaderMakesWhole DEF Lockfiles
    <3>3. files["dev"] = Lock!File(resolution, TRUE, FALSE)
      BY <3>1 DEF LockUnderway, WholeAt, Lock!File
    <3>4. DOMAIN files' = Lockfiles
      BY LockTypeStep DEF LockType
    <3>5. QED
      BY <3>1, <3>2, <3>3, <3>4 DEF LockfilesStayWhole, Lock!LockfilesStayWhole, Lockfiles
  <2>3. QED
    BY <2>1, <2>2
<1>9. CASE UNCHANGED Lock!vars
  BY <1>9 DEF Lock!vars, LockfilesStayWhole, Lock!LockfilesStayWhole
<1>10. QED
  BY <1>2, <1>3, <1>6, <1>7, <1>8, <1>9 DEF Lock!Next

(* However often the script is run and killed, a run that ends by itself   *)
(* leaves whole lockfiles of one resolution, or, when it fails, no file    *)
(* worse than it found it (scripts/lock.py 119-127 and 130-173).           *)
THEOREM LockRunsAreSafe == TargetsSpec => []LockfilesStayWhole
<1>1. Lock!Init => LockInv
  BY LockInit
<1>2. LockInv /\ [Lock!Next]_(Lock!vars) => LockInv'
  BY LockTypeStep, UnderwayStep, WholeStep DEF LockInv
<1>3. LockInv => LockfilesStayWhole
  BY DEF LockInv
<1>4. Lock!Spec => []LockfilesStayWhole
  BY <1>1, <1>2, <1>3, PTL DEF Lock!Spec
<1>5. QED
  BY <1>4, EachKeepsItsSpec, PTL
=============================================================================
