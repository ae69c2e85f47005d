----------------------------- MODULE Portability -----------------------------
(***************************************************************************)
(* The tour that substantiates the portability claim, check by check       *)
(* (scripts/portability_demo.py, with the exit calls of scripts/demo.py).  *)
(*                                                                         *)
(* A codebase says what the checks would find: the ports that are not      *)
(* bound, or whose adapter does not conform; whether the offline family    *)
(* answers; the ports somebody wrote an exit call for, and what each does  *)
(* there; what the audit log checks; and which import loads a cloud SDK.   *)
(***************************************************************************)
EXTENDS AuditChain, FiniteSets

CONSTANTS
  Ports,      \* the declared ports, the tracer among them
  Codebases   \* what the tour may find

CodebaseAssumption ==
  \A c \in Codebases :
    /\ c.calls \subseteq Ports
    /\ {c.answers, c.links, c.anchors, c.header, c.relaunders} \subseteq BOOLEAN
    /\ c.sdk \in {"none", "eager", "ambient"}

VARIABLES code, at, failures, loaded, verdict

vars == <<code, at, failures, loaded, verdict>>

(* EXIT_ABSENT: a diagnostic that completes, as an honest no-op. *)
ExitAbsent == {"tracer"}

Init ==
  /\ code \in Codebases
  /\ at = 1 /\ failures = 0 /\ verdict = "running"
  /\ loaded = (code.sdk = "ambient")

-----------------------------------------------------------------------------
(* The log of the codebase, which may have lost one of its checks. *)
LogBad(rows) == IF code.links THEN FirstBad(rows) ELSE 0

LogVerifies(rows, anchor) ==
  /\ LogBad(rows) = 0
  /\ code.anchors /\ anchor # NoHead => anchor = HeadOf(rows)

LogImports(rows, header) ==
  /\ LogBad(rows) = 0
  /\ code.header => header = HeadOf(rows)

ThreeRecords == Appended(Appended(Appended(<<>>, "high"), "high"), "high")

(* A rewrite of the middle record is found at that record. *)
RewriteDetected ==
  /\ LogBad(ThreeRecords) = 0
  /\ LogBad(Rewritten(ThreeRecords, 2, "low")) = 2

(* With the anchor a lost tail is found and an append to it refused; the   *)
(* control case is the same tail without the anchor, which verifies.       *)
TruncationDetected ==
  LET left == SubSeq(ThreeRecords, 1, 2)
  IN  /\ ~LogVerifies(left, HeadOf(ThreeRecords))
      /\ LogVerifies(left, NoHead)
      /\ ~code.relaunders

(* The export leads with its head, reloads, and is refused when shortened. *)
RecordLeavesIntact ==
  /\ LogImports(ThreeRecords, HeadOf(ThreeRecords))
  /\ ~LogImports(SubSeq(ThreeRecords, 1, 2), HeadOf(ThreeRecords))

-----------------------------------------------------------------------------
(* A plausible bug: only the calls somebody remembered are made. *)
ExitFamilyRefusesListed ==
  \A port \in code.calls :
    code.exit[port] = IF port \in ExitAbsent THEN "completes" ELSE "refuses"

(* Every declared port has a call; each refuses with NotImplementedError,  *)
(* or, a diagnostic, completes. Any other exception fails the check too.   *)
ExitFamilyRefuses ==
  /\ Ports \subseteq code.calls
  /\ \A port \in code.calls :
       code.exit[port] = IF port \in ExitAbsent THEN "completes" ELSE "refuses"

Checks ==
  <<"port map complete", "adapters construct and conform", "offline family answers",
    "exit family refuses", "rewrite detected", "truncation detected when anchored",
    "record leaves intact", "no cloud SDK imported">>

Holds(check) ==
  CASE check = "port map complete"              -> code.unbound = {}
    [] check = "adapters construct and conform" -> code.unbound \cup code.misfits = {}
    [] check = "offline family answers"         -> code.answers
    [] check = "exit family refuses"            -> ExitFamilyRefuses
    [] check = "rewrite detected"               -> RewriteDetected
    [] check = "truncation detected when anchored" -> TruncationDetected
    [] check = "record leaves intact"           -> RecordLeavesIntact
    [] check = "no cloud SDK imported"          -> ~loaded

(* main(): a check that raises is counted, and the tour goes on. The       *)
(* adapters of every profile are imported by the check that builds them.   *)
RunCheck ==
  /\ at <= Len(Checks)
  /\ failures' = IF Holds(Checks[at]) THEN failures ELSE failures + 1
  /\ loaded' = \/ loaded
               \/ Checks[at] = "adapters construct and conform" /\ code.sdk = "eager"
  /\ at' = at + 1
  /\ UNCHANGED <<code, verdict>>

Conclude ==
  /\ at > Len(Checks) /\ verdict = "running"
  /\ verdict' = IF failures = 0 THEN "PASS" ELSE "FAILED"
  /\ UNCHANGED <<code, at, failures, loaded>>

Next == RunCheck \/ Conclude

Spec == Init /\ [][Next]_vars

-----------------------------------------------------------------------------
(* What the tour says it proves, of every port and of any one edit of a    *)
(* trail, not only of those the checks try.                                *)
Portable ==
  /\ code.unbound = {} /\ code.misfits = {} /\ code.answers /\ code.sdk = "none"
  /\ ~code.relaunders
  /\ \A port \in Ports \ ExitAbsent : port \in code.calls /\ code.exit[port] = "refuses"
  /\ \A port \in Ports \cap ExitAbsent : port \in code.calls /\ code.exit[port] = "completes"
  /\ \A i \in DOMAIN ThreeRecords :
       /\ LogBad(Rewritten(ThreeRecords, i, "low")) = i
       /\ LET left == SubSeq(ThreeRecords, 1, i - 1)
          IN  /\ ~LogVerifies(left, HeadOf(ThreeRecords))
              /\ ~LogImports(left, HeadOf(ThreeRecords))

(* The verdict is neither better nor worse than the code: a pass means     *)
(* that every claim of the tour holds, and no failed check hides, or       *)
(* causes, another verdict (scripts/portability_demo.py 8-17, 306-325).    *)
TourIsDiscriminating ==
  /\ verdict = "PASS" => Portable
  /\ verdict = "FAILED" => ~Portable

=============================================================================
