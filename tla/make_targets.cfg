SPECIFICATION TargetsSpec
CONSTANTS
  Environments <- MCEnvironments
  Files <- MCFiles
  Filters = {"injection", "personal data"}
  NoSettings = NoSettings
  MaxEdits = 1
  Bodies <- MCBodies
  MaxRecords = 3
  MaxTrailEdits = 2
  Ports <- MCPorts
  Codebases <- MCCodebases
  TriggerRules <- ShippedRules
  FrequencyCaps <- ShippedCaps
  QuietWindows <- ShippedQuiet
  Templates <- NoTemplates
  SuppressedSubjects <- ShippedSuppressed
  MaxBodyChars = 320
  FixtureConsent <- ShippedConsent
  MaxClicks = 1
  MaxRuns = 3
  Cases <- MCCases
  Drafts <- MCDrafts
  MaxCases = 5
  MaxDrafts = 2
  Scale = 3
  BadTime = BadTime
  NoDecision = NoDecision
  NoLimit = NoLimit
  NoBody = NoBody
  TemplateBody = TemplateBody
INVARIANTS
  TypeOK
  UnchosenGrantsNothing
  OffHostIsVerified
  BindAgreesWithGuard
  ServedControlsWork
  TrippingTextIsStopped
  BareRefusalIsTheCallers
  VerifiedTrailIsGenuine
  AnchoredTrailIsWhole
  TourIsDiscriminating
  VerdictIsHonest
  LockfilesStayWhole
  GreenHidesNoMiss
PROPERTIES
  WalkthroughEnds
CHECK_DEADLOCK FALSE
