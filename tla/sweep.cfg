SPECIFICATION FairSpec
CONSTANTS
  TriggerRules <- MCRules
  FrequencyCaps <- MCCaps
  QuietWindows <- MCQuiet
  Templates = {}
  SuppressedSubjects = {}
  MaxBodyChars = 3
  BadTime = BadTime
  NoDecision = NoDecision
  NoLimit = NoLimit
  NoAge = NoAge
  NoSince = NoSince
  Tenant = "bank"
  NoAdapter = NoAdapter
  ConsentRecords <- MCConsent

  s1 = s1
  s2 = s2
  NoQuery = NoQuery
  Calls = {s1, s2}
  MaxConcurrent = 2
  Feeds <- MCFeeds
  Queries <- MCQueries
  Faults <- AllFaults
  MaxNow = 1
  Tick = 1
INVARIANTS
  TypeOK
  LoneSweepIsCapped
  CountedSendsWereMade
  DetectionIsOldestPrefix
  RelativeAgesShareOneDelay
  EachResultSaysItsOwnRouting
PROPERTIES
  EverySweepEnds
  SweepImplementsContract
