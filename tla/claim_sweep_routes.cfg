SPECIFICATION Spec
CONSTANTS
  TriggerRules <- MCRules
  FrequencyCaps <- MCCaps
  QuietWindows <- MCQuiet
  Templates = {}
  SuppressedSubjects = {}
  MaxBodyChars = 3
  BadTime = BadTime
  NoDecision = NoDecision
  NoLimit = NoLimit
  NoAge = NoAge
  NoSince = NoSince
  Tenant = "bank"
  NoAdapter = NoAdapter
  ConsentRecords <- MCConsent

  s1 = s1
  s2 = s2
  NoQuery = NoQuery
  Calls = {s1}
  MaxConcurrent = 1
  Feeds <- HeldFeed
  Queries <- AllOfIt
  Faults <- AuditFault
  MaxNow = 0
  Tick = 1
INVARIANTS
  EscalationIsRoutedByItsCall
