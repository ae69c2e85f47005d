SPECIFICATION Spec
CONSTANTS
  TriggerRules <- MCRules
  FrequencyCaps <- MCCaps
  QuietWindows <- MCQuiet
  Templates <- MCTemplates
  SuppressedSubjects = {"s9"}
  MaxBodyChars = 3
  BadTime = BadTime
  NoDecision = NoDecision
  NoLimit = NoLimit
  OtherQuestion = OtherQuestion
  Cases <- MCCases
  Instants <- MCInstants
  MaxSends = 2
  MaxLimit = 2
  Later = 1
INVARIANTS
  EligibleExactlyWhenPermitted
  EnvelopeAgreesWithVerdict
PROPERTIES
  WorseNewsNeverPermits
CHECK_DEADLOCK FALSE
