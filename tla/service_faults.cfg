SPECIFICATION Spec
CONSTANTS
  TriggerRules <- MCRules
  FrequencyCaps <- MCCaps
  QuietWindows <- MCQuiet
  Templates <- MCTemplates
  SuppressedSubjects = {"s9"}
  MaxBodyChars = 3
  BadTime = BadTime
  NoDecision = NoDecision
  NoLimit = NoLimit
  NoBody = NoBody
  TemplateBody = TemplateBody
  NoEvent = NoEvent
  OtherQuestion = OtherQuestion
  r1 = r1
  r2 = r2
  r3 = r3
  Requests = {r1, r2}
  MaxConcurrent = 2
  Events <- AllEvents
  AnswerShapes <- CleanOrNoId
  Texts <- TwoTexts
  RoutingEnabled = TRUE
  Faults <- AllFaults
  MaxNow = 60
  Tick = 60
INVARIANTS
  TypeOK
  ContactIsPermitted
  HeldIsNeverSent
  SentTextIsGrounded
  ModelOnlyAfterEligibility
  BlockedIsEscalated
  ResultIsTruthful
  NoEscalationVanishes
