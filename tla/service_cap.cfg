SPECIFICATION Spec
CONSTANTS
  TriggerRules <- MCRules
  FrequencyCaps <- MCCaps
  QuietWindows <- MCQuiet
  Templates <- MCTemplates
  SuppressedSubjects = {"s9"}
  MaxBodyChars = 3
  BadTime = BadTime
  NoDecision = NoDecision
  NoLimit = NoLimit
  NoBody = NoBody
  TemplateBody = TemplateBody
  NoEvent = NoEvent
  OtherQuestion = OtherQuestion
  r1 = r1
  r2 = r2
  r3 = r3
  Requests = {r1, r2, r3}
  MaxConcurrent = 2
  Events <- PaymentOnly
  AnswerShapes <- CleanOnly
  Texts <- OneText
  RoutingEnabled = TRUE
  Faults <- SendFaults
  MaxNow = 0
  Tick = 1
INVARIANTS
  CapOvershootBounded
PROPERTIES
  NextDecisionCountsDelivered
