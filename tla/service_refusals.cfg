SPECIFICATION Spec
CONSTANTS
  TriggerRules <- MCRules
  FrequencyCaps <- MCCaps
  QuietWindows <- MCQuiet
  Templates <- MCTemplates
  SuppressedSubjects = {"s9"}
  MaxBodyChars = 3
  BadTime = BadTime
  NoDecision = NoDecision
  NoLimit = NoLimit
  NoBody = NoBody
  TemplateBody = TemplateBody
  NoEvent = NoEvent
  OtherQuestion = OtherQuestion
  r1 = r1
  r2 = r2
  r3 = r3
  Requests = {r1}
  MaxConcurrent = 1
  Events <- EveryEvent
  AnswerShapes <- EveryAnswer
  Texts <- EveryText
  RoutingEnabled = FALSE
  Faults <- NoFaults
  MaxNow = 120
  Tick = 60
INVARIANTS
  ContactIsPermitted
  SentTextIsGrounded
  NoEscalationVanishes
