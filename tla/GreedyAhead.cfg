SPECIFICATION Spec
CONSTANTS
  MaxAttempts = 4
  NoticeMin = 24
  NoticeMaxAge = 168
  ContactCap = 3
  SlotsPerDay = 24
  PermittedSlots <- MCPermittedHours
  NSlots = 28
  NoticeLead = 2
  NotifyCost = 1536
  FailureCost = 5120
  StopEpsilon = 0
  ProbDen = 4
  AttemptsRemaining = 3
  PlanningInputs <- MCOneGoodSlot
CHECK_DEADLOCK FALSE
INVARIANT
  ExactBeatsGreedy
