SPECIFICATION Spec
CONSTANTS
  MaxAttempts = 4
  NoticeMin = 24
  NoticeMaxAge = 48
  ContactCap = 3
  SlotsPerDay = 24
  PermittedSlots <- MCPermittedHours
  NSlots = 8
  NoticeLead = 2
  NotifyCost = 8
  FailureCost = 16
  StopEpsilon = 0
  ProbDen = 2
  AttemptsRemaining = 2
  PlanningInputs <- MCEveryCurve
CHECK_DEADLOCK FALSE
INVARIANTS
  PlanTypeOK
  SolveIsOptimal
  MrePlanSound
  EmptyPlanEscalates
  BaselinesPassGate
