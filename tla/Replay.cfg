SPECIFICATION Spec
CONSTANTS
  c1 = c1
  c2 = c2
  m1 = m1
  Cycles <- MCTwoCycles
  Mandates <- MCMandates
  MandateOf <- MCMandateOf
  MerchantOf <- MCMerchantOf
  NeedsAFA = {c2}
  Plans <- MCShortPlan
  MaxSteps = 2
  Horizon = 2
  Webhooks <- MCTwoLifeEvents
  MaxAttempts = 3
  NoticeMin = 2
  NoticeMaxAge = 4
  ContactCap = 3
  SlotsPerDay = 2
  PermittedSlots = {0}
  RailPermittedSlots = {0}
  ApiConcurrency = 1
  OperatorScopes = {"global"}
  SingleThreaded = TRUE
INVARIANTS
  NoExecutionOnDeadMandate
PROPERTIES
  TerminalIsFinal
  ReservesOnlyOpenCases
