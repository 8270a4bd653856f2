SPECIFICATION Spec
CONSTANTS
  c1 = c1
  c2 = c2
  m1 = m1
  Cycles <- MCOneCycle
  Mandates <- MCMandates
  MandateOf <- MCMandateOf
  MerchantOf <- MCMerchantOf
  NeedsAFA = {}
  Plans <- MCShortPlan
  MaxSteps = 2
  Horizon = 2
  Webhooks <- MCCaseEvents
  MaxAttempts = 3
  NoticeMin = 2
  NoticeMaxAge = 4
  ContactCap = 3
  SlotsPerDay = 2
  PermittedSlots = {0}
  RailPermittedSlots = {0}
  ApiConcurrency = 1
  OperatorScopes = {}
  SingleThreaded = FALSE
PROPERTIES
  TerminalIsFinal
