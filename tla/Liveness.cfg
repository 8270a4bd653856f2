SPECIFICATION FairSpec
CONSTANTS
  c1 = c1
  c2 = c2
  m1 = m1
  Cycles <- MCOneCycle
  Mandates <- MCMandates
  MandateOf <- MCMandateOf
  MerchantOf <- MCMerchantOf
  NeedsAFA = {}
  Plans <- MCAllPlans
  MaxSteps = 4
  Horizon = 4
  Webhooks <- MCCaseEvents
  MaxAttempts = 2
  NoticeMin = 2
  NoticeMaxAge = 3
  ContactCap = 1
  SlotsPerDay = 2
  PermittedSlots = {0}
  RailPermittedSlots = {0}
  ApiConcurrency = 1
  OperatorScopes = {"global"}
  SingleThreaded = FALSE
INVARIANTS
  DispatchCovered
  NoticeSentOnce
PROPERTIES
  EveryUnrefusedCaseCloses
