SPECIFICATION SweepSpec
CONSTANTS
  p1 = p1
  p2 = p2
  Policies = {"fixed", "mre"}
  Payers = {p1}
  DueAt <- MCDueAt
  Candidates <- MCShortCandidates
  CostAware = {"mre"}
  Costs <- MCSweep
  Cycles <- MCPairs
  Mandates <- MCPairs
  MandateOf <- MCSelf
  MerchantOf <- MCMerchantOf
  NeedsAFA = {}
  Plans <- MCPlans
  MaxSteps = 4
  Horizon = 4
  Webhooks <- MCWebhooks
  MaxAttempts = 3
  NoticeMin = 2
  NoticeMaxAge = 4
  ContactCap = 3
  SlotsPerDay = 2
  PermittedSlots = {0}
  RailPermittedSlots = {0}
  ApiConcurrency = 1
  OperatorScopes = {}
  SingleThreaded = TRUE
CHECK_DEADLOCK FALSE
INVARIANTS
  DifferencesAreTiming
