SPECIFICATION Spec
CONSTANTS
  c1 = c1
  c2 = c2
  m1 = m1
  Cycles <- MCOneCycle
  Mandates <- MCMandates
  MandateOf <- MCMandateOf
  MerchantOf <- MCMerchantOf
  NeedsAFA = {}
  Plans <- MCDriftPlans
  MaxSteps = 4
  Horizon = 4
  Webhooks <- MCContradictoryEvents
  MaxAttempts = 3
  NoticeMin = 2
  NoticeMaxAge = 4
  ContactCap = 3
  SlotsPerDay = 2
  PermittedSlots = {0, 1}
  RailPermittedSlots = {0}
  ApiConcurrency = 2
  OperatorScopes = {}
  SingleThreaded = FALSE
INVARIANTS
  TypeOK
  AttemptsInOrder
  OutboxMatchesLedger
  RailAgreesWithLedger
  BudgetColumnHonest
  SecondDebitOnlyAfterUnknown
  ClosedCaseHasNoPendingSteps
PROPERTIES
  LedgerSpec
