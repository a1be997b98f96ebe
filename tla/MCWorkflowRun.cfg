SPECIFICATION FairSpec
CONSTANTS
  a = a
  h = h
  b = b
  c = c
  r1 = r1
  r2 = r2
  approve = approve
  reject = reject
  NoAction = NoAction
  Unlabelled = Unlabelled
  Steps <- AllSteps
  Actions <- Answers
  Workflows <- AllWorkflows
  Responders <- TwoResponders
  MaxCost = 1
  MaxDbErrors = 1
  MaxCrashes = 1
INVARIANTS CompletedRunIsWhole CostIsConserved GateOpensOnlyByAnswerOrFailure
PROPERTIES ClosedLogIsFinal ImplementsRunLifecycle RunSettles
CHECK_DEADLOCK FALSE
