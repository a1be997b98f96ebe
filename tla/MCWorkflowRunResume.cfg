SPECIFICATION FairSpec
CONSTANTS
  a = a
  h = h
  b = b
  c = c
  r1 = r1
  r2 = r2
  approve = approve
  reject = reject
  NoAction = NoAction
  Unlabelled = Unlabelled
  Steps <- AllSteps
  Actions <- Answers
  Workflows <- ChainOnly
  Responders <- TwoResponders
  MaxCost = 0
  MaxDbErrors = 0
  MaxCrashes = 0
PROPERTY AnsweredRunCompletes
CHECK_DEADLOCK FALSE
