SPECIFICATION Spec
CONSTANTS
  r1 = r1
  r2 = r2
  NoDay = NoDay
  Tiers <- TwoTiers
  Rules <- Ladders
  PromiseGrace = 1
  OooRetry = 2
  FeeFrom = 1
  FeeGrace = 1
  Requests <- TwoRequests
  StartDays = {0, 2}
  MaxDay = 3
  MaxReplies = 2
  MaxPasses = 3
SYMMETRY Symmetric
INVARIANTS RemindersClimb FeesLagTheCalendar RowFollowsReplies
PROPERTIES PendingReplyHoldsContact SettledIsLeftAlone
CHECK_DEADLOCK FALSE
