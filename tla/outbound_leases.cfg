CONSTANTS
  Messages = {m1}
  EmailMessages = {}
  LossyMessages = {}
  RuleMessages = {}
  ApiCalls = {a1, a2}
  CronRuns = {c1, c2}
  Nobody = Nobody
  Parts = {1}
  PartCount <- OnePart
  LeaseTicks = 2
  MaxLife = 1
  MaxAttempts = 2
  CrashBudget = 0
SPECIFICATION Spec
INVARIANTS HandedOverOnce OneInFlight TimelineWasSent AcceptedIsInTimeline DispatchIsBound FailedIsRetried
PROPERTY SettledIsFinal
SYMMETRY Interchangeable
