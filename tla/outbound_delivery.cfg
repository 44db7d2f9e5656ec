CONSTANTS
  Messages = {m1}
  EmailMessages = {m1}
  LossyMessages = {}
  RuleMessages = {}
  ApiCalls = {a1}
  CronRuns = {c1}
  Nobody = Nobody
  Parts = {1}
  PartCount <- OnePart
  LeaseTicks = 1
  MaxLife = 1
  MaxAttempts = 2
  CrashBudget = 1
SPECIFICATION FairSpec
PROPERTIES HandoffSpec RecordedIsAccepted SendingIsResolved QueueDrains
