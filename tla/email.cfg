CONSTANTS
  a = a
  r = r
  p = p
  Mails = {a, r, p}
  Answers <- Thread2
  Poison = {p}
  Invocations = {i1}
  Crons = {c1}
  Nothing = Nothing
  MaxAttempts = 2
  LeaseTicks = 1
  MaxRequests = 2
  MaxFaults = 1
  Users = {us1}
  Sockets = {so1, so2}
  Heartbeat = 2
SPECIFICATION MCSpec
INVARIANTS ProcessedIsShown OnePlace
PROPERTIES ProcessedIsFinal ArchivedIsSettled GhostFades
CHECK_DEADLOCK FALSE
