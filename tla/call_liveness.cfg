CONSTANTS
  ann = ann
  bob = bob
  Nobody = Nobody
  Alarm = Alarm
  Agents <- Pair
  Requests = {r1, r2}
  Stages = {1, 2}
  Group <- Escalation
  RingTime <- OneTick
  Deadline = 2
  MetaDeadline = 3
  Horizon = 4
  Faults = 1
SPECIFICATION CalmSpec
PROPERTIES RingingEnds RowSettles
