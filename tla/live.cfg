CONSTANTS
  ann = ann
  bob = bob
  Nobody = Nobody
  Alarm = Alarm
  Agents <- Pair
  Requests = {r1, r2}
  Stages = {1, 2}
  Group <- Escalation
  RingTime <- OneTick
  Deadline = 2
  MetaDeadline = 3
  Horizon = 4
  Faults = 1
  own = own
  post = post
  u1 = u1
  u2 = u2
  k1 = k1
  k2 = k2
  Users = {u1, u2}
  Inboxes = {own}
  Teams = {}
  Boxes = {post}
  Visibility <- PlainInbox
  InboxTeam <- InboxTeams
  Private = {post}
  Owner <- OfFirst
  BoxTeam <- BoxTeams
  Behind <- PrivateBox
  NoOne = NoOne
  Clerks = {c1}
  MaxAccess = 3
  Box = post
  Sockets = {v1}
  Tasks = {k1, k2}
  MaxEvents = 2
SPECIFICATION LiveSpec
INVARIANTS OfferedWereRung AnswererWasRung WinnerAnswered NothingAfterRevocation
CHECK_DEADLOCK FALSE
