CONSTANTS
  People = {ann, bob}
  Names = {n1, n2}
  Invites = {i1, i2}
  Calls = {r1, r2}
  None = None
  MaxToken = 2
  Apps = {a1}
  Pages = {p1}
  Phones = {w1}
  Sessions = {s1}
  Managers = {o1, o2}
  NoApp = NoApp
  MaxTokens = 2
  MaxAsked = 5
  open = open
  own = own
  crew = crew
  desk = desk
  post = post
  shared = shared
  u1 = u1
  u2 = u2
  t1 = t1
  Users = {u1, u2}
  Inboxes = {open, own, crew}
  Teams = {t1}
  Boxes = {desk, post, shared}
  Visibility <- Visible
  InboxTeam <- TeamOf
  Private = {post}
  Owner <- Owned
  BoxTeam <- Teamed
  Behind <- Backed
  NoOne = NoOne
  Clerks = {c1}
  MaxAccess = 1
SPECIFICATION MCSpec
INVARIANTS OwnerRemains MembersAreInvited ClaimsAreExclusive AccessAgrees ChannelHasApp
SYMMETRY Interchangeable
CHECK_DEADLOCK FALSE
