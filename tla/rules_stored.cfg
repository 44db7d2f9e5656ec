CONSTANTS
  a = a
  b = b
  s = s
  ann = ann
  vip = vip
  hello = hello
  home = home
  side = side
  chat = chat
  mail = mail
  Inboxes <- Three
  System = {s}
  Rank <- Ranked
  Arrangers = {r1, r2}
  Root = Root
  MaxDepth = 2
  MaxVersion = 2
  Channels = {line}
  Boxes = {x, y}
  Editors = {e1, e2}
  Nowhere = Nowhere
  Size = 2
  Contents <- SomeContents
  Conditions <- SomeConditions
  Actions <- SomeActions
  Stops <- SomeStops
  Messages = {chat, mail}
  Facts <- SomeFacts
  Emails = {mail}
  Writers = {w1, w2}
  Agents = {ann}
  Tags = {vip}
  Canned = {hello}
  Texts = {dear}
  Destinations = {home, side}
  Home = home
  Nobody = Nobody
  MaxWrites = 2
  Tabs = {t1, t2}
  Items = {a}
  NoField = NoField
  MaxToggles = 2
SPECIFICATION Spec
INVARIANT StoredAsRequested
SYMMETRY Same
CHECK_DEADLOCK FALSE
