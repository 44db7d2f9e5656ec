CONSTANTS
  a = a
  b = b
  c = c
  Inboxes <- Three
  System = {}
  Rank <- Ranked
  Arrangers = {r1}
  Root = Root
  MaxDepth = 2
  MaxVersion = 2
  Tabs = {t1}
  Items = {b}
  NoField = NoField
  MaxToggles = 1
SPECIFICATION SidebarSpec
INVARIANT SidebarAsDocumented
CHECK_DEADLOCK FALSE
