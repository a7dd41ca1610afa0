\* At most three methods of the builder, then one client, one tool, one
\* skill, two effects, three operations; turns apart from what they do not
\* read (Alone).
SPECIFICATION AssemblySpec
CONSTANTS
  u = u
  t = t
  s = s
  e1 = e1
  e2 = e2
  dir = dir
  absent = absent
  plain = plain
  hidden = hidden
  open = open
  other = other
  home = home
  box = box
  inner = inner
  outer = outer
  far = far
  Nobody = Nobody
  NoSkill = NoSkill
  Clients <- MCClients
  Tools <- MCTools
  Skills <- MCSkills
  Bodies <- MCBodies
  Clones = {"clone"}
  Listing <- MCListing
  Text <- MCText
  Markdown <- MCMarkdown
  DefaultDirs <- MCDefaultDirs
  Policies <- MCPolicies
  Under <- MCUnder
  Shell = t
  FeedCapacity = 1
  MaxOps = 3
  MaxCalls = 3
CHECK_DEADLOCK FALSE
CONSTRAINT Alone
INVARIANTS
  ChannelsFollow
  SnapshotOrdered
  MirrorConverges
  TeardownComplete
  UndoneOnce
  UndoneInReverse
  FenceHolds
PROPERTIES
  TornDown
