SPECIFICATION AccountsSpec
CONSTANTS
  a = a
  b = b
  dmA = dmA
  dmB = dmB
  grp = grp
  s1 = s1
  s2 = s2
  h1 = h1
  h2 = h2
  c1 = c1
  None = None
  Handler = {h1, h2}
  Ext = {a, b}
  Chat = {dmA, grp}
  Group = {grp}
  Space = {s1}
  SpaceOf <- MCSpaceOf
  Writes <- MCWrites
  Code = {c1}
  MaxTenants = 2
  MaxUsers = 3
  MaxChats = 3
  MaxMessages = 2
  MaxAdmin = 2
  MayRemap = TRUE
INVARIANTS
  OneWelcomePerCode
  ResolvedAsSender
SYMMETRY HandlersAlike
CHECK_DEADLOCK FALSE
