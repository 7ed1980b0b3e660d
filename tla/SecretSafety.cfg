SPECIFICATION SecretsSpec
CONSTANTS
  u1 = u1
  u2 = u2
  k1 = k1
  k2 = k2
  v = v
  w = w
  s = s
  t1 = t1
  t2 = t2
  f1 = f1
  f2 = f2
  c1 = c1
  c2 = c2
  Bad = Bad
  Shared = Shared
  None = None
  User = {u1}
  Key = {k1}
  VarOf <- OneVar
  Val = {v, w}
  Short = {}
  PartOf = {}
  Token = {t1}
  Form = {f1, f2}
  Command = {c1, c2}
  Given <- MCGiven
  MaxWrites = 1
  Faulty = TRUE
INVARIANTS
  ToldOnce
  GivenIsRedacted
  FilesAreRemoved
SYMMETRY Alike
CHECK_DEADLOCK FALSE
