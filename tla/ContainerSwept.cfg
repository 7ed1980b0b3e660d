SPECIFICATION ContainersSpec
CONSTANTS
  u1 = u1
  u2 = u2
  t1 = t1
  t2 = t2
  t3 = t3
  private = private
  group = group
  s1 = s1
  None = None
  User = {u1}
  Turn = {t1, t2}
  Service = {s1}
  UserOf <- MCUserOf
  BindsOf <- MCBindsOf
  NameOf <- SameName
  MaxBoxes = 4
  MaxLife = 1
  Refusing = FALSE
INVARIANT NoExecSwept
CHECK_DEADLOCK FALSE
