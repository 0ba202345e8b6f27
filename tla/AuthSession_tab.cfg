SPECIFICATION FairSpec
CONSTANTS
  t1 = t1
  t2 = t2
  u1 = u1
  u2 = u2
  s1 = s1
  Task = {t1, t2}
  User = {u1, u2}
  Session = {s1}
  First = t1
  MaxGen = 3
  NoUser = "noUser"
  NoSession = "noSession"
INVARIANT TypeOK
PROPERTIES
  OvertakenNeverSpeaks
  IdentityDroppedForCause
  AlwaysSettles
CHECK_DEADLOCK FALSE
