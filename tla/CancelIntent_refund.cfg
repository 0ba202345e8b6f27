SPECIFICATION Spec
CONSTANTS
  c1 = c1
  s1 = s1
  j1 = j1
  Client = {c1}
  Staff = {s1}
  Rider = {m}
  Creator = {k}
  Syncer = {y}
  Job = {j1}
  Published = {}
  None = none
CHECK_DEADLOCK FALSE
INVARIANT TypeOK
INVARIANT RefundProtected
INVARIANT NoHiddenMovement
INVARIANT LoserLetsGo
