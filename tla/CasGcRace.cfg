SPECIFICATION Spec
CONSTANTS
  P = P
  Q = Q
  R = R
  Z = Z
  A = A
  N = N
  Nobody = Nobody
  NoKey = NoKey
  Proc = {P, Q, R}
  Key = {Z, N}
  KindOf <- Kinds
  Compiler = Z
  Cap = 1
  MinAge = 1
  StageAge = 1
  MaxTime = 2
  MaxStarts = 4

PROPERTIES RecentEntriesKept
CHECK_DEADLOCK FALSE
