SPECIFICATION SystemsSpec
CONSTANTS
  A = A
  B = B
  C = C
  H = H
  J = J
  L = L
  M = M
  N = N
  O = O
  P = P
  Q = Q
  R = R
  X = X
  Y = Y
  Z = Z
  Active = {"lock", "cas", "guard", "stage", "publication", "par", "replay", "call", "generated", "audit", "local", "row", "check", "export"}
  Thread = {A, B, C}
  NoWriter = NoWriter
  MaxCalls = 4
  Nobody = Nobody
  NoKey = NoKey
  Proc = {P, Q, R}
  Key = {Z, A, N}
  KindOf <- Kinds
  Compiler = Z
  Cap = 1
  MinAge = 1
  StageAge = 1
  MaxTime = 1
  MaxStarts = 3
  Process = {L, X, Y}
  Leader = L
  Supervisor = M
  Reaper = N
  Publisher = {O, P, Q}
  Overwriter = {O}
  Before = R
  Jobs = 5
  Workers = 2
  Budget = 2
  Memory <- JobMemory
  Chunks <- JobChunks
  Orders <- JobOrders
  Audit = {P, Q}
  Module = {A, B}
  Scope <- Scopes
  MaxChanges = 1
  Commands = 2
  Job1 = J
  Hand = H
  MaxMain = 2
  MaxReruns = 1
  Attempts = 2
  Rows = 3
  Workflows <- RowNeeds
  Requests <- RowRequests
  Artifact = {A, B}
  Declared <- RowUploads
  Recipes <- JobSteps
  MaxEdits = 1
  Function = {A, B, C, M}
  Roots = {A}
  Modelled = {M}
  PrefixOf <- ExportPrefixes
  CallGraph <- ExportCalls
  Silences = {{}, {A}, {C}}
  Rounds = 2
INVARIANTS StateOK StoreKept LockKept GuardKept ContainedKept ParKept LocalCiKept 
PROPERTIES GcKeepsCap IsALock PublicationKept ReplayKept BranchKept AllEnd
CHECK_DEADLOCK FALSE
