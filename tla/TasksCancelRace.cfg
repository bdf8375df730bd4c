SPECIFICATION Spec
CONSTANTS
  G = G
  H = H
  W = W
  NoGroup = NoGroup
  NoWord = NoWord
  Thread <- TwoThreads
  Word = {W}
  Group = {G}
  Programs <- CancelWait
INVARIANTS CancelEndsCancelableWait
CHECK_DEADLOCK FALSE
