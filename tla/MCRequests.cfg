CONSTANTS
  Component = {"shortcuts", "cache", "transfer"}
  None = None
  NoMatch = NoMatch  Partial = Partial  Eaten = Eaten
  NoFile = NoFile
  Directory = Directory
  NULL = NULL
  Faults = {"copy", "list", "delete"}
  Key = {k1, k2}
  Task = {t1, t2}
  Cancellable = {c1}
  NoCancellable = NoCancellable
  TimeToLive = 1
  MaxTime = 2
  CancelledUpFront = TRUE
SPECIFICATION RequestsSpec
SYMMETRY Symmetry
INVARIANTS RequestsTypeOK DescendantsAgree
INVARIANTS NobodyForgotten HeapMatchesTable Armed NothingLost SuccessIsComplete
PROPERTIES FirstInOrderRuns KeepsPromise
CHECK_DEADLOCK FALSE
