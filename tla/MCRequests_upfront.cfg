CONSTANTS
  Component = {"cache"}
  None = None
  NoMatch = NoMatch  Partial = Partial  Eaten = Eaten
  NoFile = NoFile
  Directory = Directory
  NULL = NULL
  Faults = {}
  Key = {k1}
  Task = {t1, t2}
  Cancellable = {c1}
  NoCancellable = NoCancellable
  TimeToLive = 0
  MaxTime = 0
  CancelledUpFront = TRUE
SPECIFICATION RequestsSpec
INVARIANT DataIsSet
