SPECIFICATION StepsSpec
CONSTANTS
  hi = hi  mid = mid  lo = lo
  Elem <- MCElem
  Prio <- MCPrio
  MIN_HEAP_SIZE = 2
  MaxLen = 7
  None = None
  Monitor = {m1, m2, m3, m4, m5, m6}
  MaxChanges = 5
  Key = {k1}
  Task = {t1, t2}
  Cancellable = {c1}
  NoCancellable = NoCancellable
INVARIANTS StepsTypeOK LoopInvariant HeadIsHighest FitsAllocation AnimationsArrive
INVARIANT EveryDirectoryWatched
PROPERTIES ImplementsQueue CallsReturn AnimationsEnd CancelIsFinal StartIsAnswered CacheIsLive
CHECK_DEADLOCK FALSE
