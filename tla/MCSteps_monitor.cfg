SPECIFICATION StepsSpec
CONSTANTS
  hi = hi  mid = mid  lo = lo
  Elem <- MCElem
  Prio <- MCPrio
  MIN_HEAP_SIZE = 2
  MaxLen = 1
  None = None
  Monitor = {m1, m2, m3, m4}
  MaxChanges = 3
  Key = {k1}
  Task = {t1}
  Cancellable = {c1}
  NoCancellable = NoCancellable
INVARIANT MonitorForEachDirectory
CHECK_DEADLOCK FALSE
