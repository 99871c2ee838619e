SPECIFICATION StructuresSpec
CONSTANTS
  a = a  b = b  c = c  d = d
  Value = {v}
  NULL = NULL
  NUL = NUL
  CPU = {0, 2}
  ncpu = 2
INVARIANT CountsWhatWasAdded
CHECK_DEADLOCK FALSE
