SPECIFICATION StructuresSpec
CONSTANTS
  a = a  b = b  c = c  d = d
  Value = {v}
  NULL = NULL
  NUL = NUL
  CPU = {0, 1}
  ncpu = 2
INVARIANT OncePerDocument
CHECK_DEADLOCK FALSE
