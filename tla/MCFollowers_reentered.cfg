CONSTANTS
  None = None
  Object = {o1, o2}
  Handler = {h1}
  MaxBlocks = 0
  MaxDepth = 2
  SwitchInUnbind = FALSE
  UsedInDispose = FALSE
  Source = {o1}
  Target = {t1}
  Slot = {b1}
  State = {h1, h2}
  MaxEntries = 2
  Item = {b1}
  NoChange = NoChange
  MaxAdded = 1
  Menu = {t1}
  MenuItem = {h1}
  MaxItems = 1
  MaxMerges = 1
  TreeRoot = TreeRoot  Dummy = Dummy
  Center = Center
  a = a  b = b  c = c  d = d
  Value = {v}
  NULL = NULL
  NUL = NUL
  CPU = {0, 1}
  ncpu = 2
SPECIFICATION FollowersSpec
INVARIANT OnlyWhenCurrent
