CONSTANTS
  None = None
  Object = {o1, o2}
  Handler = {h1, h2}
  MaxBlocks = 2
  MaxDepth = 3
  SwitchInUnbind = FALSE
  UsedInDispose = FALSE
  Source = {o1, o2}
  Target = {t1, t2, t3}
  Slot = {b1, b2, b3, b4}
  State = {h1, h2}
  MaxEntries = 2
  Item = {b1, b2, b3, b4}
  NoChange = NoChange
  MaxAdded = 2
  Menu = {t1, t2, t3}
  MenuItem = {h1, h2}
  MaxItems = 2
  MaxMerges = 3
  TreeRoot = TreeRoot  Dummy = Dummy
  Center = Center
  a = a  b = b  c = c  d = d
  Value = {v}
  NULL = NULL
  NUL = NUL
  CPU = {0, 1}
  ncpu = 2
SPECIFICATION FollowersSpec
INVARIANTS FollowersTypeOK AssertionsHold FollowsTarget WatchesTarget BindingsFollow InForce ListsTellTheTruth
INVARIANTS TraversalTellsAll CountersAreRight SearchesFind ShowsTheMerged ShowsWhatWasBuilt Settled 
PROPERTIES StepsOfAMap FollowsFocus
