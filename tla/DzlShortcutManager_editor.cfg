SPECIFICATION Spec
CONSTANTS
  window = window  pane = pane  entry = entry
  x = x  y = y
  search = search  save = save  close = close  menu = menu
  default = default  emacs = emacs  internal = internal  vim = vim
  Widget <- MCWidget
  Window = window
  Parent <- MCParent
  Type <- MCType
  Key = {x, y}
  MaxChord = 4
  Command <- MCCommand
  Action = {menu}
  Accel <- MCAccel
  Phase <- MCPhase
  Registers <- MCRegisters
  Theme = {default, emacs, internal}
  Internal = internal
  ParentName <- MCParentName
  KeyTheme <- MCKeyTheme
  Overrides <- EditorOverrides
  Chord <- MCChord
  Removes <- MCRemoves
  Named <- MCNamed
  Hideable = {pane}
  Failing = {save}
  NoMatch = NoMatch  Partial = Partial  Eaten = Eaten  None = None

PROPERTIES OverrideRuns
CHECK_DEADLOCK FALSE
