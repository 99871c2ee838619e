------------------------- MODULE MCDzlShortcutManager -------------------------
(* DzlShortcutManager on a window with a pane and an entry in the pane.      *)
EXTENDS DzlShortcutManager

CONSTANTS window, pane, entry, x, y, search, save, close, menu, default, emacs, internal, vim

MCWidget == {window, pane, entry}
MCParent == pane :> window @@ entry :> pane
MCType == [w \in MCWidget |-> w]    \* a class for each
MCCommand == {search, save, close, menu}
MCAccel == search :> <<x>> @@ save :> <<y, x>> @@ close :> <<y, y>> @@ menu :> <<>>
MCPhase == search :> {"global"} @@ save :> {"capture", "global"} @@ close :> {"bubble"} @@ menu :> {}
MCRegisters == {<<entry, search>>, <<entry, close>>, <<pane, save>>}
MCParentName == default :> internal @@ emacs :> default
MCKeyTheme == {[theme |-> default, name |-> vim, phase |-> {"capture"}, chord |-> <<x>>, command |-> save]}
MCOverrides == {<<default, menu, {"bubble", "global"}>>}
EditorOverrides == {<<default, search, {}>>}
MCChord == {<<y, y>>}
MCNamed == {<<entry, vim>>}
MCRemoves == {<<entry, search>>}
=============================================================================
