---------------------------- MODULE ListChanges ----------------------------
(* GListModel and GMenuModel: items-changed (position, removed, added) is  *)
(* all a listener learns of a change; it reads the added items afterwards. *)
EXTENDS Naturals, Sequences

Without(s, position, n) == SubSeq(s, 1, position) \o SubSeq(s, position + n + 1, Len(s))
With(s, position, t) == SubSeq(s, 1, position) \o t \o SubSeq(s, position + 1, Len(s))

(* The copy of a listener who had `seen', and reads the items in `now'.    *)
Told(seen, now, position, removed, added) ==
  With(Without(seen, position, removed), position, SubSeq(now, position + 1, position + added))
=============================================================================
