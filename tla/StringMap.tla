----------------------------- MODULE StringMap -----------------------------
(***************************************************************************)
(* What DzlTrie promises (the SECTION comment and the comments of          *)
(* search/dzl-trie.c): a map from keys to values, which hands a value to   *)
(* value_destroy when it is replaced or removed and at no other time.      *)
(***************************************************************************)
CONSTANTS Key, Value, NULL

VARIABLES
  map,        \* the value of each key, NULL for none
  answer,     \* what the last call returned
  destroyed   \* what it gave to value_destroy, with the key it was under

Held(k) == IF map[k] = NULL THEN {} ELSE {<<k, map[k]>>}

Init ==
  /\ map = [k \in Key |-> NULL]
  /\ answer = NULL
  /\ destroyed = {}

Insert(k, v) ==
  /\ map' = [map EXCEPT ![k] = v]
  /\ answer' = NULL
  /\ destroyed' = Held(k)

Remove(k) ==
  /\ map' = [map EXCEPT ![k] = NULL]
  /\ answer' = (map[k] # NULL)
  /\ destroyed' = Held(k)

Lookup(k) ==
  /\ answer' = map[k]
  /\ destroyed' = {}
  /\ UNCHANGED map

Next == \E k \in Key : Remove(k) \/ Lookup(k) \/ \E v \in Value : Insert(k, v)

Spec == Init /\ [][Next]_<<map, answer, destroyed>>
=============================================================================
