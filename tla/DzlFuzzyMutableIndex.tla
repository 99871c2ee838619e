------------------------ MODULE DzlFuzzyMutableIndex ------------------------
(***************************************************************************)
(* search/dzl-fuzzy-mutable-index.c: keys by number, the places of each    *)
(* character in them, and a search for the keys that have the characters   *)
(* of a needle in this order, scored by the gaps between them.             *)
(*                                                                         *)
(* Positions count from 0, as array indexes in C do.  The search walks a   *)
(* table per character of the needle and remembers in `state' how far it   *)
(* has come in each, which it takes back when a better match may follow.   *)
(***************************************************************************)
EXTENDS Integers, Sequences, SequencesExt, TLC

CONSTANTS
  Key,        \* the keys callers insert, sequences of characters
  Needle,     \* what they search for
  Fold,       \* g_utf8_casefold, by character
  Order,      \* strcmp: the keys in ascending order
  MaxInserts

VARIABLES
  case_sensitive, in_bulk_insert,
  keys,       \* id_to_text_offset and heap: the key of each id + 1
  tables,     \* char_tables: for each character its items
  removed

vars == <<case_sensitive, in_bulk_insert, keys, tables, removed>>

Id == 0..(Len(keys) - 1)
KeyOf(id) == keys[id + 1]
Folded(s) == IF case_sensitive THEN s ELSE [i \in DOMAIN s |-> Fold[s[i]]]
-----------------------------------------------------------------------------
(* g_array_index, from 0 *)
At(table, n) == table[n + 1]

(* dzl_fuzzy_mutable_index_item_compare *)
Before(a, b) == a.id < b.id \/ (a.id = b.id /\ a.pos < b.pos)

(* rollback_state_to_pos: the index is compared with pos, so that it may   *)
(* stop behind places that are further in the key than pos.                *)
RECURSIVE RollbackTo(_, _, _, _)
RollbackTo(table, n, id, pos) ==
  IF n = 0 THEN n
  ELSE LET iter == At(table, n - 1)
       IN  IF iter.id > id \/ (iter.id = id /\ n - 1 >= pos)
           THEN RollbackTo(table, n - 1, id, pos) ELSE n - 1

(* The states of the tables after the first, taken back *)
Rollback(ts, state, first, id, pos) ==
  [i \in DOMAIN state |-> IF i < first THEN state[i] ELSE RollbackTo(ts[i], state[i], id, pos)]

Better(matches, id, score) ==
  IF \E m \in matches : m.id = id /\ m.score <= score THEN matches
  ELSE {m \in matches : m.id # id} \cup {[id |-> id, score |-> score]}

(* dzl_fuzzy_mutable_index_do_match, from the loop of table t on: r has    *)
(* the states, the matches and what is returned.                           *)
RECURSIVE DoMatch(_, _, _, _, _)
DoMatch(ts, r, item, t, score) ==
  IF r.state[t] >= Len(ts[t]) THEN r
  ELSE LET iter == At(ts[t], r.state[t])
           iter_score == score + iter.pos - item.pos - 1
           Go(s) == DoMatch(ts, [s EXCEPT !.state[t] = @ + 1], item, t, score)
           q == DoMatch(ts, [r EXCEPT !.ret = FALSE], iter, t + 1, iter_score)
           again == r.state[t] + 1 < Len(ts[t]) /\ At(ts[t], r.state[t] + 1).id = item.id
       IN  CASE iter.id < item.id \/ (iter.id = item.id /\ iter.pos <= item.pos) -> Go(r)
             [] iter.id > item.id -> r
             [] iter.id = item.id /\ iter.pos > item.pos /\ t = Len(ts) ->
                  Go([r EXCEPT !.matches = Better(@, iter.id, iter_score), !.ret = TRUE])
             [] OTHER ->
                  Go([q EXCEPT !.ret = @ \/ r.ret,
                                 !.state = IF q.ret /\ again
                                           THEN Rollback(ts, @, t + 1, iter.id, iter.pos + 1)
                                           ELSE @])

(* The loop of dzl_fuzzy_mutable_index_match over the first table *)
RECURSIVE FromRoot(_, _, _)
FromRoot(ts, r, i) ==
  IF i >= Len(ts[1]) THEN r.matches
  ELSE LET item == At(ts[1], i)
           q == DoMatch(ts, [r EXCEPT !.ret = FALSE], item, 2, 0)
           again == i + 1 < Len(ts[1]) /\ At(ts[1], i + 1).id = item.id
       IN  FromRoot(ts, IF q.ret /\ again
                        THEN [q EXCEPT !.state = Rollback(ts, @, 2, item.id, item.pos + 1)]
                        ELSE q, i + 1)

(* All that match a needle of two characters or more, with the gaps        *)
Matches(needle) ==
  LET n == Folded(needle)
      ts == [i \in DOMAIN n |-> tables[n[i]]]
  IN  IF \E i \in DOMAIN n : ts[i] = <<>> THEN {}
      ELSE FromRoot(ts, [state |-> [i \in DOMAIN n |-> 0], matches |-> {}, ret |-> FALSE], 0)

(* A score is 1.0 without a gap, and 1.0 / (the key's length + the gaps);  *)
(* Cost orders them the other way round.                                   *)
Cost(m) == IF m.score = 0 THEN 1 ELSE Len(KeyOf(m.id)) + m.score
Rank(key) == CHOOSE i \in DOMAIN Order : Order[i] = key
Precedes(m, n) == \/ Cost(m) < Cost(n)
                  \/ Cost(m) = Cost(n) /\ Rank(KeyOf(m.id)) < Rank(KeyOf(n.id))

(* dzl_fuzzy_mutable_index_match with max_matches 0; a needle of one       *)
(* character does not ask what is removed.                                 *)
Match(needle) ==
  IF Len(needle) = 1
  THEN {[id |-> id, score |-> 0] :
          id \in {At(tables[Folded(needle)[1]], i).id : i \in 0..(Len(tables[Folded(needle)[1]]) - 1)}}
  ELSE {m \in Matches(needle) : m.id \notin removed}

(* ... and with max_matches 1: one of those nothing precedes.  A needle of *)
(* one character gives all.                                                *)
First(needle) ==
  IF Len(needle) = 1 THEN {Match(needle)}
  ELSE IF Match(needle) = {} THEN {{}}
  ELSE {{m} : m \in {m \in Match(needle) : ~\E n \in Match(needle) : Precedes(n, m)}}
-----------------------------------------------------------------------------
(* dzl_fuzzy_mutable_index_new *)
Characters == UNION {ToSet(k) : k \in Key} \cup {Fold[c] : c \in UNION {ToSet(k) : k \in Key}}
Init ==
  /\ case_sensitive \in BOOLEAN
  /\ in_bulk_insert = FALSE
  /\ keys = <<>>
  /\ tables = [c \in Characters |-> <<>>]
  /\ removed = {}

BeginBulkInsert ==
  /\ ~in_bulk_insert
  /\ in_bulk_insert' = TRUE
  /\ UNCHANGED <<case_sensitive, keys, tables, removed>>

EndBulkInsert ==
  /\ in_bulk_insert
  /\ in_bulk_insert' = FALSE
  /\ tables' = [c \in Characters |-> SortSeq(tables[c], Before)]
  /\ UNCHANGED <<case_sensitive, keys, removed>>

(* The items a key of this number gets in the table of c *)
ItemsOf(k, c, id) ==
  LET at == SelectSeq([i \in DOMAIN k |-> i - 1], LAMBDA i : Folded(k)[i + 1] = c)
  IN  [n \in DOMAIN at |-> [id |-> id, pos |-> at[n]]]

(* dzl_fuzzy_mutable_index_insert *)
InsertKey(k) ==
  /\ Len(keys) < MaxInserts
  /\ keys' = Append(keys, k)
  /\ tables' = [c \in Characters |->
       LET all == tables[c] \o ItemsOf(k, c, Len(keys))
       IN  IF in_bulk_insert THEN all ELSE SortSeq(all, Before)]
  /\ UNCHANGED <<case_sensitive, in_bulk_insert, removed>>

(* dzl_fuzzy_mutable_index_remove: only the best match may go.             *)
RemoveKey(k) ==
  /\ ~in_bulk_insert
  /\ \E found \in First(k) :
       removed' = removed \cup {m.id : m \in {m \in found : KeyOf(m.id) = k}}
  /\ UNCHANGED <<case_sensitive, in_bulk_insert, keys, tables>>

Next ==
  \/ BeginBulkInsert \/ EndBulkInsert
  \/ \E k \in Key : InsertKey(k) \/ RemoveKey(k)

Spec == Init /\ [][Next]_vars
-----------------------------------------------------------------------------
(* Properties *)

TypeOK ==
  /\ case_sensitive \in BOOLEAN /\ in_bulk_insert \in BOOLEAN
  /\ keys \in Seq(Key) /\ Len(keys) <= MaxInserts
  /\ \A c \in Characters : ToSet(tables[c]) \subseteq [id : Id, pos : 0..9]
  /\ removed \subseteq Id

(* Where the characters of n may be found in s, in order, and what lies    *)
(* between the first and the last.                                         *)
Places(n, s) ==
  {p \in [DOMAIN n -> DOMAIN s] :
     /\ \A i \in DOMAIN n : s[p[i]] = n[i]
     /\ \A i \in 2..Len(n) : p[i - 1] < p[i]}
Gap(p, n) == p[Len(n)] - p[1] - (Len(n) - 1)
Gaps(needle, id) ==
  {Gap(p, needle) : p \in Places(Folded(needle), Folded(KeyOf(id)))}

(* "strings that fuzzy match @needle": a search finds the keys that have   *)
(* the characters of the needle in order, none of them if it was removed,  *)
(* and counts the gaps of one of the ways to find it there.  Not always of *)
(* the best: see RollbackTo.                                               *)
FindsSubsequences ==
  ~in_bulk_insert =>
    \A needle \in Needle :
      /\ {m.id : m \in Match(needle)} =
           {id \in Id : Gaps(needle, id) # {} /\ (Len(needle) > 1 => id \notin removed)}
      /\ \A m \in Match(needle) : m.score \in Gaps(needle, m.id)
=============================================================================
