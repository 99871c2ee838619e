--------------------------- MODULE DzlFuzzyIndex ---------------------------
(***************************************************************************)
(* search/dzl-fuzzy-index-builder.c, dzl-fuzzy-index.c and                 *)
(* dzl-fuzzy-index-cursor.c: a builder writes a search index to a file, an *)
(* index maps the file, and a cursor searches it for the documents with a  *)
(* key that has the characters of the query in order.                      *)
(*                                                                         *)
(* Each insertion is a pair of a key and a document.  Items of the tables  *)
(* name a pair by its number with the priority in the high bits, as one    *)
(* unsigned integer; IdRange and Priorities are how many of each there are *)
(* (2^24 and 2^8 in the code).  Builders are written by the thread that    *)
(* fills them, or left alone until they are.                               *)
(***************************************************************************)
EXTENDS Integers, Sequences, SequencesExt, FiniteSetsExt, TLC

CONSTANTS
  Pair,         \* what callers insert: a key, a document and a priority
  Query, Space,
  Fold,         \* g_utf8_casefold, by character
  Order,        \* strcmp: the keys in ascending order
  IdRange, Priorities, MaxPairs, None

VARIABLES
  case_sensitive, kv_pairs,   \* of the builder
  file,                       \* what a written file has, or None
  loaded, mapped,             \* of the index
  answer                      \* the matches of the cursor made last, or None

vars == <<case_sensitive, kv_pairs, file, loaded, mapped, answer>>

ConstantsType ==
  /\ IdRange \in Nat \ {0} /\ Priorities \in Nat \ {0} /\ MaxPairs \in 1..IdRange
  /\ \A p \in Pair : p.priority \in 0..(Priorities - 1)
-----------------------------------------------------------------------------
(* dzl_fuzzy_index_builder_build_index *)

Folded(s, sensitive) == IF sensitive THEN s ELSE [i \in DOMAIN s |-> Fold[s[i]]]

(* The difference of two guint, as a gint *)
Width == IdRange * Priorities
Signed(d) == IF d % Width < Width \div 2 THEN d % Width ELSE (d % Width) - Width

(* pos_doc_pair_compare *)
Compare(a, b) ==
  LET ret == Signed(a.lookaside_id - b.lookaside_id)
  IN  IF ret = 0 THEN a.position - b.position ELSE ret

(* g_array_sort: a merge sort, which takes the left one unless it compares *)
(* greater.                                                                *)
RECURSIVE Merge(_, _)
Merge(s, t) ==
  IF s = <<>> \/ t = <<>> THEN s \o t
  ELSE IF Compare(Head(s), Head(t)) > 0 THEN <<Head(t)>> \o Merge(s, Tail(t))
  ELSE <<Head(s)>> \o Merge(Tail(s), t)
RECURSIVE Sorted(_)
Sorted(s) ==
  IF Len(s) < 2 THEN s
  ELSE LET half == Len(s) \div 2
       IN  Merge(Sorted(SubSeq(s, 1, half)), Sorted(SubSeq(s, half + 1, Len(s))))

LookasideId(pairs, i) == (i - 1) + pairs[i].priority * IdRange

(* The row of a character: where it is in the keys, pair by pair, sorted   *)
Row(pairs, sensitive, c) ==
  Sorted(FlattenSeq([i \in DOMAIN pairs |->
    LET key == Folded(pairs[i].key, sensitive)
        at == SelectSeq([p \in DOMAIN key |-> p - 1], LAMBDA p : key[p + 1] = c)
    IN  [n \in DOMAIN at |-> [position |-> at[n], lookaside_id |-> LookasideId(pairs, i)]]]))

(* dzl_fuzzy_index_builder_write_worker *)
Written ==
  [pairs |-> kv_pairs, sensitive |-> case_sensitive,
   tables |-> [c \in UNION {ToSet(Folded(kv_pairs[i].key, case_sensitive)) : i \in DOMAIN kv_pairs}
               |-> Row(kv_pairs, case_sensitive, c)]]
-----------------------------------------------------------------------------
(* dzl_fuzzy_index_cursor_worker *)

(* fuzzy_do_match, from the loop of table t on: it returns at the first    *)
(* match and leaves the states where they are.                             *)
RECURSIVE DoMatch(_, _, _, _, _, _)
DoMatch(ts, r, root, item, t, score) ==
  IF r.state[t] >= Len(ts[t]) THEN [r EXCEPT !.ret = FALSE]
  ELSE LET iter == ts[t][r.state[t] + 1]
           iter_score == score + iter.position - item.position
           Go(s) == DoMatch(ts, [s EXCEPT !.state[t] = @ + 1], root, item, t, score)
           q == DoMatch(ts, r, root, iter, t + 1, iter_score)
           old == {m \in r.matches : m.lookaside_id = root.lookaside_id}
           new == [lookaside_id |-> root.lookaside_id, score |-> iter_score,
                   last_offset |-> iter.position]
       IN  CASE \/ iter.lookaside_id < item.lookaside_id
                \/ iter.lookaside_id = item.lookaside_id /\ iter.position <= item.position -> Go(r)
             [] iter.lookaside_id > item.lookaside_id -> [r EXCEPT !.ret = FALSE]
             [] OTHER ->
                  IF t < Len(ts) THEN IF q.ret THEN q ELSE Go(q)
                  ELSE [r EXCEPT !.ret = TRUE,
                                 !.matches = IF \E m \in old : m.score <= iter_score THEN @
                                             ELSE (@ \ old) \cup {new}]

RECURSIVE FromRoot(_, _, _)
FromRoot(ts, r, i) ==
  IF i > Len(ts[1]) THEN r.matches
  ELSE LET item == ts[1][i]
           start == IF item.position * 2 < 16 THEN item.position * 2 ELSE 16
       IN  FromRoot(ts, DoMatch(ts, r, item, item, 2, start), i + 1)

(* A query of one character takes each pair where it comes first.          *)
OneTable(table) ==
  {[lookaside_id |-> table[i].lookaside_id, score |-> table[i].position,
    last_offset |-> table[i].position] :
      i \in {i \in DOMAIN table : i = 1 \/ table[i - 1].lookaside_id # table[i].lookaside_id}}

Tables(index, query) ==
  LET q == SelectSeq(Folded(query, index.sensitive), LAMBDA c : c # Space)
  IN  [i \in DOMAIN q |-> IF q[i] \in DOMAIN index.tables THEN index.tables[q[i]] ELSE <<>>]

Matches(index, query) ==
  LET ts == Tables(index, query)
  IN  CASE ts = <<>> \/ (\E i \in DOMAIN ts : ts[i] = <<>>) -> {}
        [] Len(ts) = 1 /\ ts[1] # <<>> -> OneTable(ts[1])
        [] OTHER -> FromRoot(ts, [state |-> [i \in DOMAIN ts |-> 0], matches |-> {}, ret |-> FALSE], 1)

(* _dzl_fuzzy_index_resolve: the pair of a match.  The score is            *)
(* 1 / 256 / (1 + last_offset + in_score) + (255 - priority) / 256; Cost   *)
(* orders scores the other way round.                                      *)
Resolved(index, m) ==
  LET p == index.pairs[(m.lookaside_id % IdRange) + 1]
  IN  [key |-> p.key, document |-> p.document,
       cost |-> p.priority * 1000 + m.last_offset + m.score]

(* Of the matches in some order, those that are better than what came      *)
(* before for the same document.  The loop that is there to remove what a  *)
(* later one has beaten asks for the opposite, and removes nothing.        *)
RECURSIVE Kept_First(_, _)
Kept_First(rest, kept) ==
  IF rest = <<>> THEN kept
  ELSE Kept_First(Tail(rest),
                  IF \E i \in DOMAIN kept : kept[i].document = Head(rest).document
                  THEN kept ELSE Append(kept, Head(rest)))
RECURSIVE Kept(_, _)
Kept(rest, kept) ==
  IF rest = <<>> THEN kept
  ELSE Kept(Tail(rest),
            IF \E i \in DOMAIN kept : /\ kept[i].document = Head(rest).document
                                      /\ kept[i].cost <= Head(rest).cost
            THEN kept ELSE Append(kept, Head(rest)))

(* fuzzy_match_compare *)
Rank(key) == CHOOSE i \in DOMAIN Order : Order[i] = key
Precedes(m, n) == \/ m.cost < n.cost
                  \/ m.cost = n.cost /\ Rank(m.key) <= Rank(n.key)

(* What a cursor may show: a hash table gives the matches in any order.    *)
Shown(index, query, max) ==
  LET found == Matches(index, query)
  IN  {LET all == [i \in DOMAIN order |-> Resolved(index, order[i])]
           list == IF Len(Tables(index, query)) = 1 THEN all ELSE Kept(all, <<>>)
           sorted == SortSeq(list, Precedes)
       IN  IF max > 0 /\ max < Len(sorted) THEN SubSeq(sorted, 1, max) ELSE sorted :
         order \in {o \in [1..Cardinality(found) -> found] : IsInjective(o)}}
-----------------------------------------------------------------------------
Init ==
  /\ case_sensitive = FALSE /\ kv_pairs = <<>>
  /\ file = None
  /\ loaded = FALSE /\ mapped = None
  /\ answer = None

SetCaseSensitive ==
  /\ case_sensitive' = ~case_sensitive
  /\ answer' = None
  /\ UNCHANGED <<kv_pairs, file, loaded, mapped>>

(* dzl_fuzzy_index_builder_insert.  That a key or a document is stored     *)
(* once, however often it is inserted, is left out: pairs name them.       *)
InsertPair(p) ==
  /\ Len(kv_pairs) < MaxPairs
  /\ kv_pairs' = Append(kv_pairs, p)
  /\ answer' = None
  /\ UNCHANGED <<case_sensitive, file, loaded, mapped>>

(* dzl_fuzzy_index_builder_write, which replaces the file in one go        *)
Write ==
  /\ file' = Written
  /\ answer' = None
  /\ UNCHANGED <<case_sensitive, kv_pairs, loaded, mapped>>

(* dzl_fuzzy_index_load_file: a second time is refused, even when there    *)
(* was no file the first time.                                             *)
Load ==
  /\ loaded' = TRUE
  /\ mapped' = IF loaded THEN mapped ELSE file
  /\ answer' = None
  /\ UNCHANGED <<case_sensitive, kv_pairs, file>>

(* dzl_fuzzy_index_query_async, until the cursor is filled                 *)
Ask(query, max) ==
  /\ \E shown \in IF mapped = None THEN {<<>>} ELSE Shown(mapped, query, max) :
       answer' = [query |-> query, max |-> max, shown |-> shown]
  /\ UNCHANGED <<case_sensitive, kv_pairs, file, loaded, mapped>>

NewIndex ==
  /\ loaded
  /\ loaded' = FALSE /\ mapped' = None
  /\ answer' = None
  /\ UNCHANGED <<case_sensitive, kv_pairs, file>>

Next ==
  \/ SetCaseSensitive \/ Write \/ Load \/ NewIndex
  \/ \E p \in Pair : InsertPair(p)
  \/ \E query \in Query, max \in {0, 1} : Ask(query, max)

Spec == Init /\ [][Next]_vars
-----------------------------------------------------------------------------
(* Properties *)

TypeOK ==
  /\ case_sensitive \in BOOLEAN /\ loaded \in BOOLEAN
  /\ kv_pairs \in Seq(Pair) /\ Len(kv_pairs) <= MaxPairs
  /\ mapped # None => loaded /\ mapped.pairs \in Seq(Pair)

(* Where the characters of q may be found in s, in order                   *)
Places(q, s) ==
  {p \in [DOMAIN q -> DOMAIN s] :
     /\ \A i \in DOMAIN q : s[p[i]] = q[i]
     /\ \A i \in 2..Len(q) : p[i - 1] < p[i]}

(* What a pair costs for a query: twice the place of the first character,  *)
(* what lies between it and the last, and the place of the last.           *)
Costs(index, pair, query) ==
  LET q == SelectSeq(Folded(query, index.sensitive), LAMBDA c : c # Space)
  IN  IF q = <<>> THEN {}
      ELSE {pair.priority * 1000 +
            (IF Len(q) = 1 THEN 2 * (p[1] - 1) ELSE 2 * (p[1] - 1) + p[Len(q)] - p[1] + p[Len(q)] - 1) :
              p \in Places(q, Folded(pair.key, index.sensitive))}
BestCosts(index, document, query) ==
  UNION {Costs(index, p, query) : p \in {p \in ToSet(index.pairs) : p.document = document}}

(* No two priorities are so far apart that their difference is negative.   *)
Near(index) ==
  \A p, q \in ToSet(index.pairs) : 2 * (p.priority - q.priority) < Priorities

(* A query shows each document with a key that fuzzy matches, no others,   *)
(* and each first for the key that matches best; the best comes first,     *)
(* and is what is left of more than max matches.                           *)
QueryFinds ==
  answer # None /\ mapped # None /\ Near(mapped) =>
    LET found == {d \in {p.document : p \in ToSet(mapped.pairs)} :
                    BestCosts(mapped, d, answer.query) # {}}
        Best(d) == Min(BestCosts(mapped, d, answer.query))
        shown == answer.shown
    IN  /\ \A i \in DOMAIN shown : shown[i].document \in found
        /\ \A i \in 2..Len(shown) : shown[i - 1].cost <= shown[i].cost
        /\ \A d \in found :
             IF answer.max = 0 \/ found = {d}
             THEN \E i \in DOMAIN shown : shown[i].document = d /\ shown[i].cost = Best(d)
             ELSE /\ Len(shown) = 1
                  /\ shown[1].cost <= Best(d)

(* "We want to ensure we only get the highest scoring item for a document" *)
(* (test-fuzzy-index.c).                                                   *)
OncePerDocument ==
  answer # None => IsInjective([i \in DOMAIN answer.shown |-> answer.shown[i].document])
=============================================================================
