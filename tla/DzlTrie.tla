------------------------------ MODULE DzlTrie ------------------------------
(***************************************************************************)
(* search/dzl-trie.c: a prefix tree whose nodes keep their children in a   *)
(* chain of small chunks, the first of them inline in the node, and move   *)
(* the child that is found in a later chunk to the front of the first.     *)
(*                                                                         *)
(* A node is the string that leads to it from the root, and a chunk the    *)
(* characters of its counted slots: the child in a slot is the node the    *)
(* character leads to.  Slots beyond the count are cleared, '\0' and NULL; *)
(* NUL stands for such a slot once it has been counted by mistake.         *)
(***************************************************************************)
EXTENDS Integers, Sequences, SequencesExt

CONSTANTS
  Key,               \* the strings callers use, the empty one left out
  Value,
  NULL,
  NUL,               \* '\0', and the NULL child that comes with it
  FIRST_CHUNK_KEYS,  \* slots of the inline chunk
  CHUNK_KEYS         \* slots of the chunks allocated later

Char == UNION {ToSet(k) : k \in Key}

(* A chunk holds at least one character; the inline one more, or a node    *)
(* whose first chunk has one child might have others behind it.            *)
ConstantsType ==
  /\ Key \subseteq Seq(Char) \ {<<>>} /\ NUL \notin Char
  /\ FIRST_CHUNK_KEYS \in Nat /\ FIRST_CHUNK_KEYS > 1
  /\ CHUNK_KEYS \in Nat /\ CHUNK_KEYS > 0

VARIABLES
  chunks,     \* the chain of chunks of each node there is
  value,      \* node->value
  answer,     \* what the last call returned
  destroyed   \* what it gave to value_destroy, with the key it was under

vars == <<chunks, value, answer, destroyed>>

Root == <<>>
Prefix(k, n) == SubSeq(k, 1, n)
Chars(chain) == FlattenSeq(chain)
Has(chain, c) == \E i \in DOMAIN chain : \E j \in DOMAIN chain[i] : chain[i][j] = c

(* How much of k the nodes lead along *)
Reached(k) ==
  CHOOSE n \in 0..Len(k) :
    /\ \A m \in 0..(n - 1) : Has(chunks[Prefix(k, m)], k[m + 1])
    /\ n < Len(k) => ~Has(chunks[Prefix(k, n)], k[n + 1])
Present(k) == Reached(k) = Len(k)

(* What a lookup answers, were it made now. *)
Answer(k) == IF Present(k) THEN value[k] ELSE NULL

Map == INSTANCE StringMap WITH map <- [k \in Key |-> Answer(k)]

-----------------------------------------------------------------------------
(* dzl_trie_node_move_to_front: slot j of chunk i trades places with the   *)
(* last slot of the first chunk, which is taken to be full, and that chunk *)
(* is rotated; its count stays what it was.                                *)
MoveToFront(chain, i, j) ==
  [chain EXCEPT ![1] = SubSeq(<<chain[i][j]>> \o chain[1], 1, Len(chain[1])),
                ![i][j] = IF Len(chain[1]) = FIRST_CHUNK_KEYS THEN Last(chain[1]) ELSE NUL]

(* dzl_trie_find_node: what is found in the first chunk stays there. *)
Found(chain, c) ==
  IF Has(<<chain[1]>>, c) THEN chain
  ELSE LET i == CHOOSE i \in DOMAIN chain : Has(<<chain[i]>>, c)
       IN  MoveToFront(chain, i, CHOOSE j \in DOMAIN chain[i] : chain[i][j] = c)

(* The chains after the search for k has gone as far as the nodes lead. *)
Walked(k) ==
  [n \in DOMAIN chunks |->
     IF n \in Prefixes(k) /\ Len(n) < Reached(k) THEN Found(chunks[n], k[Len(n) + 1])
     ELSE chunks[n]]

(* dzl_trie_append_to_node, always at the last chunk *)
Capacity(i) == IF i = 1 THEN FIRST_CHUNK_KEYS ELSE CHUNK_KEYS
AppendTo(chain, c) ==
  LET n == Len(chain)
  IN  IF Len(chain[n]) = Capacity(n) THEN Append(chain, <<c>>)
      ELSE [chain EXCEPT ![n] = Append(@, c)]

(* dzl_trie_node_remove_fast: the last character of the chunks that are in *)
(* use from chunk i on takes the place; chunks are never unlinked.         *)
RemoveFast(chain, i, j) ==
  LET e == CHOOSE e \in i..Len(chain) :
             /\ \A m \in (i + 1)..e : chain[m] # <<>>
             /\ e < Len(chain) => chain[e + 1] = <<>>
      moved == [chain EXCEPT ![i][j] = Last(chain[e])]
  IN  [moved EXCEPT ![e] = Front(@)]

(* dzl_trie_node_unlink, which finds nothing when the search for the key   *)
(* has moved it to a slot that is not counted.                             *)
Unlinked(chain, c) ==
  IF ~Has(chain, c) THEN chain
  ELSE LET i == CHOOSE i \in DOMAIN chain : Has(<<chain[i]>>, c)
       IN  RemoveFast(chain, i, CHOOSE j \in DOMAIN chain[i] : chain[i][j] = c)

-----------------------------------------------------------------------------
(* dzl_trie_new *)
Init ==
  /\ chunks = [n \in {Root} |-> <<<<>>>>]
  /\ value = [n \in {Root} |-> NULL]
  /\ answer = NULL
  /\ destroyed = {}

(* What happens to a trie after a slot was counted by mistake is not       *)
(* followed.                                                               *)
Intact == \A n \in DOMAIN chunks : ~Has(chunks[n], NUL)

InsertKey(k, v) ==
  /\ Intact
  /\ LET n == Prefix(k, Reached(k)) IN
     chunks' = [m \in DOMAIN chunks \cup Prefixes(k) |->
                  IF m \in DOMAIN chunks
                  THEN IF m = n /\ n # k THEN AppendTo(chunks[n], k[Len(n) + 1]) ELSE Walked(k)[m]
                  ELSE IF m = k THEN <<<<>>>> ELSE <<<<k[Len(m) + 1]>>>>]
  /\ value' = [m \in DOMAIN chunks' |->
                 IF m = k THEN v ELSE IF m \in DOMAIN value THEN value[m] ELSE NULL]
  /\ answer' = NULL
  /\ destroyed' = IF Answer(k) = NULL THEN {} ELSE {<<k, value[k]>>}

(* dzl_trie_lookup, and the search that dzl_trie_traverse begins with *)
LookupKey(k) ==
  /\ Intact
  /\ chunks' = Walked(k)
  /\ answer' = Answer(k)
  /\ destroyed' = {}
  /\ UNCHANGED value

(* The node that goes with k: as far up as the only child of a node        *)
(* without a value is on the way, by the count of the first chunk.         *)
Topmost_PastValues(k, chain) ==
  Prefix(k, CHOOSE n \in 1..Len(k) :
              /\ \A m \in n..(Len(k) - 1) : Len(chain[Prefix(k, m)][1]) = 1
              /\ n > 1 => Len(chain[Prefix(k, n - 1)][1]) # 1)
Topmost(k, chain) ==
  LET Bare(n) == value[Prefix(k, n)] = NULL /\ Len(chain[Prefix(k, n)][1]) = 1
  IN  Prefix(k, CHOOSE n \in 1..Len(k) :
                  /\ \A m \in n..(Len(k) - 1) : Bare(m)
                  /\ n > 1 => ~Bare(n - 1))

(* dzl_trie_destroy_node empties the first chunk of a node, which draws    *)
(* from the chunks behind it as far as they are in use.                    *)
Drained(chain, c) ==
  \E i \in DOMAIN chain : Has(<<chain[i]>>, c) /\ \A m \in 1..i : chain[m] # <<>>
Below(top) == {m \in DOMAIN chunks : IsPrefix(top, m)}
DestroyedWith(top) ==
  {m \in Below(top) : \A n \in Len(top)..(Len(m) - 1) : Drained(chunks[Prefix(m, n)], m[n + 1])}

(* dzl_trie_remove; a node it loses without destroying it is out of reach  *)
(* all the same.                                                           *)
RemoveKey(k) ==
  /\ Intact
  /\ answer' = (Answer(k) # NULL)
  /\ IF Answer(k) = NULL \/ Walked(k)[k][1] # <<>>
     THEN /\ chunks' = Walked(k)
          /\ value' = IF Present(k) THEN [value EXCEPT ![k] = NULL] ELSE value
          /\ destroyed' = IF Answer(k) = NULL THEN {} ELSE {<<k, value[k]>>}
     ELSE LET top == Topmost(k, Walked(k))
              parent == Front(top)
              left == DOMAIN chunks \ Below(top)
          IN  /\ chunks' = [m \in left |-> IF m = parent THEN Unlinked(Walked(k)[m], Last(top))
                                           ELSE Walked(k)[m]]
              /\ value' = [m \in left |-> value[m]]
              /\ destroyed' = {<<m, value[m]>> : m \in {n \in DestroyedWith(top) : value[n] # NULL}}

Next == \E k \in Key : LookupKey(k) \/ RemoveKey(k) \/ \E v \in Value : InsertKey(k, v)

Spec == Init /\ [][Next]_vars

-----------------------------------------------------------------------------
(* The children a traversal goes down to, chunk by chunk *)
Listed_FirstChunk(n) == chunks[n][1]
Listed(n) == Chars(chunks[n])

(* dzl_trie_traverse_node_pre_order and _post_order: the nodes told to     *)
(* func, with flags for those that have a value, for the others or both.   *)
Told(n, order, flags, max_depth) ==
  LET Own(m) == IF (IF value[m] = NULL THEN "non-leaves" ELSE "leaves") \in flags
                THEN <<m>> ELSE <<>>
      told[m \in DOMAIN chunks, depth \in 0..max_depth] ==
        LET chars == Listed(m)
            below == FlattenSeq([i \in 1..Len(chars) |-> told[Append(m, chars[i]), depth - 1]])
        IN  IF depth = 0 THEN <<>>
            ELSE IF order = "pre" THEN Own(m) \o below ELSE below \o Own(m)
  IN  told[n, max_depth]

-----------------------------------------------------------------------------
(* Properties *)

(* No chunk has room but the last ones: the code that moves to the front   *)
(* and the code that removes take this for granted, and neither the code   *)
(* that removes nor the code that appends keeps it so.                     *)
Packed ==
  \A n \in DOMAIN chunks : \A i \in DOMAIN chunks[n] :
    Len(chunks[n][i]) < Capacity(i) => \A j \in (i + 1)..Len(chunks[n]) : chunks[n][j] = <<>>

TypeOK ==
  /\ Root \in DOMAIN chunks
  /\ DOMAIN chunks \subseteq UNION {Prefixes(k) : k \in Key}
  /\ \A n \in DOMAIN chunks : /\ Len(chunks[n]) > 0
                              /\ \A i \in DOMAIN chunks[n] : Len(chunks[n][i]) <= Capacity(i)
  /\ value \in [DOMAIN chunks -> Value \cup {NULL}]
  /\ answer \in Value \cup {NULL} \cup BOOLEAN

(* "Looks up @key in @trie and returns the value associated", "%TRUE if    *)
(* @key was found", "When a value is removed from the trie, @value_destroy *)
(* will be called": every call is one of a map.                            *)
ImplementsMap == Map!Spec

(* The same for the calls made while the chunks are packed.                *)
StepsOfAMap == [][UNCHANGED vars \/ (Packed => Map!Next)]_vars

(* A traversal from any node tells each node below it once, within the     *)
(* depth it is given, those with a value being what lookups find; before   *)
(* or after all nodes below it, by the order; and every node leads to a    *)
(* value, so that removals leave no dead branches to be told.              *)
TraversalTellsAll ==
  Intact /\ Packed =>
    \A n \in DOMAIN chunks, order \in {"pre", "post"}, depth \in 1..4 :
      LET all == Told(n, order, {"leaves", "non-leaves"}, depth)
          leaves == Told(n, order, {"leaves"}, depth)
          there == {k \in Key : Answer(k) # NULL}
      IN  /\ IsInjective(all)
          /\ Range(leaves) = {k \in there : IsPrefix(n, k) /\ Len(k) < Len(n) + depth}
          /\ \A m \in Range(all) \ {Root} : \E k \in there : IsPrefix(m, k)
          /\ \A i, j \in DOMAIN all :
               IsStrictPrefix(all[i], all[j]) => (order = "pre" <=> i < j)
=============================================================================
