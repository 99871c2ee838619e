---------------------------- MODULE MCStructures ----------------------------
(* Five components that compute, side by side: trie, counters, two fuzzy   *)
(* indexes and the matching of two strings.  They share nothing, so a      *)
(* behaviour is one of one of them, `which', and the others rest.          *)
EXTENDS Integers, Sequences

CONSTANTS a, b, c, d, Value, NULL, NUL, CPU, ncpu

VARIABLES
  which,
  chunks, value, answer, destroyed,
  running, at, counters, slot, info, n_counters, reglock, values, remote, added, disturbed,
  sensitive, in_bulk_insert, keys, tables, removed,
  case_sensitive, kv_pairs, file, loaded, mapped, found,
  needle, haystack, calculated

(* Four characters below the root, so that its chain grows to three        *)
(* chunks, and two strings that go on from one of them.                    *)
Trie == INSTANCE DzlTrie
  WITH Key <- {<<a>>, <<b>>, <<c>>, <<d>>, <<a, b>>, <<a, b, a>>},
       FIRST_CHUNK_KEYS <- 2, CHUNK_KEYS <- 1

(* Three counters in two groups                                            *)
Counters == INSTANCE DzlCounter
  WITH Thread <- {"t1", "t2"}, Counter <- 1..3, None <- NULL, index <- slot,
       COUNTERS_PER_GROUP <- 2, CELLS_PER_INFO <- 1, MaxAdds <- 2

(* Lower case letters, one in upper case                                   *)
Fold == [c1 \in {"a", "b", "A", " ", "_"} |-> IF c1 = "A" THEN "a" ELSE c1]

(* Keys in which a needle is found in several ways, and in none            *)
Fuzzy == INSTANCE DzlFuzzyMutableIndex
  WITH Key <- {<<"a", "b">>, <<"A", "b">>, <<"a", "a", "b", "a", "b">>, <<"b", "a", "a">>},
       Order <- <<<<"A", "b">>, <<"a", "a", "b", "a", "b">>, <<"a", "b">>, <<"b", "a", "a">>>>,
       Needle <- {<<"a">>, <<"b", "a">>, <<"A", "b">>, <<"a", "a", "b">>},
       MaxInserts <- 3, case_sensitive <- sensitive

(* Two keys for one document, and priorities that are near or not          *)
KV(key, document, priority) == [key |-> key, document |-> document, priority |-> priority]
Index == INSTANCE DzlFuzzyIndex
  WITH Pair <- {KV(<<"A", "b">>, 1, 0), KV(<<"a", "a", "b">>, 1, 0),
                KV(<<"b", "b", "a", "b">>, 2, 1), KV(<<"A", "b">>, 3, 3)},
       Order <- <<<<"A", "b">>, <<"a", "a", "b">>, <<"b", "b", "a", "b">>>>,
       Query <- {<<"a">>, <<"A", " ", "b">>, <<"b", "b">>}, Space <- " ",
       IdRange <- 4, Priorities <- 4, MaxPairs <- 3, None <- NULL, answer <- found

(* Needles and haystacks of up to three characters, and some longer ones   *)
Text == UNION {[1..n -> {"a", "A", " "}] : n \in 0..3} \cup
        {<<"b", "a", "_", " ", "a">>, <<"a", "b", "a">>, <<"a", " ", "b">>,
         <<"_", "a", "a", "_", "b">>, <<"a", "_", "b", "_", "a">>}
Matching == INSTANCE TextMatching
  WITH Space <- " ", Break <- {" ", "_"}, Upper <- {"A"}, result <- calculated

ASSUME MCStructuresAssumption ==
  Trie!ConstantsType /\ Counters!ConstantsType /\ Index!ConstantsType

trie == <<chunks, value, answer, destroyed>>
fuzzy == <<sensitive, in_bulk_insert, keys, tables, removed>>
cursor == <<case_sensitive, kv_pairs, file, loaded, mapped, found>>
texts == <<needle, haystack, calculated>>
counts == <<running, at, counters, slot, info, n_counters, reglock, values, remote, added,
            disturbed>>
structures == <<trie, fuzzy, cursor, texts, counts>>

Structure == {"trie", "counters", "fuzzy", "index", "texts"}
EachInit ==
  /\ Trie!Init /\ Counters!Init
  /\ Fuzzy!Init /\ (which = "fuzzy" \/ sensitive)
  /\ Index!Init
  /\ Matching!Init /\ (which = "texts" \/ (needle = <<>> /\ haystack = <<>>))
StructuresInit == which \in Structure /\ EachInit

StructuresNext ==
  /\ UNCHANGED which
  /\ \/ which = "trie" /\ Trie!Next /\ UNCHANGED <<counts, fuzzy, cursor, texts>>
     \/ which = "counters" /\ Counters!Next /\ UNCHANGED <<trie, fuzzy, cursor, texts>>
     \/ which = "fuzzy" /\ Fuzzy!Next /\ UNCHANGED <<trie, counts, cursor, texts>>
     \/ which = "index" /\ Index!Next /\ UNCHANGED <<trie, counts, fuzzy, texts>>
     \/ which = "texts" /\ Matching!Next /\ UNCHANGED <<trie, counts, fuzzy, cursor>>

StructuresSpec == StructuresInit /\ [][StructuresNext]_<<which, structures>>
-----------------------------------------------------------------------------
(* Each property is asked of the component that moves.                     *)

(* "Looks up @key in @trie and returns the value associated."              *)
ImplementsMap == Trie!ImplementsMap

(* Every call on a trie whose chunks are packed is one on a map.           *)
StepsOfAMap == Trie!StepsOfAMap

(* Traversals tell what lookups find, each node once and in order.         *)
TraversalTellsAll == which = "trie" => Trie!TypeOK /\ Trie!TraversalTellsAll

(* "Adds @Count to @Identifier": no update is lost but those a thread was  *)
(* taken from its CPU in, and readings return what they passed.            *)
CountsWhatWasAdded ==
  which = "counters" => Counters!TypeOK /\ Counters!CountsWhatWasAdded

(* Besides, other processes find the counters there are, where they are.   *)
CountersAreRight == which = "counters" => Counters!TypeOK /\ Counters!CountersAreRight

(* A fuzzy search finds what has the characters it is asked for, in order. *)
SearchesFind ==
  /\ which = "fuzzy" => Fuzzy!TypeOK /\ Fuzzy!FindsSubsequences
  /\ which = "index" => Index!TypeOK /\ Index!QueryFinds


(* "copy v1 (current row) to v0 (previous row) for next iteration"         *)
(* (dzl-levenshtein.c:99): the function computes the edit distance.        *)
CountsEdits == which = "texts" => Matching!CountsEdits

(* "We want to ensure we only get the highest scoring item for a document" *)
OncePerDocument == which = "index" => Index!OncePerDocument
=============================================================================
