---------------------------- MODULE TextMatching ----------------------------
(***************************************************************************)
(* search/dzl-levenshtein.c and search/dzl-pattern-spec.c: two functions   *)
(* of a needle and a haystack, each beside a definition of what it counts  *)
(* or finds.  A behaviour is a call of one of them.                        *)
(***************************************************************************)
EXTENDS Integers, Sequences, SequencesExt, FiniteSetsExt

CONSTANTS
  Text,                 \* needles and haystacks, sequences of characters
  Space, Break,         \* ' ', and the characters is_word_break() knows
  Upper, Fold           \* upper case characters, and what they fold to

VARIABLES needle, haystack, result

vars == <<needle, haystack, result>>

Smallest(a, b) == IF a < b THEN a ELSE b
Same(a, b, case_sensitive) == IF case_sensitive THEN a = b ELSE Fold[a] = Fold[b]
-----------------------------------------------------------------------------
(* dzl_levenshtein.  A row is indexed from 0.                              *)

(* The row of the i-th character of the needle from the row before         *)
RowAfter(v0, s, t, i) ==
  LET v1[j \in 0..Len(t)] ==
        IF j = 0 THEN i
        ELSE Smallest(v1[j - 1] + 1,
                      Smallest(v0[j] + 1, v0[j - 1] + (IF s[i] = t[j] THEN 0 ELSE 1)))
  IN  v1

(* memcpy copies as many cells as the haystack has characters: the last    *)
(* cell of v0 stays as it was.                                             *)
CopiedRow(v0, v1, n) == [j \in 0..n |-> IF j < n THEN v1[j] ELSE v0[j]]

Levenshtein(s, t) ==
  LET v0[i \in 0..Len(s)] ==
        IF i = 0 THEN [j \in 0..Len(t) |-> j]
        ELSE CopiedRow(v0[i - 1], RowAfter(v0[i - 1], s, t, i), Len(t))
  IN  CASE s = t -> 0
        [] s = <<>> /\ t # <<>> -> Len(t)
        [] s # <<>> /\ t = <<>> -> Len(s)
        [] OTHER -> RowAfter(v0[Len(s) - 1], s, t, Len(s))[Len(t)]

(* The edit distance, by its recurrence                                    *)
Distance(s, t) ==
  LET edits[i \in 0..Len(s), j \in 0..Len(t)] ==
        IF i = 0 \/ j = 0 THEN i + j
        ELSE Smallest(edits[i - 1, j - 1] + (IF s[i] = t[j] THEN 0 ELSE 1),
                      Smallest(edits[i - 1, j], edits[i, j - 1]) + 1)
  IN  edits[Len(s), Len(t)]
-----------------------------------------------------------------------------
(* dzl_pattern_spec_new *)

(* g_strsplit at each space, empty parts among them                        *)
Parts(s) ==
  LET cuts == {0, Len(s) + 1} \cup {i \in DOMAIN s : s[i] = Space}
      NextCut(i) == Min({j \in cuts : j > i})
      from == SetToSortSeq(cuts \ {Len(s) + 1}, <)
  IN  [n \in DOMAIN from |-> SubSeq(s, from[n] + 1, NextCut(from[n]) - 1)]
CaseSensitive(s) == \E i \in DOMAIN s : s[i] \in Upper

(* dzl_pattern_spec_match.  A place in the haystack is how many characters *)
(* are before it.                                                          *)

(* strstr and strcasestr find the part there                               *)
Occurs(part, place, case_sensitive) ==
  /\ place + Len(part) <= Len(haystack)
  /\ \A i \in DOMAIN part : Same(haystack[place + i], part[i], case_sensitive)

NextWordStart(place) ==
  LET breaks == {i \in place..(Len(haystack) - 1) : haystack[i + 1] \in Break}
      words == {i \in place..(Len(haystack) - 1) :
                  haystack[i + 1] \notin Break /\ \E b \in breaks : b < i}
  IN  IF words = {} THEN Len(haystack) ELSE Min(words)

(* Each part from the place on, the first there is                         *)
Match ==
  LET parts == Parts(needle)
      Places(part, place) ==
        {p \in place..Len(haystack) : Occurs(part, p, CaseSensitive(needle))}
      (* the place after n parts, or -1 *)
      at[n \in 0..Len(parts)] ==
        IF n = 0 THEN 0
        ELSE LET found == Places(parts[n], at[n - 1])
             IN  CASE at[n - 1] = -1 -> -1
                   [] at[n - 1] # -1 /\ parts[n] = <<>> -> at[n - 1]
                   [] at[n - 1] # -1 /\ parts[n] # <<>> /\ found = {} -> -1
                   [] OTHER -> IF n = Len(parts) THEN 0
                               ELSE NextWordStart(Min(found) + Len(parts[n]))
  IN  at[Len(parts)] # -1
-----------------------------------------------------------------------------
Init == needle \in Text /\ haystack \in Text /\ result = {}

Compute ==
  /\ result = {}
  /\ result' = {<<"distance", Levenshtein(needle, haystack)>>, <<"match", Match>>}
  /\ UNCHANGED <<needle, haystack>>

Next == Compute

Spec == Init /\ [][Next]_vars
-----------------------------------------------------------------------------
(* Properties *)

(* The number that dzl_levenshtein returns is the edit distance.           *)
CountsEdits ==
  \A r \in result : r[1] = "distance" => r[2] = Distance(needle, haystack)

(* "It tries to match word boundaries, but with matching partial words up  *)
(* to those boundaries": taking each part where it first occurs finds a    *)
(* match whenever there is a choice of places in order, with the start of  *)
(* a word between the end of a part and the next one.                      *)
WordStart(p) == p \in 1..(Len(haystack) - 1) /\ haystack[p] \in Break /\ haystack[p + 1] \notin Break
MatchesInOrder ==
  LET parts == SelectSeq(Parts(needle), LAMBDA part : part # <<>>)
      choice == {p \in [DOMAIN parts -> 0..Len(haystack)] :
                   \A n \in DOMAIN parts :
                     /\ Occurs(parts[n], p[n], CaseSensitive(needle))
                     /\ n > 1 => \E w \in (p[n - 1] + Len(parts[n - 1]))..p[n] : WordStart(w)}
  IN  <<"match", choice # {}>> \in result \/ result = {}
=============================================================================
