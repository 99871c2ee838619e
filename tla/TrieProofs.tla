----------------------------- MODULE TrieProofs -----------------------------
(***************************************************************************)
(* Proofs about DzlTrie, for every set of keys and chunks of every size:   *)
(* each call on a trie whose chunks are packed is the call on a map.       *)
(*                                                                         *)
(* The chains of chunks are reasoned about as sets of characters: what the *)
(* code moves about in them is still there, unless a slot that is not in   *)
(* use is counted, which puts NUL in the chain.  What is left is a tree:   *)
(* every node but the root has its last character in the chain of the node *)
(* above it, and every character in a chain leads to a node.               *)
(***************************************************************************)
EXTENDS DzlTrie, SequenceTheorems, WellFoundedInduction, TLAPS

-----------------------------------------------------------------------------
(* The last number before P fails.                                         *)
LEMMA FirstFailure ==
  ASSUME NEW lo \in Nat, NEW hi \in Nat, lo <= hi, NEW P
  PROVE  \E n \in lo..hi : (\A m \in lo..(n - 1) : m \in P) /\ (n < hi => n \notin P)
<1> DEFINE lt == OpToRel(<, Nat)
           bad == {n \in lo..hi : n = hi \/ n \notin P}
<1>1. IsWellFoundedOn(lt, Nat)
  BY NatLessThanWellFounded DEF OpToRel
<1>2. \A i, j \in Nat : j < i => <<j, i>> \in lt
  BY DEF OpToRel
<1> HIDE DEF lt
<1>3. bad \subseteq Nat /\ hi \in bad
  OBVIOUS
<1> HIDE DEF bad
<1>4. PICK n \in bad : \A j \in bad : ~(<<j, n>> \in lt)
  BY <1>1, <1>3, WFMin
<1>5. n \in lo..hi /\ (n < hi => n \notin P)
  BY <1>4 DEF bad
<1>6. ASSUME NEW m \in lo..(n - 1) PROVE m \in P
  <2>1. m \in lo..hi /\ m < n /\ m # hi /\ m \in Nat /\ n \in Nat
    BY <1>5
  <2>2. m \notin bad
    BY <1>2, <1>4, <2>1
  <2>3. QED BY <2>1, <2>2 DEF bad
<1>7. QED BY <1>5, <1>6

-----------------------------------------------------------------------------
(* Strings and their prefixes.                                             *)
LEMMA PrefixIs ==
  ASSUME NEW T, NEW k \in Seq(T), NEW n \in 0..Len(k)
  PROVE  /\ Prefix(k, n) \in Seq(T) /\ Len(Prefix(k, n)) = n
         /\ \A i \in 1..n : Prefix(k, n)[i] = k[i]
<1>1. \A i \in 1..n : k[i] \in T
  BY LenProperties
<1>2. QED BY <1>1, SubSeqProperties, LenProperties DEF Prefix

LEMMA SamePrefix ==
  ASSUME NEW T, NEW s \in Seq(T), NEW k \in Seq(T), Len(s) <= Len(k),
         \A i \in 1..Len(s) : s[i] = k[i]
  PROVE  s = Prefix(k, Len(s))
<1>1. Len(s) \in 0..Len(k)
  BY LenProperties
<1>2. Prefix(k, Len(s)) \in Seq(T) /\ Len(Prefix(k, Len(s))) = Len(s)
      /\ \A i \in 1..Len(s) : Prefix(k, Len(s))[i] = k[i]
  BY <1>1, PrefixIs
<1> DEFINE p == Prefix(k, Len(s))
<1> HIDE DEF p
<1>3. p \in Seq(T) /\ Len(p) = Len(s) /\ \A i \in 1..Len(s) : p[i] = s[i]
  BY <1>2 DEF p
<1>4. p = s
  BY <1>3, SeqEqual
<1>5. QED BY <1>4 DEF p

LEMMA PrefixEnds ==
  ASSUME NEW T, NEW k \in Seq(T)
  PROVE  Prefix(k, Len(k)) = k /\ Prefix(k, 0) = Root
<1>1. Prefix(k, Len(k)) = k
  BY SamePrefix, LenProperties
<1>2. 0 \in 0..Len(k)
  BY LenProperties
<1>3. Prefix(k, 0) \in Seq(T) /\ Len(Prefix(k, 0)) = 0
  BY <1>2, PrefixIs
<1>4. QED BY <1>1, <1>3, EmptySeq DEF Root

LEMMA PrefixOfPrefix ==
  ASSUME NEW T, NEW k \in Seq(T), NEW n \in 0..Len(k), NEW m \in 0..n
  PROVE  Prefix(Prefix(k, n), m) = Prefix(k, m)
<1>1. m \in 0..Len(k) /\ Len(k) \in Nat
  BY LenProperties
<1>2. Prefix(k, n) \in Seq(T) /\ Len(Prefix(k, n)) = n /\ \A i \in 1..n : Prefix(k, n)[i] = k[i]
  BY PrefixIs
<1>3. Prefix(k, m) \in Seq(T) /\ Len(Prefix(k, m)) = m /\ \A i \in 1..m : Prefix(k, m)[i] = k[i]
  BY <1>1, PrefixIs
<1> DEFINE p == Prefix(k, n)
           q == Prefix(k, m)
<1> HIDE DEF p, q
<1>4. q \in Seq(T) /\ p \in Seq(T) /\ Len(q) <= Len(p) /\ Len(q) = m /\ \A i \in 1..Len(q) : q[i] = p[i]
  BY <1>1, <1>2, <1>3 DEF p, q
<1>5. q = Prefix(p, m)
  BY <1>4, SamePrefix
<1>6. QED BY <1>5 DEF p, q

LEMMA AppendIs ==
  ASSUME NEW T, NEW s \in Seq(T), NEW c \in T
  PROVE  /\ Append(s, c) \in Seq(T) /\ Len(Append(s, c)) = Len(s) + 1
         /\ Append(s, c) # Root
         /\ Front(Append(s, c)) = s /\ Last(Append(s, c)) = c
<1> DEFINE t == Append(s, c)
<1>1. /\ t \in Seq(T) /\ Len(t) = Len(s) + 1
      /\ \A i \in 1..Len(s) : t[i] = s[i]
      /\ t[Len(s) + 1] = c
  BY AppendProperties
<1> HIDE DEF t
<1>2. Len(s) \in Nat /\ Len(s) <= Len(t) /\ Len(t) - 1 = Len(s)
  BY <1>1, LenProperties
<1>3. s = Prefix(t, Len(s))
  BY <1>1, <1>2, SamePrefix
<1>4. Front(t) = s /\ Last(t) = c
  BY <1>1, <1>2, <1>3 DEF Front, Last, Prefix
<1>5. t # Root
  BY <1>1, <1>2 DEF Root
<1>6. QED BY <1>1, <1>4, <1>5 DEF t

LEMMA FrontIs ==
  ASSUME NEW T, NEW s \in Seq(T), s # Root
  PROVE  /\ Len(s) > 0 /\ Front(s) \in Seq(T) /\ Len(Front(s)) = Len(s) - 1 /\ Last(s) \in T
         /\ Front(s) = Prefix(s, Len(s) - 1)
         /\ Append(Front(s), Last(s)) = s
<1>1. PICK t \in Seq(T), c \in T : s = Append(t, c)
  BY SequenceEmptyOrAppend DEF Root
<1>2. Front(s) = t /\ Last(s) = c /\ Len(s) = Len(t) + 1
  BY <1>1, AppendIs
<1>3. Len(t) \in Nat /\ Len(t) = Len(s) - 1
  BY <1>2, LenProperties
<1>4. QED BY <1>1, <1>2, <1>3 DEF Front, Prefix

LEMMA PrefixNext ==
  ASSUME NEW T, NEW k \in Seq(T), NEW n \in 0..(Len(k) - 1)
  PROVE  /\ k[n + 1] \in T
         /\ Append(Prefix(k, n), k[n + 1]) = Prefix(k, n + 1)
         /\ Prefix(k, n + 1) # Root
         /\ Front(Prefix(k, n + 1)) = Prefix(k, n) /\ Last(Prefix(k, n + 1)) = k[n + 1]
<1>1. /\ Len(k) \in Nat /\ n \in 0..Len(k) /\ n + 1 \in 0..Len(k) /\ n + 1 \in 1..Len(k)
      /\ n \in 0..(n + 1) /\ (n + 1) - 1 = n
  BY LenProperties
<1> DEFINE p == Prefix(k, n + 1)
           q == Prefix(k, n)
<1>2. p \in Seq(T) /\ Len(p) = n + 1 /\ \A i \in 1..(n + 1) : p[i] = k[i]
  BY <1>1, PrefixIs
<1>3. q = Prefix(p, n)
  BY <1>1, PrefixOfPrefix
<1> HIDE DEF p, q
<1>4. p # Root
  BY <1>1, <1>2 DEF Root
<1>5. Front(p) = q /\ Append(Front(p), Last(p)) = p /\ Last(p) \in T
  BY <1>1, <1>2, <1>3, <1>4, FrontIs
<1>6. Last(p) = k[n + 1]
  <2>1. n + 1 \in 1..(n + 1)
    BY <1>1
  <2>2. QED BY <1>2, <2>1 DEF Last
<1>7. QED BY <1>4, <1>5, <1>6 DEF p, q

LEMMA PrefixesAre ==
  ASSUME NEW T, NEW k \in Seq(T)
  PROVE  /\ Prefixes(k) = {Prefix(k, n) : n \in 0..Len(k)}
         /\ \A m \in Prefixes(k) : Len(m) \in 0..Len(k) /\ m = Prefix(k, Len(m))
<1>1. Prefixes(k) = {Prefix(k, n) : n \in 0..Len(k)}
  BY DEF Prefixes, Prefix
<1>2. ASSUME NEW m \in Prefixes(k) PROVE Len(m) \in 0..Len(k) /\ m = Prefix(k, Len(m))
  <2>1. PICK n \in 0..Len(k) : m = Prefix(k, n)
    BY <1>1
  <2>2. Len(m) = n
    BY <2>1, PrefixIs
  <2>3. QED BY <2>1, <2>2
<1>3. QED BY <1>1, <1>2

LEMMA IsPrefixIs ==
  ASSUME NEW T, NEW s \in Seq(T), NEW t \in Seq(T)
  PROVE  IsPrefix(s, t) <=> Len(s) <= Len(t) /\ s = Prefix(t, Len(s))
<1>1. Prefix(s, Len(s)) = s
  BY PrefixEnds
<1>2. QED BY <1>1 DEF IsPrefix, Prefix

-----------------------------------------------------------------------------
(* Chains of chunks.                                                       *)
Symbol == Char \cup {NUL}
Chained(chain) == chain \in Seq(Seq(Symbol)) /\ Len(chain) > 0
Spot(chain, i, j) == i \in 1..Len(chain) /\ j \in 1..Len(chain[i])
Holds(chain, c) == \E i, j : Spot(chain, i, j) /\ chain[i][j] = c
Distinct(chain) ==
  \A i, j, p, q : Spot(chain, i, j) /\ Spot(chain, p, q) /\ chain[i][j] = chain[p][q] => i = p /\ j = q
Fits(chain) == \A i \in 1..Len(chain) : Len(chain[i]) <= Capacity(i)
PackedChain(chain) ==
  \A i \in DOMAIN chain : Len(chain[i]) < Capacity(i) => \A j \in (i + 1)..Len(chain) : chain[j] = <<>>

LEMMA ChainIs ==
  ASSUME NEW chain, Chained(chain)
  PROVE  /\ Len(chain) \in Nat /\ DOMAIN chain = 1..Len(chain)
         /\ \A i \in 1..Len(chain) : /\ chain[i] \in Seq(Symbol) /\ Len(chain[i]) \in Nat
                                     /\ DOMAIN chain[i] = 1..Len(chain[i])
                                     /\ \A j \in 1..Len(chain[i]) : chain[i][j] \in Symbol
<1>1. Len(chain) \in Nat /\ DOMAIN chain = 1..Len(chain) /\ \A i \in 1..Len(chain) : chain[i] \in Seq(Symbol)
  BY LenProperties DEF Chained
<1>2. ASSUME NEW i \in 1..Len(chain)
      PROVE  /\ chain[i] \in Seq(Symbol) /\ Len(chain[i]) \in Nat /\ DOMAIN chain[i] = 1..Len(chain[i])
             /\ \A j \in 1..Len(chain[i]) : chain[i][j] \in Symbol
  BY <1>1, LenProperties
<1>3. QED BY <1>1, <1>2

LEMMA HasIs ==
  ASSUME NEW chain, Chained(chain), NEW c
  PROVE  Has(chain, c) <=> Holds(chain, c)
BY ChainIs DEF Has, Holds, Spot

LEMMA HasOne ==
  ASSUME NEW chunk, NEW c, chunk \in Seq(Symbol)
  PROVE  Has(<<chunk>>, c) <=> \E j \in 1..Len(chunk) : chunk[j] = c
<1>1. DOMAIN chunk = 1..Len(chunk)
  BY LenProperties
<1>2. DOMAIN <<chunk>> = {1} /\ <<chunk>>[1] = chunk
  OBVIOUS
<1>3. QED BY <1>1, <1>2 DEF Has

(* A chain of which the chunks r are is told by the chunks.                *)
LEMMA ChainFrom ==
  ASSUME NEW n \in Nat, n > 0, NEW r, r = [i \in 1..n |-> r[i]], \A i \in 1..n : r[i] \in Seq(Symbol)
  PROVE  Chained(r) /\ Len(r) = n
<1>1. r \in [1..n -> Seq(Symbol)]
  OBVIOUS
<1>2. r \in Seq(Seq(Symbol))
  BY <1>1, IsASeq
<1>3. DOMAIN r = 1..n /\ DOMAIN r = 1..Len(r) /\ Len(r) \in Nat
  BY <1>1, <1>2, LenProperties
<1>4. Len(r) = n
  BY <1>3
<1>5. QED BY <1>2, <1>4 DEF Chained

LEMMA ChunkFrom ==
  ASSUME NEW n \in Nat, NEW s, s = [i \in 1..n |-> s[i]], \A i \in 1..n : s[i] \in Symbol
  PROVE  s \in Seq(Symbol) /\ Len(s) = n
<1>1. s \in [1..n -> Symbol]
  OBVIOUS
<1>2. s \in Seq(Symbol)
  BY <1>1, IsASeq
<1>3. DOMAIN s = 1..n /\ DOMAIN s = 1..Len(s) /\ Len(s) \in Nat
  BY <1>1, <1>2, LenProperties
<1>4. QED BY <1>2, <1>3

(* Shape: the chunks of r are as long as those of chain.                   *)
SameShape(r, chain) == Len(r) = Len(chain) /\ \A i \in 1..Len(chain) : Len(r[i]) = Len(chain[i])

(* What MoveToFront puts into each slot.                                   *)
FrontMoved(r, chain, i, j) ==
  /\ Chained(r) /\ SameShape(r, chain)
  /\ \A p, q : Spot(chain, p, q) =>
       r[p][q] = CASE p = 1 /\ q = 1 -> chain[i][j]
                   [] p = 1 /\ q > 1 -> chain[1][q - 1]
                   [] p = i /\ q = j ->
                        (IF Len(chain[1]) = FIRST_CHUNK_KEYS THEN chain[1][Len(chain[1])] ELSE NUL)
                   [] OTHER -> chain[p][q]

LEMMA MoveToFrontIs ==
  ASSUME ConstantsType, NEW chain, Chained(chain), NEW i, NEW j, Spot(chain, i, j), i # 1
  PROVE  FrontMoved(MoveToFront(chain, i, j), chain, i, j)
<1> DEFINE n == Len(chain)
           c == chain[i][j]
           n1 == Len(chain[1])
           turned == SubSeq(<<c>> \o chain[1], 1, n1)
           filler == IF n1 = FIRST_CHUNK_KEYS THEN Last(chain[1]) ELSE NUL
           patched == [chain[i] EXCEPT ![j] = filler]
           r == MoveToFront(chain, i, j)
<1>1. /\ n \in Nat /\ n > 0 /\ 1 \in 1..n /\ i \in 1..n /\ n1 \in Nat /\ j \in 1..Len(chain[i])
      /\ DOMAIN chain = 1..n
      /\ \A p \in 1..n : /\ chain[p] \in Seq(Symbol) /\ Len(chain[p]) \in Nat
                         /\ DOMAIN chain[p] = 1..Len(chain[p])
                         /\ \A q \in 1..Len(chain[p]) : chain[p][q] \in Symbol
  BY ChainIs DEF Spot, Chained
<1>2. c \in Symbol
  BY <1>1
<1>3. /\ turned \in Seq(Symbol) /\ Len(turned) = n1
      /\ \A q \in 1..n1 : turned[q] = IF q = 1 THEN c ELSE chain[1][q - 1]
  <2> DEFINE both == <<c>> \o chain[1]
  <2>1. <<c>> \in Seq(Symbol) /\ Len(<<c>>) = 1 /\ <<c>>[1] = c /\ chain[1] \in Seq(Symbol)
    BY <1>1, <1>2
  <2>2. /\ both \in Seq(Symbol) /\ Len(both) = 1 + n1
        /\ \A q \in 1..(1 + n1) : both[q] = IF q <= 1 THEN <<c>>[q] ELSE chain[1][q - 1]
    BY <2>1, ConcatProperties
  <2> HIDE DEF both
  <2>3. \A q \in 1..n1 : both[q] \in Symbol
    BY <1>1, <2>2, LenProperties
  <2>4. turned \in Seq(Symbol) /\ Len(turned) = n1 /\ \A q \in 1..n1 : turned[q] = both[q]
    BY <1>1, <2>2, <2>3, SubSeqProperties DEF both
  <2> HIDE DEF turned
  <2>5. \A q \in 1..n1 : both[q] = IF q = 1 THEN c ELSE chain[1][q - 1]
    BY <1>1, <2>1, <2>2
  <2>6. QED BY <2>4, <2>5
<1>4. filler \in Symbol /\ filler = IF n1 = FIRST_CHUNK_KEYS THEN chain[1][n1] ELSE NUL
  <2>1. n1 = FIRST_CHUNK_KEYS => n1 \in 1..n1
    BY <1>1 DEF ConstantsType
  <2>2. QED BY <1>1, <2>1 DEF Last, Symbol
<1>5. /\ patched \in Seq(Symbol) /\ Len(patched) = Len(chain[i])
      /\ \A q \in 1..Len(chain[i]) : patched[q] = IF q = j THEN filler ELSE chain[i][q]
  <2> HIDE DEF filler
  <2>1. patched = [q \in 1..Len(chain[i]) |-> patched[q]]
    BY <1>1
  <2>2. \A q \in 1..Len(chain[i]) : patched[q] = IF q = j THEN filler ELSE chain[i][q]
    BY <1>1
  <2>3. \A q \in 1..Len(chain[i]) : patched[q] \in Symbol
    BY <1>1, <1>4, <2>2
  <2> HIDE DEF patched
  <2>4. patched \in Seq(Symbol) /\ Len(patched) = Len(chain[i])
    BY <1>1, <2>1, <2>3, ChunkFrom
  <2>5. QED BY <2>2, <2>4
<1>6. r = [p \in 1..n |-> IF p = i THEN patched ELSE IF p = 1 THEN turned ELSE chain[p]]
  BY <1>1 DEF MoveToFront
<1> HIDE DEF turned, filler, patched, r, c, n1
<1>7. \A p \in 1..n : r[p] = IF p = i THEN patched ELSE IF p = 1 THEN turned ELSE chain[p]
  BY <1>6
<1>8. r = [p \in 1..n |-> r[p]]
  BY <1>6
<1>9. \A p \in 1..n : r[p] \in Seq(Symbol) /\ Len(r[p]) = Len(chain[p])
  BY <1>1, <1>3, <1>5, <1>7 DEF n1
<1>10. Chained(r) /\ Len(r) = n
  BY <1>1, <1>8, <1>9, ChainFrom
<1>11. ASSUME NEW p, NEW q, Spot(chain, p, q)
       PROVE  r[p][q] = CASE p = 1 /\ q = 1 -> c
                          [] p = 1 /\ q > 1 -> chain[1][q - 1]
                          [] p = i /\ q = j -> (IF n1 = FIRST_CHUNK_KEYS THEN chain[1][n1] ELSE NUL)
                          [] OTHER -> chain[p][q]
  <2>1. p \in 1..n /\ q \in 1..Len(chain[p])
    BY <1>11 DEF Spot
  <2>2. CASE p = 1
    <3>1. r[p][q] = turned[q] /\ q \in 1..n1
      BY <1>7, <2>1, <2>2 DEF n1
    <3>2. r[p][q] = IF q = 1 THEN c ELSE chain[1][q - 1]
      BY <1>3, <3>1
    <3>3. QED BY <2>2, <3>1, <3>2
  <2>3. CASE p # 1 /\ p = i
    <3>1. r[p][q] = IF q = j THEN filler ELSE chain[i][q]
      BY <1>5, <1>7, <2>1, <2>3
    <3>2. QED BY <1>4, <2>3, <3>1
  <2>4. CASE p # 1 /\ p # i
    <3>1. r[p][q] = chain[p][q]
      BY <1>7, <2>1, <2>4
    <3>2. QED BY <2>4, <3>1
  <2>5. QED BY <2>2, <2>3, <2>4
<1>12. QED BY <1>9, <1>10, <1>11 DEF FrontMoved, SameShape, r, c, n1

(* The characters of r are those of chain, in chunks as long.              *)
Same(r, chain) ==
  /\ Chained(r) /\ SameShape(r, chain) /\ Distinct(r)
  /\ \A c : Holds(r, c) <=> Holds(chain, c)

LEMMA FrontMovedShort ==
  ASSUME NEW chain, NEW r, NEW i, NEW j, Spot(chain, i, j), i # 1, FrontMoved(r, chain, i, j),
         Len(chain[1]) # FIRST_CHUNK_KEYS
  PROVE  Holds(r, NUL)
<1>1. Spot(r, i, j)
  BY DEF FrontMoved, SameShape, Spot
<1>2. r[i][j] = NUL
  BY DEF FrontMoved
<1>3. QED BY <1>1, <1>2 DEF Holds

LEMMA FrontMovedFull ==
  ASSUME ConstantsType, NEW chain, Chained(chain), Distinct(chain), NEW i, NEW j, Spot(chain, i, j), i # 1,
         NEW r, FrontMoved(r, chain, i, j), Len(chain[1]) = FIRST_CHUNK_KEYS
  PROVE  Same(r, chain)
<1> DEFINE last == Len(chain[1])
           A(p, q) == IF p = 1 /\ q = 1 THEN i ELSE IF p = i /\ q = j THEN 1 ELSE p
           B(p, q) == IF p = 1 /\ q = 1 THEN j ELSE IF p = 1 THEN q - 1
                      ELSE IF p = i /\ q = j THEN last ELSE q
<1>1. /\ Len(chain) \in Nat /\ Len(chain) > 0 /\ last \in Nat /\ last > 1
      /\ \A p \in 1..Len(chain) : Len(chain[p]) \in Nat
      /\ i \in 1..Len(chain) /\ j \in 1..Len(chain[i]) /\ Spot(chain, 1, last) /\ Spot(chain, 1, 1)
  BY ChainIs DEF Spot, Chained, ConstantsType
<1>2. \A p, q : Spot(chain, p, q) => p \in 1..Len(chain) /\ q \in Nat /\ 1 <= q /\ q <= Len(chain[p])
  BY <1>1 DEF Spot
<1>3. \A p, q : Spot(r, p, q) <=> Spot(chain, p, q)
  BY DEF FrontMoved, SameShape, Spot
<1>4. ASSUME NEW p, NEW q, Spot(chain, p, q)
      PROVE  Spot(chain, A(p, q), B(p, q)) /\ r[p][q] = chain[A(p, q)][B(p, q)]
  <2>1. p \in 1..Len(chain) /\ q \in Nat /\ 1 <= q /\ q <= Len(chain[p])
    BY <1>2, <1>4
  <2>2. CASE p = 1 /\ q = 1
    <3>1. r[p][q] = chain[i][j]
      BY <1>4, <2>2 DEF FrontMoved
    <3>2. QED BY <2>2, <3>1
  <2>3. CASE p = 1 /\ q # 1
    <3>1. r[p][q] = chain[1][q - 1] /\ Spot(chain, 1, q - 1) /\ A(p, q) = 1 /\ B(p, q) = q - 1
      BY <1>4, <2>1, <2>3 DEF FrontMoved, Spot
    <3>2. QED BY <3>1
  <2>4. CASE p = i /\ q = j
    <3>1. r[p][q] = chain[1][last]
      BY <1>4, <2>4 DEF FrontMoved
    <3>2. QED BY <1>1, <2>4, <3>1
  <2>5. CASE p # 1 /\ ~(p = i /\ q = j)
    <3>1. r[p][q] = chain[p][q]
      BY <1>4, <2>5 DEF FrontMoved
    <3>2. QED BY <1>4, <2>5, <3>1
  <2>6. QED BY <2>2, <2>3, <2>4, <2>5
<1>5. ASSUME NEW p, NEW q, NEW u, NEW v, Spot(chain, p, q), Spot(chain, u, v),
             A(p, q) = A(u, v), B(p, q) = B(u, v)
      PROVE  p = u /\ q = v
  <2>1. q \in Nat /\ 1 <= q /\ q <= Len(chain[p]) /\ v \in Nat /\ 1 <= v /\ v <= Len(chain[u]) /\ j \in Nat
    BY <1>1, <1>2, <1>5
  <2>2. CASE p = 1 /\ u = 1
    BY <1>1, <1>5, <2>1, <2>2
  <2>3. CASE p = 1 /\ u # 1
    <3>1. CASE q = 1
      <4>1. A(p, q) = i /\ B(p, q) = j
        BY <2>3, <3>1
      <4>2. CASE u = i /\ v = j
        <5>1. A(u, v) = 1
          BY <2>3, <4>2
        <5>2. QED BY <1>5, <4>1, <5>1
      <4>3. CASE ~(u = i /\ v = j)
        <5>1. A(u, v) = u /\ B(u, v) = v
          BY <2>3, <4>3
        <5>2. QED BY <1>5, <4>1, <4>3, <5>1
      <4>4. QED BY <4>2, <4>3
    <3>2. CASE q # 1
      <4>1. A(p, q) = 1 /\ B(p, q) = q - 1 /\ q - 1 # last
        BY <1>1, <2>1, <2>3, <3>2
      <4>2. u = i /\ v = j /\ B(u, v) = last
        BY <1>5, <2>3, <4>1
      <4>3. QED BY <1>5, <4>1, <4>2
    <3>3. QED BY <3>1, <3>2
  <2>4. CASE u = 1 /\ p # 1
    <3>1. CASE v = 1
      <4>1. A(u, v) = i /\ B(u, v) = j
        BY <2>4, <3>1
      <4>2. CASE p = i /\ q = j
        <5>1. A(p, q) = 1
          BY <2>4, <4>2
        <5>2. QED BY <1>5, <4>1, <5>1
      <4>3. CASE ~(p = i /\ q = j)
        <5>1. A(p, q) = p /\ B(p, q) = q
          BY <2>4, <4>3
        <5>2. QED BY <1>5, <4>1, <4>3, <5>1
      <4>4. QED BY <4>2, <4>3
    <3>2. CASE v # 1
      <4>1. A(u, v) = 1 /\ B(u, v) = v - 1 /\ v - 1 # last
        BY <1>1, <2>1, <2>4, <3>2
      <4>2. p = i /\ q = j /\ B(p, q) = last
        BY <1>5, <2>4, <4>1
      <4>3. QED BY <1>5, <4>1, <4>2
    <3>3. QED BY <3>1, <3>2
  <2>5. CASE p # 1 /\ u # 1
    BY <1>1, <1>5, <2>1, <2>5
  <2>6. QED BY <2>2, <2>3, <2>4, <2>5
<1>6. ASSUME NEW a, NEW b, Spot(chain, a, b)
      PROVE  \E p, q : Spot(chain, p, q) /\ A(p, q) = a /\ B(p, q) = b
  <2>1. a \in 1..Len(chain) /\ b \in Nat /\ 1 <= b /\ b <= Len(chain[a])
    BY <1>2, <1>6
  <2>2. CASE a = i /\ b = j
    <3>1. A(1, 1) = i /\ B(1, 1) = j
      OBVIOUS
    <3>2. QED BY <1>1, <2>2, <3>1
  <2>3. CASE a = 1 /\ b = last
    <3>1. A(i, j) = 1 /\ B(i, j) = last
      OBVIOUS
    <3>2. QED BY <2>3, <3>1
  <2>4. CASE a = 1 /\ b # last
    <3>1. Spot(chain, 1, b + 1) /\ A(1, b + 1) = 1 /\ B(1, b + 1) = b
      BY <1>1, <2>1, <2>4 DEF Spot
    <3>2. QED BY <2>4, <3>1
  <2>5. CASE a # 1 /\ ~(a = i /\ b = j)
    <3>1. A(a, b) = a /\ B(a, b) = b
      BY <2>5
    <3>2. QED BY <1>6, <3>1
  <2>6. QED BY <2>2, <2>3, <2>4, <2>5
<1> HIDE DEF A, B
<1>7. Distinct(r)
  <2> SUFFICES ASSUME NEW p, NEW q, NEW u, NEW v, Spot(r, p, q), Spot(r, u, v), r[p][q] = r[u][v]
               PROVE  p = u /\ q = v
    BY DEF Distinct
  <2>1. Spot(chain, p, q) /\ Spot(chain, u, v)
    BY <1>3
  <2>2. /\ Spot(chain, A(p, q), B(p, q)) /\ Spot(chain, A(u, v), B(u, v))
        /\ chain[A(p, q)][B(p, q)] = chain[A(u, v)][B(u, v)]
    BY <1>4, <2>1
  <2>3. A(p, q) = A(u, v) /\ B(p, q) = B(u, v)
    BY <2>2 DEF Distinct
  <2>4. QED BY <1>5, <2>1, <2>3
<1>8. ASSUME NEW c PROVE Holds(r, c) <=> Holds(chain, c)
  <2>1. ASSUME Holds(r, c) PROVE Holds(chain, c)
    <3>1. PICK p, q : Spot(r, p, q) /\ r[p][q] = c
      BY <2>1 DEF Holds
    <3>2. Spot(chain, A(p, q), B(p, q)) /\ chain[A(p, q)][B(p, q)] = c
      BY <1>3, <1>4, <3>1
    <3>3. QED BY <3>2 DEF Holds
  <2>2. ASSUME Holds(chain, c) PROVE Holds(r, c)
    <3>1. PICK a, b : Spot(chain, a, b) /\ chain[a][b] = c
      BY <2>2 DEF Holds
    <3>2. PICK p, q : Spot(chain, p, q) /\ A(p, q) = a /\ B(p, q) = b
      BY <1>6, <3>1
    <3>3. Spot(r, p, q) /\ r[p][q] = c
      BY <1>3, <1>4, <3>1, <3>2
    <3>4. QED BY <3>3 DEF Holds
  <2>3. QED BY <2>1, <2>2
<1>9. QED BY <1>7, <1>8 DEF Same, FrontMoved

LEMMA SameSelf == ASSUME NEW chain, Chained(chain), Distinct(chain) PROVE Same(chain, chain)
  BY DEF Same, SameShape

(* A search leaves the characters of a chain as they are, unless it counts *)
(* a slot that is not in use.                                              *)
LEMMA FoundIs ==
  ASSUME ConstantsType, NEW chain, Chained(chain), Distinct(chain), Fits(chain), NEW c, Holds(chain, c)
  PROVE  /\ Chained(Found(chain, c)) /\ SameShape(Found(chain, c), chain)
         /\ Holds(Found(chain, c), NUL) \/ Same(Found(chain, c), chain)
         /\ PackedChain(chain) => Same(Found(chain, c), chain)
<1>1. /\ Len(chain) \in Nat /\ Len(chain) > 0 /\ 1 \in 1..Len(chain) /\ DOMAIN chain = 1..Len(chain)
      /\ \A p \in 1..Len(chain) : chain[p] \in Seq(Symbol) /\ Len(chain[p]) \in Nat
                                  /\ DOMAIN chain[p] = 1..Len(chain[p])
  BY ChainIs DEF Chained
<1>2. CASE Has(<<chain[1]>>, c)
  <2>1. Found(chain, c) = chain
    BY <1>2 DEF Found
  <2>2. QED BY <2>1, SameSelf DEF Same
<1>3. CASE ~Has(<<chain[1]>>, c)
  <2> DEFINE i == CHOOSE i \in DOMAIN chain : Has(<<chain[i]>>, c)
             j == CHOOSE j \in DOMAIN chain[i] : chain[i][j] = c
             r == MoveToFront(chain, i, j)
  <2>1. \E p \in DOMAIN chain : Has(<<chain[p]>>, c)
    <3>1. PICK p, q : Spot(chain, p, q) /\ chain[p][q] = c
      BY DEF Holds
    <3>2. p \in 1..Len(chain) /\ q \in 1..Len(chain[p])
      BY <3>1 DEF Spot
    <3>3. Has(<<chain[p]>>, c)
      BY <1>1, <3>1, <3>2, HasOne
    <3>4. QED BY <1>1, <3>2, <3>3
  <2>2. i \in 1..Len(chain) /\ Has(<<chain[i]>>, c)
    BY <1>1, <2>1
  <2> HIDE DEF i
  <2>3. \E q \in DOMAIN chain[i] : chain[i][q] = c
    BY <1>1, <2>2, HasOne
  <2>4. j \in DOMAIN chain[i] /\ chain[i][j] = c
    BY <2>3
  <2> HIDE DEF j
  <2>5. Spot(chain, i, j) /\ i # 1
    BY <1>1, <1>3, <2>2, <2>4 DEF Spot
  <2>6. Found(chain, c) = r
    BY <1>3 DEF Found, i, j
  <2>7. FrontMoved(r, chain, i, j)
    BY <2>5, MoveToFrontIs
  <2> HIDE DEF r
  <2>8. CASE Len(chain[1]) = FIRST_CHUNK_KEYS
    <3>1. Same(r, chain)
      BY <2>5, <2>7, <2>8, FrontMovedFull
    <3>2. QED BY <2>6, <3>1 DEF Same
  <2>9. CASE Len(chain[1]) # FIRST_CHUNK_KEYS
    <3>1. Chained(r) /\ SameShape(r, chain) /\ Holds(r, NUL)
      BY <2>5, <2>7, <2>9, FrontMovedShort DEF FrontMoved
    <3>2. Len(chain[1]) < Capacity(1)
      BY <1>1, <2>9 DEF Fits, Capacity, ConstantsType
    <3>3. i \in 2..Len(chain) /\ Len(chain[i]) > 0
      BY <1>1, <2>4, <2>5 DEF Spot
    <3>4. chain[i] # <<>>
      BY <1>1, <3>3
    <3>5. ~PackedChain(chain)
      BY <1>1, <3>2, <3>3, <3>4 DEF PackedChain
    <3>6. QED BY <2>6, <3>1, <3>5
  <2>10. QED BY <2>8, <2>9
<1>4. QED BY <1>2, <1>3

-----------------------------------------------------------------------------
(* A chain with one slot more, (a, b), and c in it.                        *)
Joined(r, chain, a, b, c) ==
  /\ Chained(r) /\ ~Spot(chain, a, b)
  /\ \A p, q : Spot(r, p, q) <=> Spot(chain, p, q) \/ (p = a /\ q = b)
  /\ \A p, q : Spot(r, p, q) => r[p][q] = IF p = a /\ q = b THEN c ELSE chain[p][q]

LEMMA JoinedIs ==
  ASSUME NEW chain, NEW r, NEW a, NEW b, NEW c, Joined(r, chain, a, b, c)
  PROVE  /\ \A x : Holds(r, x) <=> Holds(chain, x) \/ x = c
         /\ Distinct(chain) /\ ~Holds(chain, c) => Distinct(r)
<1>1. /\ \A p, q : Spot(r, p, q) <=> Spot(chain, p, q) \/ (p = a /\ q = b)
      /\ \A p, q : Spot(r, p, q) => r[p][q] = IF p = a /\ q = b THEN c ELSE chain[p][q]
      /\ ~Spot(chain, a, b)
  BY DEF Joined
<1>2. ASSUME NEW x PROVE Holds(r, x) <=> Holds(chain, x) \/ x = c
  <2>1. ASSUME Holds(r, x) PROVE Holds(chain, x) \/ x = c
    BY <1>1, <2>1 DEF Holds
  <2>2. ASSUME Holds(chain, x) PROVE Holds(r, x)
    <3>1. PICK p, q : Spot(chain, p, q) /\ chain[p][q] = x
      BY <2>2 DEF Holds
    <3>2. Spot(r, p, q) /\ ~(p = a /\ q = b)
      BY <1>1, <3>1
    <3>3. r[p][q] = x
      BY <1>1, <3>1, <3>2
    <3>4. QED BY <3>2, <3>3 DEF Holds
  <2>3. Holds(r, c)
    BY <1>1 DEF Holds
  <2>4. QED BY <2>1, <2>2, <2>3
<1>3. ASSUME Distinct(chain), ~Holds(chain, c) PROVE Distinct(r)
  <2> SUFFICES ASSUME NEW p, NEW q, NEW u, NEW v, Spot(r, p, q), Spot(r, u, v), r[p][q] = r[u][v]
               PROVE  p = u /\ q = v
    BY DEF Distinct
  <2>1. CASE p = a /\ q = b
    <3>1. r[u][v] = c
      BY <1>1, <2>1
    <3>2. ~Spot(chain, u, v) \/ (u = a /\ v = b)
      BY <1>1, <1>3, <3>1 DEF Holds
    <3>3. QED BY <1>1, <2>1, <3>2
  <2>2. CASE u = a /\ v = b
    <3>1. r[p][q] = c
      BY <1>1, <2>2
    <3>2. ~Spot(chain, p, q) \/ (p = a /\ q = b)
      BY <1>1, <1>3, <3>1 DEF Holds
    <3>3. QED BY <1>1, <2>2, <3>2
  <2>3. CASE ~(p = a /\ q = b) /\ ~(u = a /\ v = b)
    <3>1. Spot(chain, p, q) /\ Spot(chain, u, v) /\ chain[p][q] = chain[u][v]
      BY <1>1, <2>3
    <3>2. QED BY <1>3, <3>1 DEF Distinct
  <2>4. QED BY <2>1, <2>2, <2>3
<1>4. QED BY <1>2, <1>3

LEMMA AppendToIs ==
  ASSUME ConstantsType, NEW chain, Chained(chain), Fits(chain), NEW c \in Char
  PROVE  LET r == AppendTo(chain, c)
         IN  /\ Chained(r) /\ Fits(r)
             /\ \A x : Holds(r, x) <=> Holds(chain, x) \/ x = c
             /\ Distinct(chain) /\ ~Holds(chain, c) => Distinct(r)
<1> DEFINE n == Len(chain)
           r == AppendTo(chain, c)
<1>1. /\ n \in Nat /\ n > 0 /\ n \in 1..n /\ n + 1 > 0 /\ n + 1 \in Nat /\ n + 1 \in 1..(n + 1)
      /\ DOMAIN chain = 1..n /\ n + 1 \notin 1..n
      /\ \A p \in 1..n : /\ chain[p] \in Seq(Symbol) /\ Len(chain[p]) \in Nat /\ p \in 1..(n + 1)
                         /\ DOMAIN chain[p] = 1..Len(chain[p]) /\ Len(chain[p]) <= Capacity(p)
  BY ChainIs DEF Chained, Fits
<1>2. c \in Symbol /\ \A p : Capacity(p) \in Nat /\ 1 <= Capacity(p)
  BY DEF Symbol, ConstantsType, Capacity
<1>3. CASE Len(chain[n]) = Capacity(n)
  <2>1. r = Append(chain, <<c>>)
    BY <1>3 DEF AppendTo
  <2>2. <<c>> \in Seq(Symbol) /\ Len(<<c>>) = 1 /\ <<c>>[1] = c
    BY <1>2
  <2>3. /\ r \in Seq(Seq(Symbol)) /\ Len(r) = n + 1 /\ r[n + 1] = <<c>>
        /\ \A p \in 1..n : r[p] = chain[p]
    <3>1. chain \in Seq(Seq(Symbol))
      BY DEF Chained
    <3>2. QED BY <2>1, <2>2, <3>1, AppendProperties
  <2>4. Chained(r) /\ Fits(r)
    <3>1. Len(r) > 0
      BY <1>1, <2>3
    <3>2. ASSUME NEW p \in 1..(n + 1) PROVE Len(r[p]) <= Capacity(p)
      <4>1. p \in 1..n \/ p = n + 1
        BY <1>1
      <4>2. QED BY <1>1, <1>2, <2>2, <2>3, <4>1
    <3>3. QED BY <2>3, <3>1, <3>2 DEF Chained, Fits
  <2>5. Joined(r, chain, n + 1, 1, c)
    <3>1. ASSUME NEW p, NEW q PROVE Spot(r, p, q) <=> Spot(chain, p, q) \/ (p = n + 1 /\ q = 1)
      <4>1. CASE p \in 1..n
        BY <1>1, <2>3, <4>1 DEF Spot
      <4>2. CASE p = n + 1
        <5>1. p \in 1..Len(r) /\ Len(r[p]) = 1 /\ p \notin 1..n
          BY <1>1, <2>2, <2>3, <4>2
        <5>2. q \in 1..1 <=> q = 1
          OBVIOUS
        <5>3. QED BY <4>2, <5>1, <5>2 DEF Spot
      <4>3. CASE p \notin 1..(n + 1)
        BY <1>1, <2>3, <4>3 DEF Spot
      <4>4. QED BY <1>1, <4>1, <4>2, <4>3
    <3>2. ASSUME NEW p, NEW q, Spot(r, p, q)
          PROVE  r[p][q] = IF p = n + 1 /\ q = 1 THEN c ELSE chain[p][q]
      BY <1>1, <2>2, <2>3, <3>1, <3>2 DEF Spot
    <3>3. ~Spot(chain, n + 1, 1)
      BY <1>1 DEF Spot
    <3>4. QED BY <2>4, <3>1, <3>2, <3>3 DEF Joined
  <2>6. QED BY <2>4, <2>5, JoinedIs
<1>4. CASE Len(chain[n]) # Capacity(n)
  <2> DEFINE longer == Append(chain[n], c)
             m == Len(chain[n])
  <2>1. r = [p \in 1..n |-> IF p = n THEN longer ELSE chain[p]]
    BY <1>1, <1>4 DEF AppendTo
  <2>2. /\ longer \in Seq(Symbol) /\ Len(longer) = m + 1 /\ longer[m + 1] = c
        /\ \A q \in 1..m : longer[q] = chain[n][q]
    BY <1>1, <1>2, AppendProperties
  <2>3. m \in Nat /\ m + 1 <= Capacity(n) /\ m + 1 \notin 1..m /\ \A q : q \in 1..(m + 1) <=> q \in 1..m \/ q = m + 1
    BY <1>1, <1>2, <1>4
  <2> HIDE DEF longer, r
  <2>4. r = [p \in 1..n |-> r[p]] /\ \A p \in 1..n : r[p] = IF p = n THEN longer ELSE chain[p]
    BY <2>1
  <2>5. Chained(r) /\ Len(r) = n
    <3>1. \A p \in 1..n : r[p] \in Seq(Symbol)
      BY <1>1, <2>2, <2>4
    <3>2. QED BY <1>1, <2>4, <3>1, ChainFrom
  <2>6. Fits(r)
    BY <1>1, <2>2, <2>3, <2>4, <2>5 DEF Fits
  <2>7. Joined(r, chain, n, m + 1, c)
    <3>1. ASSUME NEW p, NEW q PROVE Spot(r, p, q) <=> Spot(chain, p, q) \/ (p = n /\ q = m + 1)
      <4>1. CASE p = n
        BY <1>1, <2>2, <2>3, <2>4, <2>5, <4>1 DEF Spot
      <4>2. CASE p # n
        BY <2>4, <2>5, <4>2 DEF Spot
      <4>3. QED BY <4>1, <4>2
    <3>2. ASSUME NEW p, NEW q, Spot(r, p, q)
          PROVE  r[p][q] = IF p = n /\ q = m + 1 THEN c ELSE chain[p][q]
      <4>1. CASE p = n
        BY <1>1, <2>2, <2>3, <2>4, <2>5, <3>2, <4>1 DEF Spot
      <4>2. CASE p # n
        BY <2>4, <2>5, <3>2, <4>2 DEF Spot
      <4>3. QED BY <4>1, <4>2
    <3>3. ~Spot(chain, n, m + 1)
      BY <2>3 DEF Spot
    <3>4. QED BY <2>5, <3>1, <3>2, <3>3 DEF Joined
  <2>8. QED BY <2>5, <2>6, <2>7, JoinedIs DEF r
<1>5. QED BY <1>3, <1>4

(* A chain with one slot less, (a, b), and what was in it in the place of  *)
(* what was in (i, j).                                                     *)
Parted(r, chain, i, j, a, b) ==
  /\ Chained(r) /\ Spot(chain, i, j) /\ Spot(chain, a, b)
  /\ \A p, q : Spot(r, p, q) <=> Spot(chain, p, q) /\ ~(p = a /\ q = b)
  /\ \A p, q : Spot(r, p, q) => r[p][q] = IF p = i /\ q = j THEN chain[a][b] ELSE chain[p][q]

LEMMA PartedIs ==
  ASSUME NEW chain, NEW r, NEW i, NEW j, NEW a, NEW b, Parted(r, chain, i, j, a, b)
  PROVE  /\ \A x : Holds(chain, x) /\ x # chain[i][j] => Holds(r, x)
         /\ Distinct(chain) => Distinct(r) /\ \A x : Holds(r, x) => Holds(chain, x) /\ x # chain[i][j]
<1>1. /\ \A p, q : Spot(r, p, q) <=> Spot(chain, p, q) /\ ~(p = a /\ q = b)
      /\ \A p, q : Spot(r, p, q) => r[p][q] = IF p = i /\ q = j THEN chain[a][b] ELSE chain[p][q]
      /\ Spot(chain, i, j) /\ Spot(chain, a, b)
  BY DEF Parted
<1>2. ASSUME NEW x, Holds(chain, x), x # chain[i][j] PROVE Holds(r, x)
  <2>1. PICK p, q : Spot(chain, p, q) /\ chain[p][q] = x
    BY <1>2 DEF Holds
  <2>2. CASE p = a /\ q = b
    <3>1. ~(i = a /\ j = b)
      BY <1>2, <2>1, <2>2
    <3>2. Spot(r, i, j) /\ r[i][j] = x
      BY <1>1, <2>1, <2>2, <3>1
    <3>3. QED BY <3>2 DEF Holds
  <2>3. CASE ~(p = a /\ q = b)
    <3>1. Spot(r, p, q) /\ ~(p = i /\ q = j)
      BY <1>1, <1>2, <2>1, <2>3
    <3>2. r[p][q] = x
      BY <1>1, <2>1, <3>1
    <3>3. QED BY <3>1, <3>2 DEF Holds
  <2>4. QED BY <2>2, <2>3
<1>3. ASSUME Distinct(chain), NEW p, NEW q, NEW u, NEW v, Spot(r, p, q), Spot(r, u, v), r[p][q] = r[u][v]
      PROVE  p = u /\ q = v
  <2>1. Spot(chain, p, q) /\ Spot(chain, u, v) /\ ~(p = a /\ q = b) /\ ~(u = a /\ v = b)
    BY <1>1, <1>3
  <2>2. /\ \/ p = i /\ q = j /\ r[p][q] = chain[a][b]
           \/ ~(p = i /\ q = j) /\ r[p][q] = chain[p][q]
        /\ \/ u = i /\ v = j /\ r[u][v] = chain[a][b]
           \/ ~(u = i /\ v = j) /\ r[u][v] = chain[u][v]
    BY <1>1, <1>3
  <2>3. QED BY <1>1, <1>3, <2>1, <2>2 DEF Distinct
<1>4. ASSUME Distinct(chain), NEW x, Holds(r, x) PROVE Holds(chain, x) /\ x # chain[i][j]
  <2>1. PICK p, q : Spot(r, p, q) /\ r[p][q] = x
    BY <1>4 DEF Holds
  <2>2. Spot(chain, p, q) /\ ~(p = a /\ q = b)
    BY <1>1, <2>1
  <2>3. CASE p = i /\ q = j
    <3>1. x = chain[a][b]
      BY <1>1, <2>1, <2>3
    <3>2. QED BY <1>1, <1>4, <2>2, <2>3, <3>1 DEF Distinct, Holds
  <2>4. CASE ~(p = i /\ q = j)
    <3>1. x = chain[p][q]
      BY <1>1, <2>1, <2>4
    <3>2. QED BY <1>1, <1>4, <2>2, <2>4, <3>1 DEF Distinct, Holds
  <2>5. QED BY <2>3, <2>4
<1>5. ASSUME Distinct(chain) PROVE Distinct(r)
  BY <1>3, <1>5 DEF Distinct
<1>6. QED BY <1>2, <1>4, <1>5

(* The last of the chunks from i on that are in use                        *)
LEMMA LastInUse ==
  ASSUME NEW chain, Chained(chain), NEW i \in 1..Len(chain)
  PROVE  \E e \in i..Len(chain) : /\ \A m \in (i + 1)..e : chain[m] # <<>>
                                  /\ e < Len(chain) => chain[e + 1] = <<>>
<1> DEFINE P == {m \in Nat : chain[m + 1] # <<>>}
<1>1. Len(chain) \in Nat /\ i \in Nat /\ i <= Len(chain)
  BY ChainIs
<1>2. PICK e \in i..Len(chain) : (\A m \in i..(e - 1) : m \in P) /\ (e < Len(chain) => e \notin P)
  <2> HIDE DEF P
  <2>1. QED BY <1>1, FirstFailure
<1>3. ASSUME NEW m \in (i + 1)..e PROVE chain[m] # <<>>
  <2>1. m - 1 \in i..(e - 1) /\ (m - 1) + 1 = m
    BY <1>1
  <2>2. m - 1 \in P
    BY <1>2, <2>1
  <2>3. QED BY <2>1, <2>2
<1>4. e < Len(chain) => chain[e + 1] = <<>>
  BY <1>1, <1>2
<1>5. QED BY <1>3, <1>4

LEMMA RemoveFastIs ==
  ASSUME ConstantsType, NEW chain, Chained(chain), Fits(chain), NEW i, NEW j, Spot(chain, i, j)
  PROVE  /\ Fits(RemoveFast(chain, i, j))
         /\ \E a, b : Parted(RemoveFast(chain, i, j), chain, i, j, a, b)
<1> DEFINE n == Len(chain)
           e == CHOOSE e \in i..n : /\ \A m \in (i + 1)..e : chain[m] # <<>>
                                    /\ e < n => chain[e + 1] = <<>>
           z == Len(chain[e])
           moved == [chain EXCEPT ![i][j] = Last(chain[e])]
           r == RemoveFast(chain, i, j)
<1>1. /\ n \in Nat /\ n > 0 /\ DOMAIN chain = 1..n /\ i \in 1..n /\ j \in 1..Len(chain[i])
      /\ \A p \in 1..n : /\ chain[p] \in Seq(Symbol) /\ Len(chain[p]) \in Nat
                         /\ DOMAIN chain[p] = 1..Len(chain[p]) /\ Len(chain[p]) <= Capacity(p)
                         /\ \A q \in 1..Len(chain[p]) : chain[p][q] \in Symbol
  BY ChainIs DEF Chained, Fits, Spot
<1>2. r = [moved EXCEPT ![e] = Front(@)]
  BY DEF RemoveFast
<1>3. e \in i..n /\ \A m \in (i + 1)..e : chain[m] # <<>>
  BY <1>1, LastInUse
<1> HIDE DEF e
<1>4. e \in 1..n /\ z \in Nat /\ z > 0 /\ z \in 1..z /\ Last(chain[e]) = chain[e][z] /\ chain[e][z] \in Symbol
  <2>1. e \in 1..n /\ z \in Nat /\ (e = i \/ e \in (i + 1)..e)
    BY <1>1, <1>3
  <2>2. z > 0
    <3>1. CASE e = i
      BY <1>1, <3>1
    <3>2. CASE e \in (i + 1)..e
      <4>1. chain[e] # <<>> /\ chain[e] \in Seq(Symbol)
        BY <1>1, <1>3, <2>1, <3>2
      <4>2. QED BY <4>1
    <3>3. QED BY <2>1, <3>1, <3>2
  <2>3. QED BY <1>1, <2>1, <2>2 DEF Last
<1> DEFINE c == Last(chain[e])
           patched == [chain[i] EXCEPT ![j] = c]
<1>5. /\ moved = [p \in 1..n |-> IF p = i THEN patched ELSE chain[p]]
      /\ patched \in Seq(Symbol) /\ Len(patched) = Len(chain[i])
      /\ \A q \in 1..Len(chain[i]) : patched[q] = IF q = j THEN c ELSE chain[i][q]
  <2>1. moved = [p \in 1..n |-> IF p = i THEN patched ELSE chain[p]]
    BY <1>1
  <2>2. c \in Symbol
    BY <1>4
  <2> HIDE DEF c
  <2>3. patched = [q \in 1..Len(chain[i]) |-> patched[q]]
    BY <1>1
  <2>4. \A q \in 1..Len(chain[i]) : patched[q] = IF q = j THEN c ELSE chain[i][q]
    BY <1>1
  <2>5. \A q \in 1..Len(chain[i]) : patched[q] \in Symbol
    BY <1>1, <2>2, <2>4
  <2> HIDE DEF patched
  <2>6. patched \in Seq(Symbol) /\ Len(patched) = Len(chain[i])
    BY <1>1, <2>3, <2>5, ChunkFrom
  <2>7. QED BY <2>1, <2>4, <2>6
<1> HIDE DEF patched, moved, r
<1>6. \A p \in 1..n : moved[p] \in Seq(Symbol) /\ Len(moved[p]) = Len(chain[p])
  BY <1>1, <1>5
<1>7. ASSUME NEW p \in 1..n, NEW q \in 1..Len(chain[p])
      PROVE  moved[p][q] = IF p = i /\ q = j THEN c ELSE chain[p][q]
  <2>1. CASE p = i
    <3>1. moved[p] = patched /\ q \in 1..Len(chain[i])
      BY <1>5, <2>1
    <3>2. QED BY <1>5, <2>1, <3>1
  <2>2. CASE p # i
    <3>1. moved[p] = chain[p]
      BY <1>5, <2>2
    <3>2. QED BY <2>2, <3>1
  <2>3. QED BY <2>1, <2>2
<1> DEFINE cut == Front(moved[e])
<1>8. /\ cut \in Seq(Symbol) /\ Len(cut) = z - 1 /\ \A q \in 1..(z - 1) : cut[q] = moved[e][q]
  <2>1. moved[e] \in Seq(Symbol) /\ Len(moved[e]) = z /\ moved[e] # Root
    BY <1>4, <1>6 DEF Root
  <2>2. cut = Prefix(moved[e], z - 1) /\ z - 1 \in 0..z
    BY <1>4, <2>1, FrontIs
  <2> HIDE DEF cut
  <2>3. QED BY <2>1, <2>2, PrefixIs
<1>9. r = [p \in 1..n |-> IF p = e THEN cut ELSE moved[p]]
  BY <1>2, <1>4, <1>5
<1> HIDE DEF cut, c
<1>10. r = [p \in 1..n |-> r[p]] /\ \A p \in 1..n : r[p] = IF p = e THEN cut ELSE moved[p]
  BY <1>9
<1>11. Chained(r) /\ Len(r) = n
  <2>1. \A p \in 1..n : r[p] \in Seq(Symbol)
    BY <1>6, <1>8, <1>10
  <2>2. QED BY <1>1, <1>10, <2>1, ChainFrom
<1>12. \A p \in 1..n : Len(r[p]) = IF p = e THEN z - 1 ELSE Len(chain[p])
  BY <1>6, <1>8, <1>10
<1>13. Fits(r)
  <2>1. ASSUME NEW p \in 1..n PROVE Len(r[p]) <= Capacity(p)
    <3>1. Len(chain[p]) <= Capacity(p) /\ Len(chain[p]) \in Nat /\ Capacity(p) \in Int
      BY <1>1 DEF Capacity, ConstantsType
    <3>2. QED BY <1>4, <1>12, <3>1
  <2>2. QED BY <1>11, <2>1 DEF Fits
<1>14. \A p, q : Spot(r, p, q) <=> Spot(chain, p, q) /\ ~(p = e /\ q = z)
  <2> TAKE p, q
  <2>1. CASE p = e
    <3>1. q \in 1..(z - 1) <=> q \in 1..z /\ q # z
      BY <1>4
    <3>2. QED BY <1>4, <1>11, <1>12, <2>1, <3>1 DEF Spot
  <2>2. CASE p # e
    BY <1>11, <1>12, <2>2 DEF Spot
  <2>3. QED BY <2>1, <2>2
<1>15. ASSUME NEW p, NEW q, Spot(r, p, q)
       PROVE  r[p][q] = IF p = i /\ q = j THEN chain[e][z] ELSE chain[p][q]
  <2>1. p \in 1..n /\ q \in 1..Len(chain[p]) /\ ~(p = e /\ q = z)
    BY <1>14, <1>15 DEF Spot
  <2>2. r[p][q] = moved[p][q]
    <3>1. CASE p = e
      <4>1. q \in 1..(z - 1)
        BY <1>4, <2>1, <3>1
      <4>2. QED BY <1>8, <1>10, <2>1, <3>1, <4>1
    <3>2. CASE p # e
      BY <1>10, <2>1, <3>2
    <3>3. QED BY <3>1, <3>2
  <2>3. QED BY <1>4, <1>7, <2>1, <2>2 DEF c
<1>16. Spot(chain, e, z)
  BY <1>4 DEF Spot
<1>17. Parted(r, chain, i, j, e, z)
  BY <1>11, <1>14, <1>15, <1>16 DEF Parted
<1>18. QED BY <1>13, <1>17 DEF r

(* Where a character is, as the code looks for it.                         *)
LEMMA FirstSpot ==
  ASSUME NEW chain, Chained(chain), NEW c, Holds(chain, c)
  PROVE  LET i == CHOOSE i \in DOMAIN chain : Has(<<chain[i]>>, c)
             j == CHOOSE j \in DOMAIN chain[i] : chain[i][j] = c
         IN  Spot(chain, i, j) /\ chain[i][j] = c /\ Has(<<chain[i]>>, c)
<1> DEFINE i == CHOOSE i \in DOMAIN chain : Has(<<chain[i]>>, c)
           j == CHOOSE j \in DOMAIN chain[i] : chain[i][j] = c
<1>1. /\ DOMAIN chain = 1..Len(chain)
      /\ \A p \in 1..Len(chain) : chain[p] \in Seq(Symbol) /\ DOMAIN chain[p] = 1..Len(chain[p])
  BY ChainIs
<1>2. \E p \in DOMAIN chain : Has(<<chain[p]>>, c)
  <2>1. PICK p, q : Spot(chain, p, q) /\ chain[p][q] = c
    BY DEF Holds
  <2>2. Has(<<chain[p]>>, c)
    BY <1>1, <2>1, HasOne DEF Spot
  <2>3. QED BY <1>1, <2>1, <2>2 DEF Spot
<1>3. i \in 1..Len(chain) /\ Has(<<chain[i]>>, c)
  BY <1>1, <1>2
<1> HIDE DEF i
<1>4. \E q \in DOMAIN chain[i] : chain[i][q] = c
  BY <1>1, <1>3, HasOne
<1>5. j \in DOMAIN chain[i] /\ chain[i][j] = c
  BY <1>4
<1> HIDE DEF j
<1>6. Spot(chain, i, j)
  BY <1>1, <1>3, <1>5 DEF Spot
<1>7. QED BY <1>3, <1>5, <1>6 DEF i, j

LEMMA UnlinkedIs ==
  ASSUME ConstantsType, NEW chain, Chained(chain), Fits(chain), NEW c
  PROVE  LET r == Unlinked(chain, c)
         IN  /\ Chained(r) /\ Fits(r)
             /\ \A x : Holds(chain, x) /\ x # c => Holds(r, x)
             /\ Distinct(chain) =>
                  Distinct(r) /\ \A x : Holds(r, x) <=> Holds(chain, x) /\ x # c
<1> DEFINE r == Unlinked(chain, c)
<1>1. CASE ~Holds(chain, c)
  <2>1. r = chain
    BY <1>1, HasIs DEF Unlinked
  <2>2. QED BY <1>1, <2>1
<1>2. CASE Holds(chain, c)
  <2> DEFINE i == CHOOSE i \in DOMAIN chain : Has(<<chain[i]>>, c)
             j == CHOOSE j \in DOMAIN chain[i] : chain[i][j] = c
  <2>1. Spot(chain, i, j) /\ chain[i][j] = c
    BY <1>2, FirstSpot
  <2>2. r = RemoveFast(chain, i, j)
    BY <1>2, HasIs DEF Unlinked
  <2> HIDE DEF i, j, r
  <2>3. Fits(r) /\ \E a, b : Parted(r, chain, i, j, a, b)
    BY <2>1, <2>2, RemoveFastIs
  <2>4. PICK a, b : Parted(r, chain, i, j, a, b)
    BY <2>3
  <2>5. Chained(r)
    BY <2>4 DEF Parted
  <2>6. QED BY <2>1, <2>3, <2>4, <2>5, PartedIs DEF r
<1>3. QED BY <1>1, <1>2

-----------------------------------------------------------------------------
(* The tree.                                                               *)
Sound(chain) == Chained(chain) /\ Distinct(chain) /\ Fits(chain) /\ ~Holds(chain, NUL)
Tree(ch) ==
  /\ Root \in DOMAIN ch /\ DOMAIN ch \subseteq Seq(Char)
  /\ \A n \in DOMAIN ch : Sound(ch[n])
  /\ \A n \in DOMAIN ch : n # Root => Front(n) \in DOMAIN ch /\ Holds(ch[Front(n)], Last(n))
  /\ \A n \in DOMAIN ch, c \in Char : Holds(ch[n], c) => Append(n, c) \in DOMAIN ch

(* How much of k the nodes of ch lead along                                *)
ReachedIn(ch, k) ==
  CHOOSE n \in 0..Len(k) :
    /\ \A m \in 0..(n - 1) : Has(ch[Prefix(k, m)], k[m + 1])
    /\ n < Len(k) => ~Has(ch[Prefix(k, n)], k[n + 1])

(* The nodes above a node are there.                                       *)
LEMMA Ancestors ==
  ASSUME NEW ch, Tree(ch), NEW s \in DOMAIN ch
  PROVE  /\ \A i \in 0..Len(s) : Prefix(s, i) \in DOMAIN ch
         /\ \A i \in 0..(Len(s) - 1) : Holds(ch[Prefix(s, i)], s[i + 1])
<1>1. s \in Seq(Char) /\ Len(s) \in Nat /\ 0 <= Len(s)
  BY LenProperties DEF Tree
<1> DEFINE P == {d \in Nat : Prefix(s, Len(s) - (d + 1)) \in DOMAIN ch}
<1>2. PICK f \in 0..Len(s) : (\A d \in 0..(f - 1) : d \in P) /\ (f < Len(s) => f \notin P)
  <2> HIDE DEF P
  <2>1. QED BY <1>1, FirstFailure
<1>3. f = Len(s)
  <2> SUFFICES ASSUME f < Len(s) PROVE FALSE
    BY <1>1
  <2>1. Prefix(s, Len(s) - f) \in DOMAIN ch
    <3>1. CASE f = 0
      BY <1>1, <3>1, PrefixEnds
    <3>2. CASE f # 0
      <4>1. f - 1 \in 0..(f - 1) /\ (f - 1) + 1 = f
        BY <1>1, <3>2
      <4>2. f - 1 \in P
        BY <1>2, <4>1
      <4>3. QED BY <4>1, <4>2
    <3>3. QED BY <3>1, <3>2
  <2> DEFINE m == Len(s) - (f + 1)
  <2>2. m \in 0..(Len(s) - 1) /\ m + 1 = Len(s) - f
    BY <1>1
  <2> HIDE DEF m
  <2>3. Prefix(s, m + 1) # Root /\ Front(Prefix(s, m + 1)) = Prefix(s, m)
    BY <1>1, <2>2, PrefixNext
  <2>4. Prefix(s, m) \in DOMAIN ch
    BY <2>1, <2>2, <2>3 DEF Tree
  <2>5. f \in P
    BY <1>1, <2>4 DEF m
  <2>6. QED BY <1>2, <2>5
<1>4. ASSUME NEW i \in 0..Len(s) PROVE Prefix(s, i) \in DOMAIN ch
  <2>1. CASE i = Len(s)
    BY <1>1, <2>1, PrefixEnds
  <2>2. CASE i # Len(s)
    <3> DEFINE d == Len(s) - (i + 1)
    <3>1. d \in 0..(f - 1) /\ Len(s) - (d + 1) = i
      BY <1>1, <1>3, <2>2
    <3> HIDE DEF d
    <3>2. d \in P
      BY <1>2, <3>1
    <3>3. QED BY <3>1, <3>2
  <2>3. QED BY <2>1, <2>2
<1>5. ASSUME NEW i \in 0..(Len(s) - 1) PROVE Holds(ch[Prefix(s, i)], s[i + 1])
  <2>1. i + 1 \in 0..Len(s)
    BY <1>1
  <2>2. Prefix(s, i + 1) \in DOMAIN ch
    BY <1>4, <2>1
  <2>3. /\ Prefix(s, i + 1) # Root
        /\ Front(Prefix(s, i + 1)) = Prefix(s, i) /\ Last(Prefix(s, i + 1)) = s[i + 1]
    BY <1>1, PrefixNext
  <2>4. QED BY <2>2, <2>3 DEF Tree
<1>6. QED BY <1>4, <1>5

LEMMA ReachedIs ==
  ASSUME NEW ch, Tree(ch), NEW k \in Seq(Char)
  PROVE  LET n == ReachedIn(ch, k)
         IN  /\ n \in 0..Len(k)
             /\ \A m \in 0..Len(k) : Prefix(k, m) \in DOMAIN ch <=> m <= n
             /\ \A m \in 0..(n - 1) : Holds(ch[Prefix(k, m)], k[m + 1])
             /\ n < Len(k) => ~Holds(ch[Prefix(k, n)], k[n + 1])
<1> DEFINE n == ReachedIn(ch, k)
           P == {m \in Nat : Has(ch[Prefix(k, m)], k[m + 1])}
<1>1. Len(k) \in Nat /\ 0 <= Len(k) /\ Prefix(k, 0) = Root
  BY LenProperties, PrefixEnds
<1>2. \E i \in 0..Len(k) : (\A m \in 0..(i - 1) : m \in P) /\ (i < Len(k) => i \notin P)
  <2> HIDE DEF P
  <2>1. QED BY <1>1, FirstFailure
<1>3. \E i \in 0..Len(k) :
        /\ \A m \in 0..(i - 1) : Has(ch[Prefix(k, m)], k[m + 1])
        /\ i < Len(k) => ~Has(ch[Prefix(k, i)], k[i + 1])
  <2>1. PICK i \in 0..Len(k) : (\A m \in 0..(i - 1) : m \in P) /\ (i < Len(k) => i \notin P)
    BY <1>2
  <2>2. i \in Nat
    BY <1>1
  <2>3. QED BY <2>1, <2>2
<1>4. /\ n \in 0..Len(k)
      /\ \A m \in 0..(n - 1) : Has(ch[Prefix(k, m)], k[m + 1])
      /\ n < Len(k) => ~Has(ch[Prefix(k, n)], k[n + 1])
  BY <1>3 DEF ReachedIn
<1> HIDE DEF n, P
<1>5. \A x \in DOMAIN ch : Chained(ch[x])
  BY DEF Tree, Sound
<1> DEFINE Q == {m \in Nat : Prefix(k, m + 1) \in DOMAIN ch}
<1>6. PICK f \in 0..n : (\A m \in 0..(f - 1) : m \in Q) /\ (f < n => f \notin Q)
  <2> HIDE DEF Q
  <2>1. n \in Nat /\ 0 <= n
    BY <1>1, <1>4
  <2>2. QED BY <2>1, FirstFailure
<1>7. f = n
  <2> SUFFICES ASSUME f < n PROVE FALSE
    BY <1>1, <1>4
  <2>1. f \in 0..(n - 1) /\ f \in 0..(Len(k) - 1) /\ f \in Nat
    BY <1>1, <1>4
  <2>2. Prefix(k, f) \in DOMAIN ch
    <3>1. CASE f = 0
      BY <1>1, <3>1 DEF Tree
    <3>2. CASE f # 0
      <4>1. f - 1 \in 0..(f - 1) /\ (f - 1) + 1 = f
        BY <2>1, <3>2
      <4>2. f - 1 \in Q
        BY <1>6, <4>1
      <4>3. QED BY <4>1, <4>2
    <3>3. QED BY <3>1, <3>2
  <2>3. Holds(ch[Prefix(k, f)], k[f + 1])
    BY <1>4, <1>5, <2>1, <2>2, HasIs
  <2>4. k[f + 1] \in Char /\ Append(Prefix(k, f), k[f + 1]) = Prefix(k, f + 1)
    BY <2>1, PrefixNext
  <2>5. Prefix(k, f + 1) \in DOMAIN ch
    BY <2>2, <2>3, <2>4 DEF Tree
  <2>6. QED BY <1>6, <2>1, <2>5
<1>8. ASSUME NEW m \in 0..Len(k), m <= n PROVE Prefix(k, m) \in DOMAIN ch
  <2>1. CASE m = 0
    BY <1>1, <2>1 DEF Tree
  <2>2. CASE m # 0
    <3>1. m - 1 \in 0..(f - 1) /\ (m - 1) + 1 = m
      BY <1>1, <1>4, <1>7, <1>8, <2>2
    <3>2. m - 1 \in Q
      BY <1>6, <3>1
    <3>3. QED BY <3>1, <3>2
  <2>3. QED BY <2>1, <2>2
<1>9. \A m \in 0..n : Prefix(k, m) \in DOMAIN ch
  BY <1>1, <1>4, <1>8
<1>10. ASSUME NEW m \in 0..(n - 1) PROVE Holds(ch[Prefix(k, m)], k[m + 1])
  <2>1. m \in 0..n
    BY <1>4
  <2>2. QED BY <1>4, <1>5, <1>9, <2>1, HasIs
<1>11. n < Len(k) => ~Holds(ch[Prefix(k, n)], k[n + 1])
  <2>1. n \in 0..n
    BY <1>1, <1>4
  <2>2. QED BY <1>4, <1>5, <1>9, <2>1, HasIs
<1>12. ASSUME NEW m \in 0..Len(k), ~(m <= n) PROVE Prefix(k, m) \notin DOMAIN ch
  <2> SUFFICES ASSUME Prefix(k, m) \in DOMAIN ch PROVE FALSE
    OBVIOUS
  <2> DEFINE s == Prefix(k, m)
  <2>1. n < Len(k) /\ n \in 0..(m - 1) /\ n \in 0..m /\ n + 1 \in 1..m
    BY <1>1, <1>4, <1>12
  <2>2. Len(s) = m /\ s[n + 1] = k[n + 1] /\ Prefix(s, n) = Prefix(k, n)
    BY <2>1, PrefixIs, PrefixOfPrefix
  <2>3. Holds(ch[Prefix(s, n)], s[n + 1])
    <3> HIDE DEF s
    <3>1. s \in DOMAIN ch
      BY DEF s
    <3>2. QED BY <2>1, <2>2, <3>1, Ancestors
  <2>4. QED BY <1>11, <2>1, <2>2, <2>3
<1>13. QED BY <1>4, <1>8, <1>10, <1>11, <1>12 DEF n

LEMMA PresentIs ==
  ASSUME NEW ch, Tree(ch), NEW k \in Seq(Char)
  PROVE  ReachedIn(ch, k) = Len(k) <=> k \in DOMAIN ch
<1>1. Len(k) \in 0..Len(k) /\ Prefix(k, Len(k)) = k /\ Len(k) \in Nat
  BY LenProperties, PrefixEnds
<1>2. /\ ReachedIn(ch, k) \in 0..Len(k)
      /\ Prefix(k, Len(k)) \in DOMAIN ch <=> Len(k) <= ReachedIn(ch, k)
  BY <1>1, ReachedIs
<1>3. QED BY <1>1, <1>2

LEMMA SameSound ==
  ASSUME NEW chain, NEW r, Sound(chain), Same(r, chain)
  PROVE  Sound(r)
BY DEF Sound, Same, SameShape, Fits

LEMMA SameFirst ==
  ASSUME NEW chain, NEW r, Chained(chain), Same(r, chain)
  PROVE  Len(r[1]) = Len(chain[1])
<1>1. 1 \in 1..Len(chain)
  BY ChainIs DEF Chained
<1>2. QED BY <1>1 DEF Same, SameShape

(* A tree whose chains have the same characters                            *)
LEMMA TreeSame ==
  ASSUME NEW ch, Tree(ch), NEW dh, DOMAIN dh = DOMAIN ch, \A n \in DOMAIN ch : Same(dh[n], ch[n])
  PROVE  Tree(dh)
<1>1. \A n \in DOMAIN ch : Sound(dh[n]) /\ \A c : Holds(dh[n], c) <=> Holds(ch[n], c)
  BY SameSound DEF Tree, Same
<1>2. QED BY <1>1 DEF Tree

LEMMA KeyIs ==
  ASSUME ConstantsType, NEW k \in Key
  PROVE  k \in Seq(Char) /\ k # Root /\ Len(k) \in Nat /\ Len(k) > 0
<1>1. k \in Seq(Char) /\ k # <<>>
  BY DEF ConstantsType
<1>2. QED BY <1>1, EmptySeq, LenProperties DEF Root

(* The chains a search has gone along                                      *)
LEMMA WalkedIs ==
  ASSUME ConstantsType, Tree(chunks), NEW k \in Key
  PROVE  /\ DOMAIN Walked(k) = DOMAIN chunks
         /\ \A n \in DOMAIN chunks :
              /\ Chained(Walked(k)[n]) /\ Fits(Walked(k)[n])
              /\ Holds(Walked(k)[n], NUL) \/ Same(Walked(k)[n], chunks[n])
              /\ PackedChain(chunks[n]) => Same(Walked(k)[n], chunks[n])
              /\ ~(n \in Prefixes(k) /\ Len(n) < Reached(k)) => Walked(k)[n] = chunks[n]
<1>1. k \in Seq(Char) /\ Reached(k) = ReachedIn(chunks, k)
  BY KeyIs DEF Reached, ReachedIn
<1>2. DOMAIN Walked(k) = DOMAIN chunks
  BY DEF Walked
<1>3. ASSUME NEW n \in DOMAIN chunks
      PROVE  /\ Chained(Walked(k)[n]) /\ Fits(Walked(k)[n])
             /\ Holds(Walked(k)[n], NUL) \/ Same(Walked(k)[n], chunks[n])
             /\ PackedChain(chunks[n]) => Same(Walked(k)[n], chunks[n])
             /\ ~(n \in Prefixes(k) /\ Len(n) < Reached(k)) => Walked(k)[n] = chunks[n]
  <2>1. Sound(chunks[n]) /\ Chained(chunks[n]) /\ Distinct(chunks[n]) /\ Fits(chunks[n])
    BY DEF Tree, Sound
  <2>2. CASE n \in Prefixes(k) /\ Len(n) < Reached(k)
    <3> DEFINE m == Len(n)
    <3>1. Walked(k)[n] = Found(chunks[n], k[m + 1])
      BY <2>2 DEF Walked
    <3>2. m \in 0..Len(k) /\ n = Prefix(k, m)
      BY <1>1, <2>2, PrefixesAre
    <3>3. ReachedIn(chunks, k) \in 0..Len(k) /\ Len(k) \in Nat
      BY <1>1, ReachedIs, LenProperties
    <3>4. m \in 0..(ReachedIn(chunks, k) - 1)
      BY <1>1, <2>2, <3>2, <3>3
    <3> HIDE DEF m
    <3>5. Holds(chunks[n], k[m + 1])
      BY <1>1, <3>2, <3>4, ReachedIs
    <3> DEFINE r == Walked(k)[n]
    <3>6. /\ Chained(r) /\ SameShape(r, chunks[n])
          /\ Holds(r, NUL) \/ Same(r, chunks[n])
          /\ PackedChain(chunks[n]) => Same(r, chunks[n])
      BY <2>1, <3>1, <3>5, FoundIs
    <3>7. Fits(r)
      BY <2>1, <3>6 DEF SameShape, Fits
    <3>8. QED BY <2>2, <3>6, <3>7
  <2>3. CASE ~(n \in Prefixes(k) /\ Len(n) < Reached(k))
    <3>1. Walked(k)[n] = chunks[n]
      BY <2>3 DEF Walked
    <3>2. QED BY <2>1, <2>3, <3>1, SameSelf
  <2>4. QED BY <2>2, <2>3
<1>4. QED BY <1>2, <1>3

-----------------------------------------------------------------------------
(* The invariant, and the calls that lose no node.                         *)
IInv == DOMAIN value = DOMAIN chunks /\ (Intact => Tree(chunks))

Calm(k) == \A n \in DOMAIN chunks : Same(Walked(k)[n], chunks[n])

LEMMA PackedCalm ==
  ASSUME ConstantsType, IInv, Intact, Packed, NEW k \in Key
  PROVE  Calm(k)
<1>1. Tree(chunks) /\ \A n \in DOMAIN chunks : PackedChain(chunks[n])
  BY DEF IInv, Packed, PackedChain
<1>2. QED BY <1>1, WalkedIs DEF Calm

(* What a key has: the value of its node.                                  *)
LEMMA AnswerIs ==
  ASSUME ConstantsType, Tree(chunks), NEW k \in Key
  PROVE  /\ Present(k) <=> k \in DOMAIN chunks
         /\ Answer(k) = IF k \in DOMAIN chunks THEN value[k] ELSE NULL
<1>1. Present(k) <=> k \in DOMAIN chunks
  BY KeyIs, PresentIs DEF Present, Reached, ReachedIn
<1>2. QED BY <1>1 DEF Answer

LEMMA NextAnswerIs ==
  ASSUME ConstantsType, Tree(chunks'), NEW k \in Key
  PROVE  Answer(k)' = IF k \in DOMAIN chunks' THEN value'[k] ELSE NULL
<1>1. Present(k)' <=> ReachedIn(chunks', k) = Len(k)
  BY DEF Present, Reached, ReachedIn
<1>2. Present(k)' <=> k \in DOMAIN chunks'
  BY <1>1, KeyIs, PresentIs
<1>3. QED BY <1>2 DEF Answer

(* Two chains a new node can have                                          *)
LEMMA EmptyChain ==
  ASSUME ConstantsType
  PROVE  Sound(<<<<>>>>) /\ \A c : ~Holds(<<<<>>>>, c)
<1> DEFINE chain == <<<<>>>>
<1>1. chain \in Seq(Seq(Symbol)) /\ Len(chain) = 1 /\ chain[1] = <<>> /\ Len(chain[1]) = 0
  OBVIOUS
<1> HIDE DEF chain
<1>2. \A i, j : ~Spot(chain, i, j)
  BY <1>1 DEF Spot
<1>3. QED BY <1>1, <1>2 DEF Sound, Chained, Distinct, Fits, Capacity, ConstantsType, Holds, chain

LEMMA ShortChain ==
  ASSUME ConstantsType, NEW c \in Char
  PROVE  Sound(<<<<c>>>>) /\ \A x : Holds(<<<<c>>>>, x) <=> x = c
<1> DEFINE chain == <<<<c>>>>
<1>1. c \in Symbol /\ c # NUL /\ <<c>> \in Seq(Symbol)
  BY DEF Symbol, ConstantsType
<1>2. /\ chain \in Seq(Seq(Symbol)) /\ Len(chain) = 1 /\ chain[1] = <<c>>
      /\ Len(chain[1]) = 1 /\ chain[1][1] = c
  BY <1>1
<1> HIDE DEF chain
<1>3. \A i, j : Spot(chain, i, j) <=> i = 1 /\ j = 1
  <2>1. \A j : j \in 1..1 <=> j = 1
    OBVIOUS
  <2>2. QED BY <1>2, <2>1 DEF Spot
<1>4. \A x : Holds(chain, x) <=> x = c
  BY <1>2, <1>3 DEF Holds
<1>5. Distinct(chain)
  BY <1>3 DEF Distinct
<1>6. Fits(chain)
  <2>1. Len(chain[1]) <= Capacity(1)
    BY <1>2 DEF Capacity, ConstantsType
  <2>2. \A i \in 1..1 : i = 1
    OBVIOUS
  <2>3. QED BY <1>2, <2>1, <2>2 DEF Fits
<1>7. QED BY <1>1, <1>2, <1>4, <1>5, <1>6 DEF Sound, Chained, chain

LEMMA InitTree == ASSUME ConstantsType, Init PROVE IInv
<1>1. DOMAIN chunks = {Root} /\ chunks[Root] = <<<<>>>> /\ DOMAIN value = {Root}
  BY DEF Init
<1>2. Root \in Seq(Char)
  BY EmptySeq DEF Root
<1>3. Tree(chunks)
  BY <1>1, <1>2, EmptyChain DEF Tree
<1>4. QED BY <1>1, <1>3 DEF IInv

LEMMA LookupKeeps ==
  ASSUME ConstantsType, IInv, NEW k \in Key, LookupKey(k)
  PROVE  /\ IInv'
         /\ Packed => Map!Lookup(k)
<1>1. Intact /\ Tree(chunks) /\ chunks' = Walked(k) /\ UNCHANGED value /\ DOMAIN value = DOMAIN chunks
  BY DEF LookupKey, IInv
<1>2. /\ DOMAIN chunks' = DOMAIN chunks
      /\ \A n \in DOMAIN chunks : Chained(chunks'[n]) /\ (Holds(chunks'[n], NUL) \/ Same(chunks'[n], chunks[n]))
  BY <1>1, WalkedIs
<1>3. ASSUME Calm(k) PROVE Tree(chunks')
  BY <1>1, <1>2, <1>3, TreeSame DEF Calm
<1>4. IInv'
  <2>1. ASSUME Intact' PROVE Calm(k)
    BY <1>1, <1>2, <2>1, HasIs DEF Intact, Calm
  <2>2. QED BY <1>1, <1>2, <1>3, <2>1 DEF IInv
<1>5. ASSUME Packed PROVE Map!Lookup(k)
  <2>1. Tree(chunks')
    BY <1>1, <1>3, <1>5, PackedCalm
  <2>2. ASSUME NEW j \in Key PROVE Answer(j)' = Answer(j)
    BY <1>1, <1>2, <2>1, AnswerIs, NextAnswerIs
  <2>3. [j \in Key |-> Answer(j)]' = [j \in Key |-> Answer(j)]
    BY <2>2
  <2>4. answer' = [j \in Key |-> Answer(j)][k] /\ destroyed' = {}
    BY DEF LookupKey
  <2>5. QED BY <2>3, <2>4 DEF Map!Lookup
<1>6. QED BY <1>4, <1>5

(* What an insertion does to the chains: those there are keep their        *)
(* characters, but for the last node on the way, which gets the next       *)
(* character, and the nodes that are new are on the way to the key.        *)
LEMMA InsertTree ==
  ASSUME ConstantsType, IInv, NEW k \in Key, NEW v, InsertKey(k, v), Calm(k)
  PROVE  Tree(chunks')
<1> DEFINE R == ReachedIn(chunks, k)
           n == Prefix(k, R)
           N == Len(k)
           NewChain(m) == IF m = k THEN <<<<>>>> ELSE <<<<k[Len(m) + 1]>>>>
<1>1. /\ Intact /\ Tree(chunks) /\ Reached(k) = R
      /\ k \in Seq(Char) /\ N \in Nat
  BY KeyIs DEF InsertKey, IInv, Reached, ReachedIn
<1>2. /\ R \in 0..N /\ R \in Nat /\ R <= N
      /\ \A m \in 0..N : Prefix(k, m) \in DOMAIN chunks <=> m <= R
      /\ R < N => ~Holds(chunks[n], k[R + 1])
  BY <1>1, ReachedIs
<1> HIDE DEF R
<1>3. /\ n \in DOMAIN chunks /\ n \in Seq(Char) /\ Len(n) = R
      /\ n = k <=> R = N
      /\ k = Prefix(k, N)
  BY <1>1, <1>2, PrefixIs, PrefixEnds
<1>4. /\ DOMAIN chunks' = DOMAIN chunks \cup Prefixes(k)
      /\ \A m \in DOMAIN chunks' :
           chunks'[m] = IF m \in DOMAIN chunks
                        THEN IF m = n /\ n # k THEN AppendTo(chunks[n], k[Len(n) + 1]) ELSE Walked(k)[m]
                        ELSE NewChain(m)
  BY <1>1 DEF InsertKey
<1> HIDE DEF n
<1>5. ASSUME NEW m \in DOMAIN chunks, m # n \/ n = k PROVE Same(chunks'[m], chunks[m])
  BY <1>4, <1>5 DEF Calm
<1>6. ASSUME n # k
      PROVE  /\ R < N /\ k[R + 1] \in Char
             /\ Sound(chunks'[n])
             /\ \A x : Holds(chunks'[n], x) <=> Holds(chunks[n], x) \/ x = k[R + 1]
  <2>1. R < N /\ R + 1 \in 1..N
    BY <1>2, <1>3, <1>6
  <2>2. k[R + 1] \in Char
    BY <1>1, <2>1, LenProperties
  <2>3. chunks'[n] = AppendTo(chunks[n], k[R + 1])
    BY <1>3, <1>4, <1>6
  <2>4. Chained(chunks[n]) /\ Fits(chunks[n]) /\ Distinct(chunks[n]) /\ ~Holds(chunks[n], NUL)
    BY <1>1, <1>3 DEF Tree, Sound
  <2>5. ~Holds(chunks[n], k[R + 1]) /\ k[R + 1] # NUL
    BY <1>2, <2>1, <2>2 DEF n, ConstantsType
  <2>6. QED BY <2>1, <2>2, <2>3, <2>4, <2>5, AppendToIs DEF Sound
<1>7. \A m \in DOMAIN chunks : \A x : Holds(chunks[m], x) => Holds(chunks'[m], x)
  BY <1>5, <1>6 DEF Same
<1>8. ASSUME NEW s \in Prefixes(k), s \notin DOMAIN chunks
      PROVE  \E m \in (R + 1)..N : s = Prefix(k, m) /\ Len(s) = m /\ (s = k <=> m = N)
  <2>1. Len(s) \in 0..N /\ s = Prefix(k, Len(s))
    BY <1>1, PrefixesAre
  <2>2. ~(Len(s) <= R)
    BY <1>2, <1>8, <2>1
  <2>3. QED BY <1>2, <1>3, <2>1, <2>2
<1>9. \A m \in 0..N : Prefix(k, m) \in DOMAIN chunks'
  BY <1>1, <1>4, PrefixesAre
<1>10. ASSUME NEW m \in (R + 1)..N
       PROVE  /\ Prefix(k, m) \in DOMAIN chunks' \ DOMAIN chunks
              /\ chunks'[Prefix(k, m)] = IF m = N THEN <<<<>>>> ELSE <<<<k[m + 1]>>>>
              /\ m < N => k[m + 1] \in Char
  <2>1. m \in 0..N /\ ~(m <= R)
    BY <1>2
  <2>2. Prefix(k, m) \in DOMAIN chunks' \ DOMAIN chunks
    BY <1>2, <1>9, <2>1
  <2>3. Len(Prefix(k, m)) = m
    BY <1>1, <2>1, PrefixIs
  <2>4. Prefix(k, m) = k <=> m = N
    BY <1>3, <2>3
  <2>5. m < N => k[m + 1] \in Char
    <3>1. m < N => m + 1 \in 1..N
      BY <2>1
    <3>2. QED BY <1>1, <3>1, LenProperties
  <2>6. QED BY <1>4, <2>2, <2>3, <2>4, <2>5
<1>11. Root \in DOMAIN chunks' /\ DOMAIN chunks' \subseteq Seq(Char)
  <2>1. ASSUME NEW s \in Prefixes(k) PROVE s \in Seq(Char)
    BY <1>1, PrefixesAre, PrefixIs
  <2>2. QED BY <1>1, <1>4, <2>1 DEF Tree
<1>12. ASSUME NEW s \in DOMAIN chunks' PROVE Sound(chunks'[s])
  <2>1. CASE s \in DOMAIN chunks
    <3>1. Sound(chunks[s])
      BY <1>1, <2>1 DEF Tree
    <3>2. QED BY <1>5, <1>6, <2>1, <3>1, SameSound
  <2>2. CASE s \notin DOMAIN chunks
    <3>1. PICK m \in (R + 1)..N : s = Prefix(k, m)
      BY <1>4, <1>8, <2>2
    <3>2. CASE m = N
      <4>1. chunks'[s] = <<<<>>>>
        BY <1>10, <3>1, <3>2
      <4>2. QED BY <4>1, EmptyChain
    <3>3. CASE m < N
      <4>1. chunks'[s] = <<<<k[m + 1]>>>> /\ k[m + 1] \in Char
        <5>1. m # N
          BY <1>2, <3>3
        <5>2. QED BY <1>10, <3>1, <3>3, <5>1
      <4>2. QED BY <4>1, ShortChain
    <3>4. m = N \/ m < N
      BY <1>2
    <3>5. QED BY <3>2, <3>3, <3>4
  <2>3. QED BY <2>1, <2>2
<1>13. ASSUME NEW s \in DOMAIN chunks', s # Root
       PROVE  Front(s) \in DOMAIN chunks' /\ Holds(chunks'[Front(s)], Last(s))
  <2>1. CASE s \in DOMAIN chunks
    <3>1. Front(s) \in DOMAIN chunks /\ Holds(chunks[Front(s)], Last(s))
      BY <1>1, <1>13, <2>1 DEF Tree
    <3>2. QED BY <1>4, <1>7, <3>1
  <2>2. CASE s \notin DOMAIN chunks
    <3>1. PICK m \in (R + 1)..N : s = Prefix(k, m)
      BY <1>4, <1>8, <2>2
    <3> DEFINE l == m - 1
    <3>2. l \in 0..(N - 1) /\ l + 1 = m /\ l \in 0..N /\ (l = R \/ l \in (R + 1)..N) /\ l # N /\ R # N
      BY <1>2
    <3> HIDE DEF l
    <3>3. Front(s) = Prefix(k, l) /\ Last(s) = k[l + 1] /\ k[l + 1] \in Char
      BY <1>1, <3>1, <3>2, PrefixNext
    <3>4. Front(s) \in DOMAIN chunks'
      BY <1>9, <3>2, <3>3
    <3>5. CASE l = R
      BY <1>3, <1>6, <3>2, <3>3, <3>4, <3>5 DEF n
    <3>6. CASE l \in (R + 1)..N
      <4>1. chunks'[Prefix(k, l)] = <<<<k[l + 1]>>>>
        BY <1>10, <3>2, <3>6
      <4>2. QED BY <3>3, <3>4, <4>1, ShortChain
    <3>7. QED BY <3>2, <3>5, <3>6
  <2>3. QED BY <2>1, <2>2
<1>14. ASSUME NEW s \in DOMAIN chunks', NEW c \in Char, Holds(chunks'[s], c)
       PROVE  Append(s, c) \in DOMAIN chunks'
  <2>1. CASE s \in DOMAIN chunks /\ Holds(chunks[s], c)
    BY <1>1, <1>4, <2>1 DEF Tree
  <2>2. CASE s \in DOMAIN chunks /\ ~Holds(chunks[s], c)
    <3>1. s = n /\ n # k
      BY <1>5, <1>14, <2>2 DEF Same
    <3>2. c = k[R + 1] /\ R \in 0..(N - 1) /\ R + 1 \in 0..N
      BY <1>2, <1>6, <1>14, <2>2, <3>1
    <3>3. Append(s, c) = Prefix(k, R + 1)
      BY <1>1, <3>1, <3>2, PrefixNext DEF n
    <3>4. QED BY <1>9, <3>2, <3>3
  <2>3. CASE s \notin DOMAIN chunks
    <3>1. PICK m \in (R + 1)..N : s = Prefix(k, m)
      BY <1>4, <1>8, <2>3
    <3>2. m # N
      BY <1>10, <1>14, <3>1, EmptyChain
    <3>3. m \in 0..(N - 1) /\ m + 1 \in 0..N /\ m < N
      BY <1>2, <3>2
    <3>4. chunks'[s] = <<<<k[m + 1]>>>> /\ k[m + 1] \in Char
      BY <1>10, <3>1, <3>2, <3>3
    <3>5. c = k[m + 1]
      BY <1>14, <3>4, ShortChain
    <3>6. Append(s, c) = Prefix(k, m + 1)
      BY <1>1, <3>1, <3>3, <3>5, PrefixNext
    <3>7. QED BY <1>9, <3>3, <3>6
  <2>4. QED BY <2>1, <2>2, <2>3
<1>15. QED BY <1>11, <1>12, <1>13, <1>14 DEF Tree

LEMMA InsertKeeps ==
  ASSUME ConstantsType, IInv, NEW k \in Key, NEW v, InsertKey(k, v)
  PROVE  /\ IInv'
         /\ Packed => Map!Insert(k, v)
<1>1. Intact /\ Tree(chunks) /\ DOMAIN value = DOMAIN chunks /\ k \in Seq(Char)
  BY KeyIs DEF InsertKey, IInv
<1>2. /\ DOMAIN chunks' = DOMAIN chunks \cup Prefixes(k)
      /\ DOMAIN value' = DOMAIN chunks'
      /\ \A m \in DOMAIN chunks' :
           value'[m] = IF m = k THEN v ELSE IF m \in DOMAIN chunks THEN value[m] ELSE NULL
  BY <1>1 DEF InsertKey
<1>3. ASSUME Intact' PROVE Calm(k)
  <2> SUFFICES ASSUME NEW m \in DOMAIN chunks PROVE Same(Walked(k)[m], chunks[m])
    BY DEF Calm
  <2>1. Chained(Walked(k)[m]) /\ (Holds(Walked(k)[m], NUL) \/ Same(Walked(k)[m], chunks[m]))
    BY <1>1, WalkedIs
  <2>2. CASE chunks'[m] = Walked(k)[m]
    <3>1. ~Has(chunks'[m], NUL)
      BY <1>2, <1>3 DEF Intact
    <3>2. QED BY <2>1, <2>2, <3>1, HasIs
  <2>3. CASE chunks'[m] # Walked(k)[m]
    <3>1. m = Prefix(k, Reached(k))
      BY <1>2, <2>3 DEF InsertKey
    <3>2. Reached(k) \in 0..Len(k)
      BY <1>1, ReachedIs DEF Reached, ReachedIn
    <3>3. Len(m) = Reached(k) /\ Reached(k) \in Int
      BY <1>1, <3>1, <3>2, PrefixIs
    <3>4. Walked(k)[m] = chunks[m]
      BY <1>1, <3>3, WalkedIs
    <3>5. QED BY <1>1, <3>4, SameSelf DEF Tree, Sound
  <2>4. QED BY <2>2, <2>3
<1>4. IInv'
  BY <1>2, <1>3, InsertTree DEF IInv
<1>5. ASSUME Packed PROVE Map!Insert(k, v)
  <2>1. Tree(chunks')
    BY <1>1, <1>5, PackedCalm, InsertTree
  <2>2. k \in DOMAIN chunks'
    BY <1>1, <1>2, PrefixesAre, PrefixEnds, LenProperties
  <2>3. ASSUME NEW j \in Key PROVE Answer(j)' = IF j = k THEN v ELSE Answer(j)
    BY <1>1, <1>2, <2>1, <2>2, AnswerIs, NextAnswerIs
  <2> DEFINE map == [j \in Key |-> Answer(j)]
  <2>4. map' = [map EXCEPT ![k] = v]
    BY <2>3
  <2>5. answer' = NULL
    BY DEF InsertKey
  <2>6. destroyed' = IF map[k] = NULL THEN {} ELSE {<<k, map[k]>>}
    BY <1>1, AnswerIs DEF InsertKey
  <2>7. QED BY <2>4, <2>5, <2>6 DEF Map!Insert, Map!Held
<1>6. QED BY <1>4, <1>5

-----------------------------------------------------------------------------
(* Removals.                                                               *)
LEMMA PrefixSteps ==
  ASSUME NEW T, NEW top \in Seq(T), NEW s \in Seq(T), NEW c \in T
  PROVE  IsPrefix(top, Append(s, c)) <=> IsPrefix(top, s) \/ top = Append(s, c)
<1> DEFINE p == Append(s, c)
<1>1. /\ p \in Seq(T) /\ Len(p) = Len(s) + 1 /\ p # Root /\ Front(p) = s
      /\ Len(s) \in Nat /\ Len(top) \in Nat /\ Len(p) \in Nat
  BY AppendIs, LenProperties
<1> HIDE DEF p
<1>2. s = Prefix(p, Len(s)) /\ Len(s) \in 0..Len(p) /\ p = Prefix(p, Len(p))
  <2>1. Front(p) = Prefix(p, Len(p) - 1)
    BY <1>1, FrontIs
  <2>2. p = Prefix(p, Len(p))
    BY <1>1, PrefixEnds
  <2>3. Len(p) - 1 = Len(s) /\ Len(s) \in 0..Len(p)
    BY <1>1
  <2>4. QED BY <1>1, <2>1, <2>2, <2>3
<1>3. ASSUME Len(top) <= Len(s) PROVE Prefix(s, Len(top)) = Prefix(p, Len(top))
  <2>1. Len(top) \in 0..Len(s)
    BY <1>1, <1>3
  <2>2. Prefix(Prefix(p, Len(s)), Len(top)) = Prefix(p, Len(top))
    BY <1>1, <1>2, <2>1, PrefixOfPrefix
  <2>3. QED BY <1>2, <2>2
<1>4. /\ IsPrefix(top, s) <=> Len(top) <= Len(s) /\ top = Prefix(s, Len(top))
      /\ IsPrefix(top, p) <=> Len(top) <= Len(p) /\ top = Prefix(p, Len(top))
  BY <1>1, IsPrefixIs
<1>5. CASE Len(top) <= Len(s)
  <2>1. top # p /\ Len(top) <= Len(p)
    BY <1>1, <1>5
  <2>2. QED BY <1>3, <1>4, <1>5, <2>1 DEF p
<1>6. CASE ~(Len(top) <= Len(s))
  <2>1. Len(top) <= Len(p) => Len(top) = Len(p)
    BY <1>1, <1>6
  <2>2. IsPrefix(top, p) <=> top = p
    BY <1>1, <1>2, <1>4, <2>1
  <2>3. QED BY <1>4, <1>6, <2>2 DEF p
<1>7. QED BY <1>5, <1>6

(* A tree without a node and what is below it                              *)
LEMMA CutTree ==
  ASSUME ConstantsType, NEW ch, Tree(ch), NEW top \in DOMAIN ch, top # Root,
         NEW dh, DOMAIN dh = {m \in DOMAIN ch : ~IsPrefix(top, m)},
         \A m \in DOMAIN dh :
           /\ Sound(dh[m])
           /\ \A x : Holds(dh[m], x) <=> Holds(ch[m], x) /\ ~(m = Front(top) /\ x = Last(top))
  PROVE  Tree(dh)
<1>1. DOMAIN ch \subseteq Seq(Char) /\ top \in Seq(Char)
  BY DEF Tree
<1>2. Append(Front(top), Last(top)) = top
  BY <1>1, FrontIs
<1>3. Root \in DOMAIN dh
  <2>1. Root \in Seq(Char) /\ Len(Root) = 0 /\ Len(top) > 0
    BY <1>1, EmptySeq, FrontIs DEF Root
  <2>2. ~IsPrefix(top, Root)
    <3>1. IsPrefix(top, Root) => Len(top) <= Len(Root)
      BY <1>1, <2>1, IsPrefixIs
    <3>2. Len(top) \in Nat
      BY <1>1, LenProperties
    <3>3. QED BY <2>1, <3>1, <3>2
  <2>3. QED BY <2>2 DEF Tree
<1>4. ASSUME NEW s \in DOMAIN dh, s # Root
      PROVE  Front(s) \in DOMAIN dh /\ Holds(dh[Front(s)], Last(s))
  <2>1. s \in Seq(Char) /\ Front(s) \in DOMAIN ch /\ Holds(ch[Front(s)], Last(s)) /\ ~IsPrefix(top, s)
    BY <1>1, <1>4 DEF Tree
  <2>2. Front(s) \in Seq(Char) /\ Last(s) \in Char /\ Append(Front(s), Last(s)) = s
    BY <1>4, <2>1, FrontIs
  <2>3. ~IsPrefix(top, Front(s)) /\ top # s
    <3>1. IsPrefix(top, Append(Front(s), Last(s))) <=> IsPrefix(top, Front(s)) \/ top = Append(Front(s), Last(s))
      BY <1>1, <2>2, PrefixSteps
    <3>2. QED BY <2>1, <2>2, <3>1
  <2>4. QED BY <1>2, <2>1, <2>2, <2>3
<1>5. ASSUME NEW s \in DOMAIN dh, NEW c \in Char, Holds(dh[s], c)
      PROVE  Append(s, c) \in DOMAIN dh
  <2>1. s \in Seq(Char) /\ ~IsPrefix(top, s) /\ Holds(ch[s], c) /\ ~(s = Front(top) /\ c = Last(top))
    BY <1>1, <1>5
  <2>2. Append(s, c) \in DOMAIN ch
    BY <1>5, <2>1 DEF Tree
  <2>3. Front(Append(s, c)) = s /\ Last(Append(s, c)) = c
    BY <2>1, AppendIs
  <2>4. top # Append(s, c)
    BY <2>1, <2>3
  <2>5. ~IsPrefix(top, Append(s, c))
    BY <1>1, <2>1, <2>4, PrefixSteps
  <2>6. QED BY <2>2, <2>5
<1>6. QED BY <1>1, <1>3, <1>4, <1>5 DEF Tree

(* A packed chain whose first chunk is not full has no other in use.       *)
LEMMA FirstOnly ==
  ASSUME NEW chain, Chained(chain), PackedChain(chain), Len(chain[1]) < FIRST_CHUNK_KEYS,
         NEW i, NEW j, Spot(chain, i, j)
  PROVE  i = 1
<1>1. Len(chain) \in Nat /\ Len(chain) > 0 /\ DOMAIN chain = 1..Len(chain) /\ 1 \in 1..Len(chain)
      /\ i \in 1..Len(chain) /\ j \in 1..Len(chain[i]) /\ Len(chain[i]) \in Nat
  BY ChainIs DEF Chained, Spot
<1>2. \A m \in 2..Len(chain) : chain[m] = <<>>
  BY <1>1 DEF PackedChain, Capacity
<1>3. chain[i] # <<>>
  BY <1>1
<1>4. i \notin 2..Len(chain)
  BY <1>2, <1>3
<1>5. QED BY <1>1, <1>4

LEMMA TopmostIs ==
  ASSUME NEW k, NEW ch, Len(k) \in Nat, Len(k) > 0
  PROVE  \E t \in 1..Len(k) :
           /\ Topmost(k, ch) = Prefix(k, t)
           /\ \A m \in t..(Len(k) - 1) : value[Prefix(k, m)] = NULL /\ Len(ch[Prefix(k, m)][1]) = 1
<1> DEFINE N == Len(k)
           Bare(n) == value[Prefix(k, n)] = NULL /\ Len(ch[Prefix(k, n)][1]) = 1
           P == {d \in Nat : Bare(N - (d + 1))}
           t == CHOOSE n \in 1..N : (\A m \in n..(N - 1) : Bare(m)) /\ (n > 1 => ~Bare(n - 1))
<1>1. N \in Nat /\ N > 0 /\ N - 1 \in Nat /\ 0 <= N - 1
  OBVIOUS
<1> HIDE DEF N, Bare
<1>2. PICK f \in 0..(N - 1) : (\A d \in 0..(f - 1) : d \in P) /\ (f < N - 1 => f \notin P)
  <2> HIDE DEF P
  <2>1. QED BY <1>1, FirstFailure
<1>3. ASSUME NEW m \in (N - f)..(N - 1) PROVE Bare(m)
  <2> DEFINE d == N - (m + 1)
  <2>1. d \in 0..(f - 1) /\ N - (d + 1) = m
    BY <1>1
  <2> HIDE DEF d
  <2>2. d \in P
    BY <1>2, <2>1
  <2>3. QED BY <2>1, <2>2
<1>4. ASSUME N - f > 1 PROVE ~Bare((N - f) - 1)
  <2>1. f < N - 1 /\ f \in Nat /\ N - (f + 1) = (N - f) - 1
    BY <1>1, <1>4
  <2>2. QED BY <1>2, <2>1
<1>5. N - f \in 1..N
  BY <1>1
<1>6. t \in 1..N /\ \A m \in t..(N - 1) : Bare(m)
  <2>1. \E n \in 1..N : (\A m \in n..(N - 1) : Bare(m)) /\ (n > 1 => ~Bare(n - 1))
    BY <1>3, <1>4, <1>5
  <2>2. QED BY <2>1
<1>7. Topmost(k, ch) = Prefix(k, t)
  BY DEF Topmost, Bare, N
<1> HIDE DEF t
<1>8. QED BY <1>6, <1>7 DEF Bare, N

(* A removal that leaves the node, for it has children or is not there     *)
LEMMA ClearKeeps ==
  ASSUME ConstantsType, IInv, NEW k \in Key, RemoveKey(k),
         Answer(k) = NULL \/ Walked(k)[k][1] # <<>>
  PROVE  /\ IInv'
         /\ Packed => Map!Remove(k)
<1>1. /\ Intact /\ Tree(chunks) /\ DOMAIN value = DOMAIN chunks
      /\ chunks' = Walked(k)
      /\ value' = IF Present(k) THEN [value EXCEPT ![k] = NULL] ELSE value
      /\ destroyed' = IF Answer(k) = NULL THEN {} ELSE {<<k, value[k]>>}
      /\ answer' = (Answer(k) # NULL)
  BY DEF RemoveKey, IInv
<1>2. /\ DOMAIN chunks' = DOMAIN chunks /\ DOMAIN value' = DOMAIN chunks'
      /\ \A n \in DOMAIN chunks : Chained(chunks'[n]) /\ (Holds(chunks'[n], NUL) \/ Same(chunks'[n], chunks[n]))
  BY <1>1, WalkedIs
<1>3. ASSUME Calm(k) PROVE Tree(chunks')
  BY <1>1, <1>2, <1>3, TreeSame DEF Calm
<1>4. IInv'
  <2>1. ASSUME Intact' PROVE Calm(k)
    BY <1>1, <1>2, <2>1, HasIs DEF Intact, Calm
  <2>2. QED BY <1>2, <1>3, <2>1 DEF IInv
<1>5. ASSUME Packed PROVE Map!Remove(k)
  <2>1. Tree(chunks')
    BY <1>1, <1>3, <1>5, PackedCalm
  <2>2. Present(k) <=> k \in DOMAIN chunks
    BY <1>1, AnswerIs
  <2>3. ASSUME NEW j \in Key PROVE Answer(j)' = IF j = k THEN NULL ELSE Answer(j)
    BY <1>1, <1>2, <2>1, <2>2, AnswerIs, NextAnswerIs
  <2> DEFINE map == [j \in Key |-> Answer(j)]
  <2>4. map' = [map EXCEPT ![k] = NULL]
    BY <2>3
  <2>5. answer' = (map[k] # NULL)
    BY <1>1
  <2>6. destroyed' = IF map[k] = NULL THEN {} ELSE {<<k, map[k]>>}
    BY <1>1, AnswerIs
  <2>7. QED BY <2>4, <2>5, <2>6 DEF Map!Remove, Map!Held
<1>6. QED BY <1>4, <1>5

(* With packed chunks, what goes with a key are the nodes on the way to it *)
(* from the topmost on: none of them has another child, and the key none.  *)
LEMMA BelowIs ==
  ASSUME ConstantsType, Tree(chunks), Packed, NEW k \in DOMAIN chunks, NEW t \in 1..Len(k),
         \A m \in t..(Len(k) - 1) : Len(chunks[Prefix(k, m)][1]) = 1,
         Len(chunks[k][1]) = 0
  PROVE  /\ Below(Prefix(k, t)) = {Prefix(k, m) : m \in t..Len(k)}
         /\ \A m \in t..(Len(k) - 1) : Drained(chunks[Prefix(k, m)], k[m + 1])
<1>1. k \in Seq(Char) /\ Len(k) \in Nat /\ t \in Nat /\ t \in 0..Len(k) /\ t >= 1
      /\ FIRST_CHUNK_KEYS \in Nat /\ FIRST_CHUNK_KEYS > 1
  BY LenProperties DEF Tree, ConstantsType
<1>2. /\ \A m \in 0..Len(k) : Prefix(k, m) \in DOMAIN chunks
      /\ \A m \in 0..(Len(k) - 1) : Holds(chunks[Prefix(k, m)], k[m + 1])
  BY Ancestors
<1>3. \A n \in DOMAIN chunks : Chained(chunks[n]) /\ PackedChain(chunks[n])
  BY DEF Tree, Sound, Packed, PackedChain
<1>4. ASSUME NEW m \in t..(Len(k) - 1)
      PROVE  /\ \A x : Holds(chunks[Prefix(k, m)], x) => x = k[m + 1]
             /\ Drained(chunks[Prefix(k, m)], k[m + 1])
  <2> DEFINE chain == chunks[Prefix(k, m)]
  <2>1. m \in 0..Len(k) /\ m \in 0..(Len(k) - 1)
    BY <1>1
  <2>2. Chained(chain) /\ PackedChain(chain) /\ Holds(chain, k[m + 1]) /\ Len(chain[1]) = 1
    BY <1>2, <1>3, <2>1
  <2> HIDE DEF chain
  <2>3. \A i, j : Spot(chain, i, j) => i = 1 /\ j = 1
    <3>1. Len(chain[1]) < FIRST_CHUNK_KEYS
      BY <1>1, <2>2
    <3>2. ASSUME NEW i, NEW j, Spot(chain, i, j) PROVE i = 1 /\ j = 1
      <4>1. i = 1
        BY <2>2, <3>1, <3>2, FirstOnly
      <4>2. j \in 1..1
        BY <2>2, <3>2, <4>1 DEF Spot
      <4>3. QED BY <4>1, <4>2
    <3>3. QED BY <3>2
  <2>4. \A x : Holds(chain, x) => x = k[m + 1]
    BY <2>2, <2>3 DEF Holds
  <2>5. Drained(chain, k[m + 1])
    <3>1. /\ 1 \in DOMAIN chain /\ chain[1] \in Seq(Symbol) /\ 1 \in 1..Len(chain[1])
          /\ DOMAIN chain = 1..Len(chain)
      BY <2>2, ChainIs DEF Chained
    <3>2. chain[1][1] = k[m + 1]
      BY <2>2, <2>3 DEF Holds
    <3>3. Has(<<chain[1]>>, k[m + 1])
      BY <3>1, <3>2, HasOne
    <3>4. chain[1] # <<>>
      <4>1. Len(chain[1]) > 0
        BY <2>2
      <4>2. QED BY <3>1, <4>1
    <3>5. \A i \in 1..1 : i = 1
      OBVIOUS
    <3>6. QED BY <3>1, <3>3, <3>4, <3>5 DEF Drained
  <2>6. QED BY <2>4, <2>5 DEF chain
<1>5. \A x : ~Holds(chunks[k], x)
  <2> DEFINE chain == chunks[k]
  <2>1. Chained(chain) /\ PackedChain(chain) /\ Len(chain[1]) = 0
    BY <1>3
  <2> HIDE DEF chain
  <2>2. ASSUME NEW i, NEW j, Spot(chain, i, j) PROVE FALSE
    <3>1. i = 1
      BY <1>1, <2>1, <2>2, FirstOnly
    <3>2. j \in 1..0
      BY <2>1, <2>2, <3>1 DEF Spot
    <3>3. QED BY <3>2
  <2>3. \A x : ~Holds(chain, x)
    BY <2>2 DEF Holds
  <2>4. QED BY <2>3 DEF chain
<1> DEFINE top == Prefix(k, t)
<1>6. top \in Seq(Char) /\ Len(top) = t
  BY <1>1, PrefixIs
<1>7. ASSUME NEW m \in t..Len(k) PROVE Prefix(k, m) \in Below(top)
  <2>1. m \in 0..Len(k) /\ t \in 0..m
    BY <1>1
  <2>2. Prefix(k, m) \in Seq(Char) /\ Len(Prefix(k, m)) = m /\ Prefix(k, m) \in DOMAIN chunks
    BY <1>1, <1>2, <2>1, PrefixIs
  <2>3. Prefix(Prefix(k, m), t) = top
    BY <1>1, <2>1, PrefixOfPrefix
  <2>4. IsPrefix(top, Prefix(k, m))
    BY <1>6, <2>1, <2>2, <2>3, IsPrefixIs
  <2>5. QED BY <2>2, <2>4 DEF Below
<1>8. ASSUME NEW s \in Below(top) PROVE \E m \in t..Len(k) : s = Prefix(k, m)
  <2>1. s \in DOMAIN chunks /\ s \in Seq(Char) /\ IsPrefix(top, s) /\ Len(s) \in Nat
    BY LenProperties DEF Below, Tree
  <2>2. t <= Len(s) /\ top = Prefix(s, t)
    BY <1>6, <2>1, IsPrefixIs
  <2> DEFINE P == {m \in Nat : m + 1 <= Len(k) /\ s[m + 1] = k[m + 1]}
  <2>3. PICK f \in t..Len(s) : (\A m \in t..(f - 1) : m \in P) /\ (f < Len(s) => f \notin P)
    <3> HIDE DEF P
    <3>1. QED BY <1>1, <2>1, <2>2, FirstFailure
  <2>4. f \in Nat /\ f \in 0..Len(s)
    BY <1>1, <2>1
  <2>5. f <= Len(k)
    <3>1. CASE f = t
      BY <1>1, <3>1
    <3>2. CASE f # t
      <4>1. f - 1 \in t..(f - 1)
        BY <1>1, <2>4, <3>2
      <4>2. f - 1 \in P
        BY <2>3, <4>1
      <4>3. QED BY <2>4, <4>2
    <3>3. QED BY <3>1, <3>2
  <2> DEFINE p == Prefix(s, f)
  <2>6. p \in Seq(Char) /\ Len(p) = f /\ \A i \in 1..f : p[i] = s[i]
    BY <2>1, <2>4, PrefixIs
  <2>7. ASSUME NEW i \in 1..f PROVE s[i] = k[i]
    <3>1. CASE i \in 1..t
      <4>1. top[i] = k[i]
        BY <1>1, <3>1, PrefixIs
      <4>2. t \in 0..Len(s)
        BY <1>1, <2>1, <2>2
      <4>3. Prefix(s, t)[i] = s[i]
        BY <2>1, <3>1, <4>2, PrefixIs
      <4>4. QED BY <2>2, <4>1, <4>3
    <3>2. CASE i \notin 1..t
      <4>1. i - 1 \in t..(f - 1) /\ (i - 1) + 1 = i
        BY <1>1, <2>4, <3>2
      <4>2. i - 1 \in P
        BY <2>3, <4>1
      <4>3. QED BY <4>1, <4>2
    <3>3. QED BY <3>1, <3>2
  <2>8. p = Prefix(k, f)
    <3> HIDE DEF p
    <3>1. Len(p) <= Len(k) /\ \A i \in 1..Len(p) : p[i] = k[i]
      BY <2>5, <2>6, <2>7
    <3>2. p = Prefix(k, Len(p))
      BY <1>1, <2>6, <3>1, SamePrefix
    <3>3. QED BY <2>6, <3>2
  <2>9. f = Len(s)
    <3> SUFFICES ASSUME f < Len(s) PROVE FALSE
      BY <2>1, <2>4
    <3>1. f \in 0..(Len(s) - 1)
      BY <2>1, <2>4
    <3>2. Holds(chunks[Prefix(k, f)], s[f + 1])
      BY <2>1, <2>8, <3>1, Ancestors
    <3>3. f # Len(k)
      <4>1. Prefix(k, Len(k)) = k
        BY <1>1, PrefixEnds
      <4>2. QED BY <1>5, <3>2, <4>1
    <3>4. f \in t..(Len(k) - 1) /\ f + 1 <= Len(k)
      BY <1>1, <2>4, <2>5, <3>3
    <3>5. s[f + 1] = k[f + 1]
      BY <1>4, <3>2, <3>4
    <3>6. QED BY <2>3, <2>4, <3>4, <3>5
  <2>10. s = Prefix(k, f)
    BY <2>1, <2>8, <2>9, PrefixEnds
  <2>11. f \in t..Len(k)
    BY <1>1, <2>4, <2>5
  <2>12. QED BY <2>10, <2>11
<1>9. QED BY <1>4, <1>7, <1>8

(* A removal that takes the node away                                      *)
LEMMA TakeKeeps ==
  ASSUME ConstantsType, IInv, NEW k \in Key, RemoveKey(k),
         ~(Answer(k) = NULL \/ Walked(k)[k][1] # <<>>)
  PROVE  /\ IInv'
         /\ Packed => Map!Remove(k)
<1> DEFINE top == Topmost(k, Walked(k))
           N == Len(k)
           left == DOMAIN chunks \ Below(top)
<1>1. /\ Intact /\ Tree(chunks) /\ DOMAIN value = DOMAIN chunks
      /\ k \in Seq(Char) /\ k # Root /\ N \in Nat /\ N > 0
  BY KeyIs DEF RemoveKey, IInv
<1>2. /\ chunks' = [m \in left |-> IF m = Front(top) THEN Unlinked(Walked(k)[m], Last(top))
                                   ELSE Walked(k)[m]]
      /\ value' = [m \in left |-> value[m]]
      /\ destroyed' = {<<m, value[m]>> : m \in {n \in DestroyedWith(top) : value[n] # NULL}}
      /\ answer' = (Answer(k) # NULL)
  BY DEF RemoveKey
<1>3. k \in DOMAIN chunks /\ Answer(k) = value[k] /\ value[k] # NULL
  BY <1>1, AnswerIs
<1>4. PICK t \in 1..N :
        /\ top = Prefix(k, t)
        /\ \A m \in t..(N - 1) : value[Prefix(k, m)] = NULL /\ Len(Walked(k)[Prefix(k, m)][1]) = 1
  BY <1>1, TopmostIs
<1> HIDE DEF top
<1>5. top \in DOMAIN chunks /\ top # Root /\ top \in Seq(Char)
  <2>1. t \in 0..N /\ t > 0
    BY <1>1
  <2>2. top \in DOMAIN chunks
    <3>1. Prefix(k, t) \in DOMAIN chunks
      BY <1>1, <1>3, <2>1, Ancestors
    <3>2. QED BY <1>4, <3>1
  <2>3. top \in Seq(Char) /\ Len(top) = t
    BY <1>1, <1>4, <2>1, PrefixIs
  <2>4. QED BY <2>1, <2>2, <2>3 DEF Root
<1>6. /\ DOMAIN chunks' = left /\ DOMAIN value' = left
      /\ left = {m \in DOMAIN chunks : ~IsPrefix(top, m)}
  BY <1>2 DEF Below
<1>7. ASSUME NEW m \in left
      PROVE  /\ m \in DOMAIN chunks /\ Sound(chunks[m])
             /\ Chained(Walked(k)[m]) /\ Fits(Walked(k)[m])
             /\ Holds(Walked(k)[m], NUL) \/ Same(Walked(k)[m], chunks[m])
             /\ chunks'[m] = IF m = Front(top) THEN Unlinked(Walked(k)[m], Last(top)) ELSE Walked(k)[m]
  <2>1. m \in DOMAIN chunks
    OBVIOUS
  <2>2. Sound(chunks[m])
    BY <1>1, <2>1 DEF Tree
  <2>3. chunks'[m] = IF m = Front(top) THEN Unlinked(Walked(k)[m], Last(top)) ELSE Walked(k)[m]
    BY <1>2
  <2>4. QED BY <1>1, <2>1, <2>2, <2>3, WalkedIs
<1> HIDE DEF left
<1>8. Last(top) \in Char /\ Last(top) # NUL
  BY <1>5, FrontIs DEF ConstantsType
<1>9. ASSUME \A m \in left : Same(Walked(k)[m], chunks[m])
      PROVE  Tree(chunks')
  <2>1. ASSUME NEW m \in left
        PROVE  /\ Sound(chunks'[m])
               /\ \A x : Holds(chunks'[m], x) <=> Holds(chunks[m], x) /\ ~(m = Front(top) /\ x = Last(top))
    <3>1. Sound(Walked(k)[m]) /\ \A x : Holds(Walked(k)[m], x) <=> Holds(chunks[m], x)
      BY <1>7, <1>9, SameSound DEF Same
    <3>2. CASE m = Front(top)
      <4>1. chunks'[m] = Unlinked(Walked(k)[m], Last(top))
        BY <1>7, <3>2
      <4>2. QED BY <3>1, <3>2, <4>1, UnlinkedIs DEF Sound
    <3>3. CASE m # Front(top)
      <4>1. chunks'[m] = Walked(k)[m]
        BY <1>7, <3>3
      <4>2. QED BY <3>1, <3>3, <4>1
    <3>4. QED BY <3>2, <3>3
  <2>2. DOMAIN chunks' = {m \in DOMAIN chunks : ~IsPrefix(top, m)}
    BY <1>6
  <2>3. QED BY <1>1, <1>5, <1>6, <2>1, <2>2, CutTree
<1>10. ASSUME Intact', NEW m \in left PROVE Same(Walked(k)[m], chunks[m])
  <2>1. ~Has(chunks'[m], NUL)
    BY <1>6, <1>10 DEF Intact
  <2>2. ASSUME Holds(Walked(k)[m], NUL) PROVE FALSE
    <3>1. CASE m = Front(top)
      <4>1. chunks'[m] = Unlinked(Walked(k)[m], Last(top))
        BY <1>7, <3>1
      <4>2. Chained(chunks'[m]) /\ Holds(chunks'[m], NUL)
        BY <1>7, <1>8, <2>2, <4>1, UnlinkedIs
      <4>3. QED BY <2>1, <4>2, HasIs
    <3>2. CASE m # Front(top)
      <4>1. chunks'[m] = Walked(k)[m]
        BY <1>7, <3>2
      <4>2. QED BY <1>7, <2>1, <2>2, <4>1, HasIs
    <3>3. QED BY <3>1, <3>2
  <2>3. QED BY <1>7, <2>2
<1>11. IInv'
  BY <1>6, <1>9, <1>10 DEF IInv
<1>12. ASSUME Packed PROVE Map!Remove(k)
  <2>1. \A m \in DOMAIN chunks : Same(Walked(k)[m], chunks[m]) /\ Chained(chunks[m])
    BY <1>1, <1>12, PackedCalm DEF Calm, Tree, Sound
  <2>2. Tree(chunks')
    BY <1>7, <1>9, <2>1
  <2>3. \A m \in DOMAIN chunks : Len(Walked(k)[m][1]) = Len(chunks[m][1])
    BY <2>1, SameFirst
  <2>4. Len(chunks[k][1]) = 0
    <3>1. Walked(k)[k][1] = <<>>
      OBVIOUS
    <3>2. QED BY <1>3, <2>3, <3>1
  <2>5. /\ Below(top) = {Prefix(k, m) : m \in t..N}
        /\ \A m \in t..(N - 1) : Drained(chunks[Prefix(k, m)], k[m + 1])
    <3>1. ASSUME NEW m \in t..(N - 1) PROVE Len(chunks[Prefix(k, m)][1]) = 1
      <4>1. m \in 0..N
        BY <1>1
      <4>2. Prefix(k, m) \in DOMAIN chunks
        BY <1>1, <1>3, <4>1, Ancestors
      <4>3. QED BY <1>4, <2>3, <4>2
    <3>2. QED BY <1>1, <1>3, <1>4, <1>12, <2>4, <3>1, BelowIs
  <2>6. Prefix(k, N) = k
    BY <1>1, PrefixEnds
  <2>7. k \in Below(top) /\ \A m \in Below(top) : m # k => value[m] = NULL
    <3>1. N \in t..N /\ \A m \in t..N : m = N \/ m \in t..(N - 1)
      BY <1>1
    <3>2. QED BY <1>4, <2>5, <2>6, <3>1
  <2>8. k \in DestroyedWith(top)
    <3>1. Len(top) = t
      <4>1. t \in 0..N
        BY <1>1
      <4>2. QED BY <1>1, <1>4, <4>1, PrefixIs
    <3>2. QED BY <2>5, <2>7, <3>1 DEF DestroyedWith
  <2>9. destroyed' = {<<k, value[k]>>}
    <3>1. {n \in DestroyedWith(top) : value[n] # NULL} = {k}
      BY <1>3, <2>7, <2>8 DEF DestroyedWith
    <3>2. QED BY <1>2, <3>1
  <2>10. ASSUME NEW j \in Key PROVE Answer(j)' = IF j = k THEN NULL ELSE Answer(j)
    <3>1. Answer(j)' = IF j \in left THEN value'[j] ELSE NULL
      BY <1>6, <2>2, NextAnswerIs
    <3>2. j \in left => value'[j] = value[j] /\ j \in DOMAIN chunks
      BY <1>2, <1>6
    <3>3. Answer(j) = IF j \in DOMAIN chunks THEN value[j] ELSE NULL
      BY <1>1, AnswerIs
    <3>4. j \in DOMAIN chunks => j \in left \/ j \in Below(top)
      BY DEF left
    <3>5. k \notin left
      BY <2>7 DEF left
    <3>6. QED BY <2>7, <3>1, <3>2, <3>3, <3>4, <3>5
  <2> DEFINE map == [j \in Key |-> Answer(j)]
  <2>11. map' = [map EXCEPT ![k] = NULL]
    BY <2>10
  <2>12. answer' = (map[k] # NULL)
    BY <1>2
  <2>13. destroyed' = IF map[k] = NULL THEN {} ELSE {<<k, map[k]>>}
    BY <1>3, <2>9
  <2>14. QED BY <2>11, <2>12, <2>13 DEF Map!Remove, Map!Held
<1>13. QED BY <1>11, <1>12

-----------------------------------------------------------------------------
LEMMA NextKeeps ==
  ASSUME ConstantsType, IInv, [Next]_vars
  PROVE  /\ IInv'
         /\ UNCHANGED vars \/ (Packed => Map!Next)
<1>1. CASE UNCHANGED vars
  BY <1>1 DEF vars, IInv, Intact
<1>2. ASSUME NEW k \in Key, LookupKey(k) PROVE IInv' /\ (Packed => Map!Next)
  BY <1>2, LookupKeeps DEF Map!Next
<1>3. ASSUME NEW k \in Key, RemoveKey(k) PROVE IInv' /\ (Packed => Map!Next)
  BY <1>3, ClearKeeps, TakeKeeps DEF Map!Next
<1>4. ASSUME NEW k \in Key, NEW v \in Value, InsertKey(k, v) PROVE IInv' /\ (Packed => Map!Next)
  BY <1>4, InsertKeeps DEF Map!Next
<1>5. QED BY <1>1, <1>2, <1>3, <1>4 DEF Next

(* The nodes and the chains of a trie make a tree as long as no slot was   *)
(* counted by mistake, whatever was inserted, looked up and removed, and   *)
(* chunks of whatever size: every node but the root is in the chain of the *)
(* one above it, once, and every character in a chain leads to a node.     *)
THEOREM AlwaysATree ==
  ASSUME ConstantsType
  PROVE  Spec => [](Intact => Tree(chunks))
<1>1. Init => IInv
  BY InitTree
<1>2. IInv /\ [Next]_vars => IInv'
  BY NextKeeps
<1>3. IInv => (Intact => Tree(chunks))
  BY DEF IInv
<1>4. QED BY <1>1, <1>2, <1>3, PTL DEF Spec

(* Every call made while the chunks are packed is the call on a map: it    *)
(* answers what was put there last, and value_destroy gets a value when it *)
(* is replaced or removed, that one and no other.                          *)
THEOREM CallsAreCallsOnAMap ==
  ASSUME ConstantsType
  PROVE  Spec => StepsOfAMap
<1>1. Init => IInv
  BY InitTree
<1>2. IInv /\ [Next]_vars => IInv' /\ [UNCHANGED vars \/ (Packed => Map!Next)]_vars
  BY NextKeeps
<1>3. QED BY <1>1, <1>2, PTL DEF Spec, StepsOfAMap
=============================================================================
