---------------------------- MODULE ListProofs ----------------------------
(***************************************************************************)
(* Proofs about the lists that keep up with other lists, for every value   *)
(* of the constants: DzlListModelFilter, whose names have LF! before them, *)
(* and DzlJoinedMenu, with JM!.  Both rest on the same facts: how a        *)
(* sequence is cut in three, what replacing the middle part does, and what *)
(* that does to a list made of a piece for each element.                   *)
(***************************************************************************)
EXTENDS ListChanges, Integers, Sequences, SequenceTheorems, FiniteSetTheorems, WellFoundedInduction, TLAPS

CONSTANTS
  Item, MaxAdded, Idle, Menu, MaxItems,
  Widget, Window, Parent, Type, Key, MaxChord, Command, Action, Accel, Phase, Registers,
  Theme, Internal, ParentName, KeyTheme, Overrides, Chord, Removes, Named, Hideable, Failing,
  NoMatch, Partial, Eaten, None
VARIABLES
  child, child_seq, filter_seq, visible, change, seen, items, menus, read,
  attached, alive, unusable, focus, commands, context_name, root, descendants, current_chord,
  contexts, chord_of, chain_phase, theme, disabled, ran

(* Both components name their copy `seen'; that of the joined menu is read. *)
LF == INSTANCE DzlListModelFilter
JM == INSTANCE DzlJoinedMenu WITH seen <- read
SC == INSTANCE DzlShortcutManager

-----------------------------------------------------------------------------
(* Induction, for a set in place of a predicate.                           *)
LEMMA SetInduction ==
  ASSUME NEW S \in SUBSET Nat, 0 \in S, \A n \in Nat : n \in S => n + 1 \in S
  PROVE  \A n \in Nat : n \in S
<1> DEFINE lt == OpToRel(<, Nat)
           left == Nat \ S
<1>1. IsWellFoundedOn(lt, Nat)
  BY NatLessThanWellFounded DEF OpToRel
<1>2. \A i, j \in Nat : j < i => <<j, i>> \in lt
  BY DEF OpToRel
<1> HIDE DEF lt
<1>3. ASSUME left # {} PROVE FALSE
  <2>1. left \subseteq Nat
    OBVIOUS
  <2> HIDE DEF left
  <2>2. PICK i \in left : \A j \in left : ~(<<j, i>> \in lt)
    BY <1>1, <1>3, <2>1, WFMin
  <2> USE DEF left
  <2>3. i \in Nat \ {0} /\ i - 1 \in Nat /\ i - 1 < i
    OBVIOUS
  <2>4. i - 1 \notin left
    BY <1>2, <2>2, <2>3
  <2>5. i - 1 \in S /\ (i - 1) + 1 = i
    BY <2>3, <2>4
  <2>6. QED BY <2>3, <2>5
<1>4. QED BY <1>3

-----------------------------------------------------------------------------
(* Sequences cut in parts.  Inj is injectivity, element by element.        *)
Inj(s) == \A i, j \in 1..Len(s) : s[i] = s[j] => i = j
Elements(s) == {s[i] : i \in 1..Len(s)}

(* \o and SubSeq under names of their own: an equation between names is     *)
(* one for the provers, not one for each element.                          *)
Both(a, b) == a \o b
Whole(a, b, c) == a \o (b \o c)
Slice(s, m, n) == SubSeq(s, m, n)
Three(T, a, b, c) == a \in Seq(T) /\ b \in Seq(T) /\ c \in Seq(T)
CanCut(T, s, p, n) == s \in Seq(T) /\ p \in Nat /\ n \in Nat /\ p + n <= Len(s)

(* a, b and c are s: the first p elements, the next n and the others.      *)
Cuts(T, s, p, n, a, b, c) ==
  /\ Three(T, a, b, c)
  /\ s = Whole(a, b, c) /\ Len(a) = p /\ Len(b) = n
  /\ a = Slice(s, 1, p) /\ b = Slice(s, p + 1, p + n)
  /\ c = Slice(s, p + n + 1, Len(s))

LEMMA Parts ==
  ASSUME NEW T, NEW s, NEW p, NEW n, CanCut(T, s, p, n)
  PROVE  \E a, b, c : Cuts(T, s, p, n, a, b, c)
<1>0. s \in Seq(T) /\ p \in Nat /\ n \in Nat /\ p + n <= Len(s)
  BY DEF CanCut
<1> DEFINE a == SubSeq(s, 1, p)
           b == SubSeq(s, p + 1, p + n)
           c == SubSeq(s, p + n + 1, Len(s))
<1>1. Len(s) \in Nat /\ \A i \in 1..Len(s) : s[i] \in T
  BY <1>0, LenProperties
<1>2. a \in Seq(T) /\ Len(a) = p /\ \A i \in 1..p : a[i] = s[i]
  BY <1>0, <1>1, SubSeqProperties
<1>3. b \in Seq(T) /\ Len(b) = n /\ \A i \in 1..n : b[i] = s[p + i]
  BY <1>0, <1>1, SubSeqProperties
<1>4. c \in Seq(T) /\ Len(c) = Len(s) - p - n /\ \A i \in 1..(Len(s) - p - n) : c[i] = s[p + n + i]
  BY <1>0, <1>1, SubSeqProperties
<1> HIDE DEF a, b, c
<1>5. /\ b \o c \in Seq(T) /\ Len(b \o c) = Len(s) - p
      /\ \A i \in 1..(Len(s) - p) : (b \o c)[i] = s[p + i]
  <2>1. /\ b \o c \in Seq(T) /\ Len(b \o c) = Len(b) + Len(c)
        /\ \A i \in 1..(Len(b) + Len(c)) : (b \o c)[i] = IF i <= Len(b) THEN b[i] ELSE c[i - Len(b)]
    BY <1>3, <1>4, ConcatProperties, ZenonT(60)
  <2>2. ASSUME NEW i \in 1..(Len(s) - p) PROVE (b \o c)[i] = s[p + i]
    <3>1. CASE i <= n
      BY <1>0, <1>1, <1>3, <1>4, <2>1, <3>1
    <3>2. CASE i > n
      <4>1. i - n \in 1..(Len(s) - p - n) /\ p + n + (i - n) = p + i
        BY <1>0, <1>1, <3>2
      <4>2. c[i - n] = s[p + i]
        BY <1>4, <4>1
      <4>3. QED BY <1>0, <1>1, <1>3, <1>4, <2>1, <3>2, <4>2
    <3>3. i <= n \/ i > n
      BY <1>0, <1>1
    <3>4. QED BY <3>1, <3>2, <3>3
  <2>3. QED BY <1>0, <1>1, <1>3, <1>4, <2>1, <2>2
<1>6. s = a \o (b \o c)
  <2>1. /\ a \o (b \o c) \in Seq(T) /\ Len(a \o (b \o c)) = Len(a) + Len(b \o c)
        /\ \A i \in 1..(Len(a) + Len(b \o c)) :
             (a \o (b \o c))[i] = IF i <= Len(a) THEN a[i] ELSE (b \o c)[i - Len(a)]
    BY <1>0, <1>2, <1>5, ConcatProperties, SMTT(30)
  <2>2. Len(a \o (b \o c)) = Len(s)
    BY <1>0, <1>1, <1>2, <1>5, <2>1
  <2>3. ASSUME NEW i \in 1..Len(s) PROVE (a \o (b \o c))[i] = s[i]
    <3>1. CASE i <= p
      BY <1>0, <1>1, <1>2, <1>5, <2>1, <3>1
    <3>2. CASE i > p
      <4>1. i - p \in 1..(Len(s) - p) /\ p + (i - p) = i
        BY <1>0, <1>1, <3>2
      <4>2. (b \o c)[i - p] = s[i]
        BY <1>5, <4>1
      <4>3. i \in 1..(Len(a) + Len(b \o c)) /\ ~(i <= Len(a))
        BY <1>0, <1>1, <1>2, <1>5, <3>2
      <4>4. QED BY <1>2, <2>1, <4>2, <4>3
    <3>3. i <= p \/ i > p
      BY <1>0, <1>1
    <3>4. QED BY <3>1, <3>2, <3>3
  <2>4. QED BY <1>0, <2>1, <2>2, <2>3, SeqEqual
<1>7. Cuts(T, s, p, n, a, b, c)
  BY <1>2, <1>3, <1>4, <1>6 DEF a, b, c, Whole, Three, Slice, Cuts
<1>8. QED BY <1>7

LEMMA Cut ==
  ASSUME NEW T, NEW a \in Seq(T), NEW b \in Seq(T)
  PROVE  /\ Slice(Both(a, b), 1, Len(a)) = a
         /\ Slice(Both(a, b), Len(a) + 1, Len(a) + Len(b)) = b
         /\ Len(Both(a, b)) = Len(a) + Len(b)
<1> DEFINE s == a \o b
<1>1. Len(a) \in Nat /\ Len(b) \in Nat
  BY LenProperties
<1>2. /\ s \in Seq(T) /\ Len(s) = Len(a) + Len(b)
      /\ \A i \in 1..(Len(a) + Len(b)) : s[i] = IF i <= Len(a) THEN a[i] ELSE b[i - Len(a)]
  BY ConcatProperties
<1> HIDE DEF s, Both, Slice
<1>3. \A i \in 1..Len(s) : s[i] \in T
  BY <1>2, LenProperties
<1>4. SubSeq(s, 1, Len(a)) = a
  <2>1. /\ SubSeq(s, 1, Len(a)) \in Seq(T) /\ Len(SubSeq(s, 1, Len(a))) = Len(a)
        /\ \A i \in 1..Len(a) : SubSeq(s, 1, Len(a))[i] = s[i]
    BY <1>1, <1>2, <1>3, SubSeqProperties
  <2>2. \A i \in 1..Len(a) : SubSeq(s, 1, Len(a))[i] = a[i]
    BY <1>1, <1>2, <2>1
  <2>3. QED BY <2>1, <2>2, SeqEqual
<1>5. SubSeq(s, Len(a) + 1, Len(a) + Len(b)) = b
  <2> DEFINE r == SubSeq(s, Len(a) + 1, Len(a) + Len(b))
  <2>1. r \in Seq(T) /\ Len(r) = Len(b) /\ \A i \in 1..Len(b) : r[i] = s[Len(a) + i]
    BY <1>1, <1>2, <1>3, SubSeqProperties
  <2> HIDE DEF r
  <2>2. ASSUME NEW i \in 1..Len(b) PROVE r[i] = b[i]
    <3>1. Len(a) + i \in 1..(Len(a) + Len(b)) /\ ~(Len(a) + i <= Len(a)) /\ (Len(a) + i) - Len(a) = i
      BY <1>1
    <3>2. s[Len(a) + i] = b[i]
      BY <1>2, <3>1
    <3>3. QED BY <2>1, <3>2
  <2>3. QED BY <2>1, <2>2, SeqEqual DEF r
<1>6. QED BY <1>2, <1>4, <1>5 DEF s, Both, Slice

LEMMA CutInThree ==
  ASSUME NEW T, NEW a, NEW b, NEW c, Three(T, a, b, c)
  PROVE  /\ Whole(a, b, c) \in Seq(T)
         /\ Len(Whole(a, b, c)) = Len(a) + Len(b) + Len(c)
         /\ Slice(Whole(a, b, c), 1, Len(a)) = a
         /\ Slice(Whole(a, b, c), Len(a) + 1, Len(a) + Len(b)) = b
         /\ Slice(Whole(a, b, c), Len(a) + Len(b) + 1, Len(a) + Len(b) + Len(c)) = c
         /\ Whole(a, b, c) = Both(a, Both(b, c))
         /\ Whole(a, b, c) = Both(Both(a, b), c)
<1>0. a \in Seq(T) /\ b \in Seq(T) /\ c \in Seq(T)
  BY DEF Three
<1>1. Len(a) \in Nat /\ Len(b) \in Nat /\ Len(c) \in Nat
  BY <1>0, LenProperties
<1>2. b \o c \in Seq(T) /\ a \o b \in Seq(T) /\ (a \o b) \o c = a \o (b \o c)
  BY <1>0, ConcatProperties, ConcatAssociative
<1>3. /\ a \o (b \o c) \in Seq(T) /\ Len(b \o c) = Len(b) + Len(c)
      /\ Len(a \o (b \o c)) = Len(a) + Len(b \o c)
      /\ Len(a \o b) = Len(a) + Len(b)
  BY <1>0, <1>2, ConcatProperties
<1>4. SubSeq(a \o (b \o c), 1, Len(a)) = a
  BY <1>0, <1>2, Cut DEF Both, Slice
<1>5. SubSeq(a \o (b \o c), Len(a) + Len(b) + 1, Len(a) + Len(b) + Len(c)) = c
  <2>1. SubSeq((a \o b) \o c, Len(a \o b) + 1, Len(a \o b) + Len(c)) = c
    BY <1>0, <1>2, Cut DEF Both, Slice
  <2>2. QED BY <1>0, <1>2, <1>3, <2>1
<1>6. SubSeq(a \o (b \o c), Len(a) + 1, Len(a) + Len(b)) = b
  <2> DEFINE s == a \o (b \o c)
             r == SubSeq(s, Len(a) + 1, Len(a) + Len(b))
             bc == b \o c
  <2>0. \A i \in 1..Len(s) : s[i] \in T
    BY <1>3, LenProperties
  <2>1. r \in Seq(T) /\ Len(r) = Len(b) /\ \A i \in 1..Len(b) : r[i] = s[Len(a) + i]
    <3>1. \A i \in Len(a) + 1..Len(a) + Len(b) : s[i] \in T
      <4> HIDE DEF s
      <4>1. Len(s) = Len(a) + Len(b) + Len(c)
        BY <1>1, <1>3 DEF s
      <4>2. QED BY <1>1, <2>0, <4>1
    <3> HIDE DEF s
    <3>2. QED BY <1>1, <3>1, SubSeqProperties
  <2>2. /\ \A i \in 1..(Len(a) + Len(bc)) : s[i] = IF i <= Len(a) THEN a[i] ELSE bc[i - Len(a)]
        /\ \A i \in 1..(Len(b) + Len(c)) : bc[i] = IF i <= Len(b) THEN b[i] ELSE c[i - Len(b)]
    BY <1>0, <1>2, ConcatProperties
  <2>3. Len(bc) = Len(b) + Len(c)
    BY <1>3
  <2> HIDE DEF r, s, bc
  <2>4. ASSUME NEW i \in 1..Len(b) PROVE r[i] = b[i]
    <3>1. /\ Len(a) + i \in 1..(Len(a) + Len(bc)) /\ ~(Len(a) + i <= Len(a))
          /\ (Len(a) + i) - Len(a) = i /\ i \in 1..(Len(b) + Len(c)) /\ i <= Len(b)
      BY <1>1, <2>3
    <3>2. s[Len(a) + i] = bc[i] /\ bc[i] = b[i]
      BY <2>2, <3>1
    <3>3. QED BY <2>1, <3>2
  <2>5. QED BY <1>0, <2>1, <2>4, SeqEqual DEF r, s
<1>7. Len(a \o (b \o c)) = Len(a) + Len(b) + Len(c)
  BY <1>1, <1>3
<1>8. Whole(a, b, c) = Both(a, Both(b, c)) /\ Whole(a, b, c) = Both(Both(a, b), c)
  BY <1>2 DEF Whole, Both
<1>9. QED BY <1>3, <1>4, <1>5, <1>6, <1>7, <1>8 DEF Whole, Slice
-----------------------------------------------------------------------------
(* What a listener is told, for a list in parts.                           *)
LEMMA Spliced ==
  ASSUME NEW T, NEW a, NEW b, NEW c, NEW d, Three(T, a, b, c), Three(T, a, d, c)
  PROVE  /\ Without(Whole(a, b, c), Len(a), Len(b)) = Both(a, c)
         /\ With(Both(a, c), Len(a), d) = Whole(a, d, c)
         /\ Told(Whole(a, b, c), Whole(a, d, c), Len(a), Len(b), Len(d)) = Whole(a, d, c)
<1>0. a \in Seq(T) /\ b \in Seq(T) /\ c \in Seq(T) /\ d \in Seq(T)
  BY DEF Three
<1>1. Without(Whole(a, b, c), Len(a), Len(b)) = Both(a, c)
  <2>1. /\ Slice(Whole(a, b, c), 1, Len(a)) = a
        /\ Slice(Whole(a, b, c), Len(a) + Len(b) + 1, Len(a) + Len(b) + Len(c)) = c
        /\ Len(Whole(a, b, c)) = Len(a) + Len(b) + Len(c)
    BY CutInThree
  <2> DEFINE s == Whole(a, b, c)
  <2> HIDE DEF s
  <2>2. Without(s, Len(a), Len(b)) = Both(Slice(s, 1, Len(a)), Slice(s, Len(a) + Len(b) + 1, Len(s)))
    BY DEF Without, Both, Slice
  <2>3. QED BY <2>1, <2>2 DEF s
<1>2. With(Both(a, c), Len(a), d) = Whole(a, d, c)
  <2>1. Whole(a, d, c) = Both(Both(a, d), c)
    BY CutInThree
  <2>2. /\ Slice(Both(a, c), 1, Len(a)) = a
        /\ Slice(Both(a, c), Len(a) + 1, Len(a) + Len(c)) = c
        /\ Len(Both(a, c)) = Len(a) + Len(c)
    BY <1>0, Cut
  <2> DEFINE s == Both(a, c)
  <2> HIDE DEF s
  <2>3. With(s, Len(a), d) = Both(Both(Slice(s, 1, Len(a)), d), Slice(s, Len(a) + 1, Len(s)))
    BY DEF With, Both, Slice
  <2>4. QED BY <2>1, <2>2, <2>3 DEF s
<1>3. Slice(Whole(a, d, c), Len(a) + 1, Len(a) + Len(d)) = d
  BY CutInThree
<1>4. ASSUME NEW s, NEW now
      PROVE  Told(s, now, Len(a), Len(b), Len(d))
               = With(Without(s, Len(a), Len(b)), Len(a), Slice(now, Len(a) + 1, Len(a) + Len(d)))
  BY DEF Told, Slice
<1>5. QED BY <1>1, <1>2, <1>3, <1>4

(* Nothing that is added needs to be read.                                 *)
LEMMA ToldGone ==
  ASSUME NEW T, NEW a, NEW b, NEW c, NEW now, Three(T, a, b, c)
  PROVE  Told(Whole(a, b, c), now, Len(a), Len(b), 0) = Both(a, c)
<1>0. a \in Seq(T) /\ b \in Seq(T) /\ c \in Seq(T)
  BY DEF Three
<1>1. Len(a) \in Nat
  BY <1>0, LenProperties
<1> DEFINE none == <<>>
<1>2. SubSeq(now, Len(a) + 1, Len(a) + 0) = none
  BY <1>1, SubSeqEmpty
<1>3. none \in Seq(T) /\ Whole(a, none, c) = Both(a, c)
  BY <1>0, EmptySeq, ConcatEmptySeq DEF Whole, Both
<1> HIDE DEF none
<1>4. /\ Without(Whole(a, b, c), Len(a), Len(b)) = Both(a, c)
      /\ With(Both(a, c), Len(a), none) = Whole(a, none, c)
  <2>1. Three(T, a, none, c)
    BY <1>0, <1>3 DEF Three
  <2>2. QED BY <2>1, Spliced
<1>5. Told(Whole(a, b, c), now, Len(a), Len(b), 0)
        = With(Without(Whole(a, b, c), Len(a), Len(b)), Len(a), SubSeq(now, Len(a) + 1, Len(a) + 0))
  BY DEF Told
<1>6. QED BY <1>2, <1>3, <1>4, <1>5

(* What is left of a list, and what took the place of the rest.            *)
LEMMA PutBack ==
  ASSUME NEW T, NEW s, NEW p, NEW n, CanCut(T, s, p, n)
  PROVE  /\ With(Without(s, p, n), p, Slice(s, p + 1, p + n)) = s
         /\ Without(s, p, 0) = s
<1>0. PICK a, b, c : Cuts(T, s, p, n, a, b, c)
  BY Parts
<1>1. /\ Three(T, a, b, c) /\ s = Whole(a, b, c) /\ Len(a) = p /\ Len(b) = n
      /\ b = Slice(s, p + 1, p + n)
  BY <1>0 DEF Cuts
<1>2. With(Without(s, p, n), p, Slice(s, p + 1, p + n)) = s
  <2>1. /\ Without(Whole(a, b, c), Len(a), Len(b)) = Both(a, c)
        /\ With(Both(a, c), Len(a), b) = Whole(a, b, c)
    BY <1>1, Spliced
  <2>2. QED BY <1>1, <2>1
<1>3. Without(s, p, 0) = s
  <2> DEFINE bc == Both(b, c)
             none == <<>>
  <2>1. /\ a \in Seq(T) /\ none \in Seq(T) /\ bc \in Seq(T) /\ Len(none) = 0
        /\ Whole(a, none, bc) = Both(a, bc)
    BY <1>1, EmptySeq, ConcatEmptySeq, ConcatProperties DEF Three, Both, Whole
  <2>2. Three(T, a, none, bc)
    BY <2>1 DEF Three
  <2>3. Both(a, bc) = s
    BY <1>1, CutInThree
  <2> HIDE DEF bc, none
  <2>4. Without(Whole(a, none, bc), Len(a), Len(none)) = Both(a, bc)
    BY <2>2, Spliced
  <2>5. QED BY <1>1, <2>1, <2>3, <2>4
<1>4. QED BY <1>2, <1>3

-----------------------------------------------------------------------------
(* Elements and Inj of a concatenation.                                    *)
LEMMA ElementsOfParts ==
  ASSUME NEW T, NEW a \in Seq(T), NEW b \in Seq(T)
  PROVE  /\ Elements(Both(a, b)) = Elements(a) \cup Elements(b)
         /\ Inj(Both(a, b)) <=> Inj(a) /\ Inj(b) /\ Elements(a) \cap Elements(b) = {}
<1> DEFINE s == a \o b
<1>1. Len(a) \in Nat /\ Len(b) \in Nat
  BY LenProperties
<1>2. /\ Len(s) = Len(a) + Len(b)
      /\ \A i \in 1..(Len(a) + Len(b)) : s[i] = IF i <= Len(a) THEN a[i] ELSE b[i - Len(a)]
  BY ConcatProperties
<1> HIDE DEF s
<1>3. /\ \A i \in 1..Len(a) : i \in 1..Len(s) /\ s[i] = a[i]
      /\ \A i \in 1..Len(b) : Len(a) + i \in 1..Len(s) /\ s[Len(a) + i] = b[i]
  <2>1. ASSUME NEW i \in 1..Len(b) PROVE Len(a) + i \in 1..Len(s) /\ s[Len(a) + i] = b[i]
    <3>1. Len(a) + i \in 1..(Len(a) + Len(b)) /\ ~(Len(a) + i <= Len(a)) /\ (Len(a) + i) - Len(a) = i
      BY <1>1
    <3>2. QED BY <1>2, <3>1
  <2>2. QED BY <1>1, <1>2, <2>1
<1>4. \A k \in 1..Len(s) : k \in 1..Len(a) \/ \E i \in 1..Len(b) : k = Len(a) + i
  <2> TAKE k \in 1..Len(s)
  <2>1. k \notin 1..Len(a) => k - Len(a) \in 1..Len(b) /\ k = Len(a) + (k - Len(a))
    BY <1>1, <1>2
  <2>2. QED BY <2>1
<1>5. Elements(s) = Elements(a) \cup Elements(b)
  <2>1. ASSUME NEW x \in Elements(s) PROVE x \in Elements(a) \cup Elements(b)
    <3>1. PICK k \in 1..Len(s) : x = s[k]
      BY DEF Elements
    <3>2. CASE k \in 1..Len(a)
      BY <1>3, <3>1, <3>2 DEF Elements
    <3>3. ASSUME NEW i \in 1..Len(b), k = Len(a) + i PROVE x \in Elements(b)
      BY <1>3, <3>1, <3>3 DEF Elements
    <3>4. QED BY <1>4, <3>2, <3>3
  <2>2. ASSUME NEW x \in Elements(a) \cup Elements(b) PROVE x \in Elements(s)
    BY <1>3 DEF Elements
  <2>3. QED BY <2>1, <2>2
<1>6. ASSUME Inj(s) PROVE Inj(a) /\ Inj(b) /\ Elements(a) \cap Elements(b) = {}
  <2>1. Inj(a)
    BY <1>3, <1>6 DEF Inj
  <2>2. \A i, j \in 1..Len(b) : b[i] = b[j] => Len(a) + i = Len(a) + j
    BY <1>3, <1>6 DEF Inj
  <2>3. Inj(b)
    BY <1>1, <2>2 DEF Inj
  <2>4. \A i \in 1..Len(a), j \in 1..Len(b) : a[i] = b[j] => i = Len(a) + j
    BY <1>3, <1>6 DEF Inj
  <2>5. \A i \in 1..Len(a), j \in 1..Len(b) : i # Len(a) + j
    BY <1>1
  <2>6. QED BY <2>1, <2>3, <2>4, <2>5 DEF Elements
<1>7. ASSUME Inj(a), Inj(b), Elements(a) \cap Elements(b) = {} PROVE Inj(s)
  <2> SUFFICES ASSUME NEW i \in 1..Len(s), NEW j \in 1..Len(s), s[i] = s[j] PROVE i = j
    BY DEF Inj
  <2>1. CASE i \in 1..Len(a) /\ j \in 1..Len(a)
    BY <1>3, <1>7, <2>1 DEF Inj
  <2>2. ASSUME NEW k \in 1..Len(a), NEW l \in 1..Len(b), s[k] = s[Len(a) + l] PROVE FALSE
    <3>1. a[k] \in Elements(a) /\ b[l] \in Elements(b) /\ a[k] = b[l]
      BY <1>3, <2>2 DEF Elements
    <3>2. QED BY <1>7, <3>1
  <2>3. ASSUME NEW k \in 1..Len(b), NEW l \in 1..Len(b), s[Len(a) + k] = s[Len(a) + l] PROVE k = l
    <3>1. b[k] = b[l]
      BY <1>3, <2>3
    <3>2. QED BY <1>7, <3>1 DEF Inj
  <2>4. QED BY <1>4, <2>1, <2>2, <2>3
<1>8. QED BY <1>5, <1>6, <1>7 DEF s, Both

LEMMA ElementsOfOne ==
  ASSUME NEW T, NEW x \in T
  PROVE  <<x>> \in Seq(T) /\ Len(<<x>>) = 1 /\ Elements(<<x>>) = {x} /\ Inj(<<x>>)
<1>1. <<x>> \in Seq(T) /\ Len(<<x>>) = 1 /\ <<x>>[1] = x
  OBVIOUS
<1>2. 1..1 = {1}
  OBVIOUS
<1>3. QED BY <1>1, <1>2 DEF Elements, Inj

LEMMA ElementsOfNone ==
  Len(<<>>) = 0 /\ Elements(<<>>) = {} /\ Inj(<<>>)
<1>1. Len(<<>>) = 0 /\ 1..0 = {}
  OBVIOUS
<1>2. QED BY <1>1 DEF Elements, Inj

LEMMA ElementsOfWhole ==
  ASSUME NEW T, NEW a, NEW b, NEW c, Three(T, a, b, c)
  PROVE  /\ Elements(Whole(a, b, c)) = Elements(a) \cup Elements(b) \cup Elements(c)
         /\ Inj(Whole(a, b, c)) <=>
              /\ Inj(a) /\ Inj(b) /\ Inj(c)
              /\ Elements(a) \cap Elements(b) = {} /\ Elements(a) \cap Elements(c) = {}
              /\ Elements(b) \cap Elements(c) = {}
<1> DEFINE bc == Both(b, c)
<1>1. a \in Seq(T) /\ b \in Seq(T) /\ c \in Seq(T) /\ bc \in Seq(T)
  BY ConcatProperties DEF Three, Both
<1>2. Elements(bc) = Elements(b) \cup Elements(c)
      /\ (Inj(bc) <=> Inj(b) /\ Inj(c) /\ Elements(b) \cap Elements(c) = {})
  BY <1>1, ElementsOfParts
<1>3. Whole(a, b, c) = Both(a, bc)
  BY CutInThree
<1> HIDE DEF bc
<1>4. Elements(Both(a, bc)) = Elements(a) \cup Elements(bc)
      /\ (Inj(Both(a, bc)) <=> Inj(a) /\ Inj(bc) /\ Elements(a) \cap Elements(bc) = {})
  BY <1>1, ElementsOfParts
<1>5. QED BY <1>2, <1>3, <1>4

(* Induction over sequences, for a set in place of a predicate.            *)
LEMMA SequenceInduction ==
  ASSUME NEW T, NEW P, <<>> \in P,
         \A s \in Seq(T), x \in T : s \in P => Both(s, <<x>>) \in P
  PROVE  \A s \in Seq(T) : s \in P
<1> DEFINE S == {n \in Nat : \A s \in Seq(T) : Len(s) = n => s \in P}
<1>1. 0 \in S
  <2>1. \A s \in Seq(T) : Len(s) = 0 => s = <<>>
    BY EmptySeq
  <2>2. QED BY <2>1
<1>2. ASSUME NEW n \in Nat, n \in S PROVE n + 1 \in S
  <2> SUFFICES ASSUME NEW s \in Seq(T), Len(s) = n + 1 PROVE s \in P
    OBVIOUS
  <2>1. s # <<>>
    OBVIOUS
  <2>2. PICK t \in Seq(T), x \in T : s = Append(t, x)
    BY <2>1, SequenceEmptyOrAppend
  <2>3. s = Both(t, <<x>>) /\ Len(t) = n
    BY <2>2, AppendIsConcat, AppendProperties, LenProperties DEF Both
  <2>4. QED BY <1>2, <2>3
<1> HIDE DEF S
<1>3. S \in SUBSET Nat
  BY DEF S
<1>4. \A n \in Nat : n \in S
  BY <1>1, <1>2, <1>3, SetInduction
<1>5. QED BY <1>4, LenProperties DEF S
-----------------------------------------------------------------------------
(* FlattenSeq, which LF and JM have from the same module.                  *)
Flat(seqs) == LF!FlattenSeq(seqs)

LEMMA OneFlatten == \A seqs : JM!FlattenSeq(seqs) = Flat(seqs)
  BY DEF Flat, LF!FlattenSeq, JM!FlattenSeq

(* What FlattenSeq has after each of the sequences.                        *)
Chain(seqs, g) ==
  g = [i \in 1..Len(seqs) |-> IF i = 1 THEN seqs[i] ELSE Both(g[i - 1], seqs[i])]

LEMMA ChainIs ==
  ASSUME NEW T, NEW s \in Seq(T), NEW g, Chain(s, g)
  PROVE  /\ Len(s) > 0 => g[1] = s[1]
         /\ \A i \in Nat : 1 <= i /\ i < Len(s) => g[i + 1] = Both(g[i], s[i + 1])
<1>1. Len(s) \in Nat
  BY LenProperties
<1>2. \A i \in 1..Len(s) : g[i] = IF i = 1 THEN s[i] ELSE Both(g[i - 1], s[i])
  BY DEF Chain
<1>3. ASSUME NEW i \in Nat, 1 <= i, i < Len(s) PROVE g[i + 1] = Both(g[i], s[i + 1])
  <2>1. i + 1 \in 1..Len(s) /\ i + 1 # 1 /\ (i + 1) - 1 = i
    BY <1>1, <1>3
  <2> PICK k : k = i + 1
    OBVIOUS
  <2>2. g[k] = Both(g[k - 1], s[k])
    BY <1>2, <2>1
  <2>3. QED BY <2>1, <2>2
<1>4. QED BY <1>1, <1>2, <1>3

LEMMA ChainUnique ==
  ASSUME NEW T, NEW s \in Seq(T), NEW f, NEW g, Chain(s, f), Chain(s, g), Len(s) > 0
  PROVE  f[Len(s)] = g[Len(s)]
<1> DEFINE S == {n \in Nat : 1 <= n /\ n <= Len(s) => f[n] = g[n]}
<1>0. Len(s) \in Nat
  BY LenProperties
<1>1. 0 \in S
  OBVIOUS
<1>2. ASSUME NEW n \in Nat, n \in S PROVE n + 1 \in S
  <2> SUFFICES ASSUME n + 1 <= Len(s) PROVE f[n + 1] = g[n + 1]
    OBVIOUS
  <2>1. CASE n = 0
    <3>1. f[1] = s[1] /\ g[1] = s[1]
      BY ChainIs
    <3>2. QED BY <2>1, <3>1
  <2>2. CASE n # 0
    <3>1. 1 <= n /\ n < Len(s) /\ n <= Len(s)
      BY <1>0, <2>2
    <3>2. f[n] = g[n]
      BY <1>2, <3>1
    <3>3. f[n + 1] = Both(f[n], s[n + 1]) /\ g[n + 1] = Both(g[n], s[n + 1])
      BY <3>1, ChainIs
    <3>4. QED BY <3>2, <3>3
  <2>3. QED BY <2>1, <2>2
<1> HIDE DEF S
<1>3. S \in SUBSET Nat
  BY DEF S
<1>4. Len(s) \in S
  BY <1>0, <1>1, <1>2, <1>3, SetInduction
<1>5. QED BY <1>0, <1>4 DEF S

LEMMA OneMore ==
  ASSUME NEW T, NEW s \in Seq(T), NEW x \in T
  PROVE  /\ Both(s, <<x>>) \in Seq(T) /\ Len(Both(s, <<x>>)) = Len(s) + 1
         /\ Both(s, <<x>>)[Len(s) + 1] = x
         /\ \A i \in 1..Len(s) : Both(s, <<x>>)[i] = s[i]
<1>1. Both(s, <<x>>) = Append(s, x)
  BY AppendIsConcat DEF Both
<1>2. QED BY <1>1, AppendProperties, SMTT(40)

LEMMA ChainExtended ==
  ASSUME NEW T, NEW s \in Seq(T), NEW x \in T, NEW g, Chain(s, g)
  PROVE  LET n == Len(s) + 1
         IN  Chain(Both(s, <<x>>),
                   [i \in 1..n |-> IF i < n THEN g[i] ELSE IF n = 1 THEN x ELSE Both(g[n - 1], x)])
<1> DEFINE n == Len(s) + 1
           t == Both(s, <<x>>)
           h == [i \in 1..n |-> IF i < n THEN g[i] ELSE IF n = 1 THEN x ELSE Both(g[n - 1], x)]
<1>1. Len(s) \in Nat /\ Len(t) = n /\ t[n] = x /\ \A i \in 1..Len(s) : t[i] = s[i]
  BY OneMore, LenProperties, SMTT(30)
<1>2. \A i \in 1..Len(s) : g[i] = IF i = 1 THEN s[i] ELSE Both(g[i - 1], s[i])
  BY DEF Chain
<1> HIDE DEF t
<1>3. ASSUME NEW i \in 1..n PROVE h[i] = IF i = 1 THEN t[i] ELSE Both(h[i - 1], t[i])
  <2>1. CASE i < n
    <3>1. i \in 1..Len(s) /\ (i # 1 => i - 1 \in 1..n /\ i - 1 < n)
      BY <1>1, <2>1
    <3>2. h[i] = g[i] /\ t[i] = s[i] /\ (i # 1 => h[i - 1] = g[i - 1])
      BY <1>1, <2>1, <3>1
    <3>3. QED BY <1>2, <3>1, <3>2
  <2>2. CASE i = n
    <3>1. n # 1 => n - 1 \in 1..n /\ n - 1 < n
      BY <1>1
    <3>2. h[n] = IF n = 1 THEN x ELSE Both(g[n - 1], x)
      BY <1>1
    <3>3. n # 1 => h[n - 1] = g[n - 1]
      BY <3>1
    <3>4. QED BY <1>1, <2>2, <3>2, <3>3
  <2>3. i < n \/ i = n
    BY <1>1
  <2>4. QED BY <2>1, <2>2, <2>3
<1>4. h = [i \in 1..Len(t) |-> IF i = 1 THEN t[i] ELSE Both(h[i - 1], t[i])]
  <2>1. h = [i \in 1..n |-> h[i]]
    OBVIOUS
  <2> HIDE DEF h
  <2>2. QED BY <1>1, <1>3, <2>1
<1>5. Chain(t, h)
  BY <1>4 DEF Chain
<1>6. QED BY <1>5 DEF t

LEMMA ChainExists ==
  ASSUME NEW T, NEW s \in Seq(T)
  PROVE  \E g : Chain(s, g)
<1> DEFINE P == {r \in Seq(T) : \E g : Chain(r, g)}
<1>1. <<>> \in P
  <2>1. <<>> \in Seq(T) /\ Len(<<>>) = 0 /\ 1..0 = {}
    BY EmptySeq
  <2>2. Chain(<<>>, [i \in {} |-> 0])
    BY <2>1 DEF Chain
  <2>3. QED BY <2>1, <2>2
<1>2. ASSUME NEW r \in Seq(T), NEW x \in T, r \in P PROVE Both(r, <<x>>) \in P
  <2>1. PICK g : Chain(r, g)
    BY <1>2
  <2>2. \E h : Chain(Both(r, <<x>>), h)
    BY <2>1, ChainExtended
  <2>3. QED BY <2>2, OneMore
<1> HIDE DEF P
<1>3. \A r \in Seq(T) : r \in P
  BY <1>1, <1>2, SequenceInduction
<1>4. QED BY <1>3 DEF P

LEMMA FlatIs ==
  ASSUME NEW T, NEW s \in Seq(T), Len(s) > 0, NEW g, Chain(s, g)
  PROVE  Flat(s) = g[Len(s)]
<1>0. Len(s) \in Nat
  BY LenProperties
<1> DEFINE f == CHOOSE f : Chain(s, f)
<1>1. Chain(s, f)
  OBVIOUS
<1>2. Flat(s) = f[Len(s)]
  BY <1>0 DEF Flat, LF!FlattenSeq, Chain, Both
<1> HIDE DEF f
<1>3. QED BY <1>1, <1>2, ChainUnique

LEMMA FlatEmpty == Flat(<<>>) = <<>>
<1>1. Len(<<>>) = 0
  OBVIOUS
<1>2. QED BY <1>1 DEF Flat, LF!FlattenSeq

LEMMA FlatMore ==
  ASSUME NEW T, NEW s \in Seq(Seq(T)), NEW x \in Seq(T)
  PROVE  Flat(Both(s, <<x>>)) = Both(Flat(s), x)
<1> DEFINE n == Len(s) + 1
           t == Both(s, <<x>>)
<1>1. PICK g : Chain(s, g)
  BY ChainExists
<1> DEFINE h == [i \in 1..n |-> IF i < n THEN g[i] ELSE IF n = 1 THEN x ELSE Both(g[n - 1], x)]
<1>2. Len(s) \in Nat /\ Len(t) = n /\ t \in Seq(Seq(T))
  BY OneMore, LenProperties
<1>3. Chain(t, h)
  BY <1>1, ChainExtended
<1>4. h[n] = IF n = 1 THEN x ELSE Both(g[n - 1], x)
  BY <1>2
<1> HIDE DEF t, h
<1>5. Flat(t) = h[n]
  BY <1>2, <1>3, FlatIs
<1>6. CASE Len(s) = 0
  <2>1. s = <<>>
    BY <1>6, EmptySeq
  <2>2. Both(<<>>, x) = x
    BY ConcatEmptySeq DEF Both
  <2>3. QED BY <1>4, <1>5, <1>6, <2>1, <2>2, FlatEmpty DEF t
<1>7. CASE Len(s) # 0
  <2>0. Len(s) > 0
    BY <1>2, <1>7
  <2>1. Flat(s) = g[Len(s)]
    BY <1>1, <2>0, FlatIs
  <2>2. n # 1 /\ n - 1 = Len(s)
    BY <1>2, <1>7
  <2>3. QED BY <1>4, <1>5, <2>1, <2>2 DEF t
<1>8. QED BY <1>6, <1>7
LEMMA BothEmpty == ASSUME NEW T, NEW s \in Seq(T) PROVE Both(s, <<>>) = s /\ Both(<<>>, s) = s
  BY ConcatEmptySeq DEF Both

LEMMA BothTyped ==
  ASSUME NEW T, NEW a \in Seq(T), NEW b \in Seq(T)
  PROVE  Both(a, b) \in Seq(T) /\ Len(Both(a, b)) = Len(a) + Len(b)
  BY ConcatProperties DEF Both

LEMMA BothAssociative ==
  ASSUME NEW T, NEW a, NEW b, NEW c, Three(T, a, b, c)
  PROVE  Both(Both(a, b), c) = Both(a, Both(b, c))
  BY CutInThree

LEMMA FlatType ==
  ASSUME NEW T, NEW s \in Seq(Seq(T))
  PROVE  Flat(s) \in Seq(T)
<1> DEFINE P == {t \in Seq(Seq(T)) : Flat(t) \in Seq(T)}
<1>1. <<>> \in P
  BY FlatEmpty, EmptySeq
<1>2. ASSUME NEW t \in Seq(Seq(T)), NEW x \in Seq(T), t \in P PROVE Both(t, <<x>>) \in P
  <2>1. Flat(t) \in Seq(T) /\ Flat(Both(t, <<x>>)) = Both(Flat(t), x)
    BY <1>2, FlatMore
  <2>2. Both(t, <<x>>) \in Seq(Seq(T))
    BY OneMore
  <2>3. QED BY <2>1, <2>2, BothTyped
<1> HIDE DEF P
<1>3. \A t \in Seq(Seq(T)) : t \in P
  BY <1>1, <1>2, SequenceInduction
<1>4. QED BY <1>3 DEF P

LEMMA FlatBoth ==
  ASSUME NEW T, NEW s \in Seq(Seq(T)), NEW r \in Seq(Seq(T))
  PROVE  Flat(Both(s, r)) = Both(Flat(s), Flat(r))
<1> DEFINE P == {t \in Seq(Seq(T)) : Flat(Both(s, t)) = Both(Flat(s), Flat(t))}
<1>1. <<>> \in P
  <2>1. Both(s, <<>>) = s /\ Both(Flat(s), <<>>) = Flat(s) /\ <<>> \in Seq(Seq(T))
    BY FlatType, BothEmpty, EmptySeq
  <2>2. QED BY <2>1, FlatEmpty
<1>2. ASSUME NEW t \in Seq(Seq(T)), NEW x \in Seq(T), t \in P PROVE Both(t, <<x>>) \in P
  <2> DEFINE one == <<x>>
  <2>1. one \in Seq(Seq(T)) /\ Both(t, one) \in Seq(Seq(T)) /\ Both(s, t) \in Seq(Seq(T))
    BY OneMore, BothTyped
  <2>2. Flat(Both(Both(s, t), one)) = Both(Flat(Both(s, t)), x) /\ Flat(Both(t, one)) = Both(Flat(t), x)
    BY <2>1, FlatMore
  <2>3. Flat(s) \in Seq(T) /\ Flat(t) \in Seq(T)
    BY FlatType
  <2> HIDE DEF one
  <2>4. Both(Both(s, t), one) = Both(s, Both(t, one))
    <3>1. Three(Seq(T), s, t, one)
      BY <2>1 DEF Three
    <3>2. QED BY <3>1, BothAssociative
  <2>5. Both(Both(Flat(s), Flat(t)), x) = Both(Flat(s), Both(Flat(t), x))
    <3>1. Three(T, Flat(s), Flat(t), x)
      BY <2>3 DEF Three
    <3>2. QED BY <3>1, BothAssociative
  <2>6. QED BY <1>2, <2>1, <2>2, <2>4, <2>5 DEF one
<1> HIDE DEF P
<1>3. \A t \in Seq(Seq(T)) : t \in P
  BY <1>1, <1>2, SequenceInduction
<1>4. QED BY <1>3 DEF P

-----------------------------------------------------------------------------
(* A sequence for each element, one after the other.                       *)
Each(s, f) == [i \in DOMAIN s |-> f[s[i]]]
FlatMap(s, f) == Flat(Each(s, f))
Maps(T, U, f) == f \in [T -> Seq(U)]

LEMMA EachIs ==
  ASSUME NEW T, NEW U, NEW f, Maps(T, U, f), NEW s \in Seq(T)
  PROVE  /\ Each(s, f) \in Seq(Seq(U)) /\ Len(Each(s, f)) = Len(s)
         /\ \A i \in 1..Len(s) : Each(s, f)[i] = f[s[i]]
<1>1. Len(s) \in Nat /\ DOMAIN s = 1..Len(s) /\ \A i \in 1..Len(s) : s[i] \in T
  BY LenProperties
<1>2. \A i \in 1..Len(s) : f[s[i]] \in Seq(U)
  BY <1>1 DEF Maps
<1>3. Each(s, f) = [i \in 1..Len(s) |-> f[s[i]]]
  BY <1>1 DEF Each
<1>4. QED BY <1>1, <1>2, <1>3

LEMMA EachBoth ==
  ASSUME NEW T, NEW U, NEW f, Maps(T, U, f), NEW a \in Seq(T), NEW b \in Seq(T)
  PROVE  Each(Both(a, b), f) = Both(Each(a, f), Each(b, f))
<1>1. /\ Len(a) \in Nat /\ Len(b) \in Nat
      /\ Both(a, b) \in Seq(T) /\ Len(Both(a, b)) = Len(a) + Len(b)
      /\ \A i \in 1..(Len(a) + Len(b)) :
           Both(a, b)[i] = IF i <= Len(a) THEN a[i] ELSE b[i - Len(a)]
  BY ConcatProperties, LenProperties DEF Both
<1> DEFINE x == Each(a, f)
           y == Each(b, f)
           z == Each(Both(a, b), f)
<1>2. x \in Seq(Seq(U)) /\ Len(x) = Len(a) /\ \A i \in 1..Len(a) : x[i] = f[a[i]]
  BY EachIs
<1>3. y \in Seq(Seq(U)) /\ Len(y) = Len(b) /\ \A i \in 1..Len(b) : y[i] = f[b[i]]
  BY EachIs
<1>4. /\ z \in Seq(Seq(U)) /\ Len(z) = Len(a) + Len(b)
      /\ \A i \in 1..(Len(a) + Len(b)) : z[i] = f[Both(a, b)[i]]
  BY <1>1, EachIs
<1>5. /\ Both(x, y) \in Seq(Seq(U)) /\ Len(Both(x, y)) = Len(x) + Len(y)
      /\ \A i \in 1..(Len(x) + Len(y)) :
           Both(x, y)[i] = IF i <= Len(x) THEN x[i] ELSE y[i - Len(x)]
  BY <1>2, <1>3, ConcatProperties, ZenonT(60) DEF Both
<1> HIDE DEF x, y, z
<1>6. ASSUME NEW i \in 1..(Len(a) + Len(b)) PROVE z[i] = Both(x, y)[i]
  <2>1. CASE i <= Len(a)
    <3>1. i \in 1..Len(a)
      BY <1>1, <2>1
    <3>2. z[i] = f[a[i]]
      BY <1>1, <1>4, <2>1
    <3>3. Both(x, y)[i] = x[i]
      BY <1>2, <1>3, <1>5, <2>1
    <3>4. QED BY <1>2, <3>1, <3>2, <3>3
  <2>2. CASE ~(i <= Len(a))
    <3>1. i - Len(a) \in 1..Len(b)
      BY <1>1, <2>2
    <3>2. z[i] = f[b[i - Len(a)]]
      BY <1>1, <1>4, <2>2
    <3>3. Both(x, y)[i] = y[i - Len(a)]
      BY <1>2, <1>3, <1>5, <2>2
    <3>4. QED BY <1>3, <3>1, <3>2, <3>3
  <2>3. QED BY <2>1, <2>2
<1>7. z = Both(x, y)
  BY <1>2, <1>3, <1>4, <1>5, <1>6, SeqEqual
<1>8. QED BY <1>7 DEF x, y, z

LEMMA FlatMapBoth ==
  ASSUME NEW T, NEW U, NEW f, Maps(T, U, f), NEW a \in Seq(T), NEW b \in Seq(T)
  PROVE  FlatMap(Both(a, b), f) = Both(FlatMap(a, f), FlatMap(b, f))
<1>1. Each(a, f) \in Seq(Seq(U)) /\ Each(b, f) \in Seq(Seq(U))
  BY EachIs
<1>2. Each(Both(a, b), f) = Both(Each(a, f), Each(b, f))
  BY EachBoth
<1>3. QED BY <1>1, <1>2, FlatBoth DEF FlatMap

LEMMA FlatMapSmall ==
  ASSUME NEW T, NEW U, NEW f, Maps(T, U, f)
  PROVE  /\ \A s \in Seq(T) : FlatMap(s, f) \in Seq(U)
         /\ FlatMap(<<>>, f) = <<>>
         /\ \A x \in T : FlatMap(<<x>>, f) = f[x]
<1>1. \A s \in Seq(T) : FlatMap(s, f) \in Seq(U)
  BY EachIs, FlatType DEF FlatMap
<1>2. FlatMap(<<>>, f) = <<>>
  <2> DEFINE none == <<>>
             e == Each(none, f)
  <2>1. none \in Seq(T) /\ Len(none) = 0
    BY EmptySeq
  <2>e. \A r \in Seq(T) : Each(r, f) \in Seq(Seq(U)) /\ Len(Each(r, f)) = Len(r)
    BY EachIs
  <2> HIDE DEF none
  <2>2. e \in Seq(Seq(U)) /\ Len(e) = Len(none)
    BY <2>1, <2>e
  <2> HIDE DEF e
  <2>3. e = <<>>
    BY <2>1, <2>2, EmptySeq
  <2>4. QED BY <2>3, FlatEmpty DEF FlatMap, e, none
<1>3. ASSUME NEW x \in T PROVE FlatMap(<<x>>, f) = f[x]
  <2> DEFINE one == <<x>>
             e == Each(one, f)
  <2>1. one \in Seq(T) /\ Len(one) = 1 /\ one[1] = x /\ f[x] \in Seq(U)
    BY DEF Maps
  <2> HIDE DEF one
  <2>2. e \in Seq(Seq(U)) /\ Len(e) = 1 /\ e[1] = f[x]
    BY <2>1, EachIs
  <2> HIDE DEF e
  <2>3. e = Both(<<>>, <<f[x]>>)
    <3>1. <<f[x]>> \in Seq(Seq(U)) /\ Len(<<f[x]>>) = 1 /\ <<f[x]>>[1] = f[x]
      BY <2>1
    <3>2. e = <<f[x]>>
      BY <2>2, <3>1
    <3>3. QED BY <3>1, <3>2, BothEmpty
  <2>4. Flat(e) = Both(Flat(<<>>), f[x])
    BY <2>1, <2>3, EmptySeq, FlatMore
  <2>5. QED BY <2>1, <2>4, FlatEmpty, BothEmpty DEF e, one, FlatMap
<1>4. QED BY <1>1, <1>2, <1>3

(* It depends on what the function has for the elements of the sequence.   *)
LEMMA FlatMapSame ==
  ASSUME NEW T, NEW U, NEW f, NEW g, Maps(T, U, f), Maps(T, U, g), NEW s \in Seq(T),
         \A x \in Elements(s) : f[x] = g[x]
  PROVE  FlatMap(s, f) = FlatMap(s, g)
<1>1. Len(s) \in Nat /\ DOMAIN s = 1..Len(s)
  BY LenProperties
<1>2. \A i \in 1..Len(s) : f[s[i]] = g[s[i]]
  BY DEF Elements
<1>3. Each(s, f) = Each(s, g)
  BY <1>1, <1>2 DEF Each
<1>4. QED BY <1>3 DEF FlatMap
-----------------------------------------------------------------------------
(* In: the items of a list that are in a set.                              *)
Picks(T, S) == [x \in T |-> IF x \in S THEN <<x>> ELSE <<>>]
Shown(s, S) == LF!In(s, S)

LEMMA PicksType == ASSUME NEW T, NEW S PROVE Maps(T, T, Picks(T, S))
<1>1. \A x \in T : <<x>> \in Seq(T)
  OBVIOUS
<1>2. <<>> \in Seq(T)
  BY EmptySeq
<1>3. QED BY <1>1, <1>2 DEF Maps, Picks

LEMMA ShownIs ==
  ASSUME NEW T, NEW S, NEW s \in Seq(T)
  PROVE  Shown(s, S) = FlatMap(s, Picks(T, S))
<1>1. \A i \in DOMAIN s : s[i] \in T
  BY LenProperties
<1>2. Each(s, Picks(T, S)) = [i \in DOMAIN s |-> IF s[i] \in S THEN <<s[i]>> ELSE <<>>]
  BY <1>1 DEF Each, Picks
<1>3. QED BY <1>2 DEF Shown, LF!In, FlatMap, Flat

LEMMA ShownSmall ==
  ASSUME NEW T, NEW S
  PROVE  /\ \A s \in Seq(T) : Shown(s, S) \in Seq(T)
         /\ Shown(<<>>, S) = <<>>
         /\ \A x \in T : Shown(<<x>>, S) = IF x \in S THEN <<x>> ELSE <<>>
<1> DEFINE f == Picks(T, S)
<1>1. Maps(T, T, f)
  BY PicksType
<1>2. \A x \in T : f[x] = IF x \in S THEN <<x>> ELSE <<>>
  BY DEF Picks
<1>3. \A s \in Seq(T) : Shown(s, S) = FlatMap(s, f)
  BY ShownIs
<1>4. <<>> \in Seq(T) /\ \A x \in T : <<x>> \in Seq(T)
  BY EmptySeq, ElementsOfOne
<1> HIDE DEF f
<1>5. /\ \A s \in Seq(T) : FlatMap(s, f) \in Seq(T)
      /\ FlatMap(<<>>, f) = <<>>
      /\ \A x \in T : FlatMap(<<x>>, f) = f[x]
  BY <1>1, FlatMapSmall
<1>6. QED BY <1>2, <1>3, <1>4, <1>5

LEMMA ShownBoth ==
  ASSUME NEW T, NEW S, NEW a \in Seq(T), NEW b \in Seq(T)
  PROVE  Shown(Both(a, b), S) = Both(Shown(a, S), Shown(b, S))
<1> DEFINE f == Picks(T, S)
<1>1. Maps(T, T, f)
  BY PicksType
<1>2. Both(a, b) \in Seq(T)
  BY BothTyped
<1>3. Shown(a, S) = FlatMap(a, f) /\ Shown(b, S) = FlatMap(b, f) /\ Shown(Both(a, b), S) = FlatMap(Both(a, b), f)
  BY <1>2, ShownIs
<1> HIDE DEF f
<1>4. QED BY <1>1, <1>3, FlatMapBoth

LEMMA ShownSame ==
  ASSUME NEW T, NEW s \in Seq(T), NEW R, NEW S, Elements(s) \cap R = Elements(s) \cap S
  PROVE  Shown(s, R) = Shown(s, S)
<1>1. Maps(T, T, Picks(T, R)) /\ Maps(T, T, Picks(T, S))
  BY PicksType
<1>2. \A x \in Elements(s) : x \in T
  BY LenProperties DEF Elements
<1>3. \A x \in Elements(s) : Picks(T, R)[x] = Picks(T, S)[x]
  BY <1>2 DEF Picks
<1>4. Shown(s, R) = FlatMap(s, Picks(T, R)) /\ Shown(s, S) = FlatMap(s, Picks(T, S))
  BY ShownIs
<1>5. FlatMap(s, Picks(T, R)) = FlatMap(s, Picks(T, S))
  BY <1>1, <1>3, FlatMapSame
<1>6. QED BY <1>4, <1>5

LEMMA ShownAgain ==
  ASSUME NEW T, NEW R, NEW S, NEW r \in Seq(T)
  PROVE  Shown(Shown(r, R), S) = Shown(r, R \cap S)
<1> DEFINE P == {s \in Seq(T) : Shown(Shown(s, R), S) = Shown(s, R \cap S)}
<1>1. <<>> \in P
  <2>1. /\ <<>> \in Seq(T) /\ Shown(<<>>, R) = <<>> /\ Shown(<<>>, S) = <<>>
        /\ Shown(<<>>, R \cap S) = <<>>
    BY EmptySeq, ShownSmall
  <2>2. QED BY <2>1
<1>2. ASSUME NEW s \in Seq(T), NEW x \in T, s \in P PROVE Both(s, <<x>>) \in P
  <2> DEFINE one == <<x>>
             t == Both(s, one)
  <2>1. one \in Seq(T)
    BY ElementsOfOne
  <2>2. t \in Seq(T) /\ Shown(s, R) \in Seq(T) /\ Shown(one, R) \in Seq(T)
    BY <2>1, BothTyped, ShownSmall
  <2>3. Shown(one, R) = IF x \in R THEN one ELSE <<>>
    BY ShownSmall
  <2>4. Shown(one, R \cap S) = IF x \in R \cap S THEN one ELSE <<>>
    BY ShownSmall
  <2>5. Shown(one, S) = (IF x \in S THEN one ELSE <<>>) /\ Shown(<<>>, S) = <<>>
    BY ShownSmall
  <2> HIDE DEF one
  <2>6. Shown(t, R) = Both(Shown(s, R), Shown(one, R))
    BY <2>1, ShownBoth
  <2>7. Shown(t, R \cap S) = Both(Shown(s, R \cap S), Shown(one, R \cap S))
    BY <2>1, ShownBoth
  <2>8. Shown(Shown(t, R), S) = Both(Shown(Shown(s, R), S), Shown(Shown(one, R), S))
    BY <2>2, <2>6, ShownBoth
  <2>9. Shown(Shown(one, R), S) = Shown(one, R \cap S)
    BY <2>3, <2>4, <2>5
  <2> HIDE DEF t
  <2>10. Shown(Shown(t, R), S) = Shown(t, R \cap S)
    BY <1>2, <2>7, <2>8, <2>9
  <2>11. QED BY <2>2, <2>10 DEF t, one
<1> HIDE DEF P
<1>3. \A s \in Seq(T) : s \in P
  BY <1>1, <1>2, SequenceInduction
<1>4. QED BY <1>3 DEF P

LEMMA ShownElements ==
  ASSUME NEW T, NEW R, NEW r \in Seq(T)
  PROVE  /\ Elements(Shown(r, R)) = Elements(r) \cap R
         /\ Inj(r) => Inj(Shown(r, R))
<1> DEFINE P == {s \in Seq(T) :
                   /\ Elements(Shown(s, R)) = Elements(s) \cap R
                   /\ Inj(s) => Inj(Shown(s, R))}
<1>1. <<>> \in P
  <2>1. <<>> \in Seq(T) /\ Shown(<<>>, R) = <<>>
    BY EmptySeq, ShownSmall
  <2>2. QED BY <2>1, ElementsOfNone
<1>2. ASSUME NEW s \in Seq(T), NEW x \in T, s \in P PROVE Both(s, <<x>>) \in P
  <2> DEFINE one == <<x>>
             t == Both(s, one)
  <2>1. one \in Seq(T) /\ Elements(one) = {x} /\ Inj(one)
    BY ElementsOfOne
  <2>2. t \in Seq(T) /\ Shown(s, R) \in Seq(T) /\ Shown(one, R) \in Seq(T)
    BY <2>1, BothTyped, ShownSmall
  <2>3. Shown(one, R) = IF x \in R THEN one ELSE <<>>
    BY ShownSmall
  <2> HIDE DEF one
  <2>4. Shown(t, R) = Both(Shown(s, R), Shown(one, R))
    BY <2>1, ShownBoth
  <2>5. Elements(t) = Elements(s) \cup {x} /\ (Inj(t) => Inj(s) /\ x \notin Elements(s))
    BY <2>1, ElementsOfParts
  <2>6. Elements(Shown(one, R)) = {x} \cap R /\ Inj(Shown(one, R))
    BY <2>1, <2>3, ElementsOfNone
  <2>7. /\ Elements(Shown(t, R)) = Elements(Shown(s, R)) \cup Elements(Shown(one, R))
        /\ Inj(Shown(t, R)) <=>
             /\ Inj(Shown(s, R)) /\ Inj(Shown(one, R))
             /\ Elements(Shown(s, R)) \cap Elements(Shown(one, R)) = {}
    BY <2>2, <2>4, ElementsOfParts
  <2> HIDE DEF t
  <2>8. Elements(Shown(t, R)) = Elements(t) \cap R
    BY <1>2, <2>5, <2>6, <2>7
  <2>9. Inj(t) => Inj(Shown(t, R))
    BY <1>2, <2>5, <2>6, <2>7
  <2>10. QED BY <2>2, <2>8, <2>9 DEF t, one
<1> HIDE DEF P
<1>3. \A s \in Seq(T) : s \in P
  BY <1>1, <1>2, SequenceInduction
<1>4. QED BY <1>3 DEF P

LEMMA FlatMapWhole ==
  ASSUME NEW T, NEW U, NEW f, Maps(T, U, f), NEW a, NEW b, NEW c, Three(T, a, b, c)
  PROVE  /\ FlatMap(Whole(a, b, c), f) = Whole(FlatMap(a, f), FlatMap(b, f), FlatMap(c, f))
         /\ Three(U, FlatMap(a, f), FlatMap(b, f), FlatMap(c, f))
<1>1. a \in Seq(T) /\ b \in Seq(T) /\ c \in Seq(T) /\ Both(b, c) \in Seq(T)
  BY BothTyped DEF Three
<1>2. Three(U, FlatMap(a, f), FlatMap(b, f), FlatMap(c, f))
  BY <1>1, FlatMapSmall DEF Three
<1>3. Whole(a, b, c) = Both(a, Both(b, c))
  BY CutInThree
<1>4. FlatMap(Both(a, Both(b, c)), f) = Both(FlatMap(a, f), FlatMap(Both(b, c), f))
  BY <1>1, FlatMapBoth
<1>5. FlatMap(Both(b, c), f) = Both(FlatMap(b, f), FlatMap(c, f))
  BY <1>1, FlatMapBoth
<1>6. Whole(FlatMap(a, f), FlatMap(b, f), FlatMap(c, f))
        = Both(FlatMap(a, f), Both(FlatMap(b, f), FlatMap(c, f)))
  BY <1>2, CutInThree
<1>7. QED BY <1>2, <1>3, <1>4, <1>5, <1>6

(* What is shown of three parts, as one fact about the parts. *)
ShownInParts(S, a, b, c) == Shown(Whole(a, b, c), S) = Whole(Shown(a, S), Shown(b, S), Shown(c, S))

LEMMA ShownWhole ==
  ASSUME NEW T, NEW S, NEW a, NEW b, NEW c, Three(T, a, b, c)
  PROVE  /\ ShownInParts(S, a, b, c)
         /\ Three(T, Shown(a, S), Shown(b, S), Shown(c, S))
<1>1. a \in Seq(T) /\ b \in Seq(T) /\ c \in Seq(T) /\ Both(b, c) \in Seq(T)
  BY BothTyped DEF Three
<1>2. Three(T, Shown(a, S), Shown(b, S), Shown(c, S))
  BY <1>1, ShownSmall DEF Three
<1>3. Whole(a, b, c) = Both(a, Both(b, c))
  BY CutInThree
<1>4. Shown(Both(a, Both(b, c)), S) = Both(Shown(a, S), Shown(Both(b, c), S))
  BY <1>1, ShownBoth
<1>5. Shown(Both(b, c), S) = Both(Shown(b, S), Shown(c, S))
  BY <1>1, ShownBoth
<1>6. Whole(Shown(a, S), Shown(b, S), Shown(c, S)) = Both(Shown(a, S), Both(Shown(b, S), Shown(c, S)))
  BY <1>2, CutInThree
<1>7. Shown(Whole(a, b, c), S) = Whole(Shown(a, S), Shown(b, S), Shown(c, S))
  BY <1>2, <1>3, <1>4, <1>5, <1>6
<1>8. QED BY <1>2, <1>7 DEF ShownInParts

-----------------------------------------------------------------------------
(* The operators LF and JM have are those of this module.                  *)
LEMMA SameNames ==
  /\ \A s, p, n : LF!Without(s, p, n) = Without(s, p, n) /\ JM!Without(s, p, n) = Without(s, p, n)
  /\ \A s, p, t : LF!With(s, p, t) = With(s, p, t) /\ JM!With(s, p, t) = With(s, p, t)
  /\ \A s, now, p, r, n : LF!Told(s, now, p, r, n) = Told(s, now, p, r, n)
  /\ \A s, now, p, r, n : JM!Told(s, now, p, r, n) = Told(s, now, p, r, n)
<1>1. \A s, p, n : LF!Without(s, p, n) = Without(s, p, n) /\ JM!Without(s, p, n) = Without(s, p, n)
  BY DEF Without, LF!Without, JM!Without
<1>2. \A s, p, t : LF!With(s, p, t) = With(s, p, t) /\ JM!With(s, p, t) = With(s, p, t)
  BY DEF With, LF!With, JM!With
<1>3. \A s, now, p, r, n : LF!Told(s, now, p, r, n) = Told(s, now, p, r, n)
  BY DEF With, Without, Told, LF!Told, LF!With, LF!Without
<1>4. \A s, now, p, r, n : JM!Told(s, now, p, r, n) = Told(s, now, p, r, n)
  BY DEF With, Without, Told, JM!Told, JM!With, JM!Without
<1>5. QED BY <1>1, <1>2, <1>3, <1>4

LEMMA SameElements ==
  ASSUME NEW T, NEW s \in Seq(T)
  PROVE  LF!ToSet(s) = Elements(s) /\ JM!ToSet(s) = Elements(s)
<1>1. DOMAIN s = 1..Len(s)
  BY LenProperties
<1>2. QED BY <1>1 DEF LF!ToSet, JM!ToSet, Elements

(* Where the first of the elements behind others is.                       *)
LEMMA PositionBehind ==
  ASSUME NEW T, NEW a \in Seq(T), NEW b \in Seq(T), b # <<>>, Inj(Both(a, b))
  PROVE  LF!Position(Both(a, b), Head(b)) = Len(a)
<1> DEFINE s == Both(a, b)
<1>1. Len(a) \in Nat /\ Len(b) \in Nat /\ Len(b) > 0 /\ Head(b) = b[1]
  BY EmptySeq, LenProperties
<1>2. /\ Len(s) = Len(a) + Len(b)
      /\ \A i \in 1..(Len(a) + Len(b)) : s[i] = IF i <= Len(a) THEN a[i] ELSE b[i - Len(a)]
  BY ConcatProperties DEF Both
<1> HIDE DEF s
<1>3. /\ Len(a) \in 0..(Len(s) - 1) /\ Len(a) + 1 \in 1..(Len(a) + Len(b))
      /\ (Len(a) + 1) - Len(a) = 1
  BY <1>1, <1>2
<1>4. s[Len(a) + 1] = Head(b)
  BY <1>1, <1>2, <1>3
<1>5. ASSUME NEW p \in 0..(Len(s) - 1), s[p + 1] = Head(b) PROVE p = Len(a)
  <2>1. p + 1 \in 1..Len(s) /\ Len(a) + 1 \in 1..Len(s)
    BY <1>1, <1>2, <1>3
  <2>2. p + 1 = Len(a) + 1
    BY <1>4, <1>5, <2>1 DEF Inj, s
  <2>3. QED BY <1>1, <2>2
<1> DEFINE p == CHOOSE p \in 0..(Len(s) - 1) : s[p + 1] = Head(b)
<1>6. p \in 0..(Len(s) - 1) /\ s[p + 1] = Head(b)
  BY <1>3, <1>4
<1> HIDE DEF p
<1>7. p = Len(a)
  BY <1>5, <1>6
<1>8. QED BY <1>7 DEF p, s, LF!Position
-----------------------------------------------------------------------------
(* The filter.  Half way through a change of the child, what is left of    *)
(* child_seq is what is left of the child, and the visible items of        *)
(* child_seq are those of filter_seq at every moment.                      *)
FilterIInv ==
  /\ LF!TypeOK /\ Inj(child) /\ Inj(child_seq)
  /\ filter_seq = Shown(child_seq, visible)
  /\ seen = filter_seq
  /\ change = Idle => child_seq = child
  /\ change # Idle =>
       /\ CanCut(Item, child_seq, change.position, change.removed)
       /\ CanCut(Item, child, change.position, change.added)
       /\ Without(child_seq, change.position, change.removed)
            = Without(child, change.position, change.added)

LEMMA FilterInit == ASSUME LF!ConstantsType, LF!Init PROVE FilterIInv
<1>1. /\ child = <<>> /\ child_seq = <<>> /\ filter_seq = <<>> /\ seen = <<>>
      /\ visible = Item /\ change = Idle
  BY DEF LF!Init
<1>2. <<>> \in Seq(Item) /\ Shown(<<>>, Item) = <<>> /\ Inj(<<>>)
  BY EmptySeq, ShownSmall, ElementsOfNone
<1>3. QED BY <1>1, <1>2 DEF FilterIInv, LF!TypeOK, LF!Changes

LEMMA ListsAre ==
  ASSUME NEW s \in LF!Lists
  PROVE  s \in Seq(Item) /\ Inj(s)
<1>1. PICK n \in 0..MaxAdded : s \in [1..n -> Item]
  BY DEF LF!Lists
<1>2. s \in Seq(Item) /\ DOMAIN s = 1..Len(s)
  BY <1>1
<1>3. QED BY <1>2 DEF LF!Lists, LF!IsInjective, Inj

LEMMA SpliceStep ==
  ASSUME LF!ConstantsType, FilterIInv,
         NEW position \in 0..Len(child), NEW removed \in 0..Len(child), NEW more \in LF!Lists,
         LF!Splice(position, removed, more)
  PROVE  FilterIInv'
<1>1. /\ change = Idle /\ child_seq = child /\ position + removed <= Len(child)
      /\ LF!ToSet(more) \cap LF!ToSet(child) = {}
      /\ child' = LF!With(LF!Without(child, position, removed), position, more)
      /\ change' = [position |-> position, removed |-> removed, added |-> Len(more)]
      /\ child_seq' = child_seq /\ filter_seq' = filter_seq /\ visible' = visible /\ seen' = seen
  BY DEF LF!Splice, FilterIInv
<1>2. child \in Seq(Item) /\ Inj(child) /\ position \in Nat /\ removed \in Nat
  BY DEF FilterIInv, LF!TypeOK, LF!Changes
<1>3. CanCut(Item, child, position, removed)
  BY <1>1, <1>2 DEF CanCut
<1>4. PICK a, b, c : Cuts(Item, child, position, removed, a, b, c)
  BY <1>3, Parts
<1>5. Three(Item, a, b, c) /\ child = Whole(a, b, c) /\ Len(a) = position /\ Len(b) = removed
  BY <1>4 DEF Cuts
<1>6. more \in Seq(Item) /\ Inj(more) /\ Elements(more) \cap Elements(child) = {}
  BY <1>1, <1>2, ListsAre, SameElements
<1>7. Three(Item, a, more, c)
  BY <1>5, <1>6 DEF Three
<1>8. /\ Without(child, position, removed) = Both(a, c)
      /\ With(Both(a, c), position, more) = Whole(a, more, c)
      /\ Without(Whole(a, more, c), position, Len(more)) = Both(a, c)
  BY <1>5, <1>7, Spliced
<1>9. child' = Whole(a, more, c)
  BY <1>1, <1>8, SameNames
<1>10. Inj(child')
  BY <1>2, <1>5, <1>6, <1>7, <1>9, ElementsOfWhole
<1>11. child' \in Seq(Item) /\ Len(child') = Len(a) + Len(more) + Len(c)
  BY <1>7, <1>9, CutInThree
<1>12. Len(more) \in Nat /\ Len(c) \in Nat
  BY <1>5, <1>6, LenProperties DEF Three
<1>13. CanCut(Item, child', position, Len(more))
  BY <1>2, <1>5, <1>11, <1>12 DEF CanCut
<1>14. change' \in LF!Changes /\ change' # Idle
  BY <1>1, <1>2, <1>12 DEF LF!Changes, LF!ConstantsType
<1>15. /\ change'.position = position /\ change'.removed = removed
       /\ change'.added = Len(more)
  BY <1>1
<1>16. Without(child_seq', change'.position, change'.removed)
         = Without(child', change'.position, change'.added)
  BY <1>1, <1>8, <1>9, <1>15
<1>17. LF!TypeOK'
  BY <1>1, <1>11, <1>14 DEF LF!TypeOK, FilterIInv, LF!Changes
<1>18. QED BY <1>1, <1>3, <1>10, <1>13, <1>14, <1>15, <1>16, <1>17 DEF FilterIInv
LEMMA NoElements ==
  ASSUME NEW T, NEW s \in Seq(T), Elements(s) = {}
  PROVE  s = <<>>
<1>1. ASSUME s # <<>> PROVE FALSE
  <2>1. Len(s) \in Nat \ {0}
    BY <1>1, EmptySeq
  <2>2. 1 \in 1..Len(s)
    BY <2>1
  <2>3. s[1] \in Elements(s)
    BY <2>2 DEF Elements
  <2>4. QED BY <2>3
<1>2. QED BY <1>1

LEMMA WholeOfTwo ==
  ASSUME NEW T, NEW a \in Seq(T), NEW c \in Seq(T)
  PROVE  Whole(a, <<>>, c) = Both(a, c) /\ Three(T, a, <<>>, c) /\ Len(<<>>) = 0
<1>1. <<>> \in Seq(T) /\ Len(<<>>) = 0 /\ <<>> \o c = c
  BY EmptySeq, ConcatEmptySeq
<1>2. QED BY <1>1 DEF Whole, Both, Three

LEMMA PositionBetween ==
  ASSUME NEW T, NEW a, NEW b, NEW c, Three(T, a, b, c), b # <<>>, Inj(Whole(a, b, c))
  PROVE  LF!Position(Whole(a, b, c), Head(b)) = Len(a)
<1> DEFINE bc == Both(b, c)
<1>1. a \in Seq(T) /\ b \in Seq(T) /\ c \in Seq(T)
  BY DEF Three
<1>2. /\ bc \in Seq(T) /\ Len(bc) = Len(b) + Len(c)
      /\ \A i \in 1..(Len(b) + Len(c)) : bc[i] = IF i <= Len(b) THEN b[i] ELSE c[i - Len(b)]
  BY <1>1, ConcatProperties DEF Both
<1>3. Len(b) \in Nat /\ Len(b) > 0 /\ Len(c) \in Nat
  BY <1>1, EmptySeq, LenProperties
<1>4. Whole(a, b, c) = Both(a, bc)
  BY CutInThree
<1> HIDE DEF bc
<1>5. bc[1] = b[1] /\ Len(bc) > 0
  BY <1>2, <1>3
<1>6. bc # <<>> /\ Head(bc) = Head(b)
  <2>1. Head(b) = b[1] /\ Head(bc) = bc[1]
    BY <1>1, <1>2
  <2>2. bc # <<>>
    BY <1>5
  <2>3. QED BY <1>5, <2>1, <2>2
<1>7. LF!Position(Both(a, bc), Head(bc)) = Len(a)
  BY <1>1, <1>2, <1>4, <1>6, PositionBehind
<1>8. QED BY <1>4, <1>6, <1>7

LEMMA RemovedStep ==
  ASSUME LF!ConstantsType, FilterIInv, LF!ItemsRemoved
  PROVE  FilterIInv'
<1> DEFINE position == change.position
           removed == change.removed
           gone == SubSeq(child_seq, position + 1, position + removed)
           told == LF!In(gone, LF!ToSet(filter_seq))
           F(s) == Shown(s, visible)
<1>1. /\ change # Idle /\ change.removed > 0
      /\ child_seq' = LF!Without(child_seq, position, removed)
      /\ filter_seq' = LF!In(filter_seq, Item \ LF!ToSet(gone))
      /\ seen' = IF told = <<>> THEN seen
                 ELSE LF!Told(seen, filter_seq', LF!Position(filter_seq, Head(told)), Len(told), 0)
      /\ change' = [change EXCEPT !.removed = 0]
      /\ child' = child /\ visible' = visible
  BY DEF LF!ItemsRemoved
<1>2. /\ child_seq \in Seq(Item) /\ Inj(child_seq) /\ visible \subseteq Item /\ change \in LF!Changes
      /\ filter_seq = Shown(child_seq, visible) /\ seen = filter_seq
      /\ CanCut(Item, child_seq, position, removed)
      /\ Without(child_seq, position, removed) = Without(child, position, change.added)
  BY <1>1 DEF FilterIInv, LF!TypeOK, LF!Changes
<1>3. PICK a, b, c : Cuts(Item, child_seq, position, removed, a, b, c)
  BY <1>2, Parts
<1>4. /\ Three(Item, a, b, c) /\ child_seq = Whole(a, b, c) /\ Len(a) = position /\ Len(b) = removed
      /\ b = gone
  BY <1>3 DEF Cuts, Slice
<1>5. a \in Seq(Item) /\ b \in Seq(Item) /\ c \in Seq(Item)
  BY <1>4 DEF Three
<1> HIDE DEF gone, position, removed
<1>6. /\ filter_seq = Whole(F(a), F(b), F(c)) /\ Three(Item, F(a), F(b), F(c))
      /\ filter_seq \in Seq(Item)
  <2>1. Three(Item, a, b, c)
    BY <1>4
  <2>2. Shown(Whole(a, b, c), visible) = Whole(F(a), F(b), F(c)) /\ Three(Item, F(a), F(b), F(c))
    BY <2>1, ShownWhole DEF ShownInParts
  <2>3. Whole(F(a), F(b), F(c)) \in Seq(Item)
    BY <2>2, CutInThree
  <2>4. QED BY <1>2, <1>4, <2>2, <2>3
<1>7. /\ Elements(child_seq) = Elements(a) \cup Elements(b) \cup Elements(c)
      /\ Elements(a) \cap Elements(b) = {} /\ Elements(b) \cap Elements(c) = {}
  BY <1>2, <1>4, ElementsOfWhole
<1>8. /\ Elements(filter_seq) = Elements(child_seq) \cap visible /\ Inj(filter_seq)
  BY <1>2, ShownElements
<1>9. told = F(b)
  <2>1. told = Shown(b, Elements(filter_seq))
    BY <1>4, <1>6, SameElements DEF Shown
  <2>2. Elements(b) \cap Elements(filter_seq) = Elements(b) \cap visible
    BY <1>7, <1>8
  <2>3. Shown(b, Elements(filter_seq)) = Shown(b, visible)
    BY <1>5, <2>2, ShownSame
  <2>4. QED BY <2>1, <2>3
<1>10. child_seq' = Both(a, c)
  <2>1. Without(Whole(a, b, c), Len(a), Len(b)) = Both(a, c)
    BY <1>4, Spliced
  <2>2. QED BY <1>1, <1>4, <2>1, SameNames
<1>11. filter_seq' = Both(F(a), F(c))
  <2> DEFINE rest == Item \ Elements(b)
             X == visible \cap rest
  <2>1. filter_seq' = Shown(Shown(child_seq, visible), rest)
    BY <1>1, <1>2, <1>4, <1>5, SameElements DEF Shown
  <2>2. Shown(Shown(child_seq, visible), rest) = Shown(child_seq, X)
    <3>1. child_seq \in Seq(Item)
      BY <1>2
    <3> HIDE DEF rest
    <3>2. Shown(Shown(child_seq, visible), rest) = Shown(child_seq, visible \cap rest)
      BY <3>1, ShownAgain
    <3>3. QED BY <3>2
  <2>3. Elements(a) \cap X = Elements(a) \cap visible /\ Elements(c) \cap X = Elements(c) \cap visible
    BY <1>2, <1>7
  <2>4. Elements(b) \cap X = {}
    OBVIOUS
  <2> HIDE DEF X, rest
  <2>5. Shown(child_seq, X) = Whole(Shown(a, X), Shown(b, X), Shown(c, X))
    <3>1. Three(Item, a, b, c)
      BY <1>4
    <3>2. ShownInParts(X, a, b, c)
      BY <3>1, ShownWhole
    <3>3. QED BY <1>4, <3>2 DEF ShownInParts
  <2>6. Shown(a, X) = F(a) /\ Shown(c, X) = F(c)
    BY <1>5, <2>3, ShownSame
  <2>7. Shown(b, X) = <<>>
    <3>1. Elements(Shown(b, X)) = {} /\ Shown(b, X) \in Seq(Item)
      BY <1>5, <2>4, ShownElements, ShownSmall
    <3>2. QED BY <3>1, NoElements
  <2>8. Whole(F(a), <<>>, F(c)) = Both(F(a), F(c))
    BY <1>6, WholeOfTwo DEF Three
  <2>9. QED BY <2>1, <2>2, <2>5, <2>6, <2>7, <2>8
<1>12. Shown(child_seq', visible) = Both(F(a), F(c))
  BY <1>5, <1>10, ShownBoth
<1>13. seen' = Both(F(a), F(c))
  <2>1. CASE told = <<>>
    <3>1. seen' = Whole(F(a), <<>>, F(c))
      BY <1>1, <1>2, <1>6, <1>9, <2>1
    <3>2. QED BY <1>6, <3>1, WholeOfTwo DEF Three
  <2>2. CASE told # <<>>
    <3>1. LF!Position(Whole(F(a), F(b), F(c)), Head(F(b))) = Len(F(a))
      BY <1>6, <1>8, <1>9, <2>2, PositionBetween
    <3>2. seen' = Told(filter_seq, filter_seq', Len(F(a)), Len(F(b)), 0)
      BY <1>1, <1>2, <1>6, <1>9, <2>2, <3>1, SameNames
    <3>3. Told(Whole(F(a), F(b), F(c)), filter_seq', Len(F(a)), Len(F(b)), 0) = Both(F(a), F(c))
      BY <1>6, ToldGone
    <3>4. QED BY <1>6, <3>2, <3>3
  <2>3. QED BY <2>1, <2>2
<1>14. Both(a, c) \in Seq(Item) /\ Both(F(a), F(c)) \in Seq(Item) /\ Inj(Both(a, c))
  <2>1. Inj(a) /\ Inj(c) /\ Elements(a) \cap Elements(c) = {}
    BY <1>2, <1>4, ElementsOfWhole
  <2>2. F(a) \in Seq(Item) /\ F(c) \in Seq(Item)
    BY <1>6 DEF Three
  <2>3. Inj(Both(a, c))
    BY <1>5, <2>1, ElementsOfParts
  <2>4. QED BY <1>5, <2>2, <2>3, BothTyped
<1>15. /\ change' \in LF!Changes /\ change' # Idle /\ change'.position = position
       /\ change'.removed = 0 /\ change'.added = change.added
  BY <1>1, <1>2 DEF LF!Changes, LF!ConstantsType, position
<1>16. CanCut(Item, child_seq', position, 0)
  <2>1. Len(Both(a, c)) = Len(a) + Len(c) /\ Len(a) \in Nat /\ Len(c) \in Nat
    BY <1>5, BothTyped, LenProperties
  <2>2. QED BY <1>4, <1>10, <1>14, <2>1 DEF CanCut
<1>17. Without(child_seq', position, 0) = Without(child, position, change.added)
  BY <1>1, <1>2, <1>16, PutBack, SameNames
<1>18. LF!TypeOK'
  BY <1>1, <1>2, <1>10, <1>11, <1>13, <1>14, <1>15 DEF LF!TypeOK, FilterIInv, LF!Changes
<1>19. CanCut(Item, child, position, change.added) /\ Inj(child)
  BY <1>1 DEF FilterIInv, position
<1>20. Inj(child_seq') /\ filter_seq' = Shown(child_seq', visible') /\ seen' = filter_seq'
  BY <1>1, <1>10, <1>11, <1>12, <1>13, <1>14
<1>21. QED BY <1>1, <1>15, <1>16, <1>17, <1>18, <1>19, <1>20 DEF FilterIInv
LEMMA AddedStep ==
  ASSUME LF!ConstantsType, FilterIInv, LF!ItemsAdded
  PROVE  FilterIInv'
<1> DEFINE position == change.position
           new == SubSeq(child, position + 1, position + change.added)
           F(s) == Shown(s, visible)
           where == LF!NextVisible(position)
<1>1. /\ change # Idle /\ change.removed = 0
      /\ child_seq' = LF!With(child_seq, position, new)
      /\ filter_seq' = LF!With(filter_seq, where, F(new))
      /\ seen' = LF!Told(seen, filter_seq', where, 0, Len(F(new)))
      /\ change' = Idle /\ child' = child /\ visible' = visible
  BY DEF LF!ItemsAdded, Shown
<1>2. /\ child_seq \in Seq(Item) /\ Inj(child_seq) /\ child \in Seq(Item) /\ Inj(child)
      /\ visible \subseteq Item /\ change \in LF!Changes
      /\ filter_seq = Shown(child_seq, visible) /\ seen = filter_seq
      /\ CanCut(Item, child_seq, position, 0) /\ CanCut(Item, child, position, change.added)
      /\ Without(child_seq, position, 0) = Without(child, position, change.added)
  BY <1>1 DEF FilterIInv, LF!TypeOK, LF!Changes
<1>3. PICK a, b, c : Cuts(Item, child, position, change.added, a, b, c)
  BY <1>2, Parts
<1>4. /\ Three(Item, a, b, c) /\ child = Whole(a, b, c) /\ Len(a) = position
      /\ Len(b) = change.added /\ b = new
  BY <1>3 DEF Cuts, Slice
<1>5. a \in Seq(Item) /\ b \in Seq(Item) /\ c \in Seq(Item) /\ Len(a) \in Nat /\ Len(c) \in Nat
  BY <1>4, LenProperties DEF Three
<1> HIDE DEF new, position, where
<1>6. /\ F(a) \in Seq(Item) /\ F(b) \in Seq(Item) /\ F(c) \in Seq(Item)
      /\ Len(F(a)) \in Nat
  BY <1>5, ShownSmall, LenProperties
<1>7. child_seq = Both(a, c)
  <2>1. Without(child_seq, position, 0) = child_seq
    BY <1>2, PutBack
  <2>2. Without(Whole(a, b, c), Len(a), Len(b)) = Both(a, c)
    BY <1>4, Spliced
  <2>3. QED BY <1>2, <1>4, <2>1, <2>2
<1>8. filter_seq = Both(F(a), F(c)) /\ filter_seq \in Seq(Item) /\ Inj(filter_seq)
      /\ Elements(filter_seq) = Elements(child_seq) \cap visible
  <2>1. Shown(Both(a, c), visible) = Both(F(a), F(c))
    BY <1>5, ShownBoth
  <2>2. Inj(filter_seq) /\ Elements(filter_seq) = Elements(child_seq) \cap visible
    BY <1>2, ShownElements
  <2>3. QED BY <1>2, <1>6, <1>7, <2>1, <2>2, BothTyped
<1>9. where = Len(F(a))
  <2> DEFINE next == LF!In(SubSeq(child_seq, position + 1, Len(child_seq)), LF!ToSet(filter_seq))
  <2>1. next = F(c)
    <3>1. SubSeq(child_seq, position + 1, Len(child_seq)) = c
      <4>1. Slice(Both(a, c), Len(a) + 1, Len(a) + Len(c)) = c /\ Len(Both(a, c)) = Len(a) + Len(c)
        BY <1>5, Cut
      <4>2. Slice(child_seq, position + 1, Len(child_seq)) = c
        BY <1>4, <1>7, <4>1
      <4>3. QED BY <4>2 DEF Slice
    <3>2. next = Shown(c, Elements(filter_seq))
      BY <1>8, <3>1, SameElements DEF Shown
    <3>3. Elements(child_seq) = Elements(a) \cup Elements(c)
      BY <1>5, <1>7, ElementsOfParts
    <3>4. Elements(c) \cap Elements(filter_seq) = Elements(c) \cap visible
      BY <1>8, <3>3
    <3>5. Shown(c, Elements(filter_seq)) = Shown(c, visible)
      BY <1>5, <3>4, ShownSame
    <3>6. QED BY <3>2, <3>5
  <2>2. where = IF next = <<>> THEN Len(filter_seq) ELSE LF!Position(filter_seq, Head(next))
    BY DEF LF!NextVisible, where
  <2> HIDE DEF next
  <2>3. CASE next = <<>>
    <3>1. filter_seq = F(a)
      BY <1>6, <1>8, <2>1, <2>3, BothEmpty
    <3>2. QED BY <2>2, <2>3, <3>1
  <2>4. CASE next # <<>>
    <3>1. LF!Position(Both(F(a), F(c)), Head(F(c))) = Len(F(a))
      BY <1>6, <1>8, <2>1, <2>4, PositionBehind
    <3>2. QED BY <1>8, <2>1, <2>2, <2>4, <3>1
  <2>5. QED BY <2>3, <2>4
<1>10. child_seq' = child
  <2>1. With(Both(a, c), Len(a), b) = Whole(a, b, c)
    BY <1>4, Spliced
  <2>2. QED BY <1>1, <1>4, <1>7, <2>1, SameNames
<1>11. Three(Item, F(a), F(b), F(c)) /\ F(child) = Whole(F(a), F(b), F(c))
  <2>1. Three(Item, a, b, c)
    BY <1>4
  <2>2. Shown(Whole(a, b, c), visible) = Whole(F(a), F(b), F(c)) /\ Three(Item, F(a), F(b), F(c))
    BY <2>1, ShownWhole DEF ShownInParts
  <2>3. QED BY <1>4, <2>2
<1>12. filter_seq' = F(child)
  <2>1. With(Both(F(a), F(c)), Len(F(a)), F(b)) = Whole(F(a), F(b), F(c))
    BY <1>11, Spliced
  <2>2. QED BY <1>1, <1>4, <1>8, <1>9, <1>11, <2>1, SameNames
<1>13. seen' = F(child)
  <2> DEFINE none == <<>>
  <2>1. Whole(F(a), none, F(c)) = Both(F(a), F(c)) /\ Three(Item, F(a), none, F(c)) /\ Len(none) = 0
    BY <1>6, WholeOfTwo
  <2> HIDE DEF none
  <2>2. Told(Whole(F(a), none, F(c)), Whole(F(a), F(b), F(c)), Len(F(a)), Len(none), Len(F(b)))
          = Whole(F(a), F(b), F(c))
    BY <1>11, <2>1, Spliced
  <2>3. seen' = Told(filter_seq, F(child), Len(F(a)), 0, Len(F(b)))
    BY <1>1, <1>2, <1>4, <1>9, <1>12, SameNames
  <2>4. QED BY <1>8, <1>11, <2>1, <2>2, <2>3
<1>14. F(child) \in Seq(Item)
  BY <1>11, CutInThree
<1>15. LF!TypeOK'
  BY <1>1, <1>2, <1>10, <1>12, <1>13, <1>14 DEF LF!TypeOK, LF!Changes
<1>16. QED BY <1>1, <1>2, <1>10, <1>12, <1>13, <1>15 DEF FilterIInv

LEMMA FunctionStep ==
  ASSUME FilterIInv, NEW accepted \in SUBSET Item, LF!SetFilterFunc(accepted)
  PROVE  FilterIInv'
<1> DEFINE now == Shown(child, accepted)
           none == <<>>
<1>1. /\ change = Idle /\ visible' = accepted /\ child_seq' = child
      /\ filter_seq' = now /\ child' = child /\ change' = change
      /\ seen' = LF!Told(seen, filter_seq', 0, Len(filter_seq), Len(filter_seq'))
  BY DEF LF!SetFilterFunc, Shown
<1>2. child \in Seq(Item) /\ Inj(child) /\ filter_seq \in Seq(Item) /\ seen = filter_seq
  BY DEF FilterIInv, LF!TypeOK, LF!Changes
<1>3. now \in Seq(Item)
  BY <1>2, ShownSmall
<1>4. none \in Seq(Item) /\ Len(none) = 0
  BY EmptySeq
<1>5. ASSUME NEW s \in Seq(Item) PROVE Whole(none, s, none) = s
  BY ConcatEmptySeq DEF Whole
<1> HIDE DEF now, none
<1>6. Three(Item, none, filter_seq, none) /\ Three(Item, none, now, none)
  BY <1>2, <1>3, <1>4 DEF Three
<1>7. Told(Whole(none, filter_seq, none), Whole(none, now, none), Len(none), Len(filter_seq), Len(now))
        = Whole(none, now, none)
  BY <1>6, Spliced
<1>8. seen' = now
  BY <1>1, <1>2, <1>3, <1>4, <1>5, <1>7, SameNames
<1>9. LF!TypeOK'
  BY <1>1, <1>2, <1>3, <1>8 DEF LF!TypeOK, FilterIInv
<1>10. QED BY <1>1, <1>2, <1>8, <1>9 DEF FilterIInv, now

(* The filter shows what its function accepts, and its items-changed are   *)
(* true of it each time: dzl_list_model_filter_child_model_items_changed,  *)
(* for every child, every function and changes of every size.              *)
THEOREM FilterTellsTheTruth ==
  ASSUME LF!ConstantsType
  PROVE  LF!Spec => [](LF!ShowsTheVisible /\ LF!ToldTheTruth)
<1>1. LF!Init => FilterIInv
  BY FilterInit
<1>2. FilterIInv /\ [LF!Next]_LF!vars => FilterIInv'
  <2> SUFFICES ASSUME FilterIInv, [LF!Next]_LF!vars PROVE FilterIInv'
    OBVIOUS
  <2>1. ASSUME NEW position \in 0..Len(child), NEW removed \in 0..Len(child), NEW more \in LF!Lists,
               LF!Splice(position, removed, more)
        PROVE  FilterIInv'
    BY <2>1, SpliceStep
  <2>2. CASE LF!ItemsRemoved
    BY <2>2, RemovedStep
  <2>3. CASE LF!ItemsAdded
    BY <2>3, AddedStep
  <2>4. ASSUME NEW accepted \in SUBSET Item, LF!SetFilterFunc(accepted) PROVE FilterIInv'
    BY <2>4, FunctionStep
  <2>5. CASE UNCHANGED LF!vars
    BY <2>5 DEF FilterIInv, LF!TypeOK, LF!vars
  <2>6. QED BY <2>1, <2>2, <2>3, <2>4, <2>5 DEF LF!Next
<1>3. FilterIInv => LF!ShowsTheVisible /\ LF!ToldTheTruth
  BY DEF FilterIInv, LF!ShowsTheVisible, LF!ToldTheTruth, Shown
<1>4. QED BY <1>1, <1>2, <1>3, PTL DEF LF!Spec
-----------------------------------------------------------------------------
(* The joined menu.                                                        *)
MenuIInv ==
  /\ Maps(Menu, Item, items) /\ menus \in Seq(Menu) /\ Inj(menus)
  /\ read = FlatMap(menus, items)

LEMMA JoinedIs == \A all, of : JM!Joined(all, of) = FlatMap(all, of)
  BY OneFlatten DEF JM!Joined, FlatMap, Each

LEMMA MenuInit == ASSUME JM!Init PROVE MenuIInv
<1>1. items = [m \in Menu |-> <<>>] /\ menus = <<>> /\ read = <<>>
  BY DEF JM!Init
<1>2. <<>> \in Seq(Item) /\ <<>> \in Seq(Menu) /\ Inj(<<>>)
  BY EmptySeq, ElementsOfNone
<1>3. Maps(Menu, Item, items)
  BY <1>1, <1>2 DEF Maps
<1>4. FlatMap(<<>>, items) = <<>>
  BY <1>3, FlatMapSmall
<1>5. QED BY <1>1, <1>2, <1>3, <1>4 DEF MenuIInv

LEMMA InsertStep ==
  ASSUME MenuIInv, NEW m \in Menu, NEW k \in 0..Len(menus), JM!Insert(m, k)
  PROVE  MenuIInv'
<1> DEFINE one == <<m>>
           none == <<>>
           J(s) == FlatMap(s, items)
<1>1. /\ m \notin JM!ToSet(menus) /\ menus' = JM!With(menus, k, one) /\ items' = items
      /\ read' = JM!Told(read, JM!Joined(menus', items), JM!OffsetAt(k), 0, Len(items[m]))
  BY DEF JM!Insert
<1>2. /\ Maps(Menu, Item, items) /\ menus \in Seq(Menu) /\ Inj(menus) /\ read = J(menus)
      /\ items[m] \in Seq(Item) /\ Len(menus) \in Nat
  BY LenProperties DEF MenuIInv, Maps
<1>3. CanCut(Menu, menus, k, 0)
  BY <1>2 DEF CanCut
<1>4. PICK a, b, c : Cuts(Menu, menus, k, 0, a, b, c)
  BY <1>3, Parts
<1>5. /\ a \in Seq(Menu) /\ c \in Seq(Menu) /\ Len(a) = k /\ a = SubSeq(menus, 1, k)
      /\ b \in Seq(Menu) /\ Len(b) = 0 /\ menus = Whole(a, b, c)
  BY <1>4 DEF Cuts, Slice, Three
<1>6. b = <<>>
  BY <1>5, EmptySeq
<1>7. menus = Both(a, c)
  BY <1>5, <1>6, WholeOfTwo
<1>8. one \in Seq(Menu) /\ Elements(one) = {m} /\ Inj(one) /\ J(one) = items[m]
  BY <1>2, ElementsOfOne, FlatMapSmall
<1> HIDE DEF one
<1>9. Three(Menu, a, one, c)
  BY <1>5, <1>8 DEF Three
<1>10. menus' = Whole(a, one, c)
  <2>1. Three(Menu, a, none, c)
    BY <1>5, WholeOfTwo
  <2> HIDE DEF none
  <2>2. With(Both(a, c), Len(a), one) = Whole(a, one, c)
    BY <1>9, <2>1, Spliced
  <2>3. QED BY <1>1, <1>5, <1>7, <2>2, SameNames
<1>11. Inj(menus')
  <2>1. Elements(menus) = Elements(a) \cup Elements(c) /\ Inj(a) /\ Inj(c)
        /\ Elements(a) \cap Elements(c) = {}
    <3>1. a \in Seq(Menu) /\ c \in Seq(Menu)
      BY <1>5
    <3>2. /\ Elements(Both(a, c)) = Elements(a) \cup Elements(c)
          /\ Inj(Both(a, c)) <=> Inj(a) /\ Inj(c) /\ Elements(a) \cap Elements(c) = {}
      BY <3>1, ElementsOfParts
    <3>3. QED BY <1>2, <1>7, <3>2
  <2>2. m \notin Elements(menus)
    BY <1>1, <1>2, SameElements
  <2>3. QED BY <1>8, <1>9, <1>10, <2>1, <2>2, ElementsOfWhole
<1>12. /\ J(Whole(a, one, c)) = Whole(J(a), items[m], J(c))
       /\ Three(Item, J(a), items[m], J(c))
  BY <1>2, <1>8, <1>9, FlatMapWhole
<1>13. Three(Item, J(a), none, J(c)) /\ Whole(J(a), none, J(c)) = J(menus) /\ Len(none) = 0
  <2>1. J(a) \in Seq(Item) /\ J(c) \in Seq(Item)
    BY <1>12 DEF Three
  <2>2. a \in Seq(Menu) /\ c \in Seq(Menu)
    BY <1>5
  <2>3. Maps(Menu, Item, items)
    BY <1>2
  <2>4. J(Both(a, c)) = Both(J(a), J(c))
    BY <2>2, <2>3, FlatMapBoth
  <2>5. QED BY <1>7, <2>1, <2>4, WholeOfTwo
<1> HIDE DEF none
<1>14. Told(Whole(J(a), none, J(c)), Whole(J(a), items[m], J(c)), Len(J(a)), Len(none), Len(items[m]))
         = Whole(J(a), items[m], J(c))
  BY <1>12, <1>13, Spliced
<1>15. JM!OffsetAt(k) = Len(J(a))
  BY <1>5, JoinedIs DEF JM!OffsetAt
<1>16. read' = FlatMap(menus', items')
  BY <1>1, <1>2, <1>10, <1>12, <1>13, <1>14, <1>15, SameNames, JoinedIs
<1>17. menus' \in Seq(Menu)
  BY <1>9, <1>10, CutInThree
<1>18. QED BY <1>1, <1>2, <1>11, <1>16, <1>17 DEF MenuIInv

(* One menu among the others.                                              *)
LEMMA MenuBetween ==
  ASSUME menus \in Seq(Menu), NEW k \in 0..(Len(menus) - 1)
  PROVE  \E a, c : LET m == menus[k + 1]
                  IN  /\ m \in Menu /\ Three(Menu, a, <<m>>, c)
                      /\ menus = Whole(a, <<m>>, c)
                      /\ a = SubSeq(menus, 1, k) /\ Len(a) = k
                      /\ Without(menus, k, 1) = Both(a, c)
<1> DEFINE m == menus[k + 1]
<1>1. Len(menus) \in Nat /\ CanCut(Menu, menus, k, 1)
  BY LenProperties DEF CanCut
<1>2. PICK a, b, c : Cuts(Menu, menus, k, 1, a, b, c)
  BY <1>1, Parts
<1>3. /\ Three(Menu, a, b, c) /\ Len(a) = k /\ a = SubSeq(menus, 1, k)
      /\ b \in Seq(Menu) /\ Len(b) = 1 /\ menus = Whole(a, b, c)
  BY <1>2 DEF Cuts, Slice, Three
<1>4. m \in Menu /\ b[1] = m
  <2>1. k + 1 \in 1..Len(menus) /\ k \in Int
    BY <1>1
  <2>2. \A i \in 1..Len(menus) : menus[i] \in Menu
    BY LenProperties
  <2>3. b = SubSeq(menus, k + 1, k + 1)
    BY <1>2 DEF Cuts, Slice
  <2>4. SubSeq(menus, k + 1, k + 1)[1] = menus[k + 1]
    <3> DEFINE p == k + 1
    <3>1. p \in Int /\ p \in 1..Len(menus) /\ \A i \in p..p : i \in 1..Len(menus)
      BY <2>1
    <3>2. \A i \in p..p : menus[i] \in Menu
      BY <2>2, <3>1
    <3> HIDE DEF p
    <3>3. \A i \in 1..(p - p + 1) : SubSeq(menus, p, p)[i] = menus[p + i - 1]
      BY <3>1, <3>2, SubSeqProperties
    <3>4. 1 \in 1..(p - p + 1) /\ p + 1 - 1 = p
      BY <3>1
    <3>5. SubSeq(menus, p, p)[1] = menus[p]
      BY <3>3, <3>4
    <3>6. QED BY <3>5 DEF p
  <2>5. QED BY <2>1, <2>2, <2>3, <2>4
<1>5. b = <<m>>
  BY <1>3, <1>4
<1>6. Without(Whole(a, b, c), Len(a), Len(b)) = Both(a, c)
  <2>1. Three(Menu, a, b, c)
    BY <1>3
  <2>2. QED BY <2>1, Spliced
<1> HIDE DEF m
<1>7. m \in Menu /\ Three(Menu, a, <<m>>, c) /\ menus = Whole(a, <<m>>, c)
      /\ a = SubSeq(menus, 1, k) /\ Len(a) = k /\ Without(menus, k, 1) = Both(a, c)
  BY <1>3, <1>4, <1>5, <1>6
<1>8. QED BY <1>7 DEF m

LEMMA RemoveStep ==
  ASSUME MenuIInv, NEW k \in 0..(Len(menus) - 1), JM!RemoveIndex(k)
  PROVE  MenuIInv'
<1> DEFINE m == menus[k + 1]
           one == <<m>>
           J(s) == FlatMap(s, items)
<1>1. /\ menus' = JM!Without(menus, k, 1) /\ items' = items
      /\ read' = JM!Told(read, <<>>, JM!OffsetAt(k), Len(items[m]), 0)
  BY DEF JM!RemoveIndex
<1>2. Maps(Menu, Item, items) /\ menus \in Seq(Menu) /\ Inj(menus) /\ read = J(menus)
  BY DEF MenuIInv
<1>3. PICK a, c : /\ m \in Menu /\ Three(Menu, a, one, c) /\ menus = Whole(a, one, c)
                  /\ a = SubSeq(menus, 1, k) /\ Len(a) = k
                  /\ Without(menus, k, 1) = Both(a, c)
  BY <1>2, MenuBetween
<1>4. a \in Seq(Menu) /\ c \in Seq(Menu) /\ J(one) = items[m]
  BY <1>2, <1>3, FlatMapSmall DEF Three
<1> HIDE DEF one, m
<1>5. menus' = Both(a, c)
  BY <1>1, <1>3, SameNames
<1>6. Inj(menus') /\ menus' \in Seq(Menu)
  <2>1. Inj(a) /\ Inj(c) /\ Elements(a) \cap Elements(c) = {}
    BY <1>2, <1>3, ElementsOfWhole
  <2>2. QED BY <1>4, <1>5, <2>1, ElementsOfParts, BothTyped
<1>7. /\ J(Whole(a, one, c)) = Whole(J(a), items[m], J(c))
      /\ Three(Item, J(a), items[m], J(c))
  BY <1>2, <1>3, <1>4, FlatMapWhole
<1>8. JM!OffsetAt(k) = Len(J(a))
  BY <1>3, JoinedIs DEF JM!OffsetAt
<1>9. Told(Whole(J(a), items[m], J(c)), <<>>, Len(J(a)), Len(items[m]), 0) = Both(J(a), J(c))
  BY <1>7, ToldGone
<1>10. J(Both(a, c)) = Both(J(a), J(c))
  BY <1>2, <1>4, FlatMapBoth
<1>11. read' = FlatMap(menus', items')
  BY <1>1, <1>2, <1>3, <1>5, <1>7, <1>8, <1>9, <1>10, SameNames
<1>12. QED BY <1>1, <1>2, <1>6, <1>11 DEF MenuIInv
(* Parts of the middle part are parts of the whole.                        *)
LEMMA Regrouped ==
  ASSUME NEW T, NEW x \in Seq(T), NEW y \in Seq(T), NEW p, NEW q, NEW r, Three(T, p, q, r)
  PROVE  Whole(x, Whole(p, q, r), y) = Whole(Both(x, p), q, Both(r, y))
<1>1. p \in Seq(T) /\ q \in Seq(T) /\ r \in Seq(T)
  BY DEF Three
<1> DEFINE qr == Both(q, r)
           ry == Both(r, y)
           qry == Both(q, ry)
           xp == Both(x, p)
<1>2. qr \in Seq(T) /\ ry \in Seq(T) /\ qry \in Seq(T) /\ xp \in Seq(T)
  BY <1>1, BothTyped
<1>3. Both(qr, y) = qry
  <2>1. Three(T, q, r, y)
    BY <1>1 DEF Three
  <2>2. QED BY <2>1, BothAssociative
<1>4. Both(Both(p, qr), y) = Both(p, Both(qr, y))
  <2>1. Three(T, p, qr, y)
    BY <1>1, <1>2 DEF Three
  <2> HIDE DEF qr
  <2>2. QED BY <2>1, BothAssociative
<1>5. Both(x, Both(p, qry)) = Both(xp, qry)
  <2>1. Three(T, x, p, qry)
    BY <1>1, <1>2 DEF Three
  <2> HIDE DEF qry
  <2>2. QED BY <2>1, BothAssociative
<1>6. /\ Whole(x, Whole(p, q, r), y) = Both(x, Both(Both(p, qr), y))
      /\ Whole(xp, q, ry) = Both(xp, qry)
  BY DEF Whole, Both
<1>7. QED BY <1>3, <1>4, <1>5, <1>6

LEMMA ChangedStep ==
  ASSUME MenuIInv, NEW m \in Menu, NEW position \in 0..MaxItems, NEW removed \in 0..MaxItems,
         NEW more \in UNION {[1..n -> Item] : n \in 0..MaxItems},
         JM!ItemsChanged(m, position, removed, more)
  PROVE  MenuIInv'
<1> DEFINE one == <<m>>
           old == items[m]
           new == items'[m]
           k == JM!IndexOf(m)
           J(s) == FlatMap(s, items)
           K(s) == FlatMap(s, items')
<1>1. /\ position + removed <= Len(old)
      /\ items' = [items EXCEPT ![m] = JM!With(JM!Without(@, position, removed), position, more)]
      /\ read' = IF m \notin JM!ToSet(menus) THEN read
                 ELSE JM!Told(read, JM!Joined(menus, items'), JM!OffsetAt(k) + position,
                              removed, Len(more))
      /\ menus' = menus
  BY DEF JM!ItemsChanged
<1>2. /\ Maps(Menu, Item, items) /\ menus \in Seq(Menu) /\ Inj(menus) /\ read = J(menus)
      /\ old \in Seq(Item)
  BY DEF MenuIInv, Maps
<1>3. more \in Seq(Item)
  OBVIOUS
<1>4. CanCut(Item, old, position, removed)
  BY <1>1, <1>2 DEF CanCut
<1>5. PICK p, q, r : Cuts(Item, old, position, removed, p, q, r)
  BY <1>4, Parts
<1>6. Three(Item, p, q, r) /\ old = Whole(p, q, r) /\ Len(p) = position /\ Len(q) = removed
  BY <1>5 DEF Cuts
<1>7. Three(Item, p, more, r)
  BY <1>3, <1>6 DEF Three
<1>8. new = Whole(p, more, r) /\ items' = [items EXCEPT ![m] = new]
  <2>1. Without(Whole(p, q, r), Len(p), Len(q)) = Both(p, r) /\ With(Both(p, r), Len(p), more) = Whole(p, more, r)
    BY <1>6, <1>7, Spliced
  <2>2. items' = [items EXCEPT ![m] = With(Without(old, position, removed), position, more)]
    BY <1>1, SameNames
  <2>3. items' = [items EXCEPT ![m] = Whole(p, more, r)]
    BY <1>6, <2>1, <2>2
  <2>4. new = Whole(p, more, r)
    BY <1>2, <2>3 DEF Maps
  <2>5. QED BY <2>3, <2>4
<1>9. new \in Seq(Item)
  BY <1>7, <1>8, CutInThree
<1>10. Maps(Menu, Item, items') /\ \A x \in Menu : x # m => items'[x] = items[x]
  BY <1>2, <1>8, <1>9 DEF Maps
<1> HIDE DEF new, old
<1>11. ASSUME NEW s \in Seq(Menu), m \notin Elements(s) PROVE K(s) = J(s)
  <2>1. \A x \in Elements(s) : x \in Menu /\ x # m
    BY <1>11, LenProperties DEF Elements
  <2>2. \A x \in Elements(s) : items'[x] = items[x]
    BY <1>10, <2>1
  <2>3. QED BY <1>2, <1>10, <2>2, FlatMapSame
<1>12. JM!ToSet(menus) = Elements(menus)
  BY <1>2, SameElements
<1>13. CASE m \notin Elements(menus)
  <2>1. read' = K(menus')
    BY <1>1, <1>2, <1>11, <1>12, <1>13
  <2>2. QED BY <1>1, <1>2, <1>10, <2>1 DEF MenuIInv
<1>14. CASE m \in Elements(menus)
  <2>1. k \in 0..(Len(menus) - 1) /\ menus[k + 1] = m
    <3>1. PICK i \in 1..Len(menus) : menus[i] = m
      BY <1>14 DEF Elements
    <3>2. Len(menus) \in Nat /\ i - 1 \in 0..(Len(menus) - 1) /\ (i - 1) + 1 = i
      BY <1>2, LenProperties
    <3>3. QED BY <3>1, <3>2 DEF JM!IndexOf
  <2> HIDE DEF k
  <2>2. PICK a, c : /\ Three(Menu, a, one, c) /\ menus = Whole(a, one, c)
                    /\ a = SubSeq(menus, 1, k)
    BY <1>2, <2>1, MenuBetween
  <2>3. a \in Seq(Menu) /\ c \in Seq(Menu) /\ Elements(one) = {m} /\ J(one) = old /\ K(one) = new
    <3>1. a \in Seq(Menu) /\ c \in Seq(Menu)
      BY <2>2 DEF Three
    <3>2. Elements(one) = {m}
      BY ElementsOfOne
    <3>3. J(one) = old
      BY <1>2, FlatMapSmall DEF old
    <3>4. K(one) = new
      BY <1>10, FlatMapSmall DEF new
    <3>5. QED BY <3>1, <3>2, <3>3, <3>4
  <2> HIDE DEF one
  <2>4. m \notin Elements(a) /\ m \notin Elements(c)
    BY <1>2, <2>2, <2>3, ElementsOfWhole
  <2>5. K(a) = J(a) /\ K(c) = J(c)
    BY <1>11, <2>3, <2>4
  <2>6. J(menus) = Whole(J(a), old, J(c)) /\ Three(Item, J(a), old, J(c))
    BY <1>2, <2>2, <2>3, FlatMapWhole
  <2>7. K(menus) = Whole(J(a), new, J(c))
    BY <1>10, <2>2, <2>3, <2>5, FlatMapWhole
  <2>8. J(a) \in Seq(Item) /\ J(c) \in Seq(Item)
    BY <2>6 DEF Three
  <2> DEFINE x == Both(J(a), p)
             y == Both(r, J(c))
  <2>9. J(menus) = Whole(x, q, y)
    BY <1>6, <2>6, <2>8, Regrouped
  <2>10. K(menus) = Whole(x, more, y)
    BY <1>7, <1>8, <2>7, <2>8, Regrouped
  <2>11. Len(x) = Len(J(a)) + position /\ Three(Item, x, q, y) /\ Three(Item, x, more, y)
    BY <1>3, <1>6, <2>8, BothTyped DEF Three
  <2> HIDE DEF x, y
  <2>12. Told(Whole(x, q, y), Whole(x, more, y), Len(x), Len(q), Len(more)) = Whole(x, more, y)
    BY <2>11, Spliced
  <2>13. JM!OffsetAt(k) = Len(J(a))
    BY <2>2, JoinedIs DEF JM!OffsetAt
  <2>14. read' = Told(J(menus), K(menus), Len(J(a)) + position, removed, Len(more))
    BY <1>1, <1>2, <1>12, <1>14, <2>13, SameNames, JoinedIs
  <2>15. read' = K(menus)
    BY <1>6, <2>9, <2>10, <2>11, <2>12, <2>14
  <2>16. QED BY <1>1, <1>2, <1>10, <2>15 DEF MenuIInv
<1>15. QED BY <1>13, <1>14

(* The items-changed of a joined menu describe it, whichever of its menus  *)
(* changes, comes or goes: dzl_joined_menu_on_items_changed, with the      *)
(* offset of the menu, and dzl_joined_menu_insert and _remove_index.       *)
THEOREM JoinedMenuTellsTheTruth == JM!Spec => []JM!ToldInPlace
<1>1. JM!Init => MenuIInv
  BY MenuInit
<1>2. MenuIInv /\ [JM!Next]_JM!vars => MenuIInv'
  <2> SUFFICES ASSUME MenuIInv, [JM!Next]_JM!vars PROVE MenuIInv'
    OBVIOUS
  <2>1. ASSUME NEW m \in Menu, NEW k \in 0..Len(menus), JM!Insert(m, k) PROVE MenuIInv'
    BY <2>1, InsertStep
  <2>2. ASSUME NEW k \in 0..(Len(menus) - 1), JM!RemoveIndex(k) PROVE MenuIInv'
    BY <2>2, RemoveStep
  <2>3. ASSUME NEW m \in Menu, NEW position \in 0..MaxItems, NEW removed \in 0..MaxItems,
               NEW more \in UNION {[1..n -> Item] : n \in 0..MaxItems},
               JM!ItemsChanged(m, position, removed, more)
        PROVE  MenuIInv'
    BY <2>3, ChangedStep
  <2>4. CASE UNCHANGED JM!vars
    BY <2>4 DEF MenuIInv, JM!vars
  <2>5. QED BY <2>1, <2>2, <2>3, <2>4 DEF JM!Next
<1>3. MenuIInv => JM!ToldInPlace
  BY JoinedIs DEF MenuIInv, JM!ToldInPlace
<1>4. QED BY <1>1, <1>2, <1>3, PTL DEF JM!Spec

-----------------------------------------------------------------------------
(* The tree of widgets: a widget, what it is in, and so on outwards.       *)
Deep(depth, n) ==
  /\ depth \in [Widget -> Nat] /\ n \in Nat /\ \A w \in Widget : depth[w] < n
  /\ \A w \in Widget \ {Window} : Parent[w] \in Widget /\ depth[Parent[w]] < depth[w]

LEMMA SameSizes == \A S : SC!IsFiniteSet(S) = IsFiniteSet(S) /\ SC!Cardinality(S) = Cardinality(S)
  BY DEF IsFiniteSet, SC!IsFiniteSet, Cardinality, SC!Cardinality

LEMMA DepthExists == ASSUME SC!ConstantsType PROVE \E depth, n : Deep(depth, n)
<1>1. Cardinality(Widget) \in Nat
  BY FS_CardinalityType, SameSizes DEF SC!ConstantsType
<1>2. PICK depth \in [Widget -> 0..Cardinality(Widget)] :
        \A w \in Widget \ {Window} : depth[Parent[w]] < depth[w]
  BY SameSizes DEF SC!ConstantsType
<1>3. depth \in [Widget -> Nat] /\ \A w \in Widget : depth[w] < Cardinality(Widget) + 1
  BY <1>1, <1>2
<1>4. Deep(depth, Cardinality(Widget) + 1)
  BY <1>1, <1>2, <1>3 DEF Deep, SC!ConstantsType
<1>5. QED BY <1>4

(* Induction outwards-in: the window, then what is in it.                  *)
LEMMA TreeInduction ==
  ASSUME SC!ConstantsType, NEW P, \A w \in Widget : (w # Window => Parent[w] \in P) => w \in P
  PROVE  \A w \in Widget : w \in P
<1>1. PICK depth, n : Deep(depth, n)
  BY DepthExists
<1> DEFINE S == {m \in Nat : \A w \in Widget : depth[w] < m => w \in P}
<1>2. 0 \in S
  BY <1>1 DEF Deep
<1>3. ASSUME NEW m \in Nat, m \in S PROVE m + 1 \in S
  <2>1. ASSUME NEW w \in Widget, depth[w] < m + 1 PROVE w \in P
    <3>1. w # Window => Parent[w] \in Widget /\ depth[Parent[w]] < m
      BY <1>1, <2>1 DEF Deep
    <3>2. w # Window => Parent[w] \in P
      BY <1>3, <3>1
    <3>3. QED BY <3>2
  <2>2. QED BY <2>1
<1>4. S \in SUBSET Nat
  OBVIOUS
<1> HIDE DEF S
<1>5. \A m \in Nat : m \in S
  BY <1>2, <1>3, <1>4, SetInduction
<1>6. QED BY <1>1, <1>5 DEF S, Deep

Outwards(f, att, w) == IF w \in att THEN Both(<<w>>, f[Parent[w]]) ELSE <<w>>

(* The recursion of Ancestry has a solution, since no widget is inside     *)
(* itself.                                                                 *)
LEMMA AncestryExists ==
  ASSUME SC!ConstantsType, NEW att \in SUBSET (Widget \ {Window})
  PROVE  \E f : f = [w \in Widget |-> Outwards(f, att, w)]
<1>1. PICK depth, n : Deep(depth, n)
  BY DepthExists
<1> DEFINE S == {m \in Nat : \E f : /\ f = [w \in Widget |-> f[w]]
                                    /\ \A w \in Widget : depth[w] < m => f[w] = Outwards(f, att, w)}
<1>2. 0 \in S
  <2> DEFINE f == [w \in Widget |-> w]
  <2>1. f = [w \in Widget |-> f[w]] /\ \A w \in Widget : depth[w] < 0 => f[w] = Outwards(f, att, w)
    BY <1>1 DEF Deep
  <2>2. QED BY <2>1
<1>3. ASSUME NEW m \in Nat, m \in S PROVE m + 1 \in S
  <2>1. PICK f : f = [w \in Widget |-> f[w]] /\ \A w \in Widget : depth[w] < m => f[w] = Outwards(f, att, w)
    BY <1>3
  <2> DEFINE g == [w \in Widget |-> Outwards(f, att, w)]
  <2>2. \A w \in Widget : depth[w] < m => g[w] = f[w]
    BY <2>1
  <2>3. ASSUME NEW w \in Widget, depth[w] < m + 1 PROVE g[w] = Outwards(g, att, w)
    <3>1. w \in att => Parent[w] \in Widget /\ depth[Parent[w]] < m
      BY <1>1, <2>3 DEF Deep
    <3>2. w \in att => g[Parent[w]] = f[Parent[w]]
      BY <2>2, <3>1
    <3>3. g[w] = Outwards(f, att, w)
      OBVIOUS
    <3> HIDE DEF g
    <3>4. QED BY <3>2, <3>3 DEF Outwards
  <2>4. g = [w \in Widget |-> g[w]]
    OBVIOUS
  <2> HIDE DEF g
  <2>5. QED BY <2>3, <2>4
<1>4. S \in SUBSET Nat
  OBVIOUS
<1> HIDE DEF S
<1>5. n \in S
  BY <1>1, <1>2, <1>3, <1>4, SetInduction DEF Deep
<1>6. PICK f : f = [w \in Widget |-> f[w]] /\ \A w \in Widget : depth[w] < n => f[w] = Outwards(f, att, w)
  BY <1>5 DEF S
<1>7. \A w \in Widget : f[w] = Outwards(f, att, w)
  BY <1>1, <1>6 DEF Deep
<1>8. f = [w \in Widget |-> Outwards(f, att, w)]
  BY <1>6, <1>7
<1>9. QED BY <1>8

LEMMA AncestryIs ==
  ASSUME SC!ConstantsType, NEW att \in SUBSET (Widget \ {Window}), NEW v \in Widget
  PROVE  SC!Ancestry(v, att) = IF v \in att THEN Both(<<v>>, SC!Ancestry(Parent[v], att)) ELSE <<v>>
<1> DEFINE up == CHOOSE f : f = [w \in Widget |-> Outwards(f, att, w)]
<1>1. up = [w \in Widget |-> Outwards(up, att, w)]
  BY AncestryExists
<1>2. \A w : SC!Ancestry(w, att) = up[w]
  BY DEF SC!Ancestry, Outwards, Both
<1> HIDE DEF up
<1>3. up[v] = Outwards(up, att, v)
  BY <1>1
<1>4. QED BY <1>2, <1>3 DEF Outwards

(* A widget with those it is in, and the outermost of them.                *)
Around(v, att) == Elements(SC!Ancestry(v, att))
Outermost(v, att) == SC!Toplevel(v, att)

LEMMA AroundIs ==
  ASSUME SC!ConstantsType, NEW att \in SUBSET (Widget \ {Window}), NEW v \in Widget
  PROVE  /\ SC!Ancestry(v, att) \in Seq(Widget)
         /\ v \in att => /\ Parent[v] \in Widget
                         /\ Around(v, att) = {v} \cup Around(Parent[v], att)
                         /\ Outermost(v, att) = Outermost(Parent[v], att)
         /\ v \notin att => Around(v, att) = {v} /\ Outermost(v, att) = v
<1> DEFINE A(w) == SC!Ancestry(w, att)
           P == {w \in Widget : A(w) \in Seq(Widget) /\ A(w) # <<>>}
<1>1. \A w \in Widget : w \in att => w # Window /\ Parent[w] \in Widget
  BY DEF SC!ConstantsType
<1>2. \A w \in Widget : A(w) = IF w \in att THEN Both(<<w>>, A(Parent[w])) ELSE <<w>>
  BY AncestryIs
<1>3. \A w \in Widget : <<w>> \in Seq(Widget) /\ Len(<<w>>) = 1 /\ <<w>>[1] = w /\ Elements(<<w>>) = {w}
  BY ElementsOfOne
<1> HIDE DEF A
<1>4. ASSUME NEW w \in Widget, w # Window => Parent[w] \in P PROVE w \in P
  <2>1. CASE w \in att
    <3> DEFINE one == <<w>>
    <3>1. A(Parent[w]) \in Seq(Widget) /\ A(w) = Both(one, A(Parent[w])) /\ one \in Seq(Widget) /\ Len(one) = 1
      BY <1>1, <1>2, <1>3, <1>4, <2>1
    <3> HIDE DEF one
    <3>2. A(w) \in Seq(Widget) /\ Len(A(w)) = 1 + Len(A(Parent[w])) /\ Len(A(Parent[w])) \in Nat
      BY <3>1, BothTyped, LenProperties
    <3>3. Len(<<>>) = 0
      OBVIOUS
    <3>4. QED BY <3>2, <3>3
  <2>2. CASE w \notin att
    <3> DEFINE one == <<w>>
    <3>1. A(w) = one /\ one \in Seq(Widget) /\ Len(one) = 1
      BY <1>2, <1>3, <2>2
    <3>2. Len(<<>>) = 0
      OBVIOUS
    <3> HIDE DEF one
    <3>3. QED BY <3>1, <3>2
  <2>3. QED BY <2>1, <2>2
<1> HIDE DEF P
<1>5. \A w \in Widget : w \in P
  BY <1>4, TreeInduction
<1>6. CASE v \in att
  <2> DEFINE one == <<v>>
             p == Parent[v]
  <2>1. p \in Widget /\ A(p) \in Seq(Widget) /\ A(p) # <<>> /\ A(v) = Both(one, A(p))
        /\ one \in Seq(Widget) /\ Len(one) = 1 /\ Elements(one) = {v}
    BY <1>1, <1>2, <1>3, <1>5, <1>6 DEF P
  <2> HIDE DEF one, p
  <2>2. Len(A(p)) \in Nat /\ Len(A(p)) > 0
    BY <2>1, EmptySeq, LenProperties
  <2>3. Elements(A(v)) = {v} \cup Elements(A(p)) /\ A(v) \in Seq(Widget) /\ Len(A(v)) = 1 + Len(A(p))
    <3>1. Elements(Both(one, A(p))) = Elements(one) \cup Elements(A(p))
      BY <2>1, ElementsOfParts
    <3>2. Both(one, A(p)) \in Seq(Widget) /\ Len(Both(one, A(p))) = Len(one) + Len(A(p))
      BY <2>1, BothTyped
    <3>3. QED BY <2>1, <3>1, <3>2
  <2>4. A(v)[Len(A(v))] = A(p)[Len(A(p))]
    <3>1. \A i \in 1..(Len(one) + Len(A(p))) : Both(one, A(p))[i] = IF i <= Len(one) THEN one[i] ELSE A(p)[i - Len(one)]
      BY <2>1, ConcatProperties DEF Both
    <3>2. 1 + Len(A(p)) \in 1..(1 + Len(A(p))) /\ ~(1 + Len(A(p)) <= 1) /\ (1 + Len(A(p))) - 1 = Len(A(p))
      BY <2>2
    <3>3. QED BY <2>1, <2>3, <3>1, <3>2
  <2>5. QED BY <1>6, <2>1, <2>3, <2>4 DEF p, A, Around, Outermost, SC!Toplevel, SC!Last
<1>7. CASE v \notin att
  <2>1. A(v) = <<v>>
    BY <1>2, <1>7
  <2>2. QED BY <1>3, <1>7, <2>1 DEF A, Around, Outermost, SC!Toplevel, SC!Last
<1>8. QED BY <1>6, <1>7

LEMMA OutermostIs ==
  ASSUME SC!ConstantsType, NEW att \in SUBSET (Widget \ {Window}), NEW v \in Widget
  PROVE  /\ v \in Around(v, att) /\ Around(v, att) \subseteq Widget
         /\ Outermost(v, att) \in Around(v, att) \ att
         /\ \A w \in Around(v, att) : /\ Around(w, att) \subseteq Around(v, att)
                                      /\ Outermost(w, att) = Outermost(v, att)
<1> DEFINE Good(x) ==
             /\ x \in Around(x, att) /\ Around(x, att) \subseteq Widget
             /\ Outermost(x, att) \in Around(x, att) \ att
             /\ \A w \in Around(x, att) : /\ Around(w, att) \subseteq Around(x, att)
                                          /\ Outermost(w, att) = Outermost(x, att)
           P == {x \in Widget : Good(x)}
<1>1. ASSUME NEW w \in Widget, w # Window => Parent[w] \in P PROVE w \in P
  <2>1. CASE w \in att
    <3>1. /\ Parent[w] \in P /\ Around(w, att) = {w} \cup Around(Parent[w], att)
          /\ Outermost(w, att) = Outermost(Parent[w], att)
      BY <1>1, <2>1, AroundIs
    <3>2. QED BY <3>1
  <2>2. CASE w \notin att
    <3>1. Around(w, att) = {w} /\ Outermost(w, att) = w
      BY <2>2, AroundIs
    <3>2. QED BY <2>2, <3>1
  <2>3. QED BY <2>1, <2>2
<1> HIDE DEF P
<1>2. v \in P
  BY <1>1, TreeInduction
<1>3. QED BY <1>2 DEF P

(* What happens elsewhere in the tree does not change what v is in.        *)
LEMMA AroundSame ==
  ASSUME SC!ConstantsType,
         NEW att \in SUBSET (Widget \ {Window}), NEW now \in SUBSET (Widget \ {Window}),
         NEW v \in Widget, Around(v, att) \cap att = Around(v, att) \cap now
  PROVE  Around(v, now) = Around(v, att) /\ Outermost(v, now) = Outermost(v, att)
<1> DEFINE P == {x \in Widget : Around(x, att) \cap att = Around(x, att) \cap now =>
                                  Around(x, now) = Around(x, att) /\ Outermost(x, now) = Outermost(x, att)}
<1>1. ASSUME NEW w \in Widget, w # Window => Parent[w] \in P PROVE w \in P
  <2> SUFFICES ASSUME Around(w, att) \cap att = Around(w, att) \cap now
               PROVE  Around(w, now) = Around(w, att) /\ Outermost(w, now) = Outermost(w, att)
    OBVIOUS
  <2>1. w \in Around(w, att)
    BY OutermostIs
  <2>2. CASE w \in att
    <3>1. /\ Parent[w] \in P /\ Around(w, att) = {w} \cup Around(Parent[w], att)
          /\ Outermost(w, att) = Outermost(Parent[w], att)
      BY <1>1, <2>2, AroundIs
    <3>2. w \in now
      BY <2>1, <2>2
    <3>3. /\ Around(w, now) = {w} \cup Around(Parent[w], now)
          /\ Outermost(w, now) = Outermost(Parent[w], now)
      BY <3>2, AroundIs
    <3>4. Around(Parent[w], att) \cap att = Around(Parent[w], att) \cap now
      BY <3>1
    <3>5. QED BY <3>1, <3>3, <3>4
  <2>3. CASE w \notin att
    <3>1. w \notin now
      BY <2>1, <2>3
    <3>2. QED BY <2>3, <3>1, AroundIs
  <2>4. QED BY <2>2, <2>3
<1> HIDE DEF P
<1>2. v \in P
  BY <1>1, TreeInduction
<1>3. QED BY <1>2 DEF P

-----------------------------------------------------------------------------
(* The two ends of a link agree: each controller is once in the list of    *)
(* its root, and in no other list.                                         *)
Linked ==
  /\ root \in [Widget -> Widget \cup {None}] /\ descendants \in [Widget -> Seq(Widget)]
  /\ \A w \in Widget : Inj(descendants[w]) /\ Elements(descendants[w]) = {v \in Widget : root[v] = w}

LEMMA ThoseIs == \A s, S : SC!Those(s, S) = Shown(s, S)
  BY DEF SC!Those, Shown, LF!In, SC!FlattenSeq, LF!FlattenSeq

LEMMA Reversed ==
  ASSUME NEW T, NEW s \in Seq(T)
  PROVE  /\ SC!Reverse(s) \in Seq(T) /\ Elements(SC!Reverse(s)) = Elements(s)
         /\ Inj(s) => Inj(SC!Reverse(s))
<1> DEFINE r == SC!Reverse(s)
<1>1. Len(s) \in Nat /\ \A i \in 1..Len(s) : s[i] \in T
  BY LenProperties
<1>2. \A i \in 1..Len(s) : (Len(s) - i) + 1 \in 1..Len(s) /\ r[i] = s[(Len(s) - i) + 1]
                           /\ (Len(s) - ((Len(s) - i) + 1)) + 1 = i
  BY <1>1 DEF SC!Reverse
<1>3. r \in [1..Len(s) -> T]
  BY <1>1, <1>2 DEF SC!Reverse
<1>4. r \in Seq(T) /\ Len(r) = Len(s)
  <2>1. r \in Seq(T)
    BY <1>1, <1>3, IsASeq
  <2>2. DOMAIN r = 1..Len(s) /\ DOMAIN r = 1..Len(r) /\ Len(r) \in Nat
    BY <1>3, <2>1, LenProperties
  <2>3. QED BY <1>1, <2>1, <2>2
<1> HIDE DEF r
<1>5. Elements(r) = Elements(s)
  <2>1. ASSUME NEW i \in 1..Len(s) PROVE r[i] \in Elements(s) /\ s[i] \in Elements(r)
    <3>1. (Len(s) - i) + 1 \in 1..Len(s) /\ r[(Len(s) - i) + 1] = s[i]
      BY <1>2
    <3>2. QED BY <1>2, <1>4, <3>1 DEF Elements
  <2>2. QED BY <1>4, <2>1 DEF Elements
<1>6. ASSUME Inj(s) PROVE Inj(r)
  <2>1. ASSUME NEW i \in 1..Len(s), NEW j \in 1..Len(s), r[i] = r[j] PROVE i = j
    <3>1. (Len(s) - i) + 1 = (Len(s) - j) + 1
      BY <1>2, <1>6, <2>1 DEF Inj
    <3>2. QED BY <1>1, <3>1
  <2>2. QED BY <1>4, <2>1 DEF Inj
<1>7. QED BY <1>4, <1>5, <1>6 DEF r

(* An order of ws has each of them once.                                   *)
LEMMA OrderIs ==
  ASSUME NEW ws, IsFiniteSet(ws), NEW att, NEW order \in SC!Orders(ws, att)
  PROVE  order \in Seq(ws) /\ Elements(order) = ws /\ Inj(order)
<1> DEFINE n == Cardinality(ws)
<1>1. n \in Nat
  BY FS_CardinalityType
<1>2. order \in [1..n -> ws] /\ \A i, j \in 1..n : i # j => order[i] # order[j]
  BY SameSizes DEF SC!Orders, SC!SetToSeqs
<1> HIDE DEF n
<1>3. order \in Seq(ws) /\ Len(order) = n
  <2>1. order \in Seq(ws)
    BY <1>1, <1>2, IsASeq
  <2>2. DOMAIN order = 1..n /\ DOMAIN order = 1..Len(order) /\ Len(order) \in Nat
    BY <1>2, <2>1, LenProperties
  <2>3. QED BY <1>1, <2>1, <2>2
<1>4. order \in Injection(1..n, ws)
  BY <1>2 DEF Injection, IsInjective
<1>5. IsFiniteSet(1..n) /\ Cardinality(1..n) = n
  BY <1>1, FS_Interval
<1>6. order \in Surjection(1..n, ws)
  BY <1>4, <1>5, FS_Injection DEF n
<1>7. \A w \in ws : \E i \in 1..n : order[i] = w
  BY <1>6 DEF Surjection
<1>8. QED BY <1>2, <1>3, <1>7 DEF Elements, Inj

(* A list of descendants when those of joins come to it in an order, the   *)
(* mapped ones in front, and only those of kept stay.                      *)
Rearranged(s, order, joins, kept, mapped) ==
  SC!Reverse(SC!Those(order, joins \cap mapped)) \o SC!Those(s, kept) \o SC!Those(order, joins \ mapped)

LEMMA ListAfter ==
  ASSUME NEW T, NEW s \in Seq(T), NEW order \in Seq(T), Inj(s), Inj(order),
         NEW joins \in SUBSET Elements(order), NEW kept, NEW mapped,
         joins \cap Elements(s) \cap kept = {}
  PROVE  /\ Rearranged(s, order, joins, kept, mapped) \in Seq(T)
         /\ Inj(Rearranged(s, order, joins, kept, mapped))
         /\ Elements(Rearranged(s, order, joins, kept, mapped)) = joins \cup (Elements(s) \cap kept)
<1> DEFINE after == Rearranged(s, order, joins, kept, mapped)
           front == Shown(order, joins \cap mapped)
           turned == SC!Reverse(front)
           middle == Shown(s, kept)
           back == Shown(order, joins \ mapped)
           some == Both(turned, middle)
<1>1. front \in Seq(T) /\ middle \in Seq(T) /\ back \in Seq(T)
  BY ShownSmall
<1>2. /\ Elements(front) = Elements(order) \cap (joins \cap mapped) /\ Inj(front)
      /\ Elements(middle) = Elements(s) \cap kept /\ Inj(middle)
      /\ Elements(back) = Elements(order) \cap (joins \ mapped) /\ Inj(back)
  BY ShownElements
<1>3. after = Both(some, back)
  BY ThoseIs DEF Both, Rearranged
<1> HIDE DEF after, front, middle, back
<1>4. turned \in Seq(T) /\ Elements(turned) = Elements(front) /\ Inj(turned)
  BY <1>1, <1>2, Reversed
<1> HIDE DEF turned
<1>5. /\ some \in Seq(T) /\ Elements(some) = Elements(turned) \cup Elements(middle)
      /\ Inj(some)
  <2>1. Elements(turned) \cap Elements(middle) = {}
    BY <1>2, <1>4
  <2>2. QED BY <1>1, <1>2, <1>4, <2>1, BothTyped, ElementsOfParts
<1> HIDE DEF some
<1>6. Elements(some) \cap Elements(back) = {}
  BY <1>2, <1>4, <1>5
<1>7. after \in Seq(T) /\ Inj(after) /\ Elements(after) = Elements(some) \cup Elements(back)
  <2>1. Both(some, back) \in Seq(T)
    BY <1>1, <1>5, BothTyped
  <2>2. /\ Elements(Both(some, back)) = Elements(some) \cup Elements(back)
        /\ Inj(Both(some, back))
    BY <1>1, <1>2, <1>5, <1>6, ElementsOfParts
  <2>3. QED BY <1>3, <2>1, <2>2
<1>8. QED BY <1>2, <1>4, <1>5, <1>7 DEF after

(* The root of a controller that learns of another toplevel.               *)
Root(v, att, cs) ==
  IF SC!HasGlobal(v, cs) /\ Outermost(v, att) # v THEN Outermost(v, att) ELSE None

LEMMA HierarchyStep ==
  ASSUME SC!ConstantsType, Linked,
         NEW att \in SUBSET (Widget \ {Window}), NEW ws \in SUBSET Widget, NEW cs, NEW mapped,
         SC!HierarchyChanged(ws, att, cs, mapped)
  PROVE  /\ Linked'
         /\ \A v \in Widget : root'[v] = IF v \in ws THEN Root(v, att, cs) ELSE root[v]
<1> DEFINE Joins(v) == {w \in ws : SC!HasGlobal(w, cs) /\ SC!Toplevel(w, att) = v} \ {v}
<1>1. PICK order \in SC!Orders(ws, att) :
        descendants' = [v \in Widget |-> SC!Reverse(SC!Those(order, Joins(v) \cap mapped))
                                           \o SC!Those(descendants[v], SC!Kept(v, ws))
                                           \o SC!Those(order, Joins(v) \ mapped)]
  BY DEF SC!HierarchyChanged
<1>2. root' = [w \in Widget |->
                 IF w \notin ws THEN root[w]
                 ELSE IF w \in Joins(SC!Toplevel(w, att)) THEN SC!Toplevel(w, att) ELSE None]
  BY DEF SC!HierarchyChanged
<1>3. \A v \in Widget : Outermost(v, att) \in Widget
  BY OutermostIs
<1>4. \A v \in Widget : root'[v] = IF v \in ws THEN Root(v, att, cs) ELSE root[v]
  BY <1>2 DEF Root, Outermost
<1>5. root' \in [Widget -> Widget \cup {None}]
  BY <1>2, <1>3 DEF Linked, Outermost
<1>6. None \notin Widget /\ IsFiniteSet(ws)
  BY SameSizes, FS_Subset DEF SC!ConstantsType
<1>7. order \in Seq(Widget) /\ Elements(order) = ws /\ Inj(order)
  <2>1. order \in Seq(ws) /\ Elements(order) = ws /\ Inj(order)
    BY <1>6, OrderIs
  <2>2. QED BY <2>1, SeqMonotonic
<1>8. ASSUME NEW v \in Widget
      PROVE  /\ descendants'[v] \in Seq(Widget) /\ Inj(descendants'[v])
             /\ Elements(descendants'[v]) = {w \in Widget : root'[w] = v}
  <2> DEFINE joins == Joins(v)
             kept == SC!Kept(v, ws)
             s == descendants[v]
  <2>1. s \in Seq(Widget) /\ Inj(s) /\ Elements(s) = {w \in Widget : root[w] = v}
    BY DEF Linked
  <2>2. joins \in SUBSET Elements(order)
    BY <1>7
  <2>3. Elements(s) \cap kept = {w \in Widget \ ws : root[w] = v}
    BY <2>1 DEF SC!Kept
  <2>4. {w \in Widget : root'[w] = v} = joins \cup {w \in Widget \ ws : root[w] = v}
    BY <1>2, <1>6
  <2>5. descendants'[v] = Rearranged(s, order, joins, kept, mapped)
    BY <1>1 DEF Rearranged
  <2>6. joins \cap Elements(s) \cap kept = {}
    BY <2>3
  <2> HIDE DEF joins, kept, s
  <2> DEFINE after == Rearranged(s, order, joins, kept, mapped)
  <2>7. /\ after \in Seq(Widget) /\ Inj(after)
        /\ Elements(after) = joins \cup (Elements(s) \cap kept)
    <3>1. s \in Seq(Widget) /\ order \in Seq(Widget) /\ Inj(s) /\ Inj(order)
      BY <1>7, <2>1
    <3>2. QED BY <2>2, <2>6, <3>1, ListAfter
  <2> HIDE DEF after
  <2>8. descendants'[v] = after
    BY <2>5 DEF after
  <2>9. QED BY <2>3, <2>4, <2>7, <2>8
<1>9. descendants' \in [Widget -> Seq(Widget)]
  <2>1. descendants' = [v \in Widget |-> descendants'[v]]
    BY <1>1
  <2>2. QED BY <1>8, <2>1
<1>10. QED BY <1>4, <1>5, <1>8, <1>9 DEF Linked

(* A controller is linked to the window when its widget is a live one in   *)
(* the window and has a global command.                                    *)
Member(v, att, live, cs) ==
  v \in live \ {Window} /\ Outermost(v, att) = Window /\ SC!HasGlobal(v, cs)

ShortcutsIInv ==
  /\ attached \in SUBSET (Widget \ {Window}) /\ alive \in SUBSET Widget
  /\ Linked
  /\ \A v \in Widget : root[v] = Window <=> Member(v, attached, alive, commands)

LEMMA NoWidget == ASSUME SC!ConstantsType PROVE None # Window /\ Window \in Widget
  BY DEF SC!ConstantsType

(* A step that tells ws of the change keeps the invariant when nothing     *)
(* changes for the others.                                                 *)
LEMMA ToldStep ==
  ASSUME SC!ConstantsType, ShortcutsIInv, NEW ws \in SUBSET alive, NEW mapped,
         attached' \in SUBSET (Widget \ {Window}), alive' = alive,
         SC!HierarchyChanged(ws, attached', commands', mapped),
         \A v \in alive \ ws :
           Member(v, attached', alive, commands') <=> Member(v, attached, alive, commands)
  PROVE  ShortcutsIInv'
<1>1. Linked /\ ws \in SUBSET Widget
  BY DEF ShortcutsIInv
<1>2. /\ Linked'
      /\ \A v \in Widget : root'[v] = IF v \in ws THEN Root(v, attached', commands') ELSE root[v]
  BY <1>1, HierarchyStep
<1>3. ASSUME NEW v \in Widget PROVE root'[v] = Window <=> Member(v, attached', alive', commands')
  <2>1. CASE v \in ws
    BY <1>2, <2>1, NoWidget DEF Root, Member
  <2>2. CASE v \notin ws
    BY <1>2, <2>2 DEF Member, ShortcutsIInv
  <2>3. QED BY <2>1, <2>2
<1>4. alive' \in SUBSET Widget
  BY DEF ShortcutsIInv
<1>5. QED BY <1>2, <1>3, <1>4 DEF ShortcutsIInv, Member, Outermost

(* A step that tells nobody keeps it when nothing changes for anybody.     *)
LEMMA UntoldStep ==
  ASSUME SC!ConstantsType, ShortcutsIInv, UNCHANGED SC!links,
         attached' \in SUBSET (Widget \ {Window}), alive' = alive,
         \A v \in alive : Member(v, attached', alive, commands') <=> Member(v, attached, alive, commands)
  PROVE  ShortcutsIInv'
<1>1. Linked' /\ root' = root
  BY DEF ShortcutsIInv, Linked, SC!links
<1>2. \A v \in Widget : root'[v] = Window <=> Member(v, attached', alive', commands')
  BY <1>1 DEF Member, ShortcutsIInv
<1>3. QED BY <1>1, <1>2 DEF ShortcutsIInv, Member, Outermost

LEMMA SameUnder ==
  ASSUME SC!ConstantsType, NEW att \in SUBSET (Widget \ {Window}), NEW w, alive \in SUBSET Widget
  PROVE  SC!Under(w, att) = {v \in alive : w \in Around(v, att)}
<1>1. \A v \in alive : SC!ToSet(SC!Ancestry(v, att)) = Around(v, att)
  <2> TAKE v \in alive
  <2>1. SC!Ancestry(v, att) \in Seq(Widget)
    BY AroundIs
  <2>2. DOMAIN SC!Ancestry(v, att) = 1..Len(SC!Ancestry(v, att))
    BY <2>1, LenProperties
  <2>3. QED BY <2>2 DEF SC!ToSet, Around, Elements
<1>2. QED BY <1>1 DEF SC!Under

LEMMA AddCommandStep ==
  ASSUME SC!ConstantsType, ShortcutsIInv, NEW w, NEW c, NEW mapped, SC!AddCommand(w, c, mapped)
  PROVE  ShortcutsIInv'
<1>1. w \in alive /\ attached' = attached /\ alive' = alive /\ commands' = commands \cup {<<w, c>>}
  BY DEF SC!AddCommand, SC!tree
<1>2. attached' \in SUBSET (Widget \ {Window})
  BY <1>1 DEF ShortcutsIInv
<1>3. \A v \in alive \ {w} : SC!HasGlobal(v, commands') <=> SC!HasGlobal(v, commands)
  BY <1>1 DEF SC!HasGlobal
<1>4. \A v \in alive \ {w} : Member(v, attached', alive, commands') <=> Member(v, attached, alive, commands)
  BY <1>1, <1>3 DEF Member
<1>5. CASE "global" \in Phase[c] /\ ~SC!HasGlobal(w, commands)
  <2>1. SC!HierarchyChanged({w}, attached', commands', mapped)
    BY <1>1, <1>5 DEF SC!AddCommand
  <2>2. {w} \in SUBSET alive
    BY <1>1
  <2>3. QED BY <1>1, <1>2, <1>4, <2>1, <2>2, ToldStep
<1>6. CASE ~("global" \in Phase[c] /\ ~SC!HasGlobal(w, commands))
  <2>1. UNCHANGED SC!links
    BY <1>6 DEF SC!AddCommand
  <2>2. SC!HasGlobal(w, commands') <=> SC!HasGlobal(w, commands)
    BY <1>1, <1>6 DEF SC!HasGlobal
  <2>3. \A v \in alive : Member(v, attached', alive, commands') <=> Member(v, attached, alive, commands)
    BY <1>1, <1>4, <2>2 DEF Member
  <2>4. QED BY <1>1, <1>2, <2>1, <2>3, UntoldStep
<1>7. QED BY <1>5, <1>6

LEMMA AttachStep ==
  ASSUME SC!ConstantsType, ShortcutsIInv, NEW w, SC!Attach(w)
  PROVE  ShortcutsIInv'
<1>1. /\ w \in alive \ attached /\ w # Window /\ attached' = attached \cup {w}
      /\ alive' = alive /\ commands' = commands
  BY DEF SC!Attach
<1>2. /\ attached \in SUBSET (Widget \ {Window}) /\ attached' \in SUBSET (Widget \ {Window})
      /\ alive \in SUBSET Widget /\ w \in Widget
  BY <1>1 DEF ShortcutsIInv
<1>3. SC!Under(w, attached') = {v \in alive : w \in Around(v, attached')}
  BY <1>2, SameUnder
<1>4. ASSUME NEW v \in alive, w \notin Around(v, attached')
      PROVE  Outermost(v, attached') = Outermost(v, attached)
  <2>1. Around(v, attached') \cap attached' = Around(v, attached') \cap attached
    BY <1>1, <1>4
  <2>2. QED BY <1>2, <2>1, AroundSame
<1>5. CASE Outermost(w, attached') = Window
  <2> DEFINE ws == SC!Under(w, attached')
  <2>1. SC!HierarchyChanged(ws, attached', commands', {})
    BY <1>1, <1>5 DEF SC!Attach, Outermost
  <2>2. \A v \in alive \ ws :
          Member(v, attached', alive, commands') <=> Member(v, attached, alive, commands)
    BY <1>1, <1>3, <1>4 DEF Member
  <2>3. ws \in SUBSET alive
    BY <1>3
  <2> HIDE DEF ws
  <2>4. QED BY <1>1, <1>2, <2>1, <2>2, <2>3, ToldStep
<1>6. CASE Outermost(w, attached') # Window
  <2>1. UNCHANGED SC!links
    BY <1>6 DEF SC!Attach, Outermost
  <2>2. ASSUME NEW v \in alive, w \in Around(v, attached')
        PROVE  Outermost(v, attached') # Window /\ Outermost(v, attached) # Window
    <3>1. Outermost(v, attached') # Window
      BY <1>2, <1>6, <2>2, OutermostIs
    <3>2. ASSUME w \notin Around(v, attached) PROVE FALSE
      <4>1. Around(v, attached) \cap attached' = Around(v, attached) \cap attached
        BY <1>1, <3>2
      <4>2. Around(v, attached') = Around(v, attached)
        BY <1>2, <4>1, AroundSame
      <4>3. QED BY <2>2, <3>2, <4>2
    <3>3. Outermost(v, attached) = Outermost(w, attached) /\ Outermost(w, attached) = w
      BY <1>1, <1>2, <3>2, OutermostIs, AroundIs
    <3>4. QED BY <1>1, <3>1, <3>3
  <2>3. \A v \in alive : Member(v, attached', alive, commands') <=> Member(v, attached, alive, commands)
    BY <1>1, <1>4, <2>2 DEF Member
  <2>4. QED BY <1>1, <1>2, <2>1, <2>3, UntoldStep
<1>7. QED BY <1>5, <1>6

LEMMA DetachStep ==
  ASSUME SC!ConstantsType, ShortcutsIInv, NEW w, SC!Detach(w)
  PROVE  ShortcutsIInv'
<1>1. w \in attached /\ attached' = attached \ {w} /\ alive' = alive /\ commands' = commands
  BY DEF SC!Detach
<1>2. /\ attached \in SUBSET (Widget \ {Window}) /\ attached' \in SUBSET (Widget \ {Window})
      /\ alive \in SUBSET Widget /\ w \in Widget /\ w # Window
  BY <1>1 DEF ShortcutsIInv
<1>3. SC!Under(w, attached') = {v \in alive : w \in Around(v, attached')}
  BY <1>2, SameUnder
<1>4. ASSUME NEW v \in alive, w \notin Around(v, attached')
      PROVE  Outermost(v, attached') = Outermost(v, attached)
  <2>1. Around(v, attached') \cap attached' = Around(v, attached') \cap attached
    BY <1>1, <1>4
  <2>2. QED BY <1>2, <2>1, AroundSame
<1>5. CASE Outermost(w, attached) = Window
  <2> DEFINE ws == SC!Under(w, attached')
  <2>1. SC!HierarchyChanged(ws, attached', commands', {})
    BY <1>1, <1>5 DEF SC!Detach, Outermost
  <2>2. \A v \in alive \ ws :
          Member(v, attached', alive, commands') <=> Member(v, attached, alive, commands)
    BY <1>1, <1>3, <1>4 DEF Member
  <2>3. ws \in SUBSET alive
    BY <1>3
  <2> HIDE DEF ws
  <2>4. QED BY <1>1, <1>2, <2>1, <2>2, <2>3, ToldStep
<1>6. CASE Outermost(w, attached) # Window
  <2>1. UNCHANGED SC!links
    BY <1>6 DEF SC!Detach, Outermost
  <2>2. ASSUME NEW v \in alive, w \in Around(v, attached')
        PROVE  Outermost(v, attached') # Window /\ Outermost(v, attached) # Window
    <3>1. Outermost(v, attached') = Outermost(w, attached') /\ Outermost(w, attached') = w
      <4>1. v \in Widget /\ w \notin attached'
        BY <1>1, <1>2
      <4>2. Outermost(v, attached') = Outermost(w, attached')
        BY <1>2, <2>2, <4>1, OutermostIs
      <4>3. Outermost(w, attached') = w
        BY <1>2, <4>1, AroundIs
      <4>4. QED BY <4>2, <4>3
    <3>2. ASSUME w \notin Around(v, attached) PROVE FALSE
      <4>1. Around(v, attached) \cap attached' = Around(v, attached) \cap attached
        BY <1>1, <3>2
      <4>2. Around(v, attached') = Around(v, attached)
        BY <1>2, <4>1, AroundSame
      <4>3. QED BY <2>2, <3>2, <4>2
    <3>3. Outermost(v, attached) = Outermost(w, attached)
      BY <1>2, <3>2, OutermostIs
    <3>4. QED BY <1>2, <1>6, <3>1, <3>3
  <2>3. \A v \in alive : Member(v, attached', alive, commands') <=> Member(v, attached, alive, commands)
    BY <1>1, <1>4, <2>2 DEF Member
  <2>4. QED BY <1>1, <1>2, <2>1, <2>3, UntoldStep
<1>7. QED BY <1>5, <1>6

LEMMA DestroyStep ==
  ASSUME SC!ConstantsType, ShortcutsIInv, NEW w, SC!Destroy(w)
  PROVE  ShortcutsIInv'
<1> DEFINE gone == SC!Under(w, attached)
<1>1. /\ w \in alive \ {Window}
      /\ alive' = alive \ gone /\ attached' = attached \ gone
      /\ commands' = {x \in commands : x[1] \notin gone}
      /\ root' = [v \in Widget |-> IF v \in gone THEN None ELSE root[v]]
      /\ descendants' = [v \in Widget |-> SC!Those(descendants[v], Widget \ gone)]
  BY DEF SC!Destroy
<1>2. /\ attached \in SUBSET (Widget \ {Window}) /\ alive \in SUBSET Widget /\ w \in Widget
      /\ Linked
  BY <1>1 DEF ShortcutsIInv
<1>3. gone = {v \in alive : w \in Around(v, attached)}
  BY <1>2, SameUnder
<1> HIDE DEF gone
<1>4. attached' \in SUBSET (Widget \ {Window}) /\ alive' \in SUBSET Widget
  BY <1>1, <1>2
<1>5. None \notin Widget /\ Window \in Widget
  BY DEF SC!ConstantsType
<1>6. Linked'
  <2>1. root' \in [Widget -> Widget \cup {None}]
    BY <1>1, <1>2 DEF Linked
  <2>2. ASSUME NEW v \in Widget
        PROVE  /\ descendants'[v] \in Seq(Widget) /\ Inj(descendants'[v])
               /\ Elements(descendants'[v]) = {u \in Widget : root'[u] = v}
    <3>1. descendants[v] \in Seq(Widget) /\ Inj(descendants[v])
          /\ Elements(descendants[v]) = {u \in Widget : root[u] = v}
      BY <1>2 DEF Linked
    <3>2. descendants'[v] = Shown(descendants[v], Widget \ gone)
      BY <1>1, ThoseIs
    <3>3. Shown(descendants[v], Widget \ gone) \in Seq(Widget)
      BY <3>1, ShownSmall
    <3>4. /\ Elements(Shown(descendants[v], Widget \ gone)) = Elements(descendants[v]) \cap (Widget \ gone)
          /\ Inj(Shown(descendants[v], Widget \ gone))
      BY <3>1, ShownElements
    <3>5. {u \in Widget : root'[u] = v} = {u \in Widget : root[u] = v} \cap (Widget \ gone)
      BY <1>1, <1>5
    <3>6. QED BY <3>1, <3>2, <3>3, <3>4, <3>5
  <2>3. descendants' \in [Widget -> Seq(Widget)]
    <3>1. descendants' = [v \in Widget |-> descendants'[v]]
      BY <1>1
    <3>2. QED BY <2>2, <3>1
  <2>4. QED BY <2>1, <2>2, <2>3 DEF Linked
<1>7. ASSUME NEW v \in alive \ gone PROVE Outermost(v, attached') = Outermost(v, attached)
  <2>1. v \in Widget
    BY <1>2
  <2>2. Around(v, attached) \cap gone = {}
    <3>1. \A u \in Around(v, attached) : Around(u, attached) \subseteq Around(v, attached)
      BY <1>2, <2>1, OutermostIs
    <3>2. QED BY <1>3, <1>7, <3>1
  <2>3. Around(v, attached) \cap attached = Around(v, attached) \cap attached'
    BY <1>1, <2>2
  <2>4. QED BY <1>2, <1>4, <2>1, <2>3, AroundSame
<1>8. \A v \in alive \ gone : SC!HasGlobal(v, commands') <=> SC!HasGlobal(v, commands)
  <2>1. \A v, c : <<v, c>>[1] = v
    OBVIOUS
  <2>2. \A v \in alive \ gone, c \in Command : <<v, c>> \in commands' <=> <<v, c>> \in commands
    BY <1>1, <2>1
  <2>3. QED BY <2>2 DEF SC!HasGlobal
<1>9. ASSUME NEW v \in Widget PROVE root'[v] = Window <=> Member(v, attached', alive', commands')
  <2>1. root[v] = Window <=> Member(v, attached, alive, commands)
    BY DEF ShortcutsIInv
  <2>2. CASE v \in gone
    BY <1>1, <1>5, <2>2 DEF Member
  <2>3. CASE v \notin gone /\ v \in alive
    BY <1>1, <1>7, <1>8, <2>1, <2>3 DEF Member
  <2>4. CASE v \notin gone /\ v \notin alive
    BY <1>1, <2>1, <2>4 DEF Member
  <2>5. QED BY <2>2, <2>3, <2>4
<1>10. QED BY <1>4, <1>6, <1>9 DEF ShortcutsIInv, Member, Outermost

LEMMA ShortcutsInit == ASSUME SC!ConstantsType, SC!Init PROVE ShortcutsIInv
<1>1. /\ attached = Widget \ {Window} /\ alive = Widget /\ commands = {}
      /\ root = [w \in Widget |-> None] /\ descendants = [w \in Widget |-> <<>>]
  BY DEF SC!Init
<1>2. None \notin Widget /\ None # Window
  BY DEF SC!ConstantsType
<1>3. <<>> \in Seq(Widget) /\ Inj(<<>>) /\ Elements(<<>>) = {}
  BY EmptySeq, ElementsOfNone
<1>4. Linked
  BY <1>1, <1>2, <1>3 DEF Linked
<1>5. \A v \in Widget : ~Member(v, attached, alive, commands)
  BY <1>1 DEF Member, SC!HasGlobal
<1>6. QED BY <1>1, <1>2, <1>4, <1>5 DEF ShortcutsIInv

LEMMA ShortcutsAgree == ASSUME SC!ConstantsType, ShortcutsIInv PROVE SC!DescendantsAgree
<1>1. ASSUME NEW w \in Widget
      PROVE  /\ SC!IsInjective(descendants[w])
             /\ SC!ToSet(descendants[w]) = {v \in Widget : root[v] = w}
  <2>1. /\ descendants[w] \in Seq(Widget) /\ Inj(descendants[w])
        /\ Elements(descendants[w]) = {v \in Widget : root[v] = w}
    BY DEF ShortcutsIInv, Linked
  <2>2. DOMAIN descendants[w] = 1..Len(descendants[w])
    BY <2>1, LenProperties
  <2>3. QED BY <2>1, <2>2 DEF SC!IsInjective, SC!ToSet, Inj, Elements
<1>2. \A v \in Widget : root[v] = Window <=> v \in SC!InWindow \ {Window} /\ SC!HasGlobal(v, commands)
  BY DEF ShortcutsIInv, Member, SC!InWindow, Outermost
<1>3. SC!InWindow \subseteq Widget
  BY DEF SC!InWindow, ShortcutsIInv
<1>4. SC!ToSet(descendants[Window]) = {w \in SC!InWindow \ {Window} : SC!HasGlobal(w, commands)}
  BY <1>1, <1>2, <1>3, NoWidget
<1>5. QED BY <1>1, <1>4 DEF SC!DescendantsAgree

(* The controllers with a global command in the window are the descendants *)
(* of its controller, each once, and the links of all controllers agree:   *)
(* dzl_shortcut_controller_widget_hierarchy_changed and _widget_destroy,   *)
(* for a tree of widgets of any shape, moved in any order.                 *)
THEOREM DescendantsAlwaysAgree ==
  ASSUME SC!ConstantsType
  PROVE  SC!Spec => []SC!DescendantsAgree
<1>1. SC!Init => ShortcutsIInv
  BY ShortcutsInit
<1>2. ShortcutsIInv /\ [SC!Next]_SC!vars => ShortcutsIInv'
  <2> SUFFICES ASSUME ShortcutsIInv, [SC!Next]_SC!vars PROVE ShortcutsIInv'
    OBVIOUS
  <2>1. ASSUME UNCHANGED <<attached, alive, commands, root, descendants>> PROVE ShortcutsIInv'
    BY <2>1 DEF ShortcutsIInv, Linked, Member, Outermost
  <2>2. ASSUME NEW k \in Key, SC!Press(k) PROVE ShortcutsIInv'
    BY <2>1, <2>2 DEF SC!Press, SC!tree, SC!links
  <2>3. ASSUME NEW wc \in Registers, NEW mapped \in SUBSET {wc[1]}, SC!AddCommand(wc[1], wc[2], mapped)
        PROVE  ShortcutsIInv'
    BY <2>3, AddCommandStep
  <2>4. ASSUME NEW wc \in Removes, SC!RemoveAccel(wc[1], wc[2]) PROVE ShortcutsIInv'
    BY <2>1, <2>4 DEF SC!RemoveAccel, SC!tree, SC!links
  <2>5. ASSUME NEW o \in Overrides, NEW ch \in Chord, SC!Override(o[1], o[2], o[3], ch) PROVE ShortcutsIInv'
    BY <2>1, <2>5 DEF SC!Override, SC!tree, SC!links
  <2>6. CASE SC!Reload
    BY <2>1, <2>6 DEF SC!Reload, SC!tree, SC!links
  <2>7. ASSUME NEW t \in Theme, SC!SetTheme(t) PROVE ShortcutsIInv'
    BY <2>1, <2>7 DEF SC!SetTheme, SC!tree, SC!links
  <2>8. CASE SC!ManagerChanged
    BY <2>1, <2>8 DEF SC!ManagerChanged, SC!tree, SC!links
  <2>9. ASSUME NEW nc \in Named, SC!SetContextByName(nc[1], nc[2]) PROVE ShortcutsIInv'
    BY <2>1, <2>9 DEF SC!SetContextByName, SC!tree, SC!links
  <2>10. ASSUME NEW w \in Widget, SC!Attach(w) PROVE ShortcutsIInv'
    BY <2>10, AttachStep
  <2>11. ASSUME NEW w \in Widget, SC!Detach(w) PROVE ShortcutsIInv'
    BY <2>11, DetachStep
  <2>12. ASSUME NEW w \in Widget, SC!Destroy(w) PROVE ShortcutsIInv'
    BY <2>12, DestroyStep
  <2>13. ASSUME NEW w \in Widget, SC!SetFocus(w) PROVE ShortcutsIInv'
    BY <2>1, <2>13 DEF SC!SetFocus, SC!links
  <2>14. ASSUME NEW w \in Widget, SC!ToggleUsable(w) PROVE ShortcutsIInv'
    BY <2>1, <2>14 DEF SC!ToggleUsable, SC!links
  <2>15. ASSUME NEW c \in Command, SC!ToggleEnabled(c) PROVE ShortcutsIInv'
    BY <2>1, <2>15 DEF SC!ToggleEnabled, SC!tree, SC!links
  <2>16. CASE UNCHANGED SC!vars
    BY <2>1, <2>16 DEF SC!vars, SC!tree, SC!links
  <2>17. QED BY <2>2, <2>3, <2>4, <2>5, <2>6, <2>7, <2>8, <2>9, <2>10, <2>11, <2>12, <2>13, <2>14,
                <2>15, <2>16 DEF SC!Next
<1>3. ShortcutsIInv => SC!DescendantsAgree
  BY ShortcutsAgree
<1>4. QED BY <1>1, <1>2, <1>3, PTL DEF SC!Spec
=============================================================================
