----------------------------- MODULE UtilProofs -----------------------------
(***************************************************************************)
(* Proofs about the structures of util/ for every value of their constants:*)
(* DzlHeap, whose names are used as they are, and DzlCounter, whose names  *)
(* have a C! before them.                                                  *)
(***************************************************************************)
EXTENDS DzlHeap, Sequences, FiniteSetTheorems, WellFoundedInduction, TLAPS

(* The counters: their constants and variables, as DzlCounter names them.  *)
CONSTANTS Thread, CPU, ncpu, Counter, None, COUNTERS_PER_GROUP, CELLS_PER_INFO, MaxAdds
VARIABLES running, at, counters, index, info, n_counters, reglock, values, remote, added,
          disturbed

C == INSTANCE DzlCounter

-----------------------------------------------------------------------------
(* The heap, for every element set, order and allocation size.             *)
(* LoopInvariant is inductive together with TypeOK; that the head is the   *)
(* highest follows from the order along the edges by looking at the        *)
(* smallest index above it.                                                *)

(* Ordered(p, c) in the next state, for slots named in this one. *)
OrderedNext(p, c) == Prio[data'[p]] >= Prio[data'[c]]

IInv == TypeOK /\ HeapOrder /\ Bypass

-----------------------------------------------------------------------------
LEMMA UncountedType ==
  \A l \in Loops : Uncounted[l] = (IF l = "insert" THEN 1 ELSE 0)
  BY DEF Uncounted, Loops

(* A child's parent has the smaller index. *)
LEMMA ParentSmaller == \A i \in Nat \ {0} : heap_parent(i) \in Nat /\ heap_parent(i) < i
  BY DEF heap_parent

(* The slots whose parent is p are its left and its right one. *)
LEMMA ChildrenOf ==
  \A i \in Nat \ {0}, p \in Nat :
    heap_parent(i) = p <=> (i = heap_left(p) \/ i = heap_right(p))
  BY DEF heap_parent, heap_left, heap_right

(* What LargestOf picks: ipos or a child of it, and none of the three is   *)
(* above the pick.                                                         *)
LEMMA LargestOfPick ==
  ASSUME TypeOK, loop # "none", ipos < len, len <= Live
  PROVE  /\ LargestOf(len) \in 0..len-1
         /\ LargestOf(len) # ipos =>
              /\ LargestOf(len) > 0
              /\ heap_parent(LargestOf(len)) = ipos
         /\ Ordered(LargestOf(len), ipos)
         /\ \A i \in 1..len-1 : heap_parent(i) = ipos => Ordered(LargestOf(len), i)
<1>1. \A i \in 0..len-1 : Prio[data[i]] \in Int
  BY PrioType, UncountedType DEF TypeOK, Live
<1> DEFINE l == heap_left(ipos)
           r == heap_right(ipos)
           m == IF l < len /\ Above(l, ipos) THEN l ELSE ipos
<1>2. /\ l \in Nat /\ r \in Nat /\ l > ipos /\ r > ipos
      /\ heap_parent(l) = ipos /\ heap_parent(r) = ipos
      /\ \A i \in Nat \ {0} : heap_parent(i) = ipos => i = l \/ i = r
  BY ChildrenOf DEF TypeOK, heap_left, heap_right
<1>3. LargestOf(len) = IF r < len /\ Above(r, m) THEN r ELSE m
  BY DEF LargestOf
<1>4. ipos \in Nat /\ len \in Nat
  BY DEF TypeOK
<1> HIDE DEF l, r
<1>5. LargestOf(len) \in {ipos, l, r} /\ LargestOf(len) \in 0..len-1
  BY <1>2, <1>3, <1>4
<1>6. /\ Prio[data[LargestOf(len)]] >= Prio[data[ipos]]
      /\ l < len => Prio[data[LargestOf(len)]] >= Prio[data[l]]
      /\ r < len => Prio[data[LargestOf(len)]] >= Prio[data[r]]
  <2>1. /\ Prio[data[ipos]] \in Int
        /\ l < len => Prio[data[l]] \in Int
        /\ r < len => Prio[data[r]] \in Int
    BY <1>1, <1>2, <1>4
  <2>2. /\ Prio[data[m]] \in Int
        /\ Prio[data[m]] >= Prio[data[ipos]]
        /\ l < len => Prio[data[m]] >= Prio[data[l]]
    BY <2>1 DEF Above
  <2> HIDE DEF m
  <2>3. QED
    BY <2>1, <2>2, <1>3 DEF Above
<1>7. QED
  BY <1>2, <1>4, <1>5, <1>6 DEF Ordered

(* In what follows K and L are the priorities in n slots, before and after *)
(* slots a and m are exchanged.                                            *)
Exchanged(n, K, L, a, m) ==
  /\ L[a] = K[m] /\ L[m] = K[a]
  /\ \A i \in 0..n-1 : i # a /\ i # m => L[i] = K[i]

(* Slot a is above its parent p; the other edges but those from a are in   *)
(* order, and the children of a are in order with p.                       *)
Rising(n, K, a, p) ==
  /\ p = heap_parent(a) /\ K[a] > K[p]
  /\ \A i \in 1..n-1 : i # a /\ heap_parent(i) # a => K[heap_parent(i)] >= K[i]
  /\ \A i \in 1..n-1 : heap_parent(i) = a => K[p] >= K[i]

Risen(n, L, p) ==
  /\ \A i \in 1..n-1 : i # p => L[heap_parent(i)] >= L[i]
  /\ p > 0 => \A i \in 1..n-1 : heap_parent(i) = p => L[heap_parent(p)] >= L[i]

(* Exchanging slot a, above its parent p, with p orders the edge between   *)
(* them and leaves p as the only slot that may be above its parent.  K and *)
(* L are the priorities in the n slots before and after.                   *)
LEMMA SwapUp ==
  ASSUME NEW n \in Nat, NEW K \in [0..n-1 -> Int], NEW L \in [0..n-1 -> Int],
         NEW a \in 1..n-1, NEW p, Exchanged(n, K, L, a, p), Rising(n, K, a, p)
  PROVE  Risen(n, L, p)
<1> USE DEF Exchanged, Rising, Risen
<1>1. p \in 0..n-1 /\ p < a
  BY ParentSmaller
<1>2. \A i \in 1..n-1 : heap_parent(i) \in 0..n-1 /\ heap_parent(i) < i
  BY ParentSmaller
<1>3. ASSUME NEW i \in 1..n-1, i # p PROVE L[heap_parent(i)] >= L[i]
  <2>1. CASE i = a
    BY <2>1
  <2>2. CASE i # a /\ heap_parent(i) = a
    BY <2>2, <1>1, <1>3
  <2>3. CASE i # a /\ heap_parent(i) # a
    <3> DEFINE q == heap_parent(i)
    <3>1. q \in 0..n-1 /\ q # a /\ K[q] >= K[i] /\ L[i] = K[i]
      BY <2>3, <1>2, <1>3
    <3> HIDE DEF q
    <3>2. q = p => L[q] >= L[i]
      BY <3>1, <1>1
    <3>3. q # p => L[q] >= L[i]
      BY <3>1
    <3>4. L[q] >= L[i]
      BY <3>2, <3>3
    <3>5. QED BY <3>4 DEF q
  <2>4. QED BY <2>1, <2>2, <2>3
<1>4. ASSUME p > 0, NEW i \in 1..n-1, heap_parent(i) = p
      PROVE  L[heap_parent(p)] >= L[i]
  <2> DEFINE q == heap_parent(p)
  <2>1. q \in 0..n-1 /\ q < p /\ p \in 1..n-1 /\ i # p /\ q # a
    BY <1>1, <1>2, <1>4
  <2>2. K[q] >= K[p]
    BY <2>1, <1>1
  <2> HIDE DEF q
  <2>3. L[q] = K[q] /\ K[p] >= L[i]
    <3>1. L[q] = K[q]
      BY <2>1
    <3>2. CASE i = a
      BY <1>1, <3>1, <3>2
    <3>3. CASE i # a
      <4>1. L[i] = K[i] /\ heap_parent(i) # a
        BY <1>1, <1>4, <2>1, <3>3
      <4>2. K[p] >= K[i]
        BY <1>4, <3>3, <4>1
      <4>3. QED BY <3>1, <4>1, <4>2
    <3>4. QED BY <3>2, <3>3
  <2>4. L[q] >= L[i]
    BY <2>1, <2>2, <2>3, <1>1
  <2>5. QED BY <2>4 DEF q
<1>5. QED BY <1>3, <1>4

(* m is the largest child of a and not below it; only edges from a are out *)
(* of order, and its children are in order with its parent.                *)
Sinking(n, K, a, m) ==
  /\ heap_parent(m) = a /\ K[m] >= K[a]
  /\ \A i \in 1..n-1 : heap_parent(i) = a => K[m] >= K[i]
  /\ \A i \in 1..n-1 : heap_parent(i) # a => K[heap_parent(i)] >= K[i]
  /\ a > 0 => \A i \in 1..n-1 : heap_parent(i) = a => K[heap_parent(a)] >= K[i]

Sunk(n, L, a, m) ==
  /\ \A i \in 1..n-1 : heap_parent(i) # m => L[heap_parent(i)] >= L[i]
  /\ \A i \in 1..n-1 : heap_parent(i) = m => L[a] >= L[i]

(* Exchanging slot a with its largest child m, above it, orders the edges  *)
(* from a and leaves m as the only slot that may be below a child.         *)
LEMMA SwapDown ==
  ASSUME NEW n \in Nat, NEW K \in [0..n-1 -> Int], NEW L \in [0..n-1 -> Int],
         NEW a \in 0..n-1, NEW m \in 1..n-1,
         Exchanged(n, K, L, a, m), Sinking(n, K, a, m)
  PROVE  Sunk(n, L, a, m)
<1> USE DEF Exchanged, Sinking, Sunk
<1>1. \A i \in 1..n-1 : heap_parent(i) \in 0..n-1 /\ heap_parent(i) < i
  BY ParentSmaller
<1>2. a < m
  BY <1>1
<1>3. ASSUME NEW i \in 1..n-1, heap_parent(i) # m PROVE L[heap_parent(i)] >= L[i]
  <2>1. CASE heap_parent(i) = a
    BY <2>1, <1>2, <1>1
  <2>2. CASE i = a
    <3> DEFINE q == heap_parent(a)
    <3>1. q \in 0..n-1 /\ q < a /\ K[q] >= K[m]
      BY <2>2, <1>1
    <3> HIDE DEF q
    <3>2. L[q] = K[q] /\ L[a] = K[m]
      BY <3>1, <1>2
    <3>3. L[q] >= L[a]
      BY <3>1, <3>2
    <3>4. QED BY <3>3, <2>2 DEF q
  <2>3. CASE heap_parent(i) # a /\ i # a
    <3> DEFINE q == heap_parent(i)
    <3>1. q \in 0..n-1 /\ q # a /\ q # m /\ i # m /\ K[q] >= K[i]
      BY <2>3, <1>1, <1>3
    <3> HIDE DEF q
    <3>2. L[q] = K[q] /\ L[i] = K[i]
      BY <3>1, <2>3
    <3>3. L[q] >= L[i]
      BY <3>1, <3>2
    <3>4. QED BY <3>3 DEF q
  <2>4. QED BY <2>1, <2>2, <2>3
<1>4. ASSUME NEW i \in 1..n-1, heap_parent(i) = m PROVE L[a] >= L[i]
  <2>1. K[m] >= K[i] /\ i > m
    BY <1>2, <1>1, <1>4
  <2>2. QED BY <2>1, <1>2
<1>5. QED BY <1>3, <1>4

(* TypeOK is inductive. *)
LEMMA TypeInductive ==
  ASSUME TypeOK, [Next]_vars
  PROVE  TypeOK'
<1> USE UncountedType DEF TypeOK, Live, Loops
<1>1. ASSUME NEW e \in Elem, InsertVal(e) PROVE TypeOK'
  BY <1>1, MinSizeType DEF InsertVal, Grown, Larger, Abstract!Nothing
<1>2. CASE InsertStep
  BY <1>2, ParentSmaller DEF InsertStep, Swap
<1>3. CASE InsertEnd
  BY <1>3 DEF InsertEnd, Return
<1>4. CASE Extract
  BY <1>4, MinSizeType DEF Extract, Return, MoveLastTo, Shrunk, Larger, Abstract!Taken
<1>5. CASE DownStep
  BY <1>5, LargestOfPick DEF DownStep, Swap
<1>6. CASE DownEnd
  BY <1>6, MinSizeType DEF DownEnd, Return, Shrunk, Larger
<1>7. ASSUME NEW i \in 0..len-1, ExtractIndex(i) PROVE TypeOK'
  BY <1>7, MinSizeType DEF ExtractIndex, Return, MoveLastTo, Shrunk, Larger, Abstract!Taken
<1>8. CASE UpStep
  BY <1>8, ParentSmaller DEF UpStep, Swap, heap_parent
<1>9. CASE UpEnd
  BY <1>9, MinSizeType DEF UpEnd, Return, Shrunk, Larger
<1>10. CASE UNCHANGED vars
  BY <1>10 DEF vars
<1>11. QED
  BY <1>1, <1>2, <1>3, <1>4, <1>5, <1>6, <1>7, <1>8, <1>9, <1>10 DEF Next

(* Priorities by slot. *)
Keys(d, n) == [i \in 0..n-1 |-> Prio[d[i]]]

(* The loop invariant is inductive. *)
LEMMA OrderInductive ==
  ASSUME TypeOK, TypeOK', HeapOrder, Bypass, [Next]_vars
  PROVE  HeapOrder' /\ Bypass'
<1>1. /\ len \in Nat /\ ipos \in Nat /\ index_ \in Nat /\ len' \in Nat /\ ipos' \in Nat
      /\ loop \in Loops /\ loop' \in Loops
  BY DEF TypeOK
<1> PICK n \in Nat, n1 \in Nat : n = len + Uncounted[loop] /\ n1 = len' + Uncounted[loop']
  BY <1>1, UncountedType
<1>0. data \in [0..n-1 -> Elem] /\ data' \in [0..n1-1 -> Elem]
  BY Zenon DEF TypeOK, Live
<1> PICK K \in [0..n-1 -> Int], L \in [0..n1-1 -> Int] :
      /\ \A i \in 0..n-1 : K[i] = Prio[data[i]]
      /\ \A i \in 0..n1-1 : L[i] = Prio[data'[i]]
  <2>1. /\ Keys(data, n) \in [0..n-1 -> Int]
        /\ \A i \in 0..n-1 : Keys(data, n)[i] = Prio[data[i]]
    BY <1>0, PrioType DEF Keys
  <2>2. /\ Keys(data', n1) \in [0..n1-1 -> Int]
        /\ \A i \in 0..n1-1 : Keys(data', n1)[i] = Prio[data'[i]]
    BY <1>0, PrioType DEF Keys
  <2>3. QED BY <2>1, <2>2
<1>2. /\ loop # "none" => ipos < n
      /\ n = IF loop = "insert" THEN len + 1 ELSE len
      /\ n1 = IF loop' = "insert" THEN len' + 1 ELSE len'
  BY <1>1, UncountedType DEF TypeOK, Live
<1>3. /\ \A i \in 1..n-1 : heap_parent(i) \in 0..n-1 /\ heap_parent(i) < i
      /\ \A i \in 1..n1-1 : heap_parent(i) \in 0..n1-1 /\ heap_parent(i) < i
  BY ParentSmaller
<1>4. \A i \in 1..n-1 : ~Unrepaired(i, loop, ipos, index_) => K[heap_parent(i)] >= K[i]
  <2>1. \A i \in 1..n-1 : /\ K[heap_parent(i)] = Prio[data[heap_parent(i)]]
                           /\ K[i] = Prio[data[i]]
    BY <1>3
  <2>2. \A i \in 1..n-1 : ~Unrepaired(i, loop, ipos, index_) => Ordered(heap_parent(i), i)
    BY DEF HeapOrder, Live
  <2>3. QED BY <2>1, <2>2 DEF Ordered
<1>5. ASSUME \A i \in 1..n1-1 : ~Unrepaired(i, loop', ipos', index_') =>
                L[heap_parent(i)] >= L[i]
      PROVE  HeapOrder'
  BY <1>3, <1>5 DEF HeapOrder, Ordered, Live
<1>6. loop # "none" /\ ipos > 0 =>
        \A i \in 1..n-1 : heap_parent(i) = ipos => K[heap_parent(ipos)] >= K[i]
  <2>1. ASSUME loop # "none", ipos > 0, NEW i \in 1..n-1, heap_parent(i) = ipos
        PROVE  Ordered(heap_parent(ipos), i)
    BY <2>1 DEF Bypass, Live
  <2>2. ASSUME loop # "none", ipos > 0 PROVE heap_parent(ipos) \in 0..n-1
    BY <1>1, <1>2, <1>3, <2>2
  <2>3. QED BY <2>1, <2>2 DEF Ordered
<1>7. ASSUME loop' # "none" /\ ipos' > 0 =>
               \A i \in 1..n1-1 : heap_parent(i) = ipos' => L[heap_parent(ipos')] >= L[i]
      PROVE  Bypass'
  BY <1>1, <1>3, <1>7 DEF Bypass, Ordered, Live
<1>8. ASSUME NEW e \in Elem, InsertVal(e) PROVE HeapOrder' /\ Bypass'
  <2>1. /\ loop = "none" /\ loop' = "insert" /\ ipos' = n /\ n = len /\ n1 = n + 1
    BY <1>1, <1>2, <1>8 DEF InsertVal
  <2>2. \A i \in 1..n-1 : L[heap_parent(i)] >= L[i]
    <3>1. \A i \in 0..n-1 : data'[i] = data[i]
      BY <2>1, <1>8 DEF InsertVal
    <3>2. ASSUME NEW i \in 0..n-1 PROVE L[i] = K[i]
      <4>1. i \in 0..n1-1
        BY <2>1
      <4>2. QED BY <3>1, <4>1
    <3>3. \A i \in 1..n-1 : K[heap_parent(i)] >= K[i]
      BY <2>1, <1>4 DEF Unrepaired
    <3>4. QED BY <1>3, <3>2, <3>3
  <2>3. HeapOrder'
    BY <2>1, <2>2, <1>5 DEF Unrepaired
  <2>4. Bypass'
    <3>1. ASSUME NEW i \in 1..n1-1 PROVE heap_parent(i) # ipos'
      <4>1. heap_parent(i) \in 0..n1-1 /\ heap_parent(i) < i /\ i < n1
        BY <1>3
      <4>2. heap_parent(i) < n
        BY <4>1, <2>1
      <4>3. QED BY <4>2, <2>1
    <3>2. QED BY <3>1, <1>7
  <2>5. QED BY <2>3, <2>4
<1>9. ASSUME ipos > 0, Above(ipos, heap_parent(ipos)), loop \in {"insert", "up"},
             Swap(ipos, heap_parent(ipos)), ipos' = heap_parent(ipos),
             UNCHANGED <<len, loop, index_>>
      PROVE  HeapOrder' /\ Bypass'
  <2> PICK p : p = heap_parent(ipos)
    OBVIOUS
  <2>1. n1 = n /\ ipos \in 1..n-1 /\ p \in 0..n-1 /\ p < ipos
    BY <1>1, <1>2, <1>3, <1>9
  <2>2. data' = [data EXCEPT ![ipos] = data[p], ![p] = data[ipos]]
    BY <1>9 DEF Swap
  <2>3. /\ K[ipos] > K[p] /\ L[ipos] = K[p] /\ L[p] = K[ipos]
        /\ \A i \in 0..n-1 : i # ipos /\ i # p => L[i] = K[i]
        /\ L \in [0..n-1 -> Int]
    <3>1. /\ data'[ipos] = data[p] /\ data'[p] = data[ipos]
          /\ \A i \in 0..n-1 : i # ipos /\ i # p => data'[i] = data[i]
      BY <1>0, <2>1, <2>2
    <3>2. Prio[data[ipos]] > Prio[data[p]]
      BY <1>9 DEF Above
    <3>3. K[ipos] > K[p]
      BY <2>1, <3>2
    <3>4. L[ipos] = K[p] /\ L[p] = K[ipos]
      BY <2>1, <3>1
    <3>5. \A i \in 0..n-1 : i # ipos /\ i # p => L[i] = K[i]
      BY <2>1, <3>1
    <3>6. QED BY <2>1, <3>3, <3>4, <3>5
  <2>4. /\ \A i \in 1..n-1 : i # ipos /\ heap_parent(i) # ipos => K[heap_parent(i)] >= K[i]
        /\ \A i \in 1..n-1 : heap_parent(i) = ipos => K[p] >= K[i]
    BY <1>4, <1>6, <1>9 DEF Unrepaired
  <2>5. Risen(n, L, p)
    <3>1. Rising(n, K, ipos, p)
      BY <2>3, <2>4 DEF Rising
    <3>2. Exchanged(n, K, L, ipos, p)
      BY <2>3 DEF Exchanged
    <3>3. ipos \in 1..n-1 /\ L \in [0..n-1 -> Int]
      BY <2>1, <2>3
    <3>4. QED BY <3>1, <3>2, <3>3, SwapUp, Zenon
  <2>6. HeapOrder'
    BY <2>1, <2>5, <1>5, <1>9 DEF Unrepaired, Risen
  <2>7. Bypass'
    BY <2>1, <2>5, <1>7, <1>9 DEF Risen
  <2>8. QED BY <2>6, <2>7
<1>10. CASE InsertStep
  BY <1>9, <1>10 DEF InsertStep
<1>11. CASE InsertEnd
  <2>1. /\ loop = "insert" /\ loop' = "none" /\ n1 = n /\ data' = data
        /\ ipos > 0 => ~Above(ipos, heap_parent(ipos))
    BY <1>1, <1>2, <1>11 DEF InsertEnd, Return
  <2>2. ipos > 0 => K[heap_parent(ipos)] >= K[ipos]
    <3>1. ipos > 0 => ~(Prio[data[ipos]] > Prio[data[heap_parent(ipos)]])
      BY <2>1 DEF Above
    <3>2. ipos \in 0..n-1 /\ (ipos > 0 => heap_parent(ipos) \in 0..n-1)
      BY <2>1, <1>1, <1>2, <1>3
    <3>3. QED BY <3>1, <3>2
  <2>3. ASSUME NEW i \in 1..n-1 PROVE K[heap_parent(i)] >= K[i]
    <3>1. CASE i = ipos
      BY <2>2, <3>1
    <3>2. CASE i # ipos
      <4>1. ~Unrepaired(i, loop, ipos, index_)
        BY <2>1, <3>2 DEF Unrepaired
      <4>2. QED BY <1>4, <4>1
    <3>3. QED BY <3>1, <3>2
  <2>4. \A i \in 0..n-1 : L[i] = K[i]
    BY <2>1
  <2>5. HeapOrder'
    BY <2>1, <2>3, <2>4, <1>3, <1>5
  <2>6. Bypass'
    BY <2>1, <1>7
  <2>7. QED BY <2>5, <2>6
<1>12. CASE Extract
  <2>1. /\ loop = "none" /\ n = len /\ n > 0 /\ n1 = n - 1
        /\ loop' \in {"none", "down"} /\ ipos' = 0
        /\ loop' = "none" => n1 = 0
    BY <1>1, <1>2, <1>12 DEF Extract, Return
  <2>5. \A i \in 1..n-2 : L[i] = K[i]
    <3>1. \A i \in 1..n-2 : data'[i] = data[i] /\ i \in 0..n-1 /\ i \in 0..n1-1
      BY <2>1, <1>12 DEF Extract, MoveLastTo
    <3>2. QED BY <3>1
  <2>2. \A i \in 1..n-1 : heap_parent(i) # 0 => K[heap_parent(i)] >= K[i]
    BY <2>1, <1>4 DEF Unrepaired
  <2>3. ASSUME NEW i \in 1..n-2, heap_parent(i) # 0 PROVE L[heap_parent(i)] >= L[i]
    <3> PICK q : q = heap_parent(i)
      OBVIOUS
    <3>1. q \in 1..n-2 /\ K[q] >= K[i]
      BY <1>3, <2>1, <2>2, <2>3
    <3>2. QED BY <3>1, <2>5
  <2>6. QED BY <2>1, <2>3, <1>5, <1>7 DEF Unrepaired
<1>13. CASE DownStep
  <2> PICK m : m = LargestOf(len)
    OBVIOUS
  <2>1. loop = "down" /\ loop' = "down" /\ n = len /\ n1 = n /\ ipos \in 0..n-1
    BY <1>1, <1>2, <1>13 DEF DownStep
  <2>2. /\ m \in 1..n-1 /\ heap_parent(m) = ipos /\ m # ipos
        /\ Ordered(m, ipos)
        /\ \A i \in 1..n-1 : heap_parent(i) = ipos => Ordered(m, i)
    BY <1>1, <1>13, <2>1, LargestOfPick, UncountedType DEF DownStep, Live
  <2>3. /\ K[m] >= K[ipos]
        /\ \A i \in 1..n-1 : heap_parent(i) = ipos => K[m] >= K[i]
    BY <2>1, <2>2 DEF Ordered
  <2>4. data' = [data EXCEPT ![m] = data[ipos], ![ipos] = data[m]] /\ ipos' = m
    BY <1>13 DEF DownStep, Swap
  <2>5. /\ L[ipos] = K[m] /\ L[m] = K[ipos]
        /\ \A i \in 0..n-1 : i # ipos /\ i # m => L[i] = K[i]
        /\ L \in [0..n-1 -> Int]
    <3>1. /\ data'[ipos] = data[m] /\ data'[m] = data[ipos]
          /\ \A i \in 0..n-1 : i # ipos /\ i # m => data'[i] = data[i]
      BY <1>0, <2>1, <2>2, <2>4
    <3>2. L[ipos] = K[m] /\ L[m] = K[ipos]
      BY <2>1, <2>2, <3>1
    <3>3. \A i \in 0..n-1 : i # ipos /\ i # m => L[i] = K[i]
      BY <2>1, <3>1
    <3>4. QED BY <2>1, <3>2, <3>3
  <2>6. /\ \A i \in 1..n-1 : heap_parent(i) # ipos => K[heap_parent(i)] >= K[i]
        /\ ipos > 0 => \A i \in 1..n-1 : heap_parent(i) = ipos => K[heap_parent(ipos)] >= K[i]
    BY <1>4, <1>6, <2>1 DEF Unrepaired
  <2>7. Sunk(n, L, ipos, m)
    <3>1. Sinking(n, K, ipos, m)
      BY <2>2, <2>3, <2>6 DEF Sinking
    <3>2. Exchanged(n, K, L, ipos, m)
      BY <2>5 DEF Exchanged
    <3>3. m \in 1..n-1 /\ ipos \in 0..n-1 /\ L \in [0..n-1 -> Int]
      BY <2>1, <2>2, <2>5
    <3>4. QED BY <3>1, <3>2, <3>3, SwapDown, Zenon
  <2>8. HeapOrder'
    BY <2>1, <2>4, <2>7, <1>5 DEF Unrepaired, Sunk
  <2>9. Bypass'
    BY <2>1, <2>2, <2>4, <2>7, <1>7 DEF Sunk
  <2>10. QED BY <2>8, <2>9
<1>14. CASE DownEnd
  <2>1. /\ loop = "down" /\ n = len /\ ipos \in 0..n-1 /\ n1 = n
        /\ loop' = "none" /\ data' = data /\ LargestOf(len) = ipos
    BY <1>1, <1>2, <1>14 DEF DownEnd, Return
  <2>2. \A i \in 1..n-1 : heap_parent(i) = ipos => Ordered(LargestOf(len), i)
    BY <2>1, LargestOfPick, UncountedType DEF Live
  <2>3. \A i \in 1..n-1 : heap_parent(i) = ipos => K[heap_parent(i)] >= K[i]
    BY <2>1, <2>2 DEF Ordered
  <2>4. \A i \in 1..n-1 : K[heap_parent(i)] >= K[i]
    BY <2>1, <2>3, <1>4 DEF Unrepaired
  <2>5. QED BY <2>1, <2>4, <1>3, <1>5, <1>7
<1>15. ASSUME NEW k \in 0..len-1, ExtractIndex(k) PROVE HeapOrder' /\ Bypass'
  <2>1. /\ loop = "none" /\ n = len /\ n1 = n - 1
        /\ \/ k = n - 1 /\ loop' = "none"
           \/ loop' = "up" /\ ipos' = k /\ index_' = k
    BY <1>1, <1>2, <1>15 DEF ExtractIndex, Return
  <2>8. \A i \in 0..n-2 : i # k => L[i] = K[i]
    <3>1. \A i \in 0..n-2 : i # k => data'[i] = data[i]
      BY <2>1, <1>15 DEF ExtractIndex, MoveLastTo
    <3>2. \A i \in 0..n-2 : i \in 0..n-1 /\ i \in 0..n1-1
      BY <2>1
    <3>3. QED BY <3>1, <3>2
  <2>2. \A i \in 1..n-1 : K[heap_parent(i)] >= K[i]
    BY <2>1, <1>4 DEF Unrepaired
  <2>3. ASSUME NEW i \in 1..n-2, i # k, heap_parent(i) # k PROVE L[heap_parent(i)] >= L[i]
    <3> PICK q : q = heap_parent(i)
      OBVIOUS
    <3>1. q \in 0..n-2 /\ K[q] >= K[i]
      BY <1>3, <2>2
    <3>2. QED BY <3>1, <2>8, <2>3
  <2>4. ASSUME k > 0, NEW i \in 1..n-2, heap_parent(i) = k PROVE L[heap_parent(k)] >= L[i]
    <3> PICK q : q = heap_parent(k)
      OBVIOUS
    <3>0. k \in 1..n-1 /\ i \in 1..n-1 /\ k < i
      BY <1>3, <2>1, <2>4
    <3>1. k < i /\ q \in 0..n-2 /\ q # k /\ K[q] >= K[k] /\ K[k] >= K[i]
      <4>1. q \in 0..n-1 /\ q < k
        BY <3>0, <1>3
      <4>2. K[q] >= K[k] /\ K[k] >= K[i]
        BY <3>0, <2>2, <2>4
      <4>3. k < n - 1 /\ k \in Int /\ n \in Int
        BY <3>0
      <4>4. q \in Int /\ q >= 0 /\ q < k
        BY <4>1
      <4>5. q < n - 1 /\ q # k /\ q \in Int /\ q >= 0
        BY <4>4, <4>3
      <4>6. q \in 0..n-2 /\ q # k
        BY <4>3, <4>5
      <4>7. QED BY <3>0, <4>2, <4>6
    <3>2. L[q] = K[q] /\ L[i] = K[i]
      BY <3>1, <2>8, <2>4
    <3>3. K[k] \in Int /\ K[q] \in Int /\ K[i] \in Int
      <4>1. q \in 0..n-1
        BY <3>1
      <4>2. k \in 0..n-1 /\ i \in 0..n-1
        BY <3>0
      <4>3. QED BY <4>1, <4>2
    <3>4. L[q] >= L[i]
      BY <3>1, <3>2, <3>3
    <3>5. QED BY <3>4
  <2>5. HeapOrder'
    <3>1. ASSUME NEW i \in 1..n1-1, ~Unrepaired(i, loop', ipos', index_')
          PROVE  L[heap_parent(i)] >= L[i]
      <4>1. i \in 1..n-2 /\ heap_parent(i) < i
        BY <2>1, <1>3
      <4>2. i # k /\ heap_parent(i) # k
        BY <2>1, <3>1, <4>1 DEF Unrepaired
      <4>3. QED BY <2>3, <4>1, <4>2
    <3>2. QED BY <3>1, <1>5
  <2>6. Bypass'
    BY <2>1, <2>4, <1>7
  <2>7. QED BY <2>5, <2>6
<1>16. CASE UpStep
  <2>1. ipos > 0
    BY <1>1, <1>2, <1>16 DEF UpStep, Above, heap_parent
  <2>2. QED BY <1>9, <1>16, <2>1 DEF UpStep
<1>17. CASE UpEnd
  <2>1. /\ loop = "up" /\ ipos \in 0..n-1 /\ n1 = n /\ data' = data
        /\ ~Above(ipos, heap_parent(ipos))
        /\ \/ ipos = index_ /\ loop' = "down" /\ ipos' = ipos
           \/ ipos # index_ /\ loop' = "none"
    BY <1>1, <1>2, <1>17 DEF UpEnd, Return
  <2>2. ipos > 0 => K[heap_parent(ipos)] >= K[ipos]
    BY <2>1, <1>3 DEF Above
  <2>3. \A i \in 1..n-1 : ~(heap_parent(i) = ipos /\ ipos = index_) => K[heap_parent(i)] >= K[i]
    BY <2>1, <2>2, <1>4 DEF Unrepaired
  <2>4. HeapOrder'
    BY <2>1, <2>3, <1>3, <1>5 DEF Unrepaired
  <2>5. Bypass'
    BY <2>1, <1>3, <1>6, <1>7
  <2>6. QED BY <2>4, <2>5
<1>18. CASE UNCHANGED vars
  BY <1>18 DEF vars, HeapOrder, Bypass, Live, Ordered
<1>19. QED
  BY <1>8, <1>10, <1>11, <1>12, <1>13, <1>14, <1>15, <1>16, <1>17, <1>18 DEF Next

(* The head is the highest when all edges are in order: a smallest slot    *)
(* above it would have its parent above it as well.                        *)
LEMMA RootIsHighest ==
  ASSUME TypeOK, HeapOrder, loop = "none"
  PROVE  HeadIsHighest
<1> DEFINE above == {i \in 0..len-1 : Prio[data[0]] < Prio[data[i]]}
<1>1. len \in Nat /\ data \in [0..len-1 -> Elem]
  BY UncountedType DEF TypeOK, Live, Loops
<1>2. \A i \in 0..len-1 : Prio[data[i]] \in Int
  BY <1>1, PrioType
<1>3. ASSUME above # {} PROVE FALSE
  <2>1. above \subseteq Nat
    OBVIOUS
  <2>2. PICK i \in above : \A j \in above : ~(j < i)
    <3> DEFINE lt == OpToRel(<, Nat)
    <3>1. IsWellFoundedOn(lt, Nat)
      BY NatLessThanWellFounded DEF OpToRel
    <3>2. \A i, j \in Nat : j < i => <<j, i>> \in lt
      BY DEF OpToRel
    <3> HIDE DEF lt, above
    <3>3. PICK i \in above : \A j \in above : ~(<<j, i>> \in lt)
      BY <1>3, <2>1, <3>1, WFMin
    <3>4. QED BY <3>2, <3>3, <2>1
  <2>3. i \in 1..len-1 /\ Prio[data[0]] < Prio[data[i]]
    BY <1>1, <1>2, <2>2
  <2>4. heap_parent(i) \in 0..len-1 /\ heap_parent(i) < i
    BY <2>3, ParentSmaller, <1>1
  <2>5. Prio[data[heap_parent(i)]] >= Prio[data[i]]
    <3>1. Live = len /\ ~Unrepaired(i, loop, ipos, index_)
      BY <1>1, UncountedType DEF Unrepaired, Live, Loops
    <3>2. Ordered(heap_parent(i), i)
      BY <2>3, <3>1 DEF HeapOrder
    <3>3. QED BY <3>2 DEF Ordered
  <2> PICK q : q = heap_parent(i)
    OBVIOUS
  <2>6. q \in above
    BY <2>3, <2>4, <2>5, <1>1, <1>2
  <2>7. QED BY <2>2, <2>4, <2>6
<1>4. QED BY <1>1, <1>2, <1>3 DEF HeadIsHighest

(* The allocation holds every slot in use: inductive with TypeOK. *)
LEMMA FitsInductive ==
  ASSUME TypeOK, FitsAllocation, [Next]_vars
  PROVE  FitsAllocation'
<1>1. len \in Nat /\ allocated_len \in Nat /\ loop \in Loops
  BY DEF TypeOK
<1> USE <1>1, MinSizeType, UncountedType DEF FitsAllocation, Live, Loops
<1>2. ASSUME NEW e \in Elem, InsertVal(e) PROVE FitsAllocation'
  BY <1>2 DEF InsertVal, Grown, Larger
<1>3. CASE InsertStep
  BY <1>3 DEF InsertStep
<1>4. CASE InsertEnd
  BY <1>4 DEF InsertEnd, Return
<1>5. CASE Extract
  BY <1>5 DEF Extract, Return, Shrunk, Larger
<1>6. CASE DownStep
  BY <1>6 DEF DownStep
<1>7. CASE DownEnd
  BY <1>7 DEF DownEnd, Return, Shrunk, Larger
<1>8. ASSUME NEW i \in 0..len-1, ExtractIndex(i) PROVE FitsAllocation'
  BY <1>8 DEF ExtractIndex, Return, Shrunk, Larger
<1>9. CASE UpStep
  BY <1>9 DEF UpStep
<1>10. CASE UpEnd
  BY <1>10 DEF UpEnd, Return, Shrunk, Larger
<1>11. CASE UNCHANGED vars
  BY <1>11 DEF vars
<1>12. QED
  BY <1>2, <1>3, <1>4, <1>5, <1>6, <1>7, <1>8, <1>9, <1>10, <1>11 DEF Next

(* An empty heap satisfies everything. *)
LEMMA InitHolds == Init => IInv /\ FitsAllocation
  BY UncountedType DEF Init, IInv, TypeOK, HeapOrder, Bypass, FitsAllocation, Live, Loops

-----------------------------------------------------------------------------
(* The slots of d that hold e: what PriorityQueue counts.                  *)
Copies(d, e) == {i \in DOMAIN d : d[i] = e}

LEMMA FinitelyMany ==
  ASSUME NEW n \in Nat, NEW d \in [0..n-1 -> Elem], NEW e
  PROVE  IsFiniteSet(Copies(d, e)) /\ Cardinality(Copies(d, e)) \in Nat
<1>1. IsFiniteSet(0..n-1) /\ Copies(d, e) \subseteq 0..n-1
  BY FS_Interval DEF Copies
<1>2. QED BY <1>1, FS_Subset, FS_CardinalityType

(* Exchanging two slots keeps the number of copies of every element.       *)
LEMMA ExchangeCopies ==
  ASSUME NEW n \in Nat, NEW d \in [0..n-1 -> Elem], NEW a \in 0..n-1, NEW b \in 0..n-1,
         NEW x \in [0..n-1 -> Elem], Exchanged(n, d, x, a, b), NEW e
  PROVE  Cardinality(Copies(x, e)) = Cardinality(Copies(d, e))
<1> DEFINE S == Copies(d, e)
<1>1. /\ x[a] = d[b] /\ x[b] = d[a]
      /\ \A i \in 0..n-1 : i # a /\ i # b => x[i] = d[i]
  BY DEF Exchanged
<1>2. IsFiniteSet(S) /\ Cardinality(S) \in Nat
  BY FinitelyMany
<1>3. CASE d[a] = d[b] \/ (e # d[a] /\ e # d[b])
  <2>1. Copies(x, e) = S
    BY <1>1, <1>3 DEF Copies
  <2>2. QED BY <2>1
<1>4. ASSUME NEW p \in {a, b}, NEW q \in {a, b}, d[p] = e, d[q] # e, p # q
      PROVE  Cardinality(Copies(x, e)) = Cardinality(S)
  <2>1. Copies(x, e) = (S \ {p}) \cup {q}
    BY <1>1, <1>4 DEF Copies
  <2>2. p \in S /\ q \notin S \ {p}
    BY <1>4 DEF Copies
  <2>3. IsFiniteSet(S \ {p}) /\ Cardinality(S \ {p}) = Cardinality(S) - 1
    BY <1>2, <2>2, FS_RemoveElement
  <2> HIDE DEF S
  <2>4. Cardinality((S \ {p}) \cup {q}) = Cardinality(S \ {p}) + 1
    BY <2>2, <2>3, FS_AddElement
  <2>5. Cardinality(Copies(x, e)) = Cardinality(S \ {p}) + 1
    BY <2>1, <2>4
  <2>6. QED BY <1>2, <2>3, <2>5
<1>5. QED BY <1>3, <1>4 DEF Copies

(* A slot more behind the others is a copy more of what it holds.          *)
LEMMA BehindCopies ==
  ASSUME NEW n \in Nat, NEW d \in [0..n-1 -> Elem], NEW c \in [0..n -> Elem],
         \A i \in 0..n-1 : c[i] = d[i], NEW e
  PROVE  Cardinality(Copies(c, e)) = Cardinality(Copies(d, e)) + (IF c[n] = e THEN 1 ELSE 0)
<1>1. IsFiniteSet(Copies(d, e)) /\ Cardinality(Copies(d, e)) \in Nat
  BY FinitelyMany
<1>0. n \notin Copies(d, e)
  BY DEF Copies
<1>2. CASE c[n] = e
  <2>1. Copies(c, e) = Copies(d, e) \cup {n}
    BY <1>2 DEF Copies
  <2>2. Cardinality(Copies(d, e) \cup {n}) = Cardinality(Copies(d, e)) + 1
    BY <1>0, <1>1, FS_AddElement
  <2>3. QED BY <1>2, <2>1, <2>2
<1>3. CASE c[n] # e
  <2>1. Copies(c, e) = Copies(d, e)
    BY <1>3 DEF Copies
  <2>2. QED BY <1>1, <1>3, <2>1
<1>4. QED BY <1>2, <1>3

(* What the array holds, as the queue counts it.                           *)
Held(d) == [e \in Elem |-> Cardinality(Copies(d, e))]

(* The last element in the place of slot i: one copy less of what was in i.*)
LEMMA MovedCopies ==
  ASSUME TypeOK, loop = "none", NEW i \in 0..len-1, MoveLastTo(i)
  PROVE  /\ data[i] \in Elem /\ Held(data)[data[i]] > 0
         /\ Held(data') = [Held(data) EXCEPT ![data[i]] = @ - 1]
<1>1. len \in Nat \ {0} /\ data \in [0..len-1 -> Elem] /\ data[i] \in Elem
  BY UncountedType DEF TypeOK, Live, Loops
<1>2. PICK n \in Nat : n = len - 1
  BY <1>1
<1>3. 0..len-1 = 0..n /\ 0..len-2 = 0..n-1 /\ i \in 0..n /\ n \in 0..n
  BY <1>1, <1>2
<1>4. PICK next : next = data'
  OBVIOUS
<1>5. next = [k \in 0..n-1 |-> IF k = i THEN data[n] ELSE data[k]]
  BY <1>2, <1>3, <1>4 DEF MoveLastTo
<1>6. PICK x \in [0..n -> Elem] : x[n] = data[i] /\ Exchanged(len, data, x, i, n)
  <2>1. /\ [data EXCEPT ![i] = data[n], ![n] = data[i]] \in [0..n -> Elem]
        /\ [data EXCEPT ![i] = data[n], ![n] = data[i]][n] = data[i]
        /\ Exchanged(len, data, [data EXCEPT ![i] = data[n], ![n] = data[i]], i, n)
    BY <1>1, <1>3 DEF Exchanged
  <2>2. QED BY <2>1
<1>7. next \in [0..n-1 -> Elem] /\ \A k \in 0..n-1 : x[k] = next[k]
  BY <1>1, <1>3, <1>5, <1>6 DEF Exchanged
<1>8. ASSUME NEW e \in Elem
      PROVE  Cardinality(Copies(data, e)) =
               Cardinality(Copies(next, e)) + (IF data[i] = e THEN 1 ELSE 0)
  <2>1. Cardinality(Copies(x, e)) = Cardinality(Copies(data, e))
    <3>1. len \in Nat /\ i \in 0..len-1 /\ n \in 0..len-1 /\ x \in [0..len-1 -> Elem]
      BY <1>1, <1>3, <1>6
    <3>2. QED BY <1>1, <1>6, <3>1, ExchangeCopies
  <2>2. Cardinality(Copies(x, e)) =
          Cardinality(Copies(next, e)) + (IF x[n] = e THEN 1 ELSE 0)
    BY <1>2, <1>6, <1>7, BehindCopies
  <2>3. QED BY <1>6, <2>1, <2>2
<1>9. \A e \in Elem : Held(data)[e] = Held(next)[e] + (IF data[i] = e THEN 1 ELSE 0)
  BY <1>8 DEF Held
<1>10. Held(data) \in [Elem -> Nat] /\ Held(next) \in [Elem -> Nat]
  <2>1. \A e \in Elem : Cardinality(Copies(data, e)) \in Nat
    BY <1>1, FinitelyMany
  <2>2. \A e \in Elem : Cardinality(Copies(next, e)) \in Nat
    BY <1>7, FinitelyMany
  <2>3. QED BY <2>1, <2>2 DEF Held
<1>11. QED
  <2> PICK h, g : h = Held(data) /\ g = Held(next)
    OBVIOUS
  <2>1. h \in [Elem -> Nat] /\ g \in [Elem -> Nat]
    BY <1>10
  <2>2. \A e \in Elem : h[e] = g[e] + (IF data[i] = e THEN 1 ELSE 0)
    BY <1>9
  <2>3. PICK v \in Elem : v = data[i]
    BY <1>1
  <2>4. h[v] = g[v] + 1 /\ h[v] \in Nat /\ g[v] \in Nat
    BY <2>1, <2>2, <2>3
  <2>5. \A e \in Elem : e # v => g[e] = h[e]
    <3> SUFFICES ASSUME NEW e \in Elem, e # v PROVE g[e] = h[e]
      OBVIOUS
    <3>1. h[e] = g[e] + 0 /\ g[e] \in Nat
      BY <2>1, <2>2, <2>3
    <3>2. QED BY <3>1
  <2>6. g[v] = h[v] - 1 /\ h[v] > 0
    BY <2>4
  <2>7. g = [h EXCEPT ![v] = @ - 1]
    BY <2>1, <2>5, <2>6
  <2>8. QED BY <1>1, <1>4, <2>3, <2>6, <2>7

(* Each step of the heap is one of the queue, or none.                     *)
LEMMA QueueStep ==
  ASSUME TypeOK, HeadIsHighest, [Next]_vars
  PROVE  [Abstract!Next]_<<Held(data), result>>
<1> DEFINE held == Held(data)
           Same == held' = held /\ result' = result
<1>1. /\ len \in Nat /\ loop \in Loops /\ ipos \in Nat
      /\ \A l \in Loops : Uncounted[l] = IF l = "insert" THEN 1 ELSE 0
      /\ Live \in Nat /\ data \in [0..Live-1 -> Elem]
  BY UncountedType DEF TypeOK, Live, Loops
<1>2. held \in [Elem -> Nat]
  BY <1>1, FinitelyMany DEF Held
<1>3. ASSUME NEW a \in 0..Live-1, NEW b \in 0..Live-1, Swap(a, b) PROVE held' = held
  <2>1. ASSUME NEW e \in Elem PROVE Cardinality(Copies(data', e)) = Cardinality(Copies(data, e))
    <3>1. data' \in [0..Live-1 -> Elem] /\ Exchanged(Live, data, data', a, b)
      BY <1>1, <1>3 DEF Swap, Exchanged
    <3>2. QED BY <1>1, <3>1, ExchangeCopies
  <2>2. QED BY <2>1 DEF Held
<1>4. ASSUME NEW e \in Elem, InsertVal(e) PROVE Abstract!Insert(e)
  <2>1. Live = len /\ data \in [0..len-1 -> Elem]
    BY <1>1, <1>4 DEF InsertVal, Live, Loops
  <2>2. data' \in [0..len -> Elem] /\ (\A i \in 0..len-1 : data'[i] = data[i]) /\ data'[len] = e
    BY <1>1, <1>4, <2>1 DEF InsertVal
  <2>3. \A f \in Elem : Cardinality(Copies(data', f)) =
                         Cardinality(Copies(data, f)) + (IF data'[len] = f THEN 1 ELSE 0)
    BY <1>1, <2>1, <2>2, BehindCopies
  <2>4. \A f \in Elem : Held(data')[f] = held[f] + (IF e = f THEN 1 ELSE 0)
    BY <2>2, <2>3 DEF Held
  <2>6. Held(data') \in [Elem -> Nat]
    <3>1. len + 1 \in Nat /\ data' \in [0..(len + 1)-1 -> Elem]
      BY <1>1, <2>2
    <3>2. \A f \in Elem : Cardinality(Copies(data', f)) \in Nat
      BY <3>1, FinitelyMany
    <3>3. QED BY <3>2 DEF Held
  <2>7. held' = [held EXCEPT ![e] = @ + 1]
    BY <1>2, <2>4, <2>6
  <2>5. QED BY <1>4, <2>7 DEF InsertVal, Abstract!Insert, Held, Copies
<1>5. CASE InsertStep \/ UpStep
  <2>1. ipos \in 0..Live-1 /\ heap_parent(ipos) \in 0..Live-1
    <3>1. ipos < Live
      BY <1>5 DEF TypeOK, InsertStep, UpStep
    <3>2. heap_parent(ipos) \in Nat /\ heap_parent(ipos) <= ipos
      BY <1>1, ParentSmaller DEF heap_parent
    <3>3. QED BY <1>1, <3>1, <3>2
  <2>2. held' = held
    BY <1>3, <1>5, <2>1 DEF InsertStep, UpStep
  <2>3. QED BY <1>5, <2>2 DEF InsertStep, UpStep
<1>6. CASE DownStep
  <2>1. Live = len /\ ipos \in 0..Live-1 /\ LargestOf(len) \in 0..Live-1
    BY <1>1, <1>6, LargestOfPick DEF DownStep, TypeOK, Live, Loops
  <2>2. held' = held
    BY <1>3, <1>6, <2>1 DEF DownStep
  <2>3. QED BY <1>6, <2>2 DEF DownStep
<1>7. CASE InsertEnd \/ DownEnd \/ UpEnd
  <2>1. data' = data /\ result' = result
    BY <1>7 DEF InsertEnd, DownEnd, UpEnd
  <2>2. QED BY <2>1 DEF Held
<1>8. CASE Extract
  <2>1. 0 \in 0..len-1 /\ loop = "none" /\ MoveLastTo(0)
        /\ result' = Abstract!Taken("extract", data[0])
    BY <1>1, <1>8 DEF Extract
  <2>2. /\ data[0] \in Elem /\ held[data[0]] > 0
        /\ held' = [held EXCEPT ![data[0]] = @ - 1]
    BY <2>1, MovedCopies
  <2>3. ASSUME NEW f \in Elem, held[f] > 0 PROVE Prio[f] <= Prio[data[0]]
    <3>1. PICK i \in 0..len-1 : data[i] = f
      <4>1. Copies(data, f) # {}
        BY <2>3, FS_EmptySet DEF Held
      <4>2. DOMAIN data = 0..len-1
        BY <1>1, <2>1 DEF Live, Loops
      <4>3. QED BY <4>1, <4>2 DEF Copies
    <3>2. Prio[data[0]] >= Prio[data[i]]
      BY <2>1 DEF HeadIsHighest
    <3>3. QED BY <2>2, <3>1, <3>2, PrioType
  <2>4. Abstract!Remove(data[0], "extract")
    BY <2>1, <2>2 DEF Abstract!Remove, Held, Copies
  <2>5. Abstract!ExtractHighest
    BY <2>2, <2>3, <2>4 DEF Abstract!ExtractHighest, Held, Copies
  <2>6. QED BY <2>5 DEF Abstract!Next
<1>9. ASSUME NEW i \in 0..len-1, ExtractIndex(i) PROVE Abstract!Remove(data[i], "extract_index")
  <2>1. loop = "none" /\ MoveLastTo(i) /\ result' = Abstract!Taken("extract_index", data[i])
    BY <1>9 DEF ExtractIndex
  <2>2. held[data[i]] > 0 /\ held' = [held EXCEPT ![data[i]] = @ - 1]
    BY <2>1, MovedCopies
  <2>3. QED BY <2>1, <2>2 DEF Abstract!Remove, Held, Copies
<1>10. CASE UNCHANGED vars
  BY <1>10 DEF vars, Held
<1>11. ASSUME NEW i \in 0..len-1, ExtractIndex(i) PROVE Abstract!Next
  <2>1. data[i] \in Elem
    BY <1>11, MovedCopies DEF ExtractIndex
  <2>2. QED BY <1>9, <1>11, <2>1 DEF Abstract!Next
<1>12. QED
  BY <1>4, <1>5, <1>6, <1>7, <1>8, <1>10, <1>11 DEF Next, Abstract!Next

-----------------------------------------------------------------------------
(* The typing of the heap's fields and array, in every call: the array has *)
(* no gaps and ends at len, dzl_heap_real_insert_val() and the extractions *)
(* never read a slot behind it.                                            *)
THEOREM TypeSafe == Spec => []TypeOK
<1>1. Init => TypeOK
  BY InitHolds DEF IInv
<1>2. TypeOK /\ [Next]_vars => TypeOK'
  BY TypeInductive
<1>3. QED BY <1>1, <1>2, PTL DEF Spec

(* The heap order survives every sift loop of dzl_heap_insert_val(),       *)
(* dzl_heap_extract() and dzl_heap_extract_index(), up to the one slot the *)
(* running loop is repairing.                                              *)
THEOREM OrderKept == Spec => []LoopInvariant
<1>1. Init => HeapOrder /\ Bypass
  BY InitHolds DEF IInv
<1>2. TypeOK /\ TypeOK' /\ HeapOrder /\ Bypass /\ [Next]_vars => HeapOrder' /\ Bypass'
  BY OrderInductive
<1>3. HeapOrder /\ Bypass <=> LoopInvariant
  BY DEF LoopInvariant
<1>4. QED BY <1>1, <1>2, <1>3, TypeSafe, PTL DEF Spec

(* Between calls slot 0, which dzl_heap_peek() reads and the next          *)
(* dzl_heap_extract() takes, holds an element none is above.               *)
THEOREM HeadHighest == Spec => []HeadIsHighest
<1>1. TypeOK /\ LoopInvariant => HeadIsHighest
  BY RootIsHighest DEF LoopInvariant, HeadIsHighest
<1>2. QED BY <1>1, TypeSafe, OrderKept, PTL

(* Growing and shrinking never leave elements behind the allocation. *)
THEOREM AllocationFits == Spec => []FitsAllocation
<1>1. Init => FitsAllocation
  BY InitHolds
<1>2. TypeOK /\ FitsAllocation /\ [Next]_vars => FitsAllocation'
  BY FitsInductive
<1>3. QED BY <1>1, <1>2, TypeSafe, PTL DEF Spec

(* The array with its sift loops is the queue of PriorityQueue: each call  *)
(* of dzl_heap_insert_val(), dzl_heap_extract() or dzl_heap_extract_index()*)
(* takes effect in its first step, no element is lost or duplicated by     *)
(* moving, and dzl_heap_extract() takes one that no other is above.        *)
THEOREM IsPriorityQueue == Spec => ImplementsQueue
<1>1. Init => Abstract!Init
  <2> SUFFICES ASSUME Init PROVE Abstract!Init
    OBVIOUS
  <2>1. \A e \in Elem : {i \in DOMAIN data : data[i] = e} = {}
    BY DEF Init
  <2>2. QED BY <2>1, FS_EmptySet DEF Init, Abstract!Init
<1>2. TypeOK /\ HeadIsHighest /\ [Next]_vars => [Abstract!Next]_<<Held(data), result>>
  BY QueueStep
<1>3. Held(data) = [e \in Elem |-> Cardinality({i \in DOMAIN data : data[i] = e})]
  BY DEF Held, Copies
<1>4. QED
  BY <1>1, <1>2, <1>3, TypeSafe, HeadHighest, PTL
     DEF Spec, ImplementsQueue, Abstract!Spec, Held, Copies

-----------------------------------------------------------------------------
(* The counters, for any number of threads, CPUs and counters.             *)

(* The CPUs are numbered without gaps, as DZL_COUNTER_ADD takes for granted. *)
Numbered == C!ConstantsType /\ CPU \subseteq 0..(ncpu - 1)

Cell(i, cpu) == C!Place(C!InfoOf(i), cpu)

(* A thread runs on one CPU at a time.                                     *)
OneCPU == \A p, q \in CPU : running[p] = running[q] /\ running[p] # None => p = q

(* Whoever registers has the lock, and the place it took is the next one.  *)
Locked ==
  \A t \in Thread :
    /\ at[t].at \in {"register", "notify"} => reglock = t
    /\ at[t].at = "register" => at[t].index = Len(counters) /\ at[t].counter \notin C!Registered
    /\ at[t].at = "notify" => n_counters < Len(counters)
    /\ at[t].at \in {"load", "store", "get", "reset"} => at[t].counter \in C!Registered

(* The infos are those of the counters, in their order, and what is not    *)
(* registered has not been counted.                                        *)
Listed ==
  /\ \A i \in DOMAIN counters :
       /\ index[counters[i]] = i - 1
       /\ i - 1 \in DOMAIN info /\ info[i - 1] = counters[i]
  /\ \A place \in DOMAIN values :
       \E i \in 0..(Len(counters) - 1), cpu \in 0..(ncpu - 1) : place = Cell(i, cpu)
  /\ \A c \in Counter \ C!Registered : added[c] = 0

(* What another process has found.                                         *)
Found ==
  remote # None =>
    /\ remote = [n |-> remote.n, found |-> remote.found]
    /\ remote.n \in 0..n_counters
    /\ \/ remote.found = <<>>
       \/ remote.found = [i \in 1..remote.n |->
                            [counter |-> counters[i], place |-> C!InfoOf(i - 1)]]

(* A thread in an update has its CPU, and what it loaded is still there.   *)
Undivided ==
  \A t \in Thread :
    /\ C!Updating(t) => running[at[t].cpu] = t
    /\ at[t].at = "store" =>
         at[t].value = C!Stored(C!Place(C!Where(at[t].counter), at[t].cpu))

(* One thread reads or resets; nobody updates what is being reset; a       *)
(* reading has passed no less and no more than was there in its time.      *)
Passing ==
  /\ \A t, u \in Thread :
       at[t].at \in {"get", "reset"} /\ at[u].at \in {"get", "reset"} => t = u
  /\ \A t \in Thread, c \in Counter : at[t].at = "reset" /\ at[t].counter = c =>
       /\ added[c] = 0
       /\ \A cpu \in 0..(ncpu - 1) : cpu < at[t].next => C!Cells(c)[cpu] = 0
       /\ \A u \in Thread : C!Updating(u) => at[u].counter # c
  /\ \A t \in Thread, c \in Counter : at[t].at = "get" /\ at[t].counter = c =>
       /\ at[t].before + C!SumTo(C!Cells(c))[at[t].next] <=
             at[t].value + C!SumTo(C!Cells(c))[ncpu]
       /\ at[t].value <= C!SumTo(C!Cells(c))[at[t].next]

Counted == \A c \in C!Registered : C!Calls(c, {"reset"}) \/ C!Held(c) = added[c]

CountersIInv ==
  /\ C!TypeOK /\ OneCPU /\ Locked /\ Listed /\ Found
  /\ ~disturbed => Undivided /\ Passing /\ Counted

-----------------------------------------------------------------------------
(* Induction, for a set in place of a predicate.                           *)
LEMMA SetInduction ==
  ASSUME NEW S \in SUBSET Nat, 0 \in S, \A n \in Nat : n \in S => n + 1 \in S
  PROVE  \A n \in Nat : n \in S
<1> DEFINE lt == OpToRel(<, Nat)
           left == Nat \ S
<1>1. IsWellFoundedOn(lt, Nat)
  BY NatLessThanWellFounded DEF OpToRel
<1>2. \A i, j \in Nat : j < i => <<j, i>> \in lt
  BY DEF OpToRel
<1> HIDE DEF lt
<1>3. ASSUME left # {} PROVE FALSE
  <2>1. left \subseteq Nat
    OBVIOUS
  <2> HIDE DEF left
  <2>2. PICK i \in left : \A j \in left : ~(<<j, i>> \in lt)
    BY <1>1, <1>3, <2>1, WFMin
  <2> USE DEF left
  <2>3. i \in Nat \ {0} /\ i - 1 \in Nat /\ i - 1 < i
    OBVIOUS
  <2>4. i - 1 \notin left
    BY <1>2, <2>2, <2>3
  <2>5. i - 1 \in S /\ (i - 1) + 1 = i
    BY <2>3, <2>4
  <2>6. QED BY <2>3, <2>5
<1>4. QED BY <1>3

(* The sums of the first cells are what their definition says.             *)
LEMMA SumsAre ==
  ASSUME ncpu \in Nat, NEW v \in [0..(ncpu - 1) -> Nat]
  PROVE  /\ C!SumTo(v) \in [0..ncpu -> Nat]
         /\ C!SumTo(v)[0] = 0
         /\ \A n \in 0..(ncpu - 1) : C!SumTo(v)[n + 1] = C!SumTo(v)[n] + v[n]
<1> DEFINE Sums(g, n) ==
             g[0] = 0 /\ \A k \in 0..(ncpu - 1) : k < n => g[k + 1] = g[k] + v[k]
           S == {n \in Nat : n <= ncpu => \E g \in [0..n -> Nat] : Sums(g, n)}
<1>1. 0 \in S
  <2>1. [k \in 0..0 |-> 0] \in [0..0 -> Nat] /\ Sums([k \in 0..0 |-> 0], 0)
    OBVIOUS
  <2>2. QED BY <2>1
<1>2. ASSUME NEW n \in Nat, n \in S PROVE n + 1 \in S
  <2> HIDE DEF Sums
  <2> SUFFICES ASSUME n + 1 <= ncpu PROVE \E g \in [0..(n + 1) -> Nat] : Sums(g, n + 1)
    OBVIOUS
  <2>1. PICK g \in [0..n -> Nat] : Sums(g, n)
    BY <1>2
  <2> USE DEF Sums
  <2> DEFINE h == [k \in 0..(n + 1) |-> IF k = n + 1 THEN g[n] + v[n] ELSE g[k]]
  <2>2. v[n] \in Nat /\ g[n] \in Nat
    OBVIOUS
  <2>3. h \in [0..(n + 1) -> Nat]
    BY <2>2
  <2>4. Sums(h, n + 1)
    <3>1. h[0] = 0
      BY <2>1
    <3>2. ASSUME NEW k \in 0..(ncpu - 1), k < n + 1 PROVE h[k + 1] = h[k] + v[k]
      BY <2>1, <2>2, <3>2
    <3>3. QED BY <3>1, <3>2
  <2> HIDE DEF Sums, h
  <2>5. QED BY <2>3, <2>4
<1>3. PICK g \in [0..ncpu -> Nat] : Sums(g, ncpu)
  <2> HIDE DEF S
  <2>1. S \in SUBSET Nat
    BY DEF S
  <2>2. ncpu \in S
    BY <1>1, <1>2, <2>1, SetInduction
  <2>3. QED BY <2>2 DEF S
<1>4. g = [n \in 0..ncpu |-> IF n = 0 THEN 0 ELSE g[n - 1] + v[n - 1]]
  <2>1. ASSUME NEW n \in 0..ncpu, n # 0 PROVE g[n] = g[n - 1] + v[n - 1]
    <3>1. n - 1 \in 0..(ncpu - 1) /\ (n - 1) + 1 = n
      BY <2>1
    <3>2. QED BY <1>3, <3>1
  <2>2. QED BY <1>3, <2>1
<1>5. C!SumTo(v) = [n \in 0..ncpu |-> IF n = 0 THEN 0 ELSE C!SumTo(v)[n - 1] + v[n - 1]]
  BY <1>4 DEF C!SumTo
<1> DEFINE f == C!SumTo(v)
<1> HIDE DEF f
<1>6. f = [n \in 0..ncpu |-> IF n = 0 THEN 0 ELSE f[n - 1] + v[n - 1]]
  BY <1>5 DEF f
<1>7. f[0] = 0 /\ \A n \in 0..(ncpu - 1) : f[n + 1] = f[n] + v[n]
  <2>1. f[0] = 0
    BY <1>6
  <2>2. ASSUME NEW n \in 0..(ncpu - 1) PROVE f[n + 1] = f[n] + v[n]
    <3>1. n + 1 \in 0..ncpu /\ n + 1 # 0 /\ (n + 1) - 1 = n
      OBVIOUS
    <3> PICK m : m = n + 1
      OBVIOUS
    <3>2. f[m] = f[m - 1] + v[m - 1]
      BY <1>6, <3>1
    <3>3. QED BY <3>1, <3>2
  <2>3. QED BY <2>1, <2>2
<1>8. \A n \in 0..ncpu : f[n] \in Nat
  <2> DEFINE T == {n \in Nat : n <= ncpu => f[n] \in Nat}
  <2>1. 0 \in T
    BY <1>7
  <2>2. ASSUME NEW n \in Nat, n \in T PROVE n + 1 \in T
    <3>1. n + 1 <= ncpu => f[n + 1] = f[n] + v[n] /\ v[n] \in Nat
      BY <1>7
    <3>2. QED BY <2>2, <3>1
  <2> HIDE DEF T
  <2>3. T \in SUBSET Nat
    BY DEF T
  <2>4. \A n \in Nat : n \in T
    BY <2>1, <2>2, <2>3, SetInduction
  <2>5. QED BY <2>4 DEF T
<1>9. f \in [0..ncpu -> Nat]
  BY <1>6, <1>8
<1>10. QED BY <1>7, <1>9 DEF f

(* One more in one cell is one more in every sum it is part of.            *)
LEMMA SumBumped ==
  ASSUME ncpu \in Nat, NEW v \in [0..(ncpu - 1) -> Nat], NEW cell \in 0..(ncpu - 1),
         NEW w \in [0..(ncpu - 1) -> Nat], w[cell] = v[cell] + 1,
         \A k \in 0..(ncpu - 1) : k # cell => w[k] = v[k]
  PROVE  \A n \in 0..ncpu : C!SumTo(w)[n] = C!SumTo(v)[n] + (IF n > cell THEN 1 ELSE 0)
<1> DEFINE f == C!SumTo(v)
           g == C!SumTo(w)
           S == {n \in Nat : n <= ncpu => g[n] = f[n] + (IF n > cell THEN 1 ELSE 0)}
<1>1. /\ f \in [0..ncpu -> Nat] /\ f[0] = 0
      /\ \A n \in 0..(ncpu - 1) : f[n + 1] = f[n] + v[n]
  BY SumsAre
<1>2. /\ g \in [0..ncpu -> Nat] /\ g[0] = 0
      /\ \A n \in 0..(ncpu - 1) : g[n + 1] = g[n] + w[n]
  BY SumsAre
<1> HIDE DEF f, g
<1>3. 0 \in S
  BY <1>1, <1>2
<1>4. ASSUME NEW n \in Nat, n \in S PROVE n + 1 \in S
  <2> SUFFICES ASSUME n + 1 <= ncpu PROVE g[n + 1] = f[n + 1] + (IF n + 1 > cell THEN 1 ELSE 0)
    OBVIOUS
  <2>1. g[n] = f[n] + (IF n > cell THEN 1 ELSE 0)
    BY <1>4
  <2>2. f[n] \in Nat /\ v[n] \in Nat /\ w[n] \in Nat
    BY <1>1
  <2>3. n \in 0..(ncpu - 1)
    OBVIOUS
  <2>4. f[n + 1] = f[n] + v[n]
    BY <1>1, <2>3
  <2>5. g[n + 1] = g[n] + w[n]
    BY <1>2, <2>3
  <2>6. w[n] = v[n] + (IF n = cell THEN 1 ELSE 0)
    BY <2>3
  <2>7. CASE n < cell
    BY <2>1, <2>2, <2>4, <2>5, <2>6, <2>7
  <2>8. CASE n = cell
    BY <2>1, <2>2, <2>4, <2>5, <2>6, <2>8
  <2>9. CASE n > cell
    BY <2>1, <2>2, <2>4, <2>5, <2>6, <2>9
  <2>10. QED BY <2>7, <2>8, <2>9
<1> HIDE DEF S
<1>5. S \in SUBSET Nat
  BY DEF S
<1>6. \A n \in Nat : n \in S
  BY <1>3, <1>4, <1>5, SetInduction
<1>7. QED BY <1>6 DEF S, f, g

(* The sum of cells that are all 0 is 0.                                   *)
LEMMA SumOfNothing ==
  ASSUME ncpu \in Nat, NEW v \in [0..(ncpu - 1) -> Nat], \A k \in 0..(ncpu - 1) : v[k] = 0
  PROVE  C!SumTo(v)[ncpu] = 0
<1> DEFINE f == C!SumTo(v)
           S == {n \in Nat : n <= ncpu => f[n] = 0}
<1>1. /\ f \in [0..ncpu -> Nat] /\ f[0] = 0
      /\ \A n \in 0..(ncpu - 1) : f[n + 1] = f[n] + v[n]
  BY SumsAre
<1> HIDE DEF f
<1>2. 0 \in S
  BY <1>1
<1>3. ASSUME NEW n \in Nat, n \in S PROVE n + 1 \in S
  BY <1>1, <1>3
<1> HIDE DEF S
<1>4. S \in SUBSET Nat
  BY DEF S
<1>5. ncpu \in S
  BY <1>2, <1>3, <1>4, SetInduction
<1>6. QED BY <1>5 DEF S, f

-----------------------------------------------------------------------------
(* The layout: no two counters have a position in common in the same cell. *)
LEMMA PlacesDiffer ==
  ASSUME C!ConstantsType,
         NEW i \in Nat, NEW j \in Nat, NEW k \in 0..(ncpu - 1), NEW l \in 0..(ncpu - 1),
         C!Place(C!InfoOf(i), k) = C!Place(C!InfoOf(j), l)
  PROVE  i = j /\ k = l
<1> DEFINE G == C!CELLS_PER_GROUP
           N == COUNTERS_PER_GROUP
<1>1. N \in Nat \ {0} /\ G \in Nat /\ ncpu \in Nat /\ G >= ncpu
  <2>1. CELLS_PER_INFO * COUNTERS_PER_GROUP \in Nat
    BY DEF C!ConstantsType
  <2>2. QED BY <2>1 DEF C!ConstantsType, C!CELLS_PER_GROUP
<1>2. /\ i \div N \in Nat /\ i % N \in Nat /\ i = N * (i \div N) + (i % N)
      /\ j \div N \in Nat /\ j % N \in Nat /\ j = N * (j \div N) + (j % N)
  BY <1>1
<1>3. G * (i \div N) + k = G * (j \div N) + l /\ i % N = j % N
  <2>1. CELLS_PER_INFO * COUNTERS_PER_GROUP \in Nat
    BY DEF C!ConstantsType
  <2>2. G * (i \div N) \in Nat /\ G * (j \div N) \in Nat
    BY <1>1, <1>2
  <2>3. QED BY <2>1, <2>2 DEF C!Place, C!InfoOf, C!CELLS_PER_HEADER
<1> HIDE DEF G, N
<1>4. ASSUME NEW a \in Nat, NEW b \in Nat, NEW x \in 0..(ncpu - 1), NEW y \in 0..(ncpu - 1),
             G * a + x = G * b + y
      PROVE  ~(a < b)
  <2> SUFFICES ASSUME a < b PROVE FALSE
    OBVIOUS
  <2>1. PICK d \in Nat : b = a + 1 + d
    <3>1. b - a - 1 \in Nat /\ b = a + 1 + (b - a - 1)
      OBVIOUS
    <3>2. QED BY <3>1
  <2>2. G * b = G * a + G + G * d
    BY <1>1, <2>1
  <2>3. G * a \in Nat /\ G * d \in Nat
    BY <1>1
  <2>4. QED BY <1>1, <1>4, <2>2, <2>3
<1>5. i \div N = j \div N
  BY <1>2, <1>3, <1>4
<1>6. QED BY <1>1, <1>2, <1>3, <1>5

-----------------------------------------------------------------------------
(* What the fields of a thread's place are.                                *)
LEMMA FieldTypes ==
  ASSUME C!TypeOK, NEW t \in Thread
  PROVE  /\ at[t].at \in {"idle", "register", "notify", "load", "store", "get", "reset"}
         /\ at[t].at # "idle" => at[t].counter \in Counter
         /\ at[t].at = "register" => at[t].index \in Nat
         /\ at[t].at \in {"load", "store"} => at[t].cpu \in CPU
<1>1. at[t] \in C!At
  BY DEF C!TypeOK
<1>2. QED BY <1>1 DEF C!At

(* The same of the three calls with more than a counter.                   *)
LEMMA StoreFields ==
  ASSUME C!TypeOK, NEW t \in Thread, at[t].at = "store"
  PROVE  at[t].counter \in Counter /\ at[t].cpu \in CPU /\ at[t].value \in Nat
<1>1. at[t] \in C!At
  BY DEF C!TypeOK
<1>2. QED BY <1>1 DEF C!At

LEMMA GetFields ==
  ASSUME C!TypeOK, NEW t \in Thread, at[t].at = "get"
  PROVE  /\ at[t] \in [at : {"get"}, counter : Counter, next : 0..ncpu, value : Nat,
            before : Nat]
         /\ at[t].next \in 0..ncpu /\ at[t].value \in Nat /\ at[t].before \in Nat
         /\ at[t].counter \in Counter
<1>1. at[t] \in C!At
  BY DEF C!TypeOK
<1>2. at[t] \in [at : {"get"}, counter : Counter, next : 0..ncpu, value : Nat, before : Nat]
  BY <1>1 DEF C!At
<1>3. QED BY <1>2

LEMMA ResetFields ==
  ASSUME C!TypeOK, NEW t \in Thread, at[t].at = "reset"
  PROVE  /\ at[t] \in [at : {"reset"}, counter : Counter, next : 0..ncpu]
         /\ at[t].next \in 0..ncpu /\ at[t].counter \in Counter
<1>1. at[t] \in C!At
  BY DEF C!TypeOK
<1>2. at[t] \in [at : {"reset"}, counter : Counter, next : 0..ncpu]
  BY <1>1 DEF C!At
<1>3. QED BY <1>2

(* A position of the arena holds a number.                                 *)
LEMMA StoredType == ASSUME C!TypeOK, NEW place PROVE C!Stored(place) \in Nat
BY DEF C!TypeOK, C!Stored

(* What storing changes.                                                   *)
LEMMA StoreChanges ==
  ASSUME C!TypeOK, NEW place, NEW n \in Nat, C!Store(place, n)
  PROVE  /\ \A p \in DOMAIN values' : values'[p] \in Nat \ {0}
         /\ DOMAIN values' \subseteq DOMAIN values \cup {place}
         /\ \A p : C!Stored(p)' = IF p = place THEN n ELSE C!Stored(p)
<1> DEFINE D == {q \in DOMAIN values \cup {place} : n # 0 \/ q # place}
<1>1. values' = [p \in D |-> IF p = place THEN n ELSE values[p]]
  BY DEF C!Store
<1>2. \A p \in DOMAIN values : values[p] \in Nat \ {0}
  BY DEF C!TypeOK
<1>3. DOMAIN values' = D
  BY <1>1
<1>4. \A p \in D : values'[p] = IF p = place THEN n ELSE values[p]
  BY <1>1
<1>5. ASSUME NEW p PROVE C!Stored(p)' = IF p = place THEN n ELSE C!Stored(p)
  BY <1>3, <1>4 DEF C!Stored
<1>6. QED BY <1>2, <1>3, <1>4, <1>5

(* So do the cells of a counter.                                           *)
LEMMA CellsType ==
  ASSUME C!TypeOK, NEW c PROVE C!Cells(c) \in [0..(ncpu - 1) -> Nat]
BY StoredType DEF C!Cells

(* The place of a counter is that of its number.                           *)
LEMMA WhereListed ==
  ASSUME C!TypeOK, Listed, NEW c \in C!Registered
  PROVE  /\ c \in Counter /\ index[c] \in 0..(Len(counters) - 1) /\ counters[index[c] + 1] = c
         /\ C!Where(c) = C!InfoOf(index[c])
<1>1. PICK i \in DOMAIN counters : c = counters[i]
  BY DEF C!Registered
<1>2. index[c] = i - 1
  BY <1>1 DEF Listed
<1>3. counters \in Seq(Counter)
  BY DEF C!TypeOK
<1>4. QED BY <1>1, <1>2, <1>3 DEF C!Where

(* Two counters share no cell.                                             *)
LEMMA Apart ==
  ASSUME C!ConstantsType, C!TypeOK, Listed, NEW c \in C!Registered, NEW d \in C!Registered,
         NEW k \in 0..(ncpu - 1), NEW l \in 0..(ncpu - 1),
         C!Place(C!Where(c), k) = C!Place(C!Where(d), l)
  PROVE  c = d /\ k = l
<1>1. index[c] \in Nat /\ index[d] \in Nat
  BY WhereListed
<1>2. index[c] = index[d] /\ k = l
  BY <1>1, WhereListed, PlacesDiffer
<1>3. QED BY <1>2, WhereListed

-----------------------------------------------------------------------------
LEMMA CountersInit == ASSUME Numbered, C!Init PROVE CountersIInv
<1>1. C!TypeOK
  <2>1. C!Idle \in C!At
    BY DEF C!Idle, C!At
  <2>2. at \in [Thread -> C!At]
    BY <2>1 DEF C!Init
  <2>3. DOMAIN values = {} /\ counters = <<>> /\ C!IsInjective(<<>>) /\ Len(<<>>) = 0
    BY DEF C!Init, C!IsInjective
  <2>4. running \in [CPU -> Thread \cup {None}] /\ index \in [Counter -> Nat]
        /\ added \in [Counter -> Nat] /\ n_counters \in 0..Len(counters)
    BY <2>3 DEF C!Init
  <2>5. counters \in Seq(Counter)
    BY <2>3
  <2>6. reglock \in Thread \cup {None} /\ disturbed \in BOOLEAN
    BY DEF C!Init
  <2>7. QED BY <2>2, <2>3, <2>4, <2>5, <2>6 DEF C!TypeOK
<1>2. OneCPU /\ Locked /\ Listed /\ Found
  BY DEF C!Init, Numbered, C!ConstantsType, OneCPU, Locked, Listed, Found, C!Idle, C!Registered
<1>3. Undivided /\ Passing /\ Counted
  <2>1. \A t \in Thread : at[t].at = "idle"
    BY DEF C!Init, C!Idle
  <2>2. C!Registered = {}
    BY DEF C!Init, C!Registered
  <2>3. QED BY <2>1, <2>2 DEF Undivided, Passing, Counted, C!Updating
<1>4. QED BY <1>1, <1>2, <1>3 DEF CountersIInv

LEMMA CountersTypeStep == ASSUME Numbered, CountersIInv, [C!Next]_(C!vars) PROVE C!TypeOK'
<1> USE DEF CountersIInv
<1>0. ncpu \in Nat \ {0} /\ Counter \subseteq Nat
  BY DEF Numbered, C!ConstantsType
<1>1. at \in [Thread -> C!At]
  BY DEF C!TypeOK
<1>2. ASSUME NEW t \in Thread, NEW to \in C!At, C!Move(t, to) PROVE at' \in [Thread -> C!At]
  BY <1>1, <1>2 DEF C!Move
<1>3. ASSUME NEW t \in Thread, NEW c \in Counter, C!Register(t, c) PROVE C!TypeOK'
  <2>1. [at |-> "register", counter |-> c, index |-> Len(counters)] \in C!At
    BY DEF C!TypeOK, C!At
  <2>2. at' \in [Thread -> C!At]
    BY <1>2, <1>3, <2>1 DEF C!Register
  <2>3. QED BY <1>3, <2>2 DEF C!Register, C!TypeOK
<1>4. ASSUME NEW t \in Thread, C!FillIn(t) PROVE C!TypeOK'
  <2>1. at[t].counter \in Counter /\ at[t].index \in Nat
    BY <1>4, FieldTypes DEF C!FillIn
  <2>2. [at |-> "notify", counter |-> at[t].counter] \in C!At
    BY <2>1 DEF C!At
  <2>3. at' \in [Thread -> C!At]
    BY <1>2, <1>4, <2>2 DEF C!FillIn
  <2>4. counters' = Append(counters, at[t].counter) /\ counters \in Seq(Counter)
    BY <1>4 DEF C!FillIn, C!TypeOK
  <2>5. at[t].counter \notin C!Registered
    BY <1>4 DEF Locked, C!FillIn
  <2>6. C!IsInjective(counters')
    <3>1. \A i \in DOMAIN counters : counters[i] # at[t].counter
      BY <2>5 DEF C!Registered
    <3>2. C!IsInjective(counters)
      BY DEF C!TypeOK
    <3>3. QED BY <2>1, <2>4, <3>1, <3>2 DEF C!IsInjective
  <2>7. index' \in [Counter -> Nat]
    BY <1>4, <2>1 DEF C!FillIn, C!TypeOK
  <2>8. Len(counters') = Len(counters) + 1 /\ counters' \in Seq(Counter)
    BY <2>1, <2>4
  <2>9. QED BY <1>4, <2>3, <2>6, <2>7, <2>8 DEF C!FillIn, C!TypeOK
<1>5. ASSUME NEW t \in Thread, C!Notify(t) PROVE C!TypeOK'
  <2>1. C!Idle \in C!At
    BY DEF C!Idle, C!At
  <2>2. at' \in [Thread -> C!At]
    BY <1>2, <1>5, <2>1 DEF C!Notify
  <2>3. n_counters < Len(counters)
    BY <1>5 DEF C!Notify, Locked
  <2>4. QED BY <1>5, <2>2, <2>3 DEF C!Notify, C!TypeOK
<1>6. ASSUME NEW t \in Thread, NEW c \in Counter, C!Add(t, c) PROVE C!TypeOK'
  <2>1. PICK cpu \in CPU : C!Move(t, [at |-> "load", counter |-> c, cpu |-> cpu])
    BY <1>6 DEF C!Add
  <2>2. [at |-> "load", counter |-> c, cpu |-> cpu] \in C!At
    BY DEF C!At
  <2>3. at' \in [Thread -> C!At]
    BY <1>2, <2>1, <2>2
  <2>4. disturbed' \in BOOLEAN
    BY <1>6 DEF C!Add, C!Disturbs
  <2>5. QED BY <1>6, <2>3, <2>4 DEF C!Add, C!TypeOK
<1>7. ASSUME NEW t \in Thread, C!Load(t) PROVE C!TypeOK'
  <2> DEFINE to == [at |-> "store", counter |-> at[t].counter, cpu |-> at[t].cpu,
                    value |-> C!Stored(C!Place(C!Where(at[t].counter), at[t].cpu))]
  <2>1. to \in C!At
    BY <1>7, FieldTypes, StoredType DEF C!Load, C!At
  <2>2. at' \in [Thread -> C!At]
    BY <1>2, <1>7, <2>1 DEF C!Load
  <2>3. QED BY <1>7, <2>2 DEF C!Load, C!TypeOK
<1>8. ASSUME NEW t \in Thread, C!AddEnd(t) PROVE C!TypeOK'
  <2>0. C!TypeOK /\ at[t].at = "store"
    BY <1>8 DEF C!AddEnd
  <2>1. at[t].value + 1 \in Nat /\ at[t].counter \in Counter
    BY <2>0, StoreFields
  <2>2. \A p \in DOMAIN values' : values'[p] \in Nat \ {0}
    BY <1>8, <2>1, StoreChanges DEF C!AddEnd
  <2>3. C!Idle \in C!At
    BY DEF C!Idle, C!At
  <2>4. at' \in [Thread -> C!At]
    BY <1>2, <1>8, <2>3 DEF C!AddEnd
  <2>5. added' \in [Counter -> Nat]
    BY <1>8, <2>1 DEF C!AddEnd, C!TypeOK
  <2>6. QED BY <1>8, <2>2, <2>4, <2>5 DEF C!AddEnd, C!TypeOK
<1>9. ASSUME NEW t \in Thread, NEW c \in Counter, C!Get(t, c) PROVE C!TypeOK'
  <2>1. [at |-> "get", counter |-> c, next |-> 0, value |-> 0, before |-> added[c]] \in C!At
    BY <1>0 DEF C!At, C!TypeOK
  <2>2. at' \in [Thread -> C!At]
    BY <1>2, <1>9, <2>1 DEF C!Get
  <2>3. QED BY <1>9, <2>2 DEF C!Get, C!TypeOK
<1>10. ASSUME NEW t \in Thread, C!Read(t) PROVE C!TypeOK'
  <2>0. C!TypeOK /\ at[t].at = "get"
    BY <1>10 DEF C!Read
  <2>1. at' \in [Thread -> C!At]
    <3>1. CASE at[t].next = ncpu
      BY <1>2, <1>10, <3>1 DEF C!Read, C!Idle, C!At
    <3>2. CASE at[t].next # ncpu
      <4> PICK n : n = C!Stored(C!Place(C!Where(at[t].counter), at[t].next))
        OBVIOUS
      <4>1. n \in Nat
        BY StoredType
      <4>2. at[t].next + 1 \in 0..ncpu /\ at[t].value + n \in Nat
        BY <1>0, <2>0, <3>2, <4>1, GetFields
      <4>3. [at[t] EXCEPT !.next = @ + 1, !.value = @ + n] \in
              [at : {"get"}, counter : Counter, next : 0..ncpu, value : Nat, before : Nat]
        BY <2>0, <4>2, GetFields
      <4>4. [at[t] EXCEPT !.next = @ + 1, !.value = @ + n] \in C!At
        BY <4>3 DEF C!At
      <4>5. QED BY <1>2, <1>10, <3>2, <4>4 DEF C!Read
    <3>3. QED BY <3>1, <3>2
  <2>2. QED BY <1>10, <2>1 DEF C!Read, C!TypeOK
<1>11. ASSUME NEW t \in Thread, NEW c \in Counter, C!Reset(t, c) PROVE C!TypeOK'
  <2>1. [at |-> "reset", counter |-> c, next |-> 0] \in C!At
    BY <1>0 DEF C!At
  <2>2. at' \in [Thread -> C!At]
    BY <1>2, <1>11, <2>1 DEF C!Reset
  <2>3. disturbed' \in BOOLEAN /\ added' \in [Counter -> Nat]
    BY <1>11 DEF C!Reset, C!Disturbs, C!TypeOK
  <2>4. QED BY <1>11, <2>2, <2>3 DEF C!Reset, C!TypeOK
<1>12. ASSUME NEW t \in Thread, C!Clear(t) PROVE C!TypeOK'
  <2>0. C!TypeOK /\ at[t].at = "reset"
    BY <1>12 DEF C!Clear
  <2>1. CASE at[t].next = ncpu
    <3>1. at' \in [Thread -> C!At]
      BY <1>2, <1>12, <2>1 DEF C!Clear, C!Idle, C!At
    <3>2. QED BY <1>12, <2>1, <3>1 DEF C!Clear, C!TypeOK
  <2>2. CASE at[t].next # ncpu
    <3>1. [at[t] EXCEPT !.next = @ + 1] =
            [at |-> "reset", counter |-> at[t].counter, next |-> at[t].next + 1]
      BY <2>0, ResetFields
    <3>2. at[t].next + 1 \in 0..ncpu
      BY <1>0, <2>0, <2>2, ResetFields
    <3>3. [at[t] EXCEPT !.next = @ + 1] \in C!At
      BY <2>0, <3>1, <3>2, ResetFields DEF C!At
    <3>4. at' \in [Thread -> C!At]
      BY <1>2, <1>12, <2>2, <3>3 DEF C!Clear
    <3>5. \A p \in DOMAIN values' : values'[p] \in Nat \ {0}
      BY <1>12, <2>2, StoreChanges DEF C!Clear
    <3>6. QED BY <1>12, <3>4, <3>5 DEF C!Clear, C!TypeOK
  <2>3. QED BY <2>1, <2>2
<1>13. ASSUME NEW cpu \in CPU, NEW t \in Thread \cup {None}, C!Schedule(cpu, t) PROVE C!TypeOK'
  BY <1>13 DEF C!Schedule, C!TypeOK
<1>14. ASSUME C!OpenRemote \/ C!Discover PROVE C!TypeOK'
  BY <1>14 DEF C!OpenRemote, C!Discover, C!TypeOK
<1>15. CASE UNCHANGED C!vars
  BY <1>15 DEF C!vars, C!TypeOK
<1>16. QED
  BY <1>3, <1>4, <1>5, <1>6, <1>7, <1>8, <1>9, <1>10, <1>11, <1>12, <1>13, <1>14, <1>15
     DEF C!Next

-----------------------------------------------------------------------------
(* A CPU is given only a thread that runs on no other.                     *)
LEMMA CPUStep == ASSUME Numbered, CountersIInv, [C!Next]_(C!vars) PROVE OneCPU'
<1>1. ASSUME NEW cpu \in CPU, NEW t \in Thread \cup {None}, C!Schedule(cpu, t) PROVE OneCPU'
  BY <1>1 DEF C!Schedule, C!Runs, OneCPU, CountersIInv, C!TypeOK
<1>2. ASSUME running' = running PROVE OneCPU'
  BY <1>2 DEF OneCPU, CountersIInv
<1>3. QED
  BY <1>1, <1>2
     DEF C!Next, C!Register, C!FillIn, C!Notify, C!Add, C!Load, C!AddEnd, C!Get, C!Read,
         C!Reset, C!Clear,
                    C!OpenRemote, C!Discover, C!vars

(* A step of one thread within its call.                                   *)
LEMMA Moved ==
  ASSUME C!TypeOK, NEW t \in Thread, NEW to, C!Move(t, to)
  PROVE  at'[t] = to /\ \A u \in Thread \ {t} : at'[u] = at[u]
BY DEF C!TypeOK, C!Move

(* The lock goes with the registration from its beginning to its end.      *)
LEMMA LockStep == ASSUME Numbered, CountersIInv, [C!Next]_(C!vars) PROVE Locked'
<1> USE DEF CountersIInv
<1> DEFINE Lock(u) ==
      /\ at[u].at \in {"register", "notify"} => reglock = u
      /\ at[u].at = "register" => at[u].index = Len(counters)
         /\ at[u].counter \notin C!Registered
      /\ at[u].at = "notify" => n_counters < Len(counters)
      /\ at[u].at \in {"load", "store", "get", "reset"} => at[u].counter \in C!Registered
<1>0. None \notin Thread /\ C!TypeOK
  BY DEF Numbered, C!ConstantsType
<1>1. \A u \in Thread : Lock(u)
  BY DEF Locked
<1>2. ASSUME NEW t \in Thread, NEW c \in Counter, C!Register(t, c) PROVE Locked'
  <2>1. /\ at'[t] = [at |-> "register", counter |-> c, index |-> Len(counters)]
        /\ \A u \in Thread \ {t} : at'[u] = at[u]
    BY <1>0, <1>2, Moved DEF C!Register
  <2>2. c \notin C!Registered /\ C!Registered' = C!Registered
    BY <1>2 DEF C!Register, C!Started, C!Registered
  <2>3. \A u \in Thread \ {t} : at[u].at \notin {"register", "notify"}
    BY <1>0, <1>1, <1>2 DEF C!Register
  <2>4. \A u \in Thread : Lock(u)'
    BY <1>1, <1>2, <2>1, <2>2, <2>3 DEF C!Register
  <2>5. QED BY <2>4 DEF Locked
<1>3. ASSUME NEW t \in Thread, C!FillIn(t) PROVE Locked'
  <2>1. /\ at'[t] = [at |-> "notify", counter |-> at[t].counter]
        /\ \A u \in Thread \ {t} : at'[u] = at[u]
    BY <1>0, <1>3, Moved DEF C!FillIn
  <2>2. at[t].counter \in Counter /\ counters \in Seq(Counter)
    BY <1>0, <1>3, FieldTypes DEF C!FillIn, C!TypeOK
  <2>3. Len(counters') = Len(counters) + 1 /\ C!Registered \subseteq C!Registered'
    <3>1. counters' = Append(counters, at[t].counter)
      BY <1>3 DEF C!FillIn
    <3>2. Len(counters') = Len(counters) + 1 /\ DOMAIN counters \subseteq DOMAIN counters'
          /\ \A i \in DOMAIN counters : counters'[i] = counters[i]
      BY <2>2, <3>1
    <3>3. QED BY <3>2 DEF C!Registered
  <2>4. n_counters' = n_counters /\ n_counters \in 0..Len(counters) /\ reglock' = reglock
    BY <1>3 DEF C!FillIn, C!TypeOK
  <2>5. reglock = t /\ \A u \in Thread \ {t} : at[u].at \notin {"register", "notify"}
    BY <1>1, <1>3 DEF C!FillIn
  <2>6. \A u \in Thread : Lock(u)'
    BY <1>1, <2>1, <2>2, <2>3, <2>4, <2>5
  <2>7. QED BY <2>6 DEF Locked
<1>4. ASSUME NEW t \in Thread, C!Notify(t) PROVE Locked'
  <2>1. /\ at'[t] = C!Idle
        /\ \A u \in Thread \ {t} : at'[u] = at[u]
    BY <1>0, <1>4, Moved DEF C!Notify
  <2>2. \A u \in Thread \ {t} : at[u].at \notin {"register", "notify"}
    BY <1>1, <1>4 DEF C!Notify
  <2>3. \A u \in Thread : Lock(u)'
    BY <1>1, <1>4, <2>1, <2>2 DEF C!Notify, C!Idle, C!Registered
  <2>4. QED BY <2>3 DEF Locked
(* What follows starts, continues or ends a call on a counter there is.    *)
<1>5. ASSUME NEW t \in Thread, UNCHANGED <<counters, n_counters, reglock>>,
             \A u \in Thread \ {t} : at'[u] = at[u],
             \/ at'[t].at = "idle"
             \/ at'[t].at \in {"load", "store", "get", "reset"}
                /\ at'[t].counter \in C!Registered
      PROVE  Locked'
  <2>1. \A u \in Thread : Lock(u)'
    BY <1>1, <1>5 DEF C!Registered
  <2>2. QED BY <2>1 DEF Locked
<1>6. ASSUME NEW t \in Thread, NEW c \in Counter, C!Add(t, c) PROVE Locked'
  <2>1. PICK cpu \in CPU : C!Move(t, [at |-> "load", counter |-> c, cpu |-> cpu])
    BY <1>6 DEF C!Add
  <2>2. /\ at'[t] = [at |-> "load", counter |-> c, cpu |-> cpu]
        /\ \A u \in Thread \ {t} : at'[u] = at[u]
    BY <1>0, <2>1, Moved
  <2>3. QED BY <1>5, <1>6, <2>2 DEF C!Add, C!Usable
<1>7. ASSUME NEW t \in Thread, C!Load(t) PROVE Locked'
  <2>1. /\ at'[t].at = "store" /\ at'[t].counter = at[t].counter
        /\ \A u \in Thread \ {t} : at'[u] = at[u]
    BY <1>0, <1>7, Moved DEF C!Load
  <2>2. QED BY <1>1, <1>5, <1>7, <2>1 DEF C!Load
<1>8. ASSUME NEW t \in Thread, C!AddEnd(t) PROVE Locked'
  <2>1. /\ at'[t] = C!Idle
        /\ \A u \in Thread \ {t} : at'[u] = at[u]
    BY <1>0, <1>8, Moved DEF C!AddEnd
  <2>2. QED BY <1>5, <1>8, <2>1 DEF C!AddEnd, C!Idle
<1>9. ASSUME NEW t \in Thread, NEW c \in Counter, C!Get(t, c) \/ C!Reset(t, c) PROVE Locked'
  <2>1. /\ at'[t].at \in {"get", "reset"} /\ at'[t].counter = c
        /\ \A u \in Thread \ {t} : at'[u] = at[u]
    <3>1. CASE C!Get(t, c)
      BY <1>0, <3>1, Moved DEF C!Get
    <3>2. CASE C!Reset(t, c)
      BY <1>0, <3>2, Moved DEF C!Reset
    <3>3. QED BY <1>9, <3>1, <3>2
  <2>2. QED BY <1>5, <1>9, <2>1 DEF C!Get, C!Reset, C!Usable
<1>10. ASSUME NEW t \in Thread, C!Read(t) \/ C!Clear(t) PROVE Locked'
  <2>1. at[t].at \in {"get", "reset"} /\ at[t].counter \in C!Registered
    BY <1>1, <1>10 DEF C!Read, C!Clear
  <2>2. /\ at'[t] = C!Idle \/ (at'[t].at = at[t].at /\ at'[t].counter = at[t].counter)
        /\ \A u \in Thread \ {t} : at'[u] = at[u]
    <3>1. CASE C!Read(t)
      <4>1. CASE at[t].next = ncpu
        BY <1>0, <3>1, <4>1, Moved DEF C!Read
      <4>2. CASE at[t].next # ncpu
        <5>1. at'[t] = [at[t] EXCEPT !.next = @ + 1,
                          !.value = @ + C!Stored(C!Place(C!Where(at[t].counter), at[t].next))]
              /\ \A u \in Thread \ {t} : at'[u] = at[u]
          BY <1>0, <3>1, <4>2, Moved DEF C!Read
        <5>2. QED BY <1>0, <3>1, <5>1, GetFields DEF C!Read
      <4>3. QED BY <4>1, <4>2
    <3>2. CASE C!Clear(t)
      <4>1. CASE at[t].next = ncpu
        BY <1>0, <3>2, <4>1, Moved DEF C!Clear
      <4>2. CASE at[t].next # ncpu
        <5>1. at'[t] = [at[t] EXCEPT !.next = @ + 1]
              /\ \A u \in Thread \ {t} : at'[u] = at[u]
          BY <1>0, <3>2, <4>2, Moved DEF C!Clear
        <5>2. QED BY <1>0, <3>2, <5>1, ResetFields DEF C!Clear
      <4>3. QED BY <4>1, <4>2
    <3>3. QED BY <1>10, <3>1, <3>2
  <2>3. QED BY <1>5, <1>10, <2>1, <2>2 DEF C!Read, C!Clear, C!Idle
<1>11. ASSUME UNCHANGED <<at, counters, n_counters, reglock>> PROVE Locked'
  BY <1>11 DEF Locked, C!Registered
<1>12. QED
  BY <1>2, <1>3, <1>4, <1>6, <1>7, <1>8, <1>9, <1>10, <1>11
     DEF C!Next, C!Schedule, C!OpenRemote, C!Discover, C!vars

(* Appending a counter.                                                    *)
LEMMA Appended ==
  ASSUME C!TypeOK, NEW c \in Counter, counters' = Append(counters, c)
  PROVE  /\ counters' \in Seq(Counter) /\ Len(counters') = Len(counters) + 1
         /\ DOMAIN counters' = 1..(Len(counters) + 1) /\ DOMAIN counters = 1..Len(counters)
         /\ Len(counters) \in Nat
         /\ \A i \in DOMAIN counters : counters'[i] = counters[i]
         /\ counters'[Len(counters) + 1] = c
         /\ C!Registered' = C!Registered \cup {c}
<1>1. counters \in Seq(Counter)
  BY DEF C!TypeOK
<1>2. /\ counters' \in Seq(Counter) /\ Len(counters') = Len(counters) + 1
      /\ DOMAIN counters' = 1..(Len(counters) + 1) /\ DOMAIN counters = 1..Len(counters)
      /\ Len(counters) \in Nat
      /\ \A i \in DOMAIN counters : counters'[i] = counters[i]
      /\ counters'[Len(counters) + 1] = c
  BY <1>1
<1>3. C!Registered' = C!Registered \cup {c}
  <2>1. C!Registered' \subseteq C!Registered \cup {c}
    BY <1>2 DEF C!Registered
  <2>2. C!Registered \cup {c} \subseteq C!Registered'
    BY <1>2 DEF C!Registered
  <2>3. QED BY <2>1, <2>2
<1>4. QED BY <1>2, <1>3

(* The list, the infos and the cells grow together.                        *)
LEMMA ListStep == ASSUME Numbered, CountersIInv, [C!Next]_(C!vars) PROVE Listed'
<1> USE DEF CountersIInv
<1>0. C!TypeOK /\ ncpu \in Nat \ {0} /\ CPU \subseteq 0..(ncpu - 1) /\ counters \in Seq(Counter)
  BY DEF Numbered, C!ConstantsType, C!TypeOK
<1>1. ASSUME UNCHANGED <<counters, index, info, values, added>> PROVE Listed'
  BY <1>1 DEF Listed, C!Registered
<1>2. ASSUME NEW t \in Thread, C!FillIn(t) PROVE Listed'
  <2>0. at[t].at = "register" /\ counters' = Append(counters, at[t].counter)
    BY <1>2 DEF C!FillIn
  <2>1. at[t].counter \in Counter /\ at[t].index = Len(counters)
        /\ at[t].counter \notin C!Registered
    BY <2>0, <1>0, FieldTypes DEF Locked
  <2> PICK c : c = at[t].counter
    OBVIOUS
  <2>2. /\ Len(counters') = Len(counters) + 1
        /\ DOMAIN counters' = 1..(Len(counters) + 1) /\ DOMAIN counters = 1..Len(counters)
        /\ Len(counters) \in Nat
        /\ \A i \in DOMAIN counters : counters'[i] = counters[i]
        /\ counters'[Len(counters) + 1] = c
        /\ C!Registered' = C!Registered \cup {c}
    BY <1>0, <2>0, <2>1, Appended
  <2>3. /\ index' = [index EXCEPT ![c] = Len(counters)]
        /\ info' = [i \in DOMAIN info \cup {Len(counters)} |->
                     IF i = Len(counters) THEN c ELSE info[i]]
        /\ UNCHANGED <<values, added>>
    BY <1>2, <2>1 DEF C!FillIn
  <2>4. ASSUME NEW i \in DOMAIN counters'
        PROVE  index'[counters'[i]] = i - 1 /\ i - 1 \in DOMAIN info'
               /\ info'[i - 1] = counters'[i]
    <3>1. CASE i = Len(counters) + 1
      <4>1. i - 1 = Len(counters) /\ counters'[i] = c
        BY <2>2, <3>1
      <4>2. index'[c] = Len(counters)
        BY <2>1, <2>3 DEF C!TypeOK
      <4>3. QED BY <2>3, <4>1, <4>2
    <3>2. CASE i # Len(counters) + 1
      <4>1. i \in DOMAIN counters /\ i - 1 # Len(counters) /\ counters'[i] = counters[i]
        BY <2>2, <3>2
      <4>2. counters[i] \in C!Registered /\ counters[i] \in Counter /\ counters[i] # c
        BY <1>0, <2>1, <4>1 DEF C!Registered
      <4>3. index[counters[i]] = i - 1 /\ i - 1 \in DOMAIN info /\ info[i - 1] = counters[i]
        BY <4>1 DEF Listed
      <4>4. index'[counters[i]] = index[counters[i]]
        BY <2>3, <4>2 DEF C!TypeOK
      <4>5. QED BY <2>3, <4>1, <4>3, <4>4
    <3>3. QED BY <3>1, <3>2
  <2>5. ASSUME NEW place \in DOMAIN values'
        PROVE  \E i \in 0..(Len(counters') - 1), cpu \in 0..(ncpu - 1) : place = Cell(i, cpu)
    <3>1. PICK i \in 0..(Len(counters) - 1), cpu \in 0..(ncpu - 1) : place = Cell(i, cpu)
      BY <2>3 DEF Listed
    <3>2. i \in 0..(Len(counters') - 1)
      BY <2>2
    <3>3. QED BY <3>1, <3>2
  <2>6. \A d \in Counter \ C!Registered' : added'[d] = 0
    BY <2>2, <2>3 DEF Listed
  <2>7. QED BY <2>4, <2>5, <2>6 DEF Listed, Cell, C!Place, C!InfoOf
(* Cells of a registered counter are allocated.                            *)
<1>3. ASSUME NEW c \in C!Registered, NEW cpu \in 0..(ncpu - 1),
             UNCHANGED <<counters, index, info>>,
             DOMAIN values' \subseteq DOMAIN values \cup {C!Place(C!Where(c), cpu)},
             \A d \in Counter \ C!Registered : added'[d] = added[d]
      PROVE  Listed'
  <2>1. index[c] \in 0..(Len(counters) - 1) /\ C!Place(C!Where(c), cpu) = Cell(index[c], cpu)
    BY <1>0, WhereListed DEF Cell
  <2>2. ASSUME NEW place \in DOMAIN values'
        PROVE  \E i \in 0..(Len(counters') - 1), k \in 0..(ncpu - 1) : place = Cell(i, k)
    BY <1>3, <2>1 DEF Listed
  <2>3. C!Registered' = C!Registered
    BY <1>3 DEF C!Registered
  <2>4. QED BY <1>3, <2>2, <2>3 DEF Listed, Cell, C!Place, C!InfoOf
<1>4. ASSUME NEW t \in Thread, C!AddEnd(t) PROVE Listed'
  <2>0. at[t].at = "store"
    BY <1>4 DEF C!AddEnd
  <2>1. at[t].counter \in C!Registered /\ at[t].cpu \in 0..(ncpu - 1) /\ at[t].value + 1 \in Nat
        /\ at[t].counter \in Counter
    <3>1. at[t].counter \in C!Registered
      BY <2>0 DEF Locked
    <3>2. at[t].counter \in Counter /\ at[t].cpu \in CPU /\ at[t].value \in Nat
      BY <1>0, <2>0, StoreFields
    <3>3. at[t].cpu \in 0..(ncpu - 1)
      BY <1>0, <3>2
    <3>4. at[t].value + 1 \in Nat
      BY <3>2
    <3>5. QED BY <3>1, <3>2, <3>3, <3>4
  <2>2. DOMAIN values' \subseteq DOMAIN values \cup {C!Place(C!Where(at[t].counter), at[t].cpu)}
    BY <1>0, <1>4, <2>1, StoreChanges DEF C!AddEnd
  <2>3. \A d \in Counter \ C!Registered : added'[d] = added[d]
    BY <1>4, <2>1 DEF C!AddEnd, C!TypeOK
  <2>4. QED BY <1>3, <1>4, <2>1, <2>2, <2>3 DEF C!AddEnd
<1>5. ASSUME NEW t \in Thread, C!Clear(t) PROVE Listed'
  <2>1. CASE at[t].next = ncpu
    BY <1>1, <1>5, <2>1 DEF C!Clear
  <2>2. CASE at[t].next # ncpu
    <3>1. at[t].counter \in C!Registered /\ at[t].next \in 0..(ncpu - 1)
      BY <1>0, <1>5, <2>2, ResetFields DEF C!Clear, Locked
    <3>2. DOMAIN values' \subseteq DOMAIN values \cup
          {C!Place(C!Where(at[t].counter), at[t].next)}
      BY <1>0, <1>5, <2>2, StoreChanges DEF C!Clear
    <3>3. QED BY <1>3, <1>5, <3>1, <3>2 DEF C!Clear
  <2>3. QED BY <2>1, <2>2
<1>6. ASSUME NEW t \in Thread, NEW c \in Counter, C!Reset(t, c) PROVE Listed'
  <2>1. c \in C!Registered /\ added' = [added EXCEPT ![c] = 0]
    BY <1>6 DEF C!Reset, C!Usable
  <2>2. \A d \in Counter \ C!Registered : added'[d] = added[d]
    BY <2>1 DEF C!TypeOK
  <2>3. 0 \in 0..(ncpu - 1)
    BY <1>0
  <2>4. QED BY <1>3, <1>6, <2>1, <2>2, <2>3 DEF C!Reset
<1>7. QED
  BY <1>1, <1>2, <1>4, <1>5, <1>6
     DEF C!Next, C!Schedule, C!Register, C!Notify, C!Add, C!Load, C!Get, C!Read, C!OpenRemote,
         C!Discover, C!vars

(* Infos never change, so what was read from them stays true.              *)
LEMMA FoundStep == ASSUME Numbered, CountersIInv, [C!Next]_(C!vars) PROVE Found'
<1> USE DEF CountersIInv
<1>0. C!TypeOK /\ n_counters \in 0..Len(counters) /\ counters \in Seq(Counter)
  BY DEF C!TypeOK
<1>1. ASSUME UNCHANGED <<counters, n_counters, remote>> PROVE Found'
  BY <1>1 DEF Found, C!InfoOf
<1>2. ASSUME NEW t \in Thread, C!FillIn(t) PROVE Found'
  <2>1. at[t].counter \in Counter /\ counters' = Append(counters, at[t].counter)
        /\ UNCHANGED <<n_counters, remote>>
    BY <1>0, <1>2, FieldTypes DEF C!FillIn
  <2>2. \A i \in DOMAIN counters : counters'[i] = counters[i]
    BY <1>0, <2>1, Appended
  <2>3. DOMAIN counters = 1..Len(counters)
    BY <1>0
  <2>4. remote # None => \A i \in 1..remote.n : counters'[i] = counters[i]
    BY <1>0, <2>2, <2>3 DEF Found
  <2>5. QED BY <2>1, <2>4 DEF Found, C!InfoOf
<1>3. ASSUME NEW t \in Thread, C!Notify(t) PROVE Found'
  BY <1>0, <1>3 DEF C!Notify, Found, C!InfoOf
<1>4. ASSUME C!OpenRemote PROVE Found'
  BY <1>0, <1>4 DEF C!OpenRemote, Found
<1>5. ASSUME C!Discover PROVE Found'
  <2>1. remote = [n |-> remote.n, found |-> remote.found] /\ remote.n \in 0..n_counters
    BY <1>5 DEF C!Discover, Found
  <2>2. ASSUME NEW i \in 1..remote.n
        PROVE  (IF i - 1 \in DOMAIN info THEN info[i - 1] ELSE None) = counters[i]
    <3>1. i \in DOMAIN counters
      BY <1>0, <2>1
    <3>2. QED BY <3>1 DEF Listed
  <2> DEFINE all == [i \in 1..remote.n |-> [counter |-> counters[i], place |-> C!InfoOf(i - 1)]]
  <2>3. remote' = [remote EXCEPT !.found = all]
    BY <1>5, <2>2 DEF C!Discover
  <2>4. remote'.n = remote.n /\ remote'.found = all
        /\ remote' = [n |-> remote'.n, found |-> remote'.found]
    BY <2>1, <2>3
  <2>5. UNCHANGED <<counters, n_counters>>
    BY <1>5 DEF C!Discover
  <2>6. QED BY <2>1, <2>4, <2>5 DEF Found, C!InfoOf
<1>6. QED
  BY <1>1, <1>2, <1>3, <1>4, <1>5
     DEF C!Next, C!Schedule, C!Register, C!Add, C!Load, C!AddEnd, C!Get, C!Read, C!Reset,
         C!Clear, C!vars

-----------------------------------------------------------------------------
(* Cells that nobody stores to stay as they are.                           *)
LEMMA CellsKept ==
  ASSUME C!TypeOK, NEW c, index'[c] = index[c],
         \A k \in 0..(ncpu - 1) :
           C!Stored(C!Place(C!Where(c), k))' = C!Stored(C!Place(C!Where(c), k))
  PROVE  C!Cells(c)' = C!Cells(c)
BY DEF C!Cells, C!Where

(* In particular when the arena is not written at all.                     *)
LEMMA NothingStored ==
  ASSUME C!TypeOK, NEW c, index'[c] = index[c], values' = values
  PROVE  C!Cells(c)' = C!Cells(c)
BY DEF C!Cells, C!Where, C!Stored, C!Place, C!InfoOf

LEMMA HeldIs ==
  \A c : C!Held(c) = C!SumTo(C!Cells(c))[ncpu] /\ C!Held(c)' = C!SumTo(C!Cells(c)')[ncpu]
BY DEF C!Held

(* The CPU of whoever is in an update is one of those with a cell.         *)
LEMMA UpdateFields ==
  ASSUME Numbered, C!TypeOK, NEW t \in Thread, C!Updating(t)
  PROVE  at[t].counter \in Counter /\ at[t].cpu \in CPU /\ at[t].cpu \in 0..(ncpu - 1)
<1>1. at[t].at \in {"load", "store"}
  BY DEF C!Updating
<1>2. at[t].counter \in Counter /\ at[t].cpu \in CPU
  BY <1>1, FieldTypes
<1>3. QED BY <1>2 DEF Numbered

(* What other threads loaded stays where it is, when one stores.           *)
LEMMA OthersUndivided ==
  ASSUME Numbered, CountersIInv, Undivided, NEW t \in Thread,
         UNCHANGED <<running, index>>,
         \A u \in Thread \ {t} : at'[u] = at[u],
         ~C!Updating(t)',
         \A u \in Thread \ {t} : at[u].at = "store" =>
           C!Stored(C!Place(C!Where(at[u].counter), at[u].cpu))' =
             C!Stored(C!Place(C!Where(at[u].counter), at[u].cpu))
  PROVE  Undivided'
<1>1. ASSUME NEW u \in Thread \ {t}, at[u].at = "store"
      PROVE  (at[u].value = C!Stored(C!Place(C!Where(at[u].counter), at[u].cpu)))'
  BY <1>1 DEF Undivided
<1>2. \A u \in Thread : C!Updating(u)' => (running[at[u].cpu] = u)'
  BY DEF Undivided, C!Updating
<1>3. ASSUME NEW u \in Thread, (at[u].at = "store")'
      PROVE  (at[u].value = C!Stored(C!Place(C!Where(at[u].counter), at[u].cpu)))'
  BY <1>1, <1>3 DEF C!Updating
<1>4. QED BY <1>2, <1>3 DEF Undivided

(* Nobody stores to the cell another thread is about to store to.          *)
LEMMA UndividedStep ==
  ASSUME Numbered, CountersIInv, Undivided, Passing, C!Next, ~disturbed'
  PROVE  Undivided'
<1> USE DEF CountersIInv
<1>0. C!TypeOK /\ None \notin Thread /\ C!ConstantsType
  BY DEF Numbered, C!ConstantsType
<1>1. ASSUME UNCHANGED <<running, at, index, values>> PROVE Undivided'
  BY <1>1 DEF Undivided, C!Updating, C!Stored, C!Where, C!Place, C!InfoOf
<1>2. ASSUME NEW cpu \in CPU, NEW t \in Thread \cup {None}, C!Schedule(cpu, t) PROVE Undivided'
  <2>1. running[cpu] # None => ~C!Updating(running[cpu])
    BY <1>2 DEF C!Schedule
  <2>2. UNCHANGED <<at, index, values>> /\ running' = [running EXCEPT ![cpu] = t]
    BY <1>2 DEF C!Schedule
  <2>3. ASSUME NEW u \in Thread, C!Updating(u) PROVE running'[at[u].cpu] = u
    <3>1. running[at[u].cpu] = u /\ at[u].cpu \in CPU
      BY <1>0, <2>3, UpdateFields DEF Undivided
    <3>2. at[u].cpu # cpu
      BY <1>0, <2>1, <2>3, <3>1
    <3>3. QED BY <2>2, <3>1, <3>2 DEF C!TypeOK
  <2>4. QED BY <2>2, <2>3 DEF Undivided, C!Updating, C!Stored, C!Where, C!Place, C!InfoOf
(* Steps that store nothing, and end outside of an update.                 *)
<1>3. ASSUME NEW t \in Thread, UNCHANGED <<running, index, values>>,
             \A u \in Thread \ {t} : at'[u] = at[u], ~C!Updating(t)'
      PROVE  Undivided'
  BY <1>3, OthersUndivided DEF C!Stored, C!Where, C!Place, C!InfoOf
<1>4. ASSUME NEW t \in Thread, NEW c \in Counter, C!Register(t, c) \/ C!Get(t, c)
               \/ C!Reset(t, c)
      PROVE  Undivided'
  <2>1. /\ at'[t].at \in {"register", "get", "reset"}
        /\ \A u \in Thread \ {t} : at'[u] = at[u]
    <3>1. CASE C!Register(t, c)
      BY <1>0, <3>1, Moved DEF C!Register
    <3>2. CASE C!Get(t, c)
      BY <1>0, <3>2, Moved DEF C!Get
    <3>3. CASE C!Reset(t, c)
      BY <1>0, <3>3, Moved DEF C!Reset
    <3>4. QED BY <1>4, <3>1, <3>2, <3>3
  <2>2. ~C!Updating(t)'
    BY <2>1 DEF C!Updating
  <2>3. QED BY <1>3, <1>4, <2>1, <2>2 DEF C!Register, C!Get, C!Reset
<1>5. ASSUME NEW t \in Thread, C!Notify(t) PROVE Undivided'
  <2>1. at'[t] = C!Idle /\ \A u \in Thread \ {t} : at'[u] = at[u]
    BY <1>0, <1>5, Moved DEF C!Notify
  <2>2. ~C!Updating(t)'
    BY <2>1 DEF C!Updating, C!Idle
  <2>3. QED BY <1>3, <1>5, <2>1, <2>2 DEF C!Notify
<1>6. ASSUME NEW t \in Thread, C!Read(t) PROVE Undivided'
  <2>1. at'[t].at \in {"idle", "get"} /\ \A u \in Thread \ {t} : at'[u] = at[u]
    <3>1. CASE at[t].next = ncpu
      BY <1>0, <1>6, <3>1, Moved DEF C!Read, C!Idle
    <3>2. CASE at[t].next # ncpu
      <4>1. at'[t] = [at[t] EXCEPT !.next = @ + 1,
                        !.value = @ + C!Stored(C!Place(C!Where(at[t].counter), at[t].next))]
            /\ \A u \in Thread \ {t} : at'[u] = at[u]
        BY <1>0, <1>6, <3>2, Moved DEF C!Read
      <4>2. QED BY <1>0, <1>6, <4>1, GetFields DEF C!Read
    <3>3. QED BY <3>1, <3>2
  <2>2. ~C!Updating(t)'
    BY <2>1 DEF C!Updating
  <2>3. QED BY <1>3, <1>6, <2>1, <2>2 DEF C!Read
<1>7. ASSUME NEW t \in Thread, C!FillIn(t) PROVE Undivided'
  <2>0. at[t].at = "register"
    BY <1>7 DEF C!FillIn
  <2>1. at'[t].at = "notify" /\ \A u \in Thread \ {t} : at'[u] = at[u]
    BY <1>0, <1>7, Moved DEF C!FillIn
  <2>2. ASSUME NEW u \in Thread \ {t}, at[u].at \in {"load", "store"}
        PROVE  index'[at[u].counter] = index[at[u].counter]
    <3>1. at[u].counter # at[t].counter
      BY <2>0, <2>2 DEF Locked
    <3>2. index' = [index EXCEPT ![at[t].counter] = at[t].index]
      BY <1>7 DEF C!FillIn
    <3>3. QED BY <3>1, <3>2 DEF C!TypeOK
  <2>3. UNCHANGED <<running, values>>
    BY <1>7 DEF C!FillIn
  <2>4. QED BY <2>1, <2>2, <2>3 DEF Undivided, C!Updating, C!Stored, C!Where, C!Place, C!InfoOf
<1>8. ASSUME NEW t \in Thread, NEW c \in Counter, C!Add(t, c) PROVE Undivided'
  <2>1. PICK cpu \in CPU : running[cpu] = t
             /\ C!Move(t, [at |-> "load", counter |-> c, cpu |-> cpu])
    BY <1>8 DEF C!Add
  <2>2. /\ at'[t] = [at |-> "load", counter |-> c, cpu |-> cpu]
        /\ \A u \in Thread \ {t} : at'[u] = at[u]
    BY <1>0, <2>1, Moved
  <2>3. UNCHANGED <<running, values, index>>
    BY <1>8 DEF C!Add
  <2>4. QED BY <2>1, <2>2, <2>3 DEF Undivided, C!Updating, C!Stored, C!Where, C!Place, C!InfoOf
<1>9. ASSUME NEW t \in Thread, C!Load(t) PROVE Undivided'
  <2>1. /\ at'[t] = [at |-> "store", counter |-> at[t].counter, cpu |-> at[t].cpu,
                     value |-> C!Stored(C!Place(C!Where(at[t].counter), at[t].cpu))]
        /\ \A u \in Thread \ {t} : at'[u] = at[u]
    BY <1>0, <1>9, Moved DEF C!Load
  <2>2. UNCHANGED <<running, values, index>> /\ C!Updating(t)
    BY <1>9 DEF C!Load, C!Updating
  <2>3. QED BY <2>1, <2>2 DEF Undivided, C!Updating, C!Stored, C!Where, C!Place, C!InfoOf
<1>10. ASSUME NEW t \in Thread, C!AddEnd(t) PROVE Undivided'
  <2>0. at[t].at = "store" /\ C!Updating(t)
    BY <1>10 DEF C!AddEnd, C!Updating
  <2>1. at'[t] = C!Idle /\ \A u \in Thread \ {t} : at'[u] = at[u]
    BY <1>0, <1>10, Moved DEF C!AddEnd
  <2>2. at[t].counter \in C!Registered /\ at[t].cpu \in 0..(ncpu - 1) /\ at[t].cpu \in CPU
    BY <1>0, <2>0, UpdateFields DEF Locked
  <2>3. \A p : C!Stored(p)' = IF p = C!Place(C!Where(at[t].counter), at[t].cpu)
        THEN at[t].value + 1 ELSE C!Stored(p)
    BY <1>0, <1>10, <2>0, StoreFields, StoreChanges DEF C!AddEnd
  <2>4. ASSUME NEW u \in Thread \ {t}, at[u].at = "store"
        PROVE  C!Place(C!Where(at[u].counter), at[u].cpu) #
                  C!Place(C!Where(at[t].counter), at[t].cpu)
    <3>1. C!Updating(u)
      BY <2>4 DEF C!Updating
    <3>2. at[u].counter \in C!Registered /\ at[u].cpu \in 0..(ncpu - 1) /\ at[u].cpu \in CPU
      BY <1>0, <2>4, <3>1, UpdateFields DEF Locked
    <3>3. running[at[u].cpu] = u /\ running[at[t].cpu] = t
      BY <2>0, <3>1 DEF Undivided
    <3>4. at[u].cpu # at[t].cpu
      BY <3>3
    <3>5. QED BY <1>0, <2>2, <3>2, <3>4, Apart
  <2>5. UNCHANGED <<running, index>>
    BY <1>10 DEF C!AddEnd
  <2>6. ASSUME NEW u \in Thread \ {t}, at[u].at = "store"
        PROVE  C!Stored(C!Place(C!Where(at[u].counter), at[u].cpu))' =
                 C!Stored(C!Place(C!Where(at[u].counter), at[u].cpu))
    <3> PICK p : p = C!Place(C!Where(at[u].counter), at[u].cpu)
      OBVIOUS
    <3>1. C!Stored(p)' = C!Stored(p)
      BY <2>3, <2>4, <2>6
    <3>2. C!Stored(C!Place(C!Where(at[u].counter), at[u].cpu))' = C!Stored(p)'
      BY <2>1, <2>5 DEF C!Stored, C!Where, C!Place, C!InfoOf
    <3>3. QED BY <3>1, <3>2
  <2>7. ~C!Updating(t)'
    BY <2>1 DEF C!Updating, C!Idle
  <2>8. QED BY <2>1, <2>5, <2>6, <2>7, OthersUndivided
<1>11. ASSUME NEW t \in Thread, C!Clear(t) PROVE Undivided'
  <2>0. at[t].at = "reset"
    BY <1>11 DEF C!Clear
  <2>1. UNCHANGED <<running, index>>
    BY <1>11 DEF C!Clear
  <2>2. CASE at[t].next = ncpu
    <3>1. at'[t] = C!Idle /\ \A u \in Thread \ {t} : at'[u] = at[u]
      BY <1>0, <1>11, <2>2, Moved DEF C!Clear
    <3>2. ~C!Updating(t)'
      BY <3>1 DEF C!Updating, C!Idle
    <3>3. values' = values
      BY <1>11, <2>2 DEF C!Clear
    <3>4. QED BY <1>3, <2>1, <3>1, <3>2, <3>3
  <2>3. CASE at[t].next # ncpu
    <3>1. at'[t] = [at[t] EXCEPT !.next = @ + 1] /\ \A u \in Thread \ {t} : at'[u] = at[u]
      BY <1>0, <1>11, <2>3, Moved DEF C!Clear
    <3>2. ~C!Updating(t)'
      BY <1>0, <2>0, <3>1, ResetFields DEF C!Updating
    <3>3. at[t].counter \in C!Registered /\ at[t].next \in 0..(ncpu - 1)
      BY <1>0, <2>0, <2>3, ResetFields DEF Locked, C!ConstantsType
    <3>4. \A p : C!Stored(p)' = IF p = C!Place(C!Where(at[t].counter), at[t].next)
          THEN 0 ELSE C!Stored(p)
      BY <1>0, <1>11, <2>3, StoreChanges DEF C!Clear
    <3>5. ASSUME NEW u \in Thread \ {t}, at[u].at = "store"
          PROVE  C!Stored(C!Place(C!Where(at[u].counter), at[u].cpu))' =
                   C!Stored(C!Place(C!Where(at[u].counter), at[u].cpu))
      <4>1. C!Updating(u)
        BY <3>5 DEF C!Updating
      <4>2. at[u].counter \in C!Registered /\ at[u].cpu \in 0..(ncpu - 1)
        BY <1>0, <3>5, <4>1, UpdateFields DEF Locked
      <4>3. at[u].counter # at[t].counter
        <5>1. at[t].counter \in Counter
          BY <1>0, <2>0, ResetFields
        <5>2. QED BY <2>0, <4>1, <5>1 DEF Passing
      <4> PICK p : p = C!Place(C!Where(at[u].counter), at[u].cpu)
        OBVIOUS
      <4>4. p # C!Place(C!Where(at[t].counter), at[t].next)
        BY <1>0, <3>3, <4>2, <4>3, Apart
      <4>5. C!Stored(p)' = C!Stored(p)
        BY <3>4, <4>4
      <4>6. C!Stored(C!Place(C!Where(at[u].counter), at[u].cpu))' = C!Stored(p)'
        BY <2>1, <3>1 DEF C!Stored, C!Where, C!Place, C!InfoOf
      <4>7. QED BY <4>5, <4>6
    <3>6. QED BY <2>1, <3>1, <3>2, <3>5, OthersUndivided
  <2>4. QED BY <2>2, <2>3
<1>12. QED
  BY <1>1, <1>2, <1>4, <1>5, <1>6, <1>7, <1>8, <1>9, <1>10, <1>11
     DEF C!Next, C!OpenRemote, C!Discover

-----------------------------------------------------------------------------
(* A step in which no cell of what is read or reset changes.               *)
LEMMA PassingKept ==
  ASSUME Numbered, CountersIInv, Passing, NEW t \in Thread,
         UNCHANGED added,
         \A c \in C!Registered : C!Cells(c)' = C!Cells(c),
         \A u \in Thread \ {t} : at'[u] = at[u],
         at'[t].at \notin {"get", "reset"},
         C!Updating(t)' => C!Updating(t) /\ at'[t].counter = at[t].counter
  PROVE  Passing'
<1>1. \A u \in Thread : at[u].at \in {"get", "reset"} => at[u].counter \in C!Registered
  BY DEF CountersIInv, Locked
<1>2. \A u \in Thread : C!Updating(u)' => C!Updating(u) /\ at'[u].counter = at[u].counter
  BY DEF C!Updating
<1>3. \A u \in Thread : at'[u].at \in {"get", "reset"} => at'[u] = at[u]
  OBVIOUS
<1>4. QED BY <1>1, <1>2, <1>3 DEF Passing

(* Cells of other counters than the one stored to stay as they are.        *)
LEMMA OthersKept ==
  ASSUME Numbered, CountersIInv, NEW c \in C!Registered, NEW k \in 0..(ncpu - 1), NEW n \in Nat,
         C!Store(C!Place(C!Where(c), k), n), UNCHANGED index
  PROVE  /\ \A d \in C!Registered \ {c} : C!Cells(d)' = C!Cells(d)
         /\ C!Cells(c)' \in [0..(ncpu - 1) -> Nat]
         /\ (C!Cells(c)')[k] = n
         /\ \A l \in 0..(ncpu - 1) \ {k} : (C!Cells(c)')[l] = C!Cells(c)[l]
<1>0. C!TypeOK /\ Listed /\ C!ConstantsType
  BY DEF CountersIInv, Numbered
<1>1. \A p : C!Stored(p)' = IF p = C!Place(C!Where(c), k) THEN n ELSE C!Stored(p)
  BY <1>0, StoreChanges
<1>2. ASSUME NEW d \in C!Registered, NEW l \in 0..(ncpu - 1)
      PROVE  (C!Cells(d)')[l] = IF d = c /\ l = k THEN n ELSE C!Cells(d)[l]
  <2> PICK p : p = C!Place(C!Where(d), l)
    OBVIOUS
  <2>1. (C!Cells(d)')[l] = C!Stored(p)'
    BY DEF C!Cells, C!Stored, C!Where, C!Place, C!InfoOf
  <2>2. C!Cells(d)[l] = C!Stored(p)
    BY DEF C!Cells
  <2>3. p = C!Place(C!Where(c), k) <=> d = c /\ l = k
    BY <1>0, Apart
  <2>4. QED BY <1>1, <2>1, <2>2, <2>3
<1>3. ASSUME NEW d \in C!Registered PROVE DOMAIN C!Cells(d)' = 0..(ncpu - 1)
             /\ DOMAIN C!Cells(d) = 0..(ncpu - 1)
  BY DEF C!Cells
<1>4. \A d \in C!Registered \ {c} : C!Cells(d)' = C!Cells(d)
  BY <1>2, <1>3 DEF C!Cells
<1>5. C!Cells(c)' \in [0..(ncpu - 1) -> Nat]
  BY <1>0, <1>2, CellsType DEF C!Cells
<1>6. QED BY <1>2, <1>4, <1>5
LEMMA SumsTyped ==
  ASSUME C!ConstantsType, C!TypeOK, NEW c, NEW n \in 0..ncpu
  PROVE  /\ C!SumTo(C!Cells(c))[n] \in Nat /\ C!SumTo(C!Cells(c))[0] = 0
            /\ C!SumTo(C!Cells(c))[ncpu] \in Nat
         /\ n < ncpu => C!SumTo(C!Cells(c))[n + 1] = C!SumTo(C!Cells(c))[n] + C!Cells(c)[n]
<1>1. ncpu \in Nat
  BY DEF C!ConstantsType
<1>2. C!Cells(c) \in [0..(ncpu - 1) -> Nat]
  BY CellsType
<1> PICK v : v = C!Cells(c)
  OBVIOUS
<1>3. /\ C!SumTo(v) \in [0..ncpu -> Nat] /\ C!SumTo(v)[0] = 0
      /\ \A k \in 0..(ncpu - 1) : C!SumTo(v)[k + 1] = C!SumTo(v)[k] + v[k]
  BY <1>1, <1>2, SumsAre
<1>4. QED BY <1>1, <1>3

(* The end of an update shows in every sum its cell is part of.            *)
LEMMA AddedUp ==
  ASSUME Numbered, CountersIInv, Undivided, NEW t \in Thread, C!AddEnd(t), NEW c,
         c = at[t].counter
  PROVE  /\ c \in C!Registered /\ c \in Counter /\ C!Updating(t)
         /\ added' = [added EXCEPT ![c] = @ + 1]
         /\ at'[t] = C!Idle /\ \A u \in Thread \ {t} : at'[u] = at[u]
         /\ \A d \in C!Registered \ {c} : C!Cells(d)' = C!Cells(d)
         /\ \A n \in 0..ncpu : \/ C!SumTo(C!Cells(c)')[n] = C!SumTo(C!Cells(c))[n]
                               \/ C!SumTo(C!Cells(c)')[n] = C!SumTo(C!Cells(c))[n] + 1
         /\ C!SumTo(C!Cells(c)')[ncpu] = C!SumTo(C!Cells(c))[ncpu] + 1
<1>0. C!TypeOK /\ C!ConstantsType /\ ncpu \in Nat \ {0}
  BY DEF CountersIInv, Numbered, C!ConstantsType
<1>1. at[t].at = "store" /\ C!Updating(t)
  BY DEF C!AddEnd, C!Updating
<1>2. c \in C!Registered /\ c \in Counter
  BY <1>0, <1>1, StoreFields DEF CountersIInv, Locked
<1> PICK k : k = at[t].cpu
  OBVIOUS
<1>3. k \in 0..(ncpu - 1) /\ at[t].value \in Nat
  BY <1>0, <1>1, StoreFields, UpdateFields
<1>4. at'[t] = C!Idle /\ \A u \in Thread \ {t} : at'[u] = at[u]
  BY <1>0, Moved DEF C!AddEnd
<1>5. /\ UNCHANGED index /\ added' = [added EXCEPT ![c] = @ + 1]
      /\ C!Store(C!Place(C!Where(c), k), at[t].value + 1)
  BY DEF C!AddEnd
<1>6. at[t].value = C!Cells(c)[k]
  BY <1>1, <1>3 DEF Undivided, C!Cells
<1>7. at[t].value + 1 \in Nat
  BY <1>3
<1>8. /\ \A d \in C!Registered \ {c} : C!Cells(d)' = C!Cells(d)
      /\ C!Cells(c)' \in [0..(ncpu - 1) -> Nat]
      /\ (C!Cells(c)')[k] = at[t].value + 1
      /\ \A l \in 0..(ncpu - 1) \ {k} : (C!Cells(c)')[l] = C!Cells(c)[l]
  BY <1>2, <1>3, <1>5, <1>7, OthersKept
<1>9. C!Cells(c) \in [0..(ncpu - 1) -> Nat]
  BY <1>0, CellsType
<1> PICK w : w = C!Cells(c)'
  OBVIOUS
<1> PICK v : v = C!Cells(c)
  OBVIOUS
<1>10. \A n \in 0..ncpu : C!SumTo(w)[n] = C!SumTo(v)[n] + (IF n > k THEN 1 ELSE 0)
  <2>1. w[k] = v[k] + 1 /\ \A l \in 0..(ncpu - 1) : l # k => w[l] = v[l]
    BY <1>6, <1>8
  <2>2. w \in [0..(ncpu - 1) -> Nat] /\ v \in [0..(ncpu - 1) -> Nat] /\ ncpu \in Nat
    BY <1>0, <1>8, <1>9
  <2>3. QED BY <1>3, <2>1, <2>2, SumBumped
<1>11. \A n \in 0..ncpu : C!SumTo(v)[n] \in Nat
  BY <1>0, <1>9, SumsAre
<1>12. \A n \in 0..ncpu : C!SumTo(w)[n] = C!SumTo(v)[n] \/ C!SumTo(w)[n] = C!SumTo(v)[n] + 1
  BY <1>10, <1>11
<1>13. C!SumTo(w)[ncpu] = C!SumTo(v)[ncpu] + 1
  BY <1>0, <1>3, <1>10
<1>14. QED BY <1>1, <1>2, <1>4, <1>5, <1>8, <1>12, <1>13

(* A cell is cleared, none of another counter is.                          *)
LEMMA Cleared ==
  ASSUME Numbered, CountersIInv, NEW t \in Thread, C!Clear(t),
         at[t].next # ncpu, NEW c, c = at[t].counter
  PROVE  /\ c \in C!Registered /\ c \in Counter /\ at[t].at = "reset"
            /\ at[t].next \in 0..(ncpu - 1)
         /\ at'[t] = [at |-> "reset", counter |-> c, next |-> at[t].next + 1]
         /\ \A u \in Thread \ {t} : at'[u] = at[u]
         /\ \A d \in C!Registered \ {c} : C!Cells(d)' = C!Cells(d)
         /\ (C!Cells(c)')[at[t].next] = 0
         /\ \A l \in 0..(ncpu - 1) \ {at[t].next} : (C!Cells(c)')[l] = C!Cells(c)[l]
<1>0. C!TypeOK /\ C!ConstantsType /\ ncpu \in Nat \ {0}
  BY DEF CountersIInv, Numbered, C!ConstantsType
<1>1. at[t].at = "reset"
  BY DEF C!Clear
<1>2. c \in C!Registered /\ c \in Counter /\ at[t].next \in 0..(ncpu - 1)
  BY <1>0, <1>1, ResetFields DEF CountersIInv, Locked
<1>3. at'[t] = [at[t] EXCEPT !.next = @ + 1] /\ \A u \in Thread \ {t} : at'[u] = at[u]
  BY <1>0, Moved DEF C!Clear
<1>4. at'[t] = [at |-> "reset", counter |-> c, next |-> at[t].next + 1]
  BY <1>0, <1>1, <1>3, ResetFields
<1>5. UNCHANGED index /\ C!Store(C!Place(C!Where(c), at[t].next), 0)
  BY DEF C!Clear
<1>6. /\ \A d \in C!Registered \ {c} : C!Cells(d)' = C!Cells(d)
      /\ (C!Cells(c)')[at[t].next] = 0
      /\ \A l \in 0..(ncpu - 1) \ {at[t].next} : (C!Cells(c)')[l] = C!Cells(c)[l]
  BY <1>2, <1>5, OthersKept
<1>7. QED BY <1>1, <1>2, <1>3, <1>4, <1>6

(* A new counter's cells are free, those of others are where they were.    *)
LEMMA FilledIn ==
  ASSUME Numbered, CountersIInv, NEW t \in Thread, C!FillIn(t), NEW c, c = at[t].counter
  PROVE  /\ c \in Counter \ C!Registered /\ C!Registered' = C!Registered \cup {c}
         /\ at'[t] = [at |-> "notify", counter |-> c]
         /\ \A u \in Thread \ {t} : at'[u] = at[u]
         /\ \A d \in C!Registered : C!Cells(d)' = C!Cells(d)
         /\ C!Cells(c)' \in [0..(ncpu - 1) -> Nat]
         /\ \A k \in 0..(ncpu - 1) : (C!Cells(c)')[k] = 0
<1>0. C!TypeOK /\ Listed /\ C!ConstantsType /\ Len(counters) \in Nat
  BY DEF CountersIInv, Numbered, C!TypeOK
<1>1. at[t].at = "register" /\ counters' = Append(counters, c) /\ values' = values
      /\ index' = [index EXCEPT ![c] = at[t].index]
  BY DEF C!FillIn
<1>2. c \in Counter /\ at[t].index = Len(counters) /\ c \notin C!Registered
  BY <1>0, <1>1, FieldTypes DEF CountersIInv, Locked
<1>3. at'[t] = [at |-> "notify", counter |-> c] /\ \A u \in Thread \ {t} : at'[u] = at[u]
  BY <1>0, Moved DEF C!FillIn
<1>4. C!Registered' = C!Registered \cup {c}
  BY <1>0, <1>1, <1>2, Appended
<1>5. index'[c] = Len(counters) /\ \A d \in C!Registered : index'[d] = index[d]
  <2>1. C!Registered \subseteq Counter
    BY <1>0, WhereListed
  <2>2. QED BY <1>1, <1>2, <2>1 DEF C!TypeOK, CountersIInv
<1>6. \A d \in C!Registered : C!Cells(d)' = C!Cells(d)
  BY <1>0, <1>1, <1>5, NothingStored
<1>7. ASSUME NEW k \in 0..(ncpu - 1) PROVE (C!Cells(c)')[k] = 0
  <2>1. (C!Cells(c)')[k] = C!Stored(C!Place(C!InfoOf(Len(counters)), k))
    <3> PICK n : n = Len(counters)
      OBVIOUS
    <3>1. (C!Cells(c)')[k] = C!Stored(C!Place(C!Where(c), k))'
      BY DEF C!Cells
    <3>2. C!Where(c)' = C!InfoOf(n)
      BY <1>5 DEF C!Where, C!InfoOf
    <3>3. C!Stored(C!Place(C!Where(c), k))' = C!Stored(C!Place(C!InfoOf(n), k))
      BY <1>1, <3>2 DEF C!Stored, C!Place
    <3>4. QED BY <3>1, <3>3
  <2>2. ASSUME C!Place(C!InfoOf(Len(counters)), k) \in DOMAIN values PROVE FALSE
    <3>1. PICK i \in 0..(Len(counters) - 1), l \in 0..(ncpu - 1) :
            C!Place(C!InfoOf(Len(counters)), k) = C!Place(C!InfoOf(i), l)
      BY <1>0, <2>2 DEF Listed, Cell
    <3>2. i = Len(counters)
      BY <1>0, <3>1, PlacesDiffer
    <3>3. QED BY <1>0, <3>2
  <2>3. QED BY <2>1, <2>2 DEF C!Stored
<1>8. C!Cells(c)' \in [0..(ncpu - 1) -> Nat]
  BY <1>7 DEF C!Cells
<1>9. QED BY <1>2, <1>3, <1>4, <1>6, <1>7, <1>8

(* So every registered counter keeps its cells when nothing is stored.     *)
LEMMA StillRegistered ==
  ASSUME C!TypeOK, Listed, UNCHANGED <<index, values>>
  PROVE  \A c \in C!Registered : C!Cells(c)' = C!Cells(c)
BY NothingStored

(* A reading adds a cell to both sides, an update to the later one.        *)
LEMMA PassingStep ==
  ASSUME Numbered, CountersIInv, Undivided, Passing, Counted, C!Next, ~disturbed'
  PROVE  Passing'
<1> USE DEF CountersIInv
<1>0. C!TypeOK /\ Listed /\ C!ConstantsType /\ ncpu \in Nat \ {0} /\ Counter \subseteq Nat
  BY DEF Numbered, C!ConstantsType
<1>a. \A u \in Thread : at[u].at \in {"get", "reset"} =>
        at[u].counter \in C!Registered /\ at[u].counter \in Counter
  BY <1>0, WhereListed DEF Locked
<1>1. ASSUME UNCHANGED <<at, index, values, added>> PROVE Passing'
  <2>1. \A c : C!Cells(c)' = C!Cells(c)
    BY <1>0, <1>1, NothingStored
  <2>2. QED BY <1>1, <2>1 DEF Passing, C!Updating
<1>2. ASSUME NEW t \in Thread, NEW c \in Counter, C!Register(t, c) PROVE Passing'
  <2>1. at'[t].at = "register" /\ \A u \in Thread \ {t} : at'[u] = at[u]
    BY <1>0, <1>2, Moved DEF C!Register
  <2>2. UNCHANGED <<index, values, added>>
    BY <1>2 DEF C!Register
  <2>3. \A d \in C!Registered : C!Cells(d)' = C!Cells(d)
    BY <1>0, <2>2, StillRegistered
  <2>4. ~C!Updating(t)'
    BY <2>1 DEF C!Updating
  <2>5. QED BY <2>1, <2>2, <2>3, <2>4, PassingKept
<1>3. ASSUME NEW t \in Thread, C!FillIn(t) PROVE Passing'
  <2> PICK c : c = at[t].counter
    OBVIOUS
  <2>1. /\ at'[t] = [at |-> "notify", counter |-> c]
        /\ \A u \in Thread \ {t} : at'[u] = at[u]
        /\ \A d \in C!Registered : C!Cells(d)' = C!Cells(d)
    BY <1>3, FilledIn
  <2>2. UNCHANGED added
    BY <1>3 DEF C!FillIn
  <2>3. ~C!Updating(t)'
    BY <2>1 DEF C!Updating
  <2>4. QED BY <2>1, <2>2, <2>3, PassingKept
<1>4. ASSUME NEW t \in Thread, C!Notify(t) PROVE Passing'
  <2>1. at'[t] = C!Idle /\ \A u \in Thread \ {t} : at'[u] = at[u]
    BY <1>0, <1>4, Moved DEF C!Notify
  <2>2. UNCHANGED <<index, values, added>>
    BY <1>4 DEF C!Notify
  <2>3. \A d \in C!Registered : C!Cells(d)' = C!Cells(d)
    BY <1>0, <2>2, StillRegistered
  <2>4. ~C!Updating(t)' /\ at'[t].at \notin {"get", "reset"}
    BY <2>1 DEF C!Updating, C!Idle
  <2>5. QED BY <2>1, <2>2, <2>3, <2>4, PassingKept
<1>5. ASSUME NEW t \in Thread, NEW c \in Counter, C!Add(t, c) PROVE Passing'
  <2>1. PICK cpu \in CPU : C!Move(t, [at |-> "load", counter |-> c, cpu |-> cpu])
    BY <1>5 DEF C!Add
  <2>2. /\ at'[t] = [at |-> "load", counter |-> c, cpu |-> cpu]
        /\ \A u \in Thread \ {t} : at'[u] = at[u]
    BY <1>0, <2>1, Moved
  <2>3. UNCHANGED <<index, values, added>>
    BY <1>5 DEF C!Add
  <2>4. \A d : C!Cells(d)' = C!Cells(d)
    BY <1>0, <2>3, NothingStored
  <2>5. \A u \in Thread : ~(at[u].at = "reset" /\ at[u].counter = c)
    BY <1>5 DEF C!Add, C!Disturbs, C!Calls
  <2>6. \A u \in Thread : at'[u].at \in {"get", "reset"} => at'[u] = at[u]
    BY <2>2
  <2>7. \A u \in Thread : C!Updating(u)' =>
          (C!Updating(u) /\ at'[u] = at[u]) \/ at'[u].counter = c
    BY <2>2 DEF C!Updating
  <2>8. QED BY <2>3, <2>4, <2>5, <2>6, <2>7 DEF Passing
<1>6. ASSUME NEW t \in Thread, C!Load(t) PROVE Passing'
  <2>1. /\ at'[t] = [at |-> "store", counter |-> at[t].counter, cpu |-> at[t].cpu,
                     value |-> C!Stored(C!Place(C!Where(at[t].counter), at[t].cpu))]
        /\ \A u \in Thread \ {t} : at'[u] = at[u]
    BY <1>0, <1>6, Moved DEF C!Load
  <2>2. UNCHANGED <<index, values, added>> /\ C!Updating(t)
    BY <1>6 DEF C!Load, C!Updating
  <2>3. \A d \in C!Registered : C!Cells(d)' = C!Cells(d)
    BY <1>0, <2>2, StillRegistered
  <2>4. QED BY <2>1, <2>2, <2>3, PassingKept
<1>7. ASSUME NEW t \in Thread, C!AddEnd(t) PROVE Passing'
  <2> PICK c : c = at[t].counter
    OBVIOUS
  <2>1. /\ c \in C!Registered /\ c \in Counter /\ C!Updating(t)
        /\ added' = [added EXCEPT ![c] = @ + 1]
        /\ at'[t] = C!Idle /\ \A u \in Thread \ {t} : at'[u] = at[u]
        /\ \A d \in C!Registered \ {c} : C!Cells(d)' = C!Cells(d)
        /\ \A n \in 0..ncpu : \/ C!SumTo(C!Cells(c)')[n] = C!SumTo(C!Cells(c))[n]
                              \/ C!SumTo(C!Cells(c)')[n] = C!SumTo(C!Cells(c))[n] + 1
        /\ C!SumTo(C!Cells(c)')[ncpu] = C!SumTo(C!Cells(c))[ncpu] + 1
    BY <1>7, AddedUp
  <2>2. \A u \in Thread : at'[u].at \in {"get", "reset"} => at'[u] = at[u]
    BY <2>1 DEF C!Idle
  <2>3. \A u \in Thread : C!Updating(u)' => C!Updating(u) /\ at'[u] = at[u]
    BY <2>1 DEF C!Updating, C!Idle
  <2>4. \A u \in Thread : ~(at[u].at = "reset" /\ at[u].counter = c)
    BY <2>1 DEF Passing
  <2>5. \A d \in Counter \ {c} : added'[d] = added[d]
    BY <2>1 DEF C!TypeOK
  <2>6. ASSUME NEW u \in Thread, NEW d \in Counter, (at[u].at = "reset" /\ at[u].counter = d)'
        PROVE  /\ added'[d] = 0
               /\ \A cpu \in 0..(ncpu - 1) : cpu < at'[u].next => (C!Cells(d)')[cpu] = 0
               /\ \A v \in Thread : C!Updating(v)' => at'[v].counter # d
    <3>1. at[u].at = "reset" /\ at[u].counter = d /\ at'[u] = at[u] /\ d # c
          /\ d \in C!Registered
      BY <1>a, <2>2, <2>4, <2>6
    <3>2. C!Cells(d)' = C!Cells(d) /\ added'[d] = added[d]
      BY <2>1, <2>5, <3>1
    <3>3. QED BY <2>3, <3>1, <3>2 DEF Passing
  <2>7. ASSUME NEW u \in Thread, NEW d \in Counter, (at[u].at = "get" /\ at[u].counter = d)'
        PROVE  /\ at'[u].before + C!SumTo(C!Cells(d)')[at'[u].next] <=
                     at'[u].value + C!SumTo(C!Cells(d)')[ncpu]
               /\ at'[u].value <= C!SumTo(C!Cells(d)')[at'[u].next]
    <3>1. at[u].at = "get" /\ at[u].counter = d /\ at'[u] = at[u] /\ d \in C!Registered
      BY <1>a, <2>2, <2>7
    <3>2. at[u].next \in 0..ncpu /\ at[u].before \in Nat /\ at[u].value \in Nat
      BY <1>0, <3>1, GetFields
    <3> PICK n : n = at[u].next
      OBVIOUS
    <3>3. C!SumTo(C!Cells(d))[n] \in Nat /\ C!SumTo(C!Cells(d))[ncpu] \in Nat
      BY <1>0, <3>2, SumsTyped
    <3>4. /\ at[u].before + C!SumTo(C!Cells(d))[n] <= at[u].value + C!SumTo(C!Cells(d))[ncpu]
          /\ at[u].value <= C!SumTo(C!Cells(d))[n]
      BY <3>1 DEF Passing
    <3>5. CASE d = c
      BY <2>1, <3>1, <3>2, <3>3, <3>4, <3>5
    <3>6. CASE d # c
      <4>1. C!Cells(d)' = C!Cells(d)
        BY <2>1, <3>1, <3>6
      <4>2. QED BY <3>1, <3>4, <4>1
    <3>7. QED BY <3>5, <3>6
  <2>8. \A u, v \in Thread : (at[u].at \in {"get", "reset"})'
        /\ (at[v].at \in {"get", "reset"})' => u = v
    BY <2>2 DEF Passing
  <2>9. QED BY <2>6, <2>7, <2>8 DEF Passing
<1>8. ASSUME NEW t \in Thread, NEW c \in Counter, C!Get(t, c) PROVE Passing'
  <2>1. /\ at'[t] = [at |-> "get", counter |-> c, next |-> 0, value |-> 0, before |-> added[c]]
        /\ \A u \in Thread \ {t} : at'[u] = at[u]
    BY <1>0, <1>8, Moved DEF C!Get
  <2>2. UNCHANGED <<index, values, added>> /\ c \in C!Registered
    BY <1>8 DEF C!Get, C!Usable
  <2>3. \A u \in Thread : at[u].at \notin {"get", "reset"}
    BY <1>8 DEF C!Get, C!Alone
  <2>4. \A u \in Thread : at'[u].at \in {"get", "reset"} => u = t
    BY <2>1, <2>3
  <2>5. C!Cells(c)' = C!Cells(c)
    BY <1>0, <2>2, NothingStored
  <2>6. C!SumTo(C!Cells(c))[0] = 0 /\ C!SumTo(C!Cells(c))[ncpu] \in Nat
    BY <1>0, SumsTyped
  <2>7. C!SumTo(C!Cells(c))[ncpu] = added[c]
    BY <2>2, <2>3 DEF Counted, C!Calls, C!Held
  <2>8. /\ at'[t].before + C!SumTo(C!Cells(c)')[at'[t].next] <=
              at'[t].value + C!SumTo(C!Cells(c)')[ncpu]
        /\ at'[t].value <= C!SumTo(C!Cells(c)')[at'[t].next]
    BY <2>1, <2>5, <2>6, <2>7
  <2>9. at'[t].at = "get" /\ at'[t].counter = c
    BY <2>1
  <2>10. QED BY <2>4, <2>8, <2>9 DEF Passing
<1>9. ASSUME NEW t \in Thread, C!Read(t) PROVE Passing'
  <2>0. UNCHANGED <<index, values, added>> /\ at[t].at = "get"
    BY <1>9 DEF C!Read
  <2>a. \A d : C!Cells(d)' = C!Cells(d)
    BY <1>0, <2>0, NothingStored
  <2>1. CASE at[t].next = ncpu
    <3>1. at'[t] = C!Idle /\ \A u \in Thread \ {t} : at'[u] = at[u]
      BY <1>0, <1>9, <2>1, Moved DEF C!Read
    <3>2. ~C!Updating(t)' /\ at'[t].at \notin {"get", "reset"}
      BY <3>1 DEF C!Updating, C!Idle
    <3>3. QED BY <2>0, <2>a, <3>1, <3>2, PassingKept
  <2>2. CASE at[t].next # ncpu
    <3> PICK c, n, value : c = at[t].counter /\ n = at[t].next /\ value = at[t].value
      OBVIOUS
    <3>1. n \in 0..(ncpu - 1) /\ value \in Nat /\ at[t].before \in Nat /\ c \in Counter
      BY <1>0, <2>0, <2>2, GetFields
    <3> PICK more : more = C!Stored(C!Place(C!Where(c), n))
      OBVIOUS
    <3>2. at'[t] = [at[t] EXCEPT !.next = @ + 1, !.value = @ + more]
          /\ \A u \in Thread \ {t} : at'[u] = at[u]
      BY <1>0, <1>9, <2>2, Moved DEF C!Read
    <3>3. at'[t] = [at |-> "get", counter |-> c, next |-> n + 1, value |-> value + more,
                    before |-> at[t].before]
      BY <1>0, <2>0, <3>2, GetFields
    <3>4. more = C!Cells(c)[n] /\ more \in Nat
      BY <1>0, <3>1, StoredType DEF C!Cells
    <3>5. /\ C!SumTo(C!Cells(c))[n] \in Nat /\ C!SumTo(C!Cells(c))[ncpu] \in Nat
          /\ C!SumTo(C!Cells(c))[n + 1] = C!SumTo(C!Cells(c))[n] + more
      BY <1>0, <3>1, <3>4, SumsTyped
    <3>6. /\ at[t].before + C!SumTo(C!Cells(c))[n] <= value + C!SumTo(C!Cells(c))[ncpu]
          /\ value <= C!SumTo(C!Cells(c))[n]
      BY <2>0, <3>1 DEF Passing
    <3>7. /\ at[t].before + C!SumTo(C!Cells(c))[n + 1] <=
                (value + more) + C!SumTo(C!Cells(c))[ncpu]
          /\ value + more <= C!SumTo(C!Cells(c))[n + 1]
      BY <3>1, <3>4, <3>5, <3>6
    <3>8. \A u \in Thread : at'[u].at \in {"get", "reset"} => u = t
      BY <2>0, <3>2 DEF Passing
    <3>9. /\ at'[t].at = "get" /\ at'[t].counter = c /\ at'[t].next = n + 1
          /\ at'[t].value = value + more /\ at'[t].before = at[t].before
      BY <3>3
    <3>10. QED BY <2>a, <3>7, <3>8, <3>9 DEF Passing
  <2>3. QED BY <2>1, <2>2
<1>10. ASSUME NEW t \in Thread, NEW c \in Counter, C!Reset(t, c) PROVE Passing'
  <2>1. /\ at'[t] = [at |-> "reset", counter |-> c, next |-> 0]
        /\ \A u \in Thread \ {t} : at'[u] = at[u]
    BY <1>0, <1>10, Moved DEF C!Reset
  <2>2. UNCHANGED <<index, values>> /\ added'[c] = 0
    BY <1>10 DEF C!Reset, C!TypeOK
  <2>3. \A u \in Thread : at[u].at \notin {"get", "reset"}
    BY <1>10 DEF C!Reset, C!Alone
  <2>4. \A u \in Thread : at'[u].at \in {"get", "reset"} => u = t
    BY <2>1, <2>3
  <2>5. \A u \in Thread : ~(at[u].at \in {"load", "store"} /\ at[u].counter = c)
    BY <1>10 DEF C!Reset, C!Disturbs, C!Calls
  <2>6. \A u \in Thread : C!Updating(u)' => at'[u].counter # c
    BY <2>1, <2>5 DEF C!Updating
  <2>7. at'[t].at = "reset" /\ at'[t].counter = c /\ at'[t].next = 0
    BY <2>1
  <2>8. QED BY <1>0, <2>2, <2>4, <2>6, <2>7 DEF Passing
<1>11. ASSUME NEW t \in Thread, C!Clear(t) PROVE Passing'
  <2>0. UNCHANGED <<index, added>> /\ at[t].at = "reset"
    BY <1>11 DEF C!Clear
  <2>1. CASE at[t].next = ncpu
    <3>1. at'[t] = C!Idle /\ \A u \in Thread \ {t} : at'[u] = at[u]
      BY <1>0, <1>11, <2>1, Moved DEF C!Clear
    <3>2. ~C!Updating(t)' /\ at'[t].at \notin {"get", "reset"}
      BY <3>1 DEF C!Updating, C!Idle
    <3>3. values' = values
      BY <1>11, <2>1 DEF C!Clear
    <3>4. \A d \in C!Registered : C!Cells(d)' = C!Cells(d)
      BY <1>0, <2>0, <3>3, StillRegistered
    <3>5. QED BY <2>0, <3>1, <3>2, <3>4, PassingKept
  <2>2. CASE at[t].next # ncpu
    <3> PICK c, n : c = at[t].counter /\ n = at[t].next
      OBVIOUS
    <3>1. /\ c \in C!Registered /\ c \in Counter /\ n \in 0..(ncpu - 1)
          /\ at'[t] = [at |-> "reset", counter |-> c, next |-> n + 1]
          /\ \A u \in Thread \ {t} : at'[u] = at[u]
          /\ (C!Cells(c)')[n] = 0
          /\ \A l \in 0..(ncpu - 1) \ {n} : (C!Cells(c)')[l] = C!Cells(c)[l]
      BY <1>11, <2>2, Cleared
    <3>2. /\ added[c] = 0
          /\ \A k \in 0..(ncpu - 1) : k < n => C!Cells(c)[k] = 0
          /\ \A u \in Thread : C!Updating(u) => at[u].counter # c
      BY <2>0, <3>1 DEF Passing
    <3>3. \A k \in 0..(ncpu - 1) : k < n + 1 => (C!Cells(c)')[k] = 0
      BY <3>1, <3>2
    <3>4. \A u \in Thread : at'[u].at \in {"get", "reset"} => u = t
      BY <2>0, <3>1 DEF Passing
    <3>5. at'[t].at = "reset" /\ at'[t].counter = c /\ at'[t].next = n + 1
      BY <3>1
    <3>6. \A u \in Thread : C!Updating(u)' => at'[u].counter # c
      BY <3>1, <3>2 DEF C!Updating
    <3>7. QED BY <2>0, <3>2, <3>3, <3>4, <3>5, <3>6 DEF Passing
  <2>3. QED BY <2>1, <2>2
<1>12. QED
  BY <1>1, <1>2, <1>3, <1>4, <1>5, <1>6, <1>7, <1>8, <1>9, <1>10, <1>11
     DEF C!Next, C!Schedule, C!OpenRemote, C!Discover

(* A step in which no cell and no count changes, and no reset begins or ends. *)
LEMMA CountedKept ==
  ASSUME Counted, NEW t \in Thread,
         UNCHANGED <<counters, added>>,
         \A c \in C!Registered : C!Cells(c)' = C!Cells(c),
         \A u \in Thread \ {t} : at'[u] = at[u], at[t].at # "reset"
  PROVE  Counted'
<1>1. C!Registered' = C!Registered
  BY DEF C!Registered
<1>2. ASSUME NEW c \in C!Registered PROVE C!Calls(c, {"reset"})' \/ C!Held(c)' = added'[c]
  <2>1. CASE C!Calls(c, {"reset"})
    BY <2>1 DEF C!Calls
  <2>2. CASE C!Held(c) = added[c]
    BY <2>2, HeldIs
  <2>3. QED BY <2>1, <2>2 DEF Counted
<1>3. QED BY <1>1, <1>2 DEF Counted

(* The cells change when the count does.                                   *)
LEMMA CountedStep ==
  ASSUME Numbered, CountersIInv, Undivided, Passing, Counted, C!Next, ~disturbed'
  PROVE  Counted'
<1> USE DEF CountersIInv
<1>0. C!TypeOK /\ Listed /\ C!ConstantsType /\ ncpu \in Nat \ {0}
  BY DEF Numbered, C!ConstantsType
<1>1. ASSUME UNCHANGED <<at, counters, index, values, added>> PROVE Counted'
  <2>1. \A c : C!Cells(c)' = C!Cells(c)
    BY <1>0, <1>1, NothingStored
  <2>2. C!Registered' = C!Registered
    BY <1>1 DEF C!Registered
  <2>3. QED BY <1>1, <2>1, <2>2, HeldIs DEF Counted, C!Calls
<1>2. ASSUME NEW t \in Thread, at[t].at # "reset", \A u \in Thread \ {t} : at'[u] = at[u],
             UNCHANGED <<counters, index, values, added>>
      PROVE  Counted'
  BY <1>0, <1>2, StillRegistered, CountedKept
<1>3. ASSUME NEW t \in Thread, NEW c \in Counter, C!Register(t, c) \/ C!Add(t, c) \/ C!Get(t, c)
      PROVE  Counted'
  <2>1. at[t].at # "reset" /\ UNCHANGED <<counters, index, values, added>>
    BY <1>3 DEF C!Register, C!Add, C!Get, C!Idle
  <2>2. \A u \in Thread \ {t} : at'[u] = at[u]
    BY <1>0, <1>3, Moved DEF C!Register, C!Add, C!Get
  <2>3. QED BY <1>2, <2>1, <2>2
<1>4. ASSUME NEW t \in Thread, C!Notify(t) \/ C!Load(t) \/ C!Read(t) PROVE Counted'
  <2>1. at[t].at # "reset" /\ UNCHANGED <<counters, index, values, added>>
    BY <1>4 DEF C!Notify, C!Load, C!Read
  <2>2. \A u \in Thread \ {t} : at'[u] = at[u]
    BY <1>0, <1>4, Moved DEF C!Notify, C!Load, C!Read
  <2>3. QED BY <1>2, <2>1, <2>2
<1>5. ASSUME NEW t \in Thread, C!FillIn(t) PROVE Counted'
  <2> PICK c : c = at[t].counter
    OBVIOUS
  <2>1. /\ c \in Counter \ C!Registered /\ C!Registered' = C!Registered \cup {c}
        /\ \A u \in Thread \ {t} : at'[u] = at[u]
        /\ \A d \in C!Registered : C!Cells(d)' = C!Cells(d)
        /\ C!Cells(c)' \in [0..(ncpu - 1) -> Nat]
        /\ \A k \in 0..(ncpu - 1) : (C!Cells(c)')[k] = 0
    BY <1>5, FilledIn
  <2>2. UNCHANGED added /\ at[t].at # "reset"
    BY <1>5 DEF C!FillIn
  <2>3. ASSUME NEW d \in C!Registered PROVE C!Calls(d, {"reset"})' \/ C!Held(d)' = added'[d]
    <3>1. CASE C!Calls(d, {"reset"})
      BY <2>1, <2>2, <3>1 DEF C!Calls
    <3>2. CASE C!Held(d) = added[d]
      BY <2>1, <2>2, <3>2, HeldIs
    <3>3. QED BY <3>1, <3>2 DEF Counted
  <2>4. C!Held(c)' = added'[c]
    <3>1. C!SumTo(C!Cells(c)')[ncpu] = 0
      BY <1>0, <2>1, SumOfNothing
    <3>2. added[c] = 0
      BY <1>0, <2>1 DEF Listed
    <3>3. QED BY <2>2, <3>1, <3>2, HeldIs
  <2>5. QED BY <2>1, <2>3, <2>4 DEF Counted
<1>6. ASSUME NEW t \in Thread, C!AddEnd(t) PROVE Counted'
  <2> PICK c : c = at[t].counter
    OBVIOUS
  <2>1. /\ c \in C!Registered /\ c \in Counter /\ C!Updating(t)
        /\ added' = [added EXCEPT ![c] = @ + 1]
        /\ at'[t] = C!Idle /\ \A u \in Thread \ {t} : at'[u] = at[u]
        /\ \A d \in C!Registered \ {c} : C!Cells(d)' = C!Cells(d)
        /\ C!SumTo(C!Cells(c)')[ncpu] = C!SumTo(C!Cells(c))[ncpu] + 1
    BY <1>6, AddedUp
  <2>2. C!Registered' = C!Registered /\ at[t].at # "reset"
    BY <1>6 DEF C!AddEnd, C!Registered
  <2>3. \A d \in Counter \ {c} : added'[d] = added[d]
    BY <2>1 DEF C!TypeOK
  <2>4. added'[c] = added[c] + 1
    BY <2>1 DEF C!TypeOK
  <2>5. ASSUME NEW d \in C!Registered \ {c}
        PROVE  C!Calls(d, {"reset"})' \/ C!Held(d)' = added'[d]
    <3>1. CASE C!Calls(d, {"reset"})
      BY <2>1, <2>2, <3>1 DEF C!Calls
    <3>2. CASE C!Held(d) = added[d]
      <4>1. d \in Counter
        BY <1>0, WhereListed
      <4>2. QED BY <2>1, <2>3, <3>2, <4>1, HeldIs
    <3>3. QED BY <3>1, <3>2 DEF Counted
  <2>6. C!Held(c)' = added'[c]
    <3>1. ~C!Calls(c, {"reset"})
      BY <2>1 DEF C!Calls, Passing
    <3>2. C!Held(c) = added[c]
      BY <2>1, <3>1 DEF Counted
    <3>3. QED BY <2>1, <2>4, <3>2, HeldIs
  <2>7. QED BY <2>2, <2>5, <2>6 DEF Counted
<1>7. ASSUME NEW t \in Thread, NEW c \in Counter, C!Reset(t, c) PROVE Counted'
  <2>1. /\ at'[t] = [at |-> "reset", counter |-> c, next |-> 0]
        /\ \A u \in Thread \ {t} : at'[u] = at[u]
    BY <1>0, <1>7, Moved DEF C!Reset
  <2>2. UNCHANGED <<counters, index, values>> /\ added' = [added EXCEPT ![c] = 0]
        /\ at[t].at # "reset"
    BY <1>7 DEF C!Reset, C!Idle
  <2>3. \A d : C!Cells(d)' = C!Cells(d)
    BY <1>0, <2>2, NothingStored
  <2>4. C!Calls(c, {"reset"})'
    BY <2>1 DEF C!Calls
  <2>5. C!Registered' = C!Registered
    BY <2>2 DEF C!Registered
  <2>6. ASSUME NEW d \in C!Registered \ {c}
        PROVE  C!Calls(d, {"reset"})' \/ C!Held(d)' = added'[d]
    <3>1. CASE C!Calls(d, {"reset"})
      BY <2>1, <2>2, <3>1 DEF C!Calls
    <3>2. CASE C!Held(d) = added[d]
      <4>1. added'[d] = added[d]
        BY <1>0, <2>2, WhereListed DEF C!TypeOK
      <4>2. QED BY <2>3, <3>2, <4>1, HeldIs
    <3>3. QED BY <3>1, <3>2 DEF Counted
  <2>7. QED BY <2>4, <2>5, <2>6 DEF Counted
<1>8. ASSUME NEW t \in Thread, C!Clear(t) PROVE Counted'
  <2>0. UNCHANGED <<counters, index, added>> /\ at[t].at = "reset"
    BY <1>8 DEF C!Clear
  <2>1. C!Registered' = C!Registered
    BY <2>0 DEF C!Registered
  <2> PICK c : c = at[t].counter
    OBVIOUS
  <2>2. c \in C!Registered /\ c \in Counter
    BY <1>0, <2>0, ResetFields DEF Locked
  <2>3. ASSUME \A u \in Thread \ {t} : at'[u] = at[u], NEW d \in C!Registered \ {c},
               C!Cells(d)' = C!Cells(d)
        PROVE  C!Calls(d, {"reset"})' \/ C!Held(d)' = added'[d]
    <3>1. CASE C!Calls(d, {"reset"})
      BY <2>3, <3>1 DEF C!Calls
    <3>2. CASE C!Held(d) = added[d]
      BY <2>0, <2>3, <3>2, HeldIs
    <3>3. QED BY <3>1, <3>2 DEF Counted
  <2>4. CASE at[t].next = ncpu
    <3>1. values' = values /\ \A u \in Thread \ {t} : at'[u] = at[u]
      BY <1>0, <1>8, <2>4, Moved DEF C!Clear
    <3>2. \A d : C!Cells(d)' = C!Cells(d)
      BY <1>0, <2>0, <3>1, NothingStored
    <3>3. added[c] = 0 /\ \A k \in 0..(ncpu - 1) : C!Cells(c)[k] = 0
      BY <1>0, <2>0, <2>2, <2>4 DEF Passing
    <3>4. C!SumTo(C!Cells(c))[ncpu] = 0
      BY <1>0, <3>3, CellsType, SumOfNothing
    <3>5. C!Held(c)' = added'[c]
      BY <2>0, <3>2, <3>3, <3>4, HeldIs
    <3>6. QED BY <2>1, <2>3, <3>1, <3>2, <3>5 DEF Counted
  <2>5. CASE at[t].next # ncpu
    <3>1. /\ at'[t] = [at |-> "reset", counter |-> c, next |-> at[t].next + 1]
          /\ \A u \in Thread \ {t} : at'[u] = at[u]
          /\ \A d \in C!Registered \ {c} : C!Cells(d)' = C!Cells(d)
      BY <1>8, <2>5, Cleared
    <3>2. C!Calls(c, {"reset"})'
      BY <3>1 DEF C!Calls
    <3>3. QED BY <2>1, <2>3, <3>1, <3>2 DEF Counted
  <2>6. QED BY <2>4, <2>5
<1>9. QED
  BY <1>1, <1>3, <1>4, <1>5, <1>6, <1>7, <1>8 DEF C!Next, C!Schedule, C!OpenRemote, C!Discover

(* Together they are inductive.                                            *)
LEMMA CountersInductive == ASSUME Numbered, CountersIInv, [C!Next]_(C!vars) PROVE CountersIInv'
<1>1. C!TypeOK' /\ OneCPU' /\ Locked' /\ Listed' /\ Found'
  BY CountersTypeStep, CPUStep, LockStep, ListStep, FoundStep
<1>2. ASSUME C!Next, ~disturbed' PROVE Undivided' /\ Passing' /\ Counted'
  <2>1. ~disturbed
    BY <1>2 DEF C!Next
  <2>2. Undivided /\ Passing /\ Counted
    BY <2>1 DEF CountersIInv
  <2>3. QED BY <1>2, <2>2, UndividedStep, PassingStep, CountedStep
<1>3. ASSUME UNCHANGED C!vars, ~disturbed' PROVE Undivided' /\ Passing' /\ Counted'
  <2>1. UNCHANGED <<running, at, counters, index, values, added>> /\ ~disturbed
    BY <1>3 DEF C!vars
  <2>2. Undivided /\ Passing /\ Counted /\ C!TypeOK
    BY <2>1 DEF CountersIInv
  <2>3. \A c : C!Cells(c)' = C!Cells(c)
    BY <2>1, <2>2, NothingStored
  <2>4. Undivided'
    BY <2>1, <2>2 DEF Undivided, C!Updating, C!Stored, C!Where, C!Place, C!InfoOf
  <2>5. Passing'
    BY <2>1, <2>2, <2>3 DEF Passing, C!Updating
  <2>6. C!Registered' = C!Registered
    BY <2>1 DEF C!Registered
  <2>7. Counted'
    BY <2>1, <2>2, <2>3, <2>6, HeldIs DEF Counted, C!Calls
  <2>8. QED BY <2>4, <2>5, <2>7
<1>4. QED BY <1>1, <1>2, <1>3 DEF CountersIInv

(* What CountersIInv is there for.                                         *)
LEMMA RightWhenCounted == ASSUME Numbered, CountersIInv PROVE C!CountersAreRight
<1> USE DEF CountersIInv
<1>0. C!TypeOK /\ Listed /\ C!ConstantsType /\ ncpu \in Nat \ {0} /\ counters \in Seq(Counter)
  BY DEF Numbered, C!ConstantsType, C!TypeOK
<1>1. C!CountsWhatWasAdded
  <2> SUFFICES ASSUME ~disturbed PROVE C!CountsWhatWasAdded
    BY DEF C!CountsWhatWasAdded
  <2>1. Undivided /\ Passing /\ Counted
    OBVIOUS
  <2>2. ASSUME NEW t \in Thread, at[t].at = "get", at[t].next = ncpu
        PROVE  at[t].value \in at[t].before..added[at[t].counter]
    <3> PICK c : c = at[t].counter
      OBVIOUS
    <3>1. c \in C!Registered /\ c \in Counter /\ at[t].value \in Nat /\ at[t].before \in Nat
      BY <1>0, <2>2, GetFields DEF Locked
    <3>2. /\ at[t].before + C!SumTo(C!Cells(c))[ncpu] <= at[t].value + C!SumTo(C!Cells(c))[ncpu]
          /\ at[t].value <= C!SumTo(C!Cells(c))[ncpu]
      BY <2>1, <2>2, <3>1 DEF Passing
    <3>3. ~C!Calls(c, {"reset"})
      BY <2>1, <2>2 DEF Passing, C!Calls
    <3>4. C!SumTo(C!Cells(c))[ncpu] = added[c]
      BY <2>1, <3>1, <3>3 DEF Counted, C!Held
    <3>5. added[c] \in Nat
      BY <1>0, <3>1 DEF C!TypeOK
    <3>6. QED BY <3>1, <3>2, <3>4, <3>5
  <2>3. QED BY <2>1, <2>2 DEF C!CountsWhatWasAdded, Counted
<1>2. C!RemoteFindsCounters
  <2> SUFFICES ASSUME remote # None, NEW i \in DOMAIN remote.found
               PROVE  /\ i <= Len(counters)
                      /\ remote.found[i] =
                           [counter |-> counters[i], place |-> C!Where(counters[i])]
    BY DEF C!RemoteFindsCounters
  <2>1. remote.found # <<>>
    OBVIOUS
  <2>2. /\ remote.n \in 0..n_counters
        /\ remote.found = [j \in 1..remote.n |->
             [counter |-> counters[j], place |-> C!InfoOf(j - 1)]]
    BY <2>1 DEF Found
  <2>3. i \in 1..remote.n /\ i <= Len(counters) /\ i \in DOMAIN counters
    BY <1>0, <2>2 DEF C!TypeOK
  <2>4. index[counters[i]] = i - 1
    BY <1>0, <2>3 DEF Listed
  <2>5. QED BY <2>2, <2>3, <2>4 DEF C!Where
<1>3. QED BY <1>1, <1>2 DEF C!CountersAreRight

(* However many threads add, read and reset, on however many CPUs, while   *)
(* counters are registered and another process looks for them: unless a    *)
(* thread is swapped in the middle, nothing that was added is lost, no     *)
(* reading is outside of what was there in its time, and what the other    *)
(* process finds are the registered counters, each at its place.           *)
THEOREM CountersAlwaysRight ==
  ASSUME Numbered PROVE C!Spec => [](C!TypeOK /\ C!CountersAreRight)
<1>1. CountersIInv => C!TypeOK
  BY DEF CountersIInv
<1>2. QED
  BY <1>1, CountersInit, CountersInductive, RightWhenCounted, PTL DEF C!Spec
=============================================================================
