------------------------- MODULE RequestHeapProofs --------------------------
(***************************************************************************)
(* The array heap keeps its order and implements the bounded queue, for    *)
(* any capacity, any deadlines, both policies and any sequence of calls.   *)
(***************************************************************************)
EXTENDS RequestHeap, FiniteSetTheorems, WellFoundedInduction, TLAPS

-----------------------------------------------------------------------------
(* Arithmetic of the array, and the order of the requests. *)

LEMMA Parent ==
  ASSUME NEW i \in Nat, i > 0
  PROVE  /\ parent(i) \in Nat /\ parent(i) < i
         /\ i = 2 * parent(i) + 1 \/ i = 2 * parent(i) + 2
BY DEF parent

LEMMA Children ==
  ASSUME NEW k \in Nat
  PROVE  /\ parent(2 * k + 1) = k
         /\ parent(2 * k + 2) = k
BY DEF parent

LEMMA Fields ==
  ASSUME NEW r \in Request
  PROVE  /\ r.coder \in Coders /\ r.coder \in Nat
         /\ r.deadline \in Nat /\ r.sequence \in Nat
<1>1. r.coder \in Coders /\ r.deadline \in Deadlines /\ r.sequence \in Nat
  BY DEF Request
<1> QED
  BY <1>1, HeapArgs

LEMMA Transitive ==
  ASSUME NEW a \in Request, NEW b \in Request, NEW c \in Request,
         request_before(a, b), request_before(b, c)
  PROVE  request_before(a, c)
BY HeapArgs, Fields DEF request_before

LEMMA Asymmetric ==
  ASSUME NEW a \in Request, NEW b \in Request, request_before(a, b)
  PROVE  ~request_before(b, a)
BY HeapArgs, Fields DEF request_before

LEMMA Total ==
  ASSUME NEW a \in Request, NEW b \in Request, a.sequence # b.sequence,
         ~request_before(a, b)
  PROVE  request_before(b, a)
BY HeapArgs, Fields DEF request_before

(* The numbers are well ordered: a set of them has a least one. *)
Less == {pair \in Nat \X Nat : pair[1] < pair[2]}

LEMMA LeastNumber ==
  ASSUME NEW S \in SUBSET Nat, S # {}
  PROVE  \E n \in S : \A m \in S : ~(m < n)
<1>1. IsWellFoundedOn(Less, Nat)
  BY NatLessThanWellFounded DEF OpToRel, Less
<1>2. PICK n \in S : \A m \in S : ~ (<<m, n>> \in Less)
  BY <1>1, WFMin, Zenon
<1> QED
  BY <1>2 DEF Less

-----------------------------------------------------------------------------
(* The inductive invariant. *)

(* Every request in the heap is another coder's, and has a number of its own. *)
DistinctInv ==
  \A i \in 0 .. size - 1 :
    /\ data[i].sequence < next_sequence
    /\ \A j \in 0 .. size - 1 : i # j =>
         data[i].sequence # data[j].sequence /\ data[i].coder # data[j].coder

IndexInv ==
  /\ doing \in {"up", "down"} => index < size
  /\ doing = "sink" => index = 0 \/ index < size

ordered(i) == request_before(data[parent(i)], data[i])

(***************************************************************************)
(* While a loop runs one request may be out of order, the one it carries:  *)
(* with the one above it (up), or with those below it (sink, down).  Those *)
(* below it are in order with the one above it.                            *)
(***************************************************************************)
OrderInv ==
  \A i \in 1 .. size - 1 :
    /\ doing = "none" => ordered(i)
    /\ doing = "up" => i = index \/ ordered(i)
    /\ doing \in {"sink", "down"} => parent(i) = index \/ ordered(i)
    /\ doing # "none" /\ index > 0 /\ parent(i) = index =>
         request_before(data[parent(index)], data[i])

IInv == TypeOK /\ DistinctInv /\ IndexInv /\ OrderInv

(* A request in the array. *)
LEMMA Entry ==
  ASSUME TypeOK, NEW i \in 0 .. size - 1
  PROVE  data[i] \in Request
BY DEF TypeOK

LEMMA InitIInv == Init => IInv
<1> SUFFICES ASSUME Init PROVE IInv
  OBVIOUS
<1>1. 0 .. size - 1 = {} /\ 1 .. size - 1 = {}
  BY DEF Init
<1>2. data \in [0 .. size - 1 -> Request]
  <2>1. DOMAIN data = {}
    BY DEF Init
  <2>2. data = [i \in {} |-> data[i]]
    BY DEF Init
  <2> QED
    BY <1>1, <2>1, <2>2, Zenon
<1>3. TypeOK
  BY <1>2, HeapArgs DEF Init, TypeOK
<1> QED
  BY <1>1, <1>3 DEF Init, IInv, DistinctInv, IndexInv, OrderInv

-----------------------------------------------------------------------------
(* An exchange in the array. *)

(* What an exchange does to the array, element by element. *)
LEMMA Swap ==
  ASSUME TypeOK, UNCHANGED size, NEW i \in 0 .. size - 1, NEW j \in 0 .. size - 1,
         swap(i, j)
  PROVE  /\ data' \in [0 .. size' - 1 -> Request]
         /\ data'[i] = data[j]
         /\ data'[j] = data[i]
         /\ \A k \in 0 .. size - 1 : k # i /\ k # j => data'[k] = data[k]
BY DEF TypeOK, swap

LEMMA SwapKeepsDistinct ==
  ASSUME TypeOK, DistinctInv, UNCHANGED <<size, next_sequence>>,
         NEW i \in 0 .. size - 1, NEW j \in 0 .. size - 1, swap(i, j)
  PROVE  DistinctInv'
<1> DEFINE from(k) == IF k = i THEN j ELSE IF k = j THEN i ELSE k
<1>1. ASSUME NEW k \in 0 .. size - 1
      PROVE  from(k) \in 0 .. size - 1 /\ data'[k] = data[from(k)]
  BY Swap
<1>2. ASSUME NEW k \in 0 .. size - 1, NEW l \in 0 .. size - 1, k # l
      PROVE  from(k) # from(l)
  BY <1>2
<1> HIDE DEF from
<1> QED
  BY <1>1, <1>2 DEF DistinctInv

LEMMA SwapKeepsRange ==
  ASSUME TypeOK, UNCHANGED size, NEW i \in 0 .. size - 1, NEW j \in 0 .. size - 1,
         swap(i, j)
  PROVE  Range(data') = Range(data)
<1>1. DOMAIN data = 0 .. size - 1 /\ DOMAIN data' = 0 .. size - 1
  BY Swap DEF TypeOK
<1>2. ASSUME NEW k \in 0 .. size - 1
      PROVE  /\ \E l \in 0 .. size - 1 : data'[k] = data[l]
             /\ \E l \in 0 .. size - 1 : data[k] = data'[l]
  <2>1. CASE k = i
    BY <2>1, Swap
  <2>2. CASE k = j
    BY <2>2, Swap
  <2>3. CASE k # i /\ k # j
    BY <2>3, Swap
  <2> QED
    BY <2>1, <2>2, <2>3
<1>3. /\ Range(data) = {data[k] : k \in 0 .. size - 1}
      /\ Range(data') = {data'[k] : k \in 0 .. size - 1}
  BY <1>1 DEF Range
<1>4. Range(data') \subseteq Range(data)
  BY <1>2, <1>3
<1>5. Range(data) \subseteq Range(data')
  BY <1>2, <1>3
<1> QED
  BY <1>4, <1>5

-----------------------------------------------------------------------------
(* The loops. *)

(* A request that moves up leaves the rest in order. *)
LEMMA UpTurn ==
  ASSUME IInv, sift_up
  PROVE  OrderInv'
<1> USE DEF IInv
<1> DEFINE p == parent(index)
<1>1. index \in 0 .. size - 1 /\ size \in Nat /\ UNCHANGED size /\ doing = "up"
  BY HeapArgs DEF sift_up, loop_frame, IndexInv, TypeOK
<1>2. CASE ~above_a_better(index)
  <2>1. /\ UNCHANGED data /\ doing' = "none"
    BY <1>2 DEF sift_up, return, walk
  <2>2. ASSUME NEW i \in 1 .. size - 1
        PROVE  ordered(i)
    <3>1. CASE i # index
      BY <1>1, <3>1 DEF OrderInv
    <3>2. CASE i = index
      <4>1. ~request_before(data[i], data[parent(i)])
        BY <1>2, <3>2 DEF above_a_better
      <4>2. i \in 0 .. size - 1 /\ parent(i) \in 0 .. size - 1 /\ i # parent(i)
        BY <1>1, Parent
      <4>3. data[i].sequence # data[parent(i)].sequence
        BY <4>2 DEF DistinctInv
      <4> QED
        BY <4>1, <4>2, <4>3, Total, Entry DEF ordered
    <3> QED
      BY <3>1, <3>2
  <2> QED
    BY <1>1, <2>1, <2>2 DEF OrderInv, ordered
<1>3. CASE above_a_better(index)
  <2>1. /\ swap(index, p) /\ doing' = "up" /\ index' = p
        /\ index > 0 /\ request_before(data[index], data[p])
    BY <1>3 DEF sift_up, walk, above_a_better
  <2>2. p \in 0 .. size - 1 /\ p < index
    BY <1>1, <2>1, Parent
  <2> HIDE DEF p
  <2>3. /\ data'[index] = data[p]
        /\ data'[p] = data[index]
        /\ \A k \in 0 .. size - 1 : k # index /\ k # p => data'[k] = data[k]
    BY <1>1, <2>1, <2>2, Swap
  <2>4. ASSUME NEW i \in 1 .. size - 1
        PROVE  /\ i = p \/ request_before(data'[parent(i)], data'[i])
               /\ p > 0 /\ parent(i) = p => request_before(data'[parent(p)], data'[i])
    <3>1. parent(i) \in 0 .. size - 1 /\ parent(i) < i /\ i \in 0 .. size - 1
      BY <1>1, Parent
    <3>2. i = index => parent(i) = p
      BY DEF p
    <3>3. i # index => request_before(data[parent(i)], data[i])
      BY <1>1 DEF OrderInv, ordered
    <3>4. parent(i) = index => request_before(data[p], data[i])
      BY <1>1, <2>1 DEF OrderInv, p
    <3>5. p > 0 => /\ parent(p) \in 0 .. size - 1 /\ parent(p) < p
                   /\ request_before(data[parent(p)], data[p])
      BY <1>1, <2>2, Parent DEF OrderInv, ordered
    <3>6. i # p => request_before(data'[parent(i)], data'[i])
      <4>1. CASE i = index
        BY <2>1, <2>3, <3>2, <4>1
      <4>2. CASE i # index /\ parent(i) = p /\ i # p
        BY <1>1, <2>1, <2>2, <2>3, <3>1, <3>3, <4>2, Transitive, Entry
      <4>3. CASE parent(i) = index /\ i # p
        BY <2>3, <3>1, <3>4, <4>3
      <4>4. CASE i # index /\ parent(i) # p /\ parent(i) # index /\ i # p
        BY <2>3, <3>1, <3>3, <4>4
      <4> QED
        BY <4>1, <4>2, <4>3, <4>4
    <3>7. p > 0 /\ parent(i) = p => request_before(data'[parent(p)], data'[i])
      <4> SUFFICES ASSUME p > 0, parent(i) = p
                   PROVE  request_before(data'[parent(p)], data'[i])
        OBVIOUS
      <4>1. data'[parent(p)] = data[parent(p)] /\ i # p
        BY <2>2, <2>3, <3>1, <3>5
      <4>2. CASE i = index
        BY <2>3, <3>5, <4>1, <4>2
      <4>3. CASE i # index
        BY <2>2, <2>3, <3>1, <3>3, <3>5, <4>1, <4>3, Transitive, Entry
      <4> QED
        BY <4>2, <4>3
    <3> QED
      BY <3>6, <3>7
  <2> QED
    BY <1>1, <2>1, <2>4 DEF OrderInv, ordered
<1> QED
  BY <1>2, <1>3

(* What sink and sift_down have in common: the request at index changes     *)
(* places with the best one below it.                                       *)
LEMMA DownTurn ==
  ASSUME IInv, doing \in {"sink", "down"}, UNCHANGED size, doing' = doing,
         index \in 0 .. size - 1,
         NEW b \in 1 .. size - 1, parent(b) = index, swap(index, b), index' = b,
         request_before(data[b], data[index]),
         \A i \in 1 .. size - 1 :
           parent(i) = index /\ i # b => request_before(data[b], data[i])
  PROVE  OrderInv'
<1> USE DEF IInv
<1>1. size \in Nat /\ b \in 0 .. size - 1
  BY HeapArgs DEF TypeOK
<1>2. /\ data'[index] = data[b]
      /\ data'[b] = data[index]
      /\ \A k \in 0 .. size - 1 : k # index /\ k # b => data'[k] = data[k]
  BY <1>1, Swap
<1>3. ASSUME NEW i \in 1 .. size - 1
      PROVE  /\ parent(i) = b \/ request_before(data'[parent(i)], data'[i])
             /\ parent(i) = b => request_before(data'[index], data'[i])
  <2>1. parent(i) \in 0 .. size - 1 /\ parent(i) < i /\ i \in 0 .. size - 1
    BY <1>1, Parent
  <2>2. index < b
    BY <1>1, Parent
  <2>3. parent(i) # index => request_before(data[parent(i)], data[i])
    BY DEF OrderInv, ordered
  <2>4. parent(i) # b => request_before(data'[parent(i)], data'[i])
    <3>1. CASE i = b
      BY <1>2, <3>1
    <3>2. CASE parent(i) = index /\ i # b
      BY <1>2, <2>1, <3>2
    <3>3. CASE i = index /\ i > 0
      <4>1. request_before(data[parent(index)], data[b])
        BY <3>3 DEF OrderInv
      <4>2. parent(i) # index /\ parent(i) # b
        BY <2>1, <2>2, <3>3
      <4> QED
        BY <1>2, <2>1, <3>3, <4>1, <4>2
    <3>4. CASE i # b /\ parent(i) # index /\ i # index /\ parent(i) # b
      BY <1>2, <2>1, <2>3, <3>4
    <3> QED
      BY <3>1, <3>2, <3>3, <3>4
  <2>5. parent(i) = b => request_before(data'[index], data'[i])
    BY <1>2, <2>1, <2>2, <2>3
  <2> QED
    BY <2>4, <2>5
<1> QED
  BY <1>1, <1>3 DEF OrderInv, ordered

(* And how they end: the request at index is before those below it. *)
LEMMA DownEnds ==
  ASSUME IInv, doing \in {"sink", "down"}, UNCHANGED <<size, data>>, doing' = "none",
         \A i \in 1 .. size - 1 :
           parent(i) = index => ~request_before(data[i], data[index])
  PROVE  OrderInv'
<1> USE DEF IInv
<1>1. size \in Nat
  BY HeapArgs DEF TypeOK
<1>2. ASSUME NEW i \in 1 .. size - 1
      PROVE  ordered(i)
  <2>1. i \in 0 .. size - 1 /\ parent(i) \in 0 .. size - 1 /\ i # parent(i)
    BY <1>1, Parent
  <2>2. CASE parent(i) # index
    BY <2>2 DEF OrderInv
  <2>3. CASE parent(i) = index
    <3>1. data[i].sequence # data[parent(i)].sequence
      BY <2>1 DEF DistinctInv
    <3> QED
      BY <2>1, <2>3, <3>1, Total, Entry DEF ordered
  <2> QED
    BY <2>2, <2>3
<1> QED
  BY <1>1, <1>2 DEF OrderInv, ordered

(* The better of two places that lie below the same one. *)
LEMMA Better ==
  ASSUME IInv, NEW i \in 0 .. size - 1, NEW j \in Nat
  PROVE  /\ better(i, j) \in 0 .. size - 1
         /\ better(i, j) \in {i, j}
         /\ better(i, j) = i => (j < size => ~request_before(data[j], data[i]))
         /\ better(i, j) = j /\ i # j => request_before(data[j], data[i])
<1>1. size \in Nat
  BY HeapArgs DEF IInv, TypeOK
<1> QED
  BY <1>1, Asymmetric, Entry DEF better, IInv

LEMMA BestChild ==
  ASSUME IInv, NEW i \in 0 .. size - 1
  PROVE  /\ best_child(i) \in 0 .. size - 1
         /\ best_child(i) = i =>
              \A k \in 1 .. size - 1 :
                parent(k) = i => ~request_before(data[k], data[i])
         /\ best_child(i) # i =>
              /\ best_child(i) \in 1 .. size - 1 /\ parent(best_child(i)) = i
              /\ request_before(data[best_child(i)], data[i])
              /\ \A k \in 1 .. size - 1 :
                   parent(k) = i /\ k # best_child(i) =>
                     request_before(data[best_child(i)], data[k])
<1> DEFINE l == 2 * i + 1
           r == 2 * i + 2
           m == better(i, l)
           b == better(m, r)
<1> USE DEF IInv
<1>1. size \in Nat /\ i \in Nat /\ l \in Nat /\ r \in Nat /\ i < l /\ l < r
  BY HeapArgs DEF TypeOK
<1>2. \A k \in 1 .. size - 1 : parent(k) = i => k = l \/ k = r
  BY <1>1, Parent
<1>3. parent(l) = i /\ parent(r) = i
  BY <1>1, Children
<1> HIDE DEF l, r
<1>4. /\ m \in 0 .. size - 1
      /\ m \in {i, l}
      /\ m = i => (l < size => ~request_before(data[l], data[i]))
      /\ m = l => request_before(data[l], data[i])
  BY <1>1, Better
<1> HIDE DEF m
<1>5. /\ b \in 0 .. size - 1
      /\ b \in {m, r}
      /\ b = m => (r < size => ~request_before(data[r], data[m]))
      /\ b = r => request_before(data[r], data[m])
  <2>1. m # r
    BY <1>1, <1>4
  <2> QED
    BY <1>1, <1>4, <2>1, Better
<1>6. b = best_child(i)
  BY DEF b, m, l, r, best_child
<1> HIDE DEF b
<1>7. ASSUME NEW k \in 0 .. size - 1, NEW j \in 0 .. size - 1, k # j,
             ~request_before(data[k], data[j])
      PROVE  request_before(data[j], data[k])
  BY <1>7, Total, Entry DEF DistinctInv
<1>8. CASE m = i /\ b = i
  BY <1>1, <1>2, <1>4, <1>5, <1>6, <1>8
<1>9. CASE m = i /\ b = r
  <2>1. request_before(data[b], data[i]) /\ b \in 1 .. size - 1 /\ parent(b) = i /\ b # i
    BY <1>1, <1>3, <1>5, <1>9
  <2>2. ASSUME l < size
        PROVE  request_before(data[b], data[l])
    <3>1. l \in 0 .. size - 1
      BY <1>1, <2>2
    <3>2. request_before(data[i], data[l])
      BY <1>1, <1>4, <1>7, <1>9, <3>1
    <3> QED
      BY <1>5, <2>1, <3>1, <3>2, Transitive, Entry
  <2>3. ASSUME NEW k \in 1 .. size - 1, parent(k) = i, k # b
        PROVE  k = l /\ l < size
    BY <1>1, <1>2, <1>9, <2>3
  <2> QED
    BY <1>5, <1>6, <2>1, <2>2, <2>3
<1>10. CASE m = l /\ b = l
  <2>1. request_before(data[b], data[i]) /\ b \in 1 .. size - 1 /\ parent(b) = i /\ b # i
    BY <1>1, <1>3, <1>4, <1>10
  <2>2. ASSUME r < size
        PROVE  request_before(data[b], data[r])
    <3>1. r \in 0 .. size - 1
      BY <1>1, <2>2
    <3> QED
      BY <1>1, <1>4, <1>5, <1>7, <1>10, <2>2, <3>1
  <2>3. ASSUME NEW k \in 1 .. size - 1, parent(k) = i, k # b
        PROVE  k = r /\ r < size
    BY <1>1, <1>2, <1>10, <2>3
  <2> QED
    BY <1>5, <1>6, <2>1, <2>2, <2>3
<1>11. CASE m = l /\ b = r
  <2>1. b \in 1 .. size - 1 /\ parent(b) = i /\ b # i /\ l \in 0 .. size - 1
    BY <1>1, <1>3, <1>4, <1>5, <1>11
  <2>2. request_before(data[b], data[l])
    BY <1>5, <1>11
  <2>3. request_before(data[b], data[i])
    BY <1>4, <1>5, <1>11, <2>1, <2>2, Transitive, Entry
  <2>4. ASSUME NEW k \in 1 .. size - 1, parent(k) = i, k # b
        PROVE  k = l
    BY <1>2, <1>11, <2>4
  <2> QED
    BY <1>5, <1>6, <2>1, <2>2, <2>3, <2>4
<1> QED
  BY <1>1, <1>4, <1>5, <1>8, <1>9, <1>10, <1>11

(* heap_pop's loop carries the order on. *)
LEMMA SinkStep ==
  ASSUME IInv, sink
  PROVE  OrderInv'
<1> DEFINE b == best_child(index)
<1>1. size \in Nat /\ index \in Nat /\ UNCHANGED size /\ doing = "sink"
  BY HeapArgs DEF sink, loop_frame, IInv, TypeOK
<1>2. CASE index < size /\ b # index
  <2>1. swap(index, b) /\ doing' = "sink" /\ index' = b
    BY <1>2 DEF sink, walk
  <2>2. index \in 0 .. size - 1
    BY <1>1, <1>2
  <2>3. /\ b \in 1 .. size - 1 /\ parent(b) = index
        /\ request_before(data[b], data[index])
        /\ \A k \in 1 .. size - 1 :
             parent(k) = index /\ k # b => request_before(data[b], data[k])
    BY <1>2, <2>2, BestChild
  <2> HIDE DEF b
  <2> QED
    BY <1>1, <2>1, <2>2, <2>3, DownTurn
<1>3. CASE ~(index < size /\ b # index)
  <2>1. UNCHANGED data /\ doing' = "none"
    BY <1>3 DEF sink, return, walk
  <2>2. ASSUME NEW k \in 1 .. size - 1, parent(k) = index
        PROVE  ~request_before(data[k], data[index])
    <3>1. index \in 0 .. size - 1
      BY <1>1, <2>2, Parent
    <3> QED
      BY <1>1, <1>3, <2>2, <3>1, BestChild
  <2> QED
    BY <1>1, <2>1, <2>2, DownEnds
<1> QED
  BY <1>2, <1>3

(* So does heap_remove's, which compares the two below first. *)
LEMMA SiftDownStep ==
  ASSUME IInv, sift_down
  PROVE  OrderInv'
<1> USE DEF IInv
<1> DEFINE l == 2 * index + 1
           r == 2 * index + 2
           b == better(l, r)
<1>1. /\ size \in Nat /\ index \in Nat /\ UNCHANGED size /\ doing = "down"
      /\ index \in 0 .. size - 1
  BY HeapArgs DEF sift_down, loop_frame, TypeOK, IndexInv
<1>2. l \in Nat /\ r \in Nat /\ l < r /\ index < l
  BY <1>1
<1>3. \A k \in 1 .. size - 1 : parent(k) = index => k = l \/ k = r
  BY <1>1, Parent
<1>4. parent(l) = index /\ parent(r) = index
  BY <1>1, Children
<1>5. CASE l < size /\ request_before(data[b], data[index])
  <2>1. swap(index, b) /\ doing' = "down" /\ index' = b
    BY <1>5 DEF sift_down, walk
  <2> HIDE DEF l, r
  <2>2. l \in 0 .. size - 1
    BY <1>1, <1>2, <1>5
  <2>3. /\ b \in 0 .. size - 1 /\ b \in {l, r}
        /\ b = l => (r < size => ~request_before(data[r], data[l]))
        /\ b = r => request_before(data[r], data[l])
    BY <1>2, <2>2, Better
  <2> HIDE DEF b
  <2>4. b \in 1 .. size - 1 /\ parent(b) = index
    BY <1>1, <1>2, <1>4, <2>3
  <2>5. ASSUME NEW k \in 1 .. size - 1, parent(k) = index, k # b
        PROVE  request_before(data[b], data[k])
    <3>1. CASE b = l
      <4>1. k = r /\ r \in 0 .. size - 1 /\ r < size
        BY <1>1, <1>2, <1>3, <2>5, <3>1
      <4>2. data[r].sequence # data[l].sequence
        BY <1>2, <2>2, <4>1 DEF DistinctInv
      <4> QED
        BY <2>2, <2>3, <3>1, <4>1, <4>2, Total, Entry
    <3>2. CASE b = r
      BY <1>3, <2>3, <2>5, <3>2
    <3> QED
      BY <2>3, <3>1, <3>2
  <2> QED
    BY <1>1, <1>5, <2>1, <2>4, <2>5, DownTurn
<1>6. CASE ~(l < size /\ request_before(data[b], data[index]))
  <2>1. UNCHANGED data /\ doing' = "none"
    BY <1>6 DEF sift_down, return, walk
  <2> HIDE DEF l, r
  <2>2. ASSUME NEW k \in 1 .. size - 1, parent(k) = index
        PROVE  ~request_before(data[k], data[index])
    <3>1. l \in 0 .. size - 1
      BY <1>1, <1>2, <1>3, <2>2
    <3>2. /\ b \in 0 .. size - 1 /\ b \in {l, r}
          /\ b = l => (r < size => ~request_before(data[r], data[l]))
          /\ b = r => request_before(data[r], data[l])
      <4>1. l # r
        BY <1>2
      <4> QED
        BY <1>2, <3>1, <4>1, Better
    <3>3. ~request_before(data[b], data[index])
      BY <1>1, <1>2, <1>6, <3>1
    <3> HIDE DEF b
    <3>4. CASE k = b
      BY <3>3, <3>4
    <3>5. CASE k # b
      <4>1. k \in 0 .. size - 1 /\ {k, b} = {l, r} /\ r < size
        BY <1>1, <1>2, <1>3, <2>2, <3>2, <3>5
      <4>2. data[k].sequence # data[b].sequence
        BY <3>2, <3>5, <4>1 DEF DistinctInv
      <4>3. request_before(data[b], data[k])
        BY <1>2, <3>2, <3>5, <4>1, <4>2, Total, Entry
      <4> QED
        BY <1>1, <3>2, <3>3, <4>1, <4>3, Transitive, Entry
    <3> QED
      BY <3>4, <3>5
  <2> QED
    BY <1>1, <2>1, <2>2, DownEnds
<1> QED
  BY <1>5, <1>6

-----------------------------------------------------------------------------
(* What comes before the loops. *)

(* The array behind a push, element by element. *)
LEMMA Push ==
  ASSUME TypeOK, size < capacity, NEW r \in Request, heap_push(r)
  PROVE  /\ size' = size + 1 /\ size' \in 0 .. capacity
         /\ data' \in [0 .. size' - 1 -> Request]
         /\ data'[size] = r
         /\ \A k \in 0 .. size - 1 : data'[k] = data[k]
<1>1. size \in Nat /\ size + 1 - 1 = size /\ size' = size + 1 /\ capacity \in Nat
  BY HeapArgs DEF TypeOK, heap_push
<1>2. data' = [k \in 0 .. size |-> IF k = size THEN r ELSE data[k]]
  BY DEF heap_push
<1>3. ASSUME NEW k \in 0 .. size
      PROVE  (IF k = size THEN r ELSE data[k]) \in Request
  BY <1>1 DEF TypeOK
<1>4. data' \in [0 .. size -> Request]
  BY <1>2, <1>3
<1> QED
  BY <1>1, <1>2, <1>4

LEMMA Move ==
  ASSUME TypeOK, NEW i \in 0 .. size - 1, move_last_to(i)
  PROVE  /\ size' = size - 1 /\ size' \in 0 .. capacity
         /\ data' \in [0 .. size' - 1 -> Request]
         /\ \A k \in 0 .. size' - 1 :
              data'[k] = IF k = i THEN data[size - 1] ELSE data[k]
<1>1. size \in Nat /\ size - 1 - 1 = size - 2 /\ size' = size - 1 /\ capacity \in Nat
  BY HeapArgs DEF TypeOK, move_last_to
<1>2. data' = [k \in 0 .. size - 2 |-> IF k = i THEN data[size - 1] ELSE data[k]]
  BY DEF move_last_to
<1>3. ASSUME NEW k \in 0 .. size - 2
      PROVE  (IF k = i THEN data[size - 1] ELSE data[k]) \in Request
  BY <1>1 DEF TypeOK
<1>4. data' \in [0 .. size - 2 -> Request]
  BY <1>2, <1>3
<1>5. size' - 1 = size - 2 /\ size' \in 0 .. capacity
  BY <1>1 DEF TypeOK
<1> QED
  BY <1>1, <1>2, <1>4, <1>5

LEMMA MoveKeepsDistinct ==
  ASSUME TypeOK, DistinctInv, UNCHANGED next_sequence,
         NEW i \in 0 .. size - 1, move_last_to(i)
  PROVE  DistinctInv'
<1> DEFINE from(k) == IF k = i THEN size - 1 ELSE k
<1>1. size \in Nat
  BY HeapArgs DEF TypeOK
<1>2. ASSUME NEW k \in 0 .. size' - 1
      PROVE  from(k) \in 0 .. size - 1 /\ data'[k] = data[from(k)]
  BY <1>1, Move
<1>3. ASSUME NEW k \in 0 .. size' - 1, NEW l \in 0 .. size' - 1, k # l
      PROVE  from(k) # from(l)
  BY <1>1, <1>3, Move
<1> HIDE DEF from
<1> QED
  BY <1>2, <1>3 DEF DistinctInv

(* A coder's request is where heap_remove finds it. *)
LEMMA Place ==
  ASSUME TypeOK, NEW c, holds(c)
  PROVE  place(c) \in 0 .. size - 1 /\ data[place(c)].coder = c
<1>1. \E i \in DOMAIN data : data[i].coder = c
  BY DEF holds
<1>2. place(c) \in DOMAIN data /\ data[place(c)].coder = c
  BY <1>1, Zenon DEF place
<1> QED
  BY <1>2 DEF TypeOK

LEMMA PushRequest ==
  ASSUME IInv, NEW c \in Coders, NEW d \in Deadlines, push_request(c, d)
  PROVE  IInv'
<1> USE DEF IInv
<1>1. size \in Nat /\ capacity \in Nat /\ next_sequence \in Nat
  BY HeapArgs DEF TypeOK
<1>2. next_sequence' = next_sequence + 1 /\ doing = "none"
  BY DEF push_request
<1>3. CASE heap_full
  <2>1. UNCHANGED <<data, size, doing, index>>
    BY <1>3 DEF push_request
  <2>2. TypeOK' /\ IndexInv' /\ OrderInv'
    BY <1>1, <1>2, <2>1 DEF TypeOK, IndexInv, OrderInv, ordered
  <2>3. DistinctInv'
    BY <1>1, <1>2, <2>1, Entry, Fields DEF DistinctInv
  <2> QED
    BY <2>2, <2>3
<1>4. CASE ~heap_full
  <2> DEFINE r == request(c, d)
  <2>1. heap_push(r) /\ size < capacity /\ ~holds(c)
    <3>1. heap_push(request(c, d)) /\ ~holds(c)
      BY <1>4 DEF push_request
    <3>2. size < capacity
      BY <1>1, <1>4 DEF heap_full
    <3> QED
      BY <3>1, <3>2
  <2>2. r \in Request /\ r.coder = c /\ r.sequence = next_sequence
    BY <1>1 DEF request, Request
  <2> HIDE DEF r
  <2>3. /\ size' = size + 1 /\ size' \in 0 .. capacity
        /\ data' \in [0 .. size' - 1 -> Request]
        /\ data'[size] = r
        /\ \A k \in 0 .. size - 1 : data'[k] = data[k]
    BY <2>1, <2>2, Push
  <2>4. doing' = "up" /\ index' = size
    BY <2>1 DEF heap_push, walk
  <2>5. TypeOK' /\ IndexInv'
    BY <1>1, <1>2, <2>3, <2>4 DEF TypeOK, IndexInv
  <2>6. DistinctInv'
    <3>1. ASSUME NEW k \in 0 .. size - 1
          PROVE  /\ data'[k] = data[k] /\ data[k].sequence \in Nat
                 /\ data[k].coder # c /\ data[k].sequence < next_sequence
      BY <2>1, <2>3, Entry, Fields DEF holds, DistinctInv, TypeOK
    <3>2. 0 .. size' - 1 = (0 .. size - 1) \cup {size}
      BY <1>1, <2>3
    <3> QED
      BY <1>1, <1>2, <2>2, <2>3, <3>1, <3>2 DEF DistinctInv
  <2>7. ASSUME NEW i \in 1 .. size' - 1
        PROVE  /\ i = size \/ request_before(data'[parent(i)], data'[i])
               /\ parent(i) # size
    <3>1. parent(i) \in Nat /\ parent(i) < i
      BY <1>1, <2>3, Parent
    <3>2. CASE i = size
      BY <3>1, <3>2
    <3>3. CASE i # size
      <4>1. i \in 1 .. size - 1 /\ parent(i) \in 0 .. size - 1 /\ i \in 0 .. size - 1
        BY <1>1, <2>3, <3>1, <3>3
      <4>2. request_before(data[parent(i)], data[i])
        BY <1>2, <4>1 DEF OrderInv, ordered
      <4> QED
        BY <2>3, <3>1, <4>1, <4>2
    <3> QED
      BY <3>2, <3>3
  <2> QED
    BY <2>4, <2>5, <2>6, <2>7 DEF OrderInv, ordered
<1> QED
  BY <1>3, <1>4

LEMMA Pop ==
  ASSUME IInv, NEW c \in Coders, pop(c)
  PROVE  IInv'
<1> USE DEF IInv
<1>1. /\ size \in Nat /\ 0 \in 0 .. size - 1 /\ move_last_to(0)
      /\ doing = "none" /\ doing' = "sink" /\ index' = 0 /\ UNCHANGED next_sequence
  BY HeapArgs DEF TypeOK, pop, heap_pop, walk
<1>2. /\ size' = size - 1 /\ size' \in 0 .. capacity
      /\ data' \in [0 .. size' - 1 -> Request]
      /\ \A k \in 0 .. size' - 1 : k # 0 => data'[k] = data[k]
  BY <1>1, Move
<1>3. TypeOK' /\ IndexInv'
  BY <1>1, <1>2, HeapArgs DEF TypeOK, IndexInv
<1>4. DistinctInv'
  BY <1>1, MoveKeepsDistinct
<1>5. ASSUME NEW i \in 1 .. size' - 1
      PROVE  parent(i) = 0 \/ request_before(data'[parent(i)], data'[i])
  <2>1. parent(i) \in 0 .. size' - 1 /\ i \in 0 .. size' - 1 /\ i \in 1 .. size - 1
    BY <1>1, <1>2, Parent
  <2>2. request_before(data[parent(i)], data[i])
    BY <1>1, <2>1 DEF OrderInv, ordered
  <2> QED
    BY <1>2, <2>1, <2>2
<1> QED
  BY <1>1, <1>3, <1>4, <1>5 DEF OrderInv, ordered

(* The request moved into the hole is put right by one of the two loops.   *)
LEMMA Remove ==
  ASSUME IInv, NEW c \in Coders, remove(c)
  PROVE  IInv'
<1> USE DEF IInv
<1>1. size \in Nat /\ capacity \in Nat /\ doing = "none" /\ UNCHANGED next_sequence
  BY HeapArgs DEF TypeOK, remove
<1>2. CASE ~holds(c)
  <2>1. UNCHANGED <<data, size, doing, index>>
    BY <1>2 DEF remove
  <2> QED
    BY <1>1, <2>1 DEF TypeOK, DistinctInv, IndexInv, OrderInv, ordered
<1>3. CASE holds(c)
  <2> DEFINE h == place(c)
             last == data[size - 1]
             better_than_above == h > 0 /\ request_before(last, data[parent(h)])
  <2>1. h \in 0 .. size - 1
    BY <1>3, Place
  <2>2. /\ move_last_to(h)
        /\ IF h = size - 1 THEN doing' = "none" /\ index' = 0
           ELSE /\ doing' = IF better_than_above THEN "up" ELSE "down"
                /\ index' = h
    BY <1>3 DEF remove, heap_remove, return, walk
  <2> HIDE DEF h
  <2>3. /\ size' = size - 1 /\ size' \in 0 .. capacity
        /\ data' \in [0 .. size' - 1 -> Request]
        /\ \A k \in 0 .. size' - 1 : data'[k] = IF k = h THEN last ELSE data[k]
    BY <2>1, <2>2, Move
  <2>4. TypeOK' /\ IndexInv'
    <3>1. CASE h = size - 1
      BY <1>1, <2>1, <2>2, <2>3, <3>1 DEF TypeOK, IndexInv
    <3>2. CASE h # size - 1
      <4>1. doing' \in {"up", "down"} /\ index' = h
        BY <2>2, <3>2
      <4>2. h < size' /\ h \in 0 .. size'
        BY <1>1, <2>1, <2>3, <3>2
      <4> QED
        BY <1>1, <2>3, <4>1, <4>2 DEF TypeOK, IndexInv
    <3> QED
      BY <3>1, <3>2
  <2>5. DistinctInv'
    BY <1>1, <2>1, <2>2, MoveKeepsDistinct
  <2>6. ASSUME NEW i \in 1 .. size - 1
        PROVE  request_before(data[parent(i)], data[i])
    BY <1>1 DEF OrderInv, ordered
  <2>7. ASSUME NEW i \in 1 .. size' - 1
        PROVE  /\ i \in 1 .. size - 1 /\ i \in 0 .. size - 1 /\ i \in 0 .. size' - 1
               /\ parent(i) \in 0 .. size' - 1 /\ parent(i) \in 0 .. size - 1
               /\ parent(i) < i
    BY <1>1, <2>3, Parent
  <2>8. CASE h = size - 1
    <3>1. ASSUME NEW i \in 1 .. size' - 1
          PROVE  request_before(data'[parent(i)], data'[i])
      <4>1. i # h /\ parent(i) # h
        BY <1>1, <2>3, <2>7, <2>8
      <4> QED
        BY <2>3, <2>6, <2>7, <4>1
    <3> QED
      BY <2>2, <2>4, <2>5, <2>8, <3>1 DEF OrderInv, ordered
  <2>9. CASE h # size - 1
    <3>1. h \in 0 .. size' - 1 /\ size - 1 \in 0 .. size - 1 /\ last \in Request
      BY <1>1, <2>1, <2>3, <2>9, Entry
    <3>2. h > 0 => /\ parent(h) \in 0 .. size' - 1 /\ parent(h) \in 0 .. size - 1
                   /\ parent(h) # h /\ request_before(data[parent(h)], data[h])
      BY <1>1, <2>1, <2>3, <2>6, <3>1, Parent
    <3> HIDE DEF last
    (* Those below the hole are in order with the one above it.            *)
    <3>3. ASSUME NEW i \in 1 .. size' - 1, h > 0, parent(i) = h
          PROVE  request_before(data'[parent(h)], data'[i])
      <4>1. request_before(data[h], data[i]) /\ i # h
        BY <2>6, <2>7, <3>3
      <4>2. request_before(data[parent(h)], data[i])
        BY <2>1, <2>7, <3>2, <3>3, <4>1, Transitive, Entry
      <4> QED
        BY <2>3, <2>7, <3>2, <3>3, <4>1, <4>2
    <3>4. ASSUME NEW i \in 1 .. size' - 1, i # h, parent(i) # h
          PROVE  request_before(data'[parent(i)], data'[i])
      BY <2>3, <2>6, <2>7, <3>4
    <3>5. CASE better_than_above
      <4>1. ASSUME NEW i \in 1 .. size' - 1, i # h, parent(i) = h
            PROVE  request_before(data'[h], data'[i])
        <5>1. request_before(data[h], data[i])
          BY <2>6, <2>7, <4>1
        <5>2. request_before(last, data[h])
          BY <2>1, <3>1, <3>2, <3>5, Transitive, Entry
        <5>3. request_before(last, data[i])
          BY <2>1, <2>7, <3>1, <5>1, <5>2, Transitive, Entry
        <5> QED
          BY <2>3, <2>7, <3>1, <4>1, <5>3
      <4>2. doing' = "up" /\ index' = h
        BY <2>2, <2>9, <3>5
      <4>3. ASSUME NEW i \in 1 .. size' - 1
            PROVE  i = h \/ request_before(data'[parent(i)], data'[i])
        BY <3>4, <4>1
      <4> HIDE DEF better_than_above
      <4> QED
        BY <2>4, <2>5, <3>3, <4>2, <4>3 DEF OrderInv, ordered
    <3>6. CASE ~better_than_above
      <4>1. ASSUME h > 0
            PROVE  request_before(data'[parent(h)], data'[h])
        <5>1. ~request_before(last, data[parent(h)])
          BY <3>6, <4>1
        <5>2. last.sequence # data[parent(h)].sequence
          <6>1. parent(h) # size - 1
            BY <1>1, <2>3, <3>2, <4>1
          <6> QED
            BY <3>1, <3>2, <4>1, <6>1 DEF DistinctInv, last
        <5>3. request_before(data[parent(h)], last)
          BY <3>1, <3>2, <4>1, <5>1, <5>2, Total, Entry
        <5> QED
          BY <2>3, <3>1, <3>2, <4>1, <5>3
      <4>2. doing' = "down" /\ index' = h
        BY <2>2, <2>9, <3>6
      <4>3. ASSUME NEW i \in 1 .. size' - 1
            PROVE  parent(i) = h \/ request_before(data'[parent(i)], data'[i])
        BY <2>7, <3>4, <4>1
      <4> HIDE DEF better_than_above
      <4> QED
        BY <2>4, <2>5, <3>3, <4>2, <4>3 DEF OrderInv, ordered
    <3> QED
      BY <3>5, <3>6
  <2> QED
    BY <2>8, <2>9
<1> QED
  BY <1>2, <1>3

(* A turn of a loop exchanges two requests, or is the last.                *)
LEMMA LoopTurn ==
  ASSUME IInv, sift_up \/ sink \/ sift_down
  PROVE  /\ UNCHANGED <<size, next_sequence, answer>>
         /\ \/ UNCHANGED data /\ doing' = "none" /\ index' = 0
            \/ /\ doing' = doing /\ doing # "none"
               /\ \E i, j \in 0 .. size - 1 : swap(i, j) /\ index' = j
<1> USE DEF IInv
<1>1. size \in Nat /\ index \in Nat
  BY HeapArgs DEF TypeOK
<1>2. UNCHANGED <<size, next_sequence, answer>>
  BY DEF sift_up, sink, sift_down, loop_frame
<1>3. CASE sift_up
  <2>1. CASE above_a_better(index)
    <3>1. swap(index, parent(index)) /\ doing' = "up" /\ index' = parent(index)
          /\ doing = "up" /\ index > 0
      BY <1>3, <2>1 DEF sift_up, walk, above_a_better
    <3>2. index \in 0 .. size - 1
      BY <1>1, <3>1 DEF IndexInv
    <3>3. parent(index) \in 0 .. size - 1
      BY <1>1, <3>1, <3>2, Parent
    <3> QED
      BY <1>2, <3>1, <3>2, <3>3
  <2>2. CASE ~above_a_better(index)
    BY <1>2, <1>3, <2>2 DEF sift_up, return, walk
  <2> QED
    BY <2>1, <2>2
<1>4. CASE sink
  <2> DEFINE b == best_child(index)
  <2>1. CASE index < size /\ b # index
    <3>1. swap(index, b) /\ doing' = "sink" /\ index' = b /\ doing = "sink"
      BY <1>4, <2>1 DEF sink, walk
    <3>2. index \in 0 .. size - 1 /\ b \in 0 .. size - 1
      BY <1>1, <2>1, BestChild
    <3> HIDE DEF b
    <3> QED
      BY <1>2, <3>1, <3>2
  <2>2. CASE ~(index < size /\ b # index)
    BY <1>2, <1>4, <2>2 DEF sink, return, walk
  <2> QED
    BY <2>1, <2>2
<1>5. CASE sift_down
  <2> DEFINE l == 2 * index + 1
             r == 2 * index + 2
             b == better(l, r)
  <2>1. CASE l < size /\ request_before(data[b], data[index])
    <3>1. swap(index, b) /\ doing' = "down" /\ index' = b /\ doing = "down"
      BY <1>5, <2>1 DEF sift_down, walk
    <3>2. index \in 0 .. size - 1 /\ l \in 0 .. size - 1 /\ r \in Nat
      BY <1>1, <2>1
    <3>3. b \in 0 .. size - 1
      BY <3>2, Better
    <3> HIDE DEF b
    <3> QED
      BY <1>2, <3>1, <3>2, <3>3
  <2>2. CASE ~(l < size /\ request_before(data[b], data[index]))
    BY <1>2, <1>5, <2>2 DEF sift_down, return, walk
  <2> QED
    BY <2>1, <2>2
<1> QED
  BY <1>3, <1>4, <1>5

LEMMA LoopStep ==
  ASSUME IInv, sift_up \/ sink \/ sift_down
  PROVE  IInv'
<1> USE DEF IInv
<1>1. OrderInv'
  BY UpTurn, SinkStep, SiftDownStep
<1>2. UNCHANGED <<size, next_sequence>> /\ size \in Nat
  BY LoopTurn, HeapArgs DEF TypeOK
<1>3. CASE UNCHANGED data /\ doing' = "none" /\ index' = 0
  <2>1. TypeOK' /\ IndexInv' /\ DistinctInv'
    BY <1>2, <1>3 DEF TypeOK, IndexInv, DistinctInv
  <2> QED
    BY <1>1, <2>1
<1>4. CASE /\ doing' = doing
           /\ \E i, j \in 0 .. size - 1 : swap(i, j) /\ index' = j
  <2>1. PICK i \in 0 .. size - 1, j \in 0 .. size - 1 : swap(i, j) /\ index' = j
    BY <1>4
  <2>2. data' \in [0 .. size' - 1 -> Request]
    BY <1>2, <2>1, Swap
  <2>3. DistinctInv'
    BY <1>2, <2>1, SwapKeepsDistinct
  <2>4. TypeOK' /\ IndexInv'
    BY <1>2, <1>4, <2>1, <2>2 DEF TypeOK, IndexInv
  <2> QED
    BY <1>1, <2>3, <2>4
<1> QED
  BY <1>3, <1>4, LoopTurn

-----------------------------------------------------------------------------
(* The theorems. *)

(* IInv is inductive: calls begin with it, and every turn keeps it. *)
THEOREM Invariance == Spec => []IInv
<1>1. IInv /\ [Next]_vars => IInv'
  <2> SUFFICES ASSUME IInv, [Next]_vars PROVE IInv'
    OBVIOUS
  <2>1. CASE UNCHANGED vars
    BY <2>1 DEF vars, IInv, TypeOK, DistinctInv, IndexInv, OrderInv, ordered
  <2>2. CASE Next
    BY <2>2, PushRequest, Pop, Remove, LoopStep DEF Next
  <2> QED
    BY <2>1, <2>2
<1> QED
  BY <1>1, InitIInv, PTL DEF Spec

(* The array never has a gap, and never outgrows what init_heap allocated. *)
THEOREM TypeCorrect == Spec => []TypeOK
<1>1. IInv => TypeOK
  BY DEF IInv
<1> QED
  BY <1>1, Invariance, PTL

(***************************************************************************)
(* Whatever is pushed, popped and removed, and in whatever order: when     *)
(* heap_push, heap_pop or heap_remove returns, no request stands above a   *)
(* better one.                                                             *)
(***************************************************************************)
THEOREM HeapIsInOrder == Spec => []HeapOrder
<1>1. IInv => HeapOrder
  BY DEF IInv, OrderInv, ordered, HeapOrder
<1> QED
  BY <1>1, Invariance, PTL

-----------------------------------------------------------------------------
(* The heap implements the queue. *)

(* Nothing in a heap is before its head: were there such requests, then    *)
(* there would be a first place of one, and the one above it would be such *)
(* a request, too.                                                         *)
LEMMA HeadIsFirst ==
  ASSUME IInv, doing = "none", NEW i \in 0 .. size - 1, i # 0
  PROVE  request_before(data[0], data[i])
<1> DEFINE S == {k \in 1 .. size - 1 : ~request_before(data[0], data[k])}
<1> USE DEF IInv
<1>1. size \in Nat
  BY HeapArgs DEF TypeOK
<1>2. SUFFICES ASSUME S # {} PROVE FALSE
  BY <1>1
<1>3. S \in SUBSET Nat
  BY <1>1
<1>4. PICK n \in S : \A m \in S : ~(m < n)
  <2> HIDE DEF S
  <2> QED
    BY <1>2, <1>3, LeastNumber
<1>5. /\ n \in 1 .. size - 1 /\ n \in 0 .. size - 1 /\ 0 \in 0 .. size - 1
      /\ parent(n) \in 0 .. size - 1 /\ parent(n) < n
  BY <1>1, Parent
<1>6. request_before(data[parent(n)], data[n])
  BY <1>5 DEF OrderInv, ordered
<1>7. parent(n) = 0 \/ request_before(data[0], data[parent(n)])
  BY <1>1, <1>4, <1>5
<1>8. request_before(data[0], data[n])
  BY <1>5, <1>6, <1>7, Transitive, Entry
<1> QED
  BY <1>8

(* There are as many requests in the heap as its size says. *)
LEMMA SizeIsCardinality ==
  ASSUME IInv
  PROVE  Cardinality(Range(data)) = size
<1>1. size \in Nat /\ DOMAIN data = 0 .. size - 1
  BY HeapArgs DEF IInv, TypeOK
<1>2. data \in Bijection(0 .. size - 1, Range(data))
  <2>1. data \in [0 .. size - 1 -> Range(data)]
    BY <1>1 DEF Range, IInv, TypeOK
  <2>2. \A i, j \in 0 .. size - 1 : data[i] = data[j] => i = j
    BY DEF IInv, DistinctInv
  <2>3. \A r \in Range(data) : \E i \in 0 .. size - 1 : data[i] = r
    BY <1>1 DEF Range
  <2> QED
    BY <2>1, <2>2, <2>3 DEF Bijection, Injection, Surjection, IsInjective
<1>3. IsFiniteSet(0 .. size - 1) /\ Cardinality(0 .. size - 1) = size
  BY <1>1, FS_Interval
<1> QED
  BY <1>2, <1>3, FS_Bijection DEF ExistsBijection

(* The queue's module counts as this one does. *)
LEMMA SameCount ==
  ASSUME NEW S
  PROVE  Q!Cardinality(S) = Cardinality(S)
BY DEF Cardinality, Q!Cardinality

(* A request that leaves the heap leaves the queue, and no other does. *)
LEMMA MoveTakesOne ==
  ASSUME IInv, NEW i \in 0 .. size - 1, move_last_to(i)
  PROVE  Range(data') = Range(data) \ {data[i]}
<1>1. /\ size \in Nat /\ size' = size - 1
      /\ DOMAIN data = 0 .. size - 1 /\ DOMAIN data' = 0 .. size' - 1
      /\ \A k \in 0 .. size' - 1 :
           data'[k] = IF k = i THEN data[size - 1] ELSE data[k]
  BY Move, HeapArgs DEF IInv, TypeOK
<1>2. \A k, l \in 0 .. size - 1 : data[k] = data[l] => k = l
  BY DEF IInv, DistinctInv
<1>3. ASSUME NEW k \in 0 .. size' - 1
      PROVE  data'[k] \in Range(data) \ {data[i]}
  <2>1. PICK l \in 0 .. size - 1 : data'[k] = data[l] /\ l # i
    BY <1>1
  <2> QED
    BY <1>1, <1>2, <2>1 DEF Range
<1>4. ASSUME NEW l \in 0 .. size - 1, l # i
      PROVE  data[l] \in Range(data')
  <2>1. PICK k \in 0 .. size' - 1 : data'[k] = data[l]
    <3>1. CASE l = size - 1
      <4>1. i \in 0 .. size' - 1 /\ data'[i] = data[l]
        BY <1>1, <1>4, <3>1
      <4> QED
        BY <4>1
    <3>2. CASE l # size - 1
      <4>1. l \in 0 .. size' - 1 /\ data'[l] = data[l]
        BY <1>1, <1>4, <3>2
      <4> QED
        BY <4>1
    <3> QED
      BY <3>1, <3>2
  <2> QED
    BY <1>1, <2>1 DEF Range
<1>5. /\ Range(data) = {data[k] : k \in 0 .. size - 1}
      /\ Range(data') = {data'[k] : k \in 0 .. size' - 1}
  BY <1>1 DEF Range
<1> QED
  BY <1>3, <1>4, <1>5

LEMMA PushImplements ==
  ASSUME IInv, NEW c \in Coders, NEW d \in Deadlines, push_request(c, d)
  PROVE  Q!Push(c)
<1>1. Q!Cardinality(Range(data)) = size /\ size \in Nat /\ capacity \in Nat
  BY SizeIsCardinality, SameCount, HeapArgs DEF IInv, TypeOK
<1>2. CASE heap_full
  BY <1>1, <1>2 DEF push_request, heap_full, Q!Push
<1>3. CASE ~heap_full
  <2> DEFINE r == request(c, d)
  <2>1. heap_push(r) /\ size < capacity /\ ~holds(c) /\ answer' = <<"push", c, TRUE>>
    <3>1. heap_push(request(c, d)) /\ ~holds(c) /\ answer' = <<"push", c, TRUE>>
      BY <1>3 DEF push_request
    <3>2. size < capacity
      BY <1>1, <1>3 DEF heap_full
    <3> QED
      BY <3>1, <3>2
  <2>2. r \in Request /\ r.coder = c
    BY DEF request, Request, IInv, TypeOK
  <2> HIDE DEF r
  <2>3. /\ size' = size + 1 /\ data'[size] = r
        /\ DOMAIN data = 0 .. size - 1 /\ DOMAIN data' = 0 .. size' - 1
        /\ \A k \in 0 .. size - 1 : data'[k] = data[k]
    BY <2>1, <2>2, Push DEF IInv, TypeOK
  <2>4. r \notin Range(data)
    BY <2>1, <2>2 DEF holds, Range
  <2>5. Range(data') = Range(data) \cup {r}
    <3>1. 0 .. size' - 1 = (0 .. size - 1) \cup {size}
      BY <1>1, <2>3
    <3>2. /\ Range(data) = {data[k] : k \in 0 .. size - 1}
          /\ Range(data') = {data'[k] : k \in (0 .. size - 1) \cup {size}}
      BY <2>3, <3>1 DEF Range
    <3> QED
      BY <2>3, <3>2
  <2>6. r \in Range(data') \ Range(data)
    BY <2>4, <2>5
  <2> QED
    BY <1>1, <2>1, <2>2, <2>5, <2>6 DEF Q!Push
<1> QED
  BY <1>2, <1>3

LEMMA PopImplements ==
  ASSUME IInv, NEW c \in Coders, pop(c)
  PROVE  Q!Pop
<1>1. /\ 0 \in 0 .. size - 1 /\ DOMAIN data = 0 .. size - 1 /\ doing = "none"
      /\ move_last_to(0) /\ data[0].coder = c /\ answer' = <<"pop", c, TRUE>>
  BY HeapArgs DEF IInv, TypeOK, pop, heap_pop
<1>2. data[0] \in Range(data) /\ Range(data') = Range(data) \ {data[0]}
  BY <1>1, MoveTakesOne DEF Range
<1>3. ASSUME NEW other \in Range(data) \ {data[0]}
      PROVE  request_before(data[0], other)
  <2>1. PICK i \in 0 .. size - 1 : other = data[i] /\ i # 0
    BY <1>1 DEF Range
  <2> QED
    BY <1>1, <2>1, HeadIsFirst
<1> QED
  BY <1>1, <1>2, <1>3 DEF Q!Pop

LEMMA RemoveImplements ==
  ASSUME IInv, NEW c \in Coders, remove(c)
  PROVE  Q!Remove(c)
<1>1. DOMAIN data = 0 .. size - 1
  BY DEF IInv, TypeOK
<1>2. CASE ~holds(c)
  <2>1. UNCHANGED data /\ answer' = <<"remove", c, FALSE>>
    BY <1>2 DEF remove
  <2>2. Range(data) = {r \in Range(data) : r.coder # c} /\ Range(data') = Range(data)
    BY <1>2, <2>1 DEF holds, Range
  <2> QED
    BY <2>1, <2>2 DEF Q!Remove
<1>3. CASE holds(c)
  <2>1. move_last_to(place(c)) /\ answer' = <<"remove", c, TRUE>>
    BY <1>3 DEF remove, heap_remove
  <2>2. place(c) \in 0 .. size - 1 /\ data[place(c)].coder = c
    BY <1>3, Place DEF IInv
  <2>3. Range(data') = Range(data) \ {data[place(c)]}
    BY <2>1, <2>2, MoveTakesOne
  <2>4. ASSUME NEW r \in Range(data)
        PROVE  r.coder = c <=> r = data[place(c)]
    <3>1. PICK i \in 0 .. size - 1 : r = data[i]
      BY <1>1 DEF Range
    <3> QED
      BY <2>2, <3>1 DEF IInv, DistinctInv
  <2>5. Range(data') = {r \in Range(data) : r.coder # c}
    BY <2>3, <2>4
  <2>6. Range(data') # Range(data)
    BY <1>1, <2>2, <2>3 DEF Range
  <2> QED
    BY <2>1, <2>5, <2>6 DEF Q!Remove
<1> QED
  BY <1>2, <1>3

(* To whom waits for the call the turns of its loop are invisible. *)
LEMMA LoopStutters ==
  ASSUME IInv, sift_up \/ sink \/ sift_down
  PROVE  UNCHANGED <<Range(data), answer>>
<1>1. UNCHANGED <<size, answer>>
  BY LoopTurn
<1>2. CASE UNCHANGED data
  BY <1>1, <1>2
<1>3. CASE \E i, j \in 0 .. size - 1 : swap(i, j)
  BY <1>1, <1>3, SwapKeepsRange DEF IInv
<1> QED
  BY <1>2, <1>3, LoopTurn

(***************************************************************************)
(* The array is a bounded priority queue with withdrawal: each call does   *)
(* what the queue promises in its first step, when its answer is settled,  *)
(* and the sifting behind it neither loses nor doubles a request.          *)
(***************************************************************************)
THEOREM HeapIsAQueue == Spec => ImplementsQueue
<1>1. Init => Range(data) = {}
  BY DEF Init, Range
<1>2. IInv /\ [Next]_vars => [Q!Next]_<<Range(data), answer>>
  <2> SUFFICES ASSUME IInv, [Next]_vars PROVE [Q!Next]_<<Range(data), answer>>
    OBVIOUS
  <2>1. CASE UNCHANGED vars
    BY <2>1 DEF vars
  <2>2. CASE sift_up \/ sink \/ sift_down
    BY <2>2, LoopStutters
  <2>3. CASE \E c \in Coders, d \in Deadlines : push_request(c, d)
    BY <2>3, PushImplements DEF Q!Next
  <2>4. CASE \E c \in Coders : pop(c)
    BY <2>4, PopImplements DEF Q!Next
  <2>5. CASE \E c \in Coders : remove(c)
    BY <2>5, RemoveImplements DEF Q!Next
  <2> QED
    BY <2>1, <2>2, <2>3, <2>4, <2>5 DEF Next
<1> QED
  BY <1>1, <1>2, Invariance, PTL DEF Spec, ImplementsQueue, Q!Spec

=============================================================================
