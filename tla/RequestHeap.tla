---------------------------- MODULE RequestHeap -----------------------------
(***************************************************************************)
(* A dongle's heap of requests: an array in which a request never stands   *)
(* above a better one.  heap_push, heap_pop and heap_remove walk it as     *)
(* they do in the code, one turn of their loops a step; the dongle's mutex *)
(* keeps other callers out until they have returned.                       *)
(***************************************************************************)
EXTENDS Naturals, FiniteSets, Functions

CONSTANTS
  Coders,
  Deadlines,  (* that a request may be pushed with                         *)
  policy,     (* "fifo" or "edf"                                           *)
  capacity,   (* heap->capacity                                            *)
  requests,   (* bound: so many are pushed                                 *)
  askers      (* who pushes the n-th, unless its last one is still there   *)

ASSUME HeapArgs ==
  /\ Coders \subseteq Nat
  /\ Deadlines \subseteq Nat
  /\ policy \in {"fifo", "edf"}
  /\ capacity \in Nat \ {0}
  /\ requests \in Nat
  /\ askers \in [0 .. requests - 1 -> Coders]

VARIABLES
  data,           (* heap->data below its size                             *)
  size,           (* heap->size                                            *)
  next_sequence,  (* of the dongle                                         *)
  doing,          (* the loop that runs: "up", "sink", "down", or "none"   *)
  index,          (* that loop's index                                     *)
  answer          (* the last call: its name, coder and result             *)

vars == <<data, size, next_sequence, doing, index, answer>>

-----------------------------------------------------------------------------

parent(i) == (i - 1) \div 2
swap(i, j) == data' = [data EXCEPT ![i] = data[j], ![j] = data[i]]
walk(loop, i) == doing' = loop /\ index' = i
return == walk("none", 0)

request_before(a, b) ==
  \/ policy = "edf" /\ a.deadline < b.deadline
  \/ (policy = "edf" => a.deadline = b.deadline) /\ a.sequence < b.sequence
  \/ /\ policy = "edf" /\ a.deadline = b.deadline
     /\ a.sequence = b.sequence /\ a.coder < b.coder

better(i, j) == IF j < size /\ request_before(data[j], data[i]) THEN j ELSE i

(* Mutant of best_child: the right child is not looked at. *)
left_child(i) == better(i, 2 * i + 1)

(* The best of a request and its children. *)
best_child(i) == better(better(i, 2 * i + 1), 2 * i + 2)

above_a_better(i) == i > 0 /\ request_before(data[i], data[parent(i)])

-----------------------------------------------------------------------------
(* The loops. *)

loop_frame == UNCHANGED <<size, next_sequence, answer>>

(* The loop of heap_push, which is also heap_remove's sift_up. *)
sift_up ==
  /\ doing = "up"
  /\ \/ above_a_better(index) /\ swap(index, parent(index)) /\ walk("up", parent(index))
     \/ ~above_a_better(index) /\ return /\ UNCHANGED data
  /\ loop_frame

(* The loop of heap_pop. *)
sink ==
  /\ doing = "sink"
  /\ LET best  == best_child(index)
         moves == index < size /\ best # index
     IN  \/ moves /\ swap(index, best) /\ walk("sink", best)
         \/ ~moves /\ return /\ UNCHANGED data
  /\ loop_frame

(* heap_remove's sift_down chooses between the children first. *)
sift_down ==
  /\ doing = "down"
  /\ LET child == better(2 * index + 1, 2 * index + 2)
         moves == 2 * index + 1 < size /\ request_before(data[child], data[index])
     IN  \/ moves /\ swap(index, child) /\ walk("down", child)
         \/ ~moves /\ return /\ UNCHANGED data
  /\ loop_frame

-----------------------------------------------------------------------------
(* What the functions do before their loops. *)

heap_push(r) ==
  /\ data' = [i \in 0 .. size |-> IF i = size THEN r ELSE data[i]]
  /\ size' = size + 1
  /\ walk("up", size)

(* The last request moves to i, and the heap ends before its old place.     *)
move_last_to(i) ==
  /\ data' = [k \in 0 .. size - 2 |-> IF k = i THEN data[size - 1] ELSE data[k]]
  /\ size' = size - 1

heap_pop == move_last_to(0) /\ walk("sink", 0)

holds(c) == \E i \in DOMAIN data : data[i].coder = c
place(c) == CHOOSE i \in DOMAIN data : data[i].coder = c

(* Mutant of heap_remove: the request moved into the hole only sinks. *)
heap_remove_sinking(c) ==
  /\ move_last_to(place(c))
  /\ IF place(c) = size - 1 THEN return ELSE walk("down", place(c))

(* The request moved into the hole goes up or down from there. *)
heap_remove(c) ==
  LET i == place(c)
  IN  /\ move_last_to(i)
      /\ IF i = size - 1 THEN return
         ELSE walk(IF i > 0 /\ request_before(data[size - 1], data[parent(i)])
                   THEN "up" ELSE "down", i)

-----------------------------------------------------------------------------
(* The calls. *)

Init ==
  /\ data = <<>>
  /\ size = 0
  /\ next_sequence = 0
  /\ doing = "none" /\ index = 0
  /\ answer = <<>>

request(c, d) == [coder |-> c, deadline |-> d, sequence |-> next_sequence]

(* Mutant of heap_full: the limit is noticed one request late. *)
heap_overfull == size > capacity
heap_full == size >= capacity

(* acquire_dongle begins with a push, and fails when there is no room. *)
push_request(c, d) ==
  /\ doing = "none"
  /\ next_sequence < requests /\ c = askers[next_sequence] /\ ~holds(c)
  /\ next_sequence' = next_sequence + 1
  /\ \/ ~heap_full /\ heap_push(request(c, d)) /\ answer' = <<"push", c, TRUE>>
     \/ /\ heap_full
        /\ answer' = <<"push", c, FALSE>>
        /\ UNCHANGED <<data, size, doing, index>>

(* The coder at the head takes the dongle. *)
pop(c) ==
  /\ doing = "none"
  /\ size > 0 /\ data[0].coder = c
  /\ heap_pop
  /\ answer' = <<"pop", c, TRUE>>
  /\ UNCHANGED next_sequence

(* A coder gives up, whether its request is still there or not. *)
remove(c) ==
  /\ doing = "none"
  /\ \/ holds(c) /\ heap_remove(c) /\ answer' = <<"remove", c, TRUE>>
     \/ /\ ~holds(c)
        /\ answer' = <<"remove", c, FALSE>>
        /\ UNCHANGED <<data, size, doing, index>>
  /\ UNCHANGED next_sequence

Next ==
  \/ \E c \in Coders, d \in Deadlines : push_request(c, d)
  \/ \E c \in Coders : pop(c)
  \/ \E c \in Coders : remove(c)
  \/ sift_up \/ sink \/ sift_down

Spec == Init /\ [][Next]_vars

-----------------------------------------------------------------------------
(* Properties. *)

Request == [coder : Coders, deadline : Deadlines, sequence : Nat]

(* The array has no gaps and nothing of another type. *)
TypeOK ==
  /\ size \in 0 .. capacity
  /\ data \in [0 .. size - 1 -> Request]
  /\ next_sequence \in Nat
  /\ doing \in {"none", "up", "sink", "down"}
  /\ index \in 0 .. size

(* When the functions have returned no request stands above a better one,   *)
(* wherever the hole of the last removal was: the head is the best there is. *)
HeapOrder ==
  doing = "none" =>
    \A i \in 1 .. size - 1 : request_before(data[parent(i)], data[i])

(* No request is lost or doubled while requests are moved around, and       *)
(* requests leave the heap in the order of the policy.                      *)
Q == INSTANCE RequestQueue WITH queue <- Range(data), answer <- answer,
                                before <- request_before

ImplementsQueue == Q!Spec

=============================================================================
