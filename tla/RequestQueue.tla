---------------------------- MODULE RequestQueue ----------------------------
(***************************************************************************)
(* What the heap of requests promises its caller: a bounded set from which *)
(* the best request is taken, and any coder's request can be withdrawn.    *)
(***************************************************************************)
EXTENDS FiniteSets, Naturals

CONSTANTS
  Coders,
  capacity,
  before(_, _)  (* the order of the policy                                 *)

VARIABLES
  queue,   (* the requests                                                 *)
  answer   (* the last call: its name, its coder and what it returned      *)

Push(c) ==
  \/ /\ Cardinality(queue) < capacity
     /\ \E r \in queue' \ queue : r.coder = c /\ queue' = queue \cup {r}
     /\ answer' = <<"push", c, TRUE>>
  \/ /\ Cardinality(queue) >= capacity
     /\ answer' = <<"push", c, FALSE>>
     /\ UNCHANGED queue

Pop ==
  \E r \in queue :
    /\ \A other \in queue \ {r} : before(r, other)
    /\ queue' = queue \ {r}
    /\ answer' = <<"pop", r.coder, TRUE>>

Remove(c) ==
  /\ queue' = {r \in queue : r.coder # c}
  /\ answer' = <<"remove", c, queue' # queue>>

Next == Pop \/ \E c \in Coders : Push(c) \/ Remove(c)

Spec == queue = {} /\ [][Next]_<<queue, answer>>

=============================================================================
