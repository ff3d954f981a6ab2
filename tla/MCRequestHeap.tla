--------------------------- MODULE MCRequestHeap ----------------------------
(* Seven coders on a heap for six, who ask in the order of their numbers.   *)
EXTENDS RequestHeap

Askers == [n \in 0 .. requests - 1 |-> n % Cardinality(Coders)]

=============================================================================
