------------------------------- MODULE MCMain -------------------------------
(***************************************************************************)
(* Command lines for Main: a usual one, and it with one word replaced by   *)
(* each of the words at the limits of the widths, or one missing or more.  *)
(***************************************************************************)
EXTENDS Main

Usual == <<<<3>>, <<8, 0>>, <<2>>, <<0>>, <<2>>, <<5>>, <<1>>, "edf">>

(* Around nothing, MaxTime = 81, MaxU32 = 127 and MaxU64 = 16383; 163840 and *)
(* 32771 are small numbers again once they have overflowed.                  *)
Words ==
  {<<>>, <<0>>, <<7>>, <<0, 0, 3>>, <<NewLine>>, <<3, Blank>>, <<Blank, 3>>,
   <<8, 1>>, <<8, 2>>, <<1, 2, 7>>, <<1, 2, 8>>, <<1, 6, 3, 8, 3>>,
   <<1, 6, 3, 8, 4>>, <<1, 6, 3, 8, 4, 0>>, <<3, 2, 7, 7, 1>>}

MCCommands ==
  {[Usual EXCEPT ![i] = w] : i \in DOMAIN fields, w \in Words}
    \cup {[Usual EXCEPT ![8] = p] : p \in {"fifo", "edf", "", "fifo "}}
    \cup {<<>>, SubSeq(Usual, 1, 7), Append(Usual, <<1>>)}

(* One, two, three, four and five digits, with and without zeros inside. *)
MCElapsed == (0 .. 1010) \cup (9990 .. 10110) \cup {16383}

=============================================================================
