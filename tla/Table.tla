------------------------------- MODULE Table --------------------------------
(***************************************************************************)
(* What the simulation promises the coders around the table, without       *)
(* threads, locks, clocks or dongles: a coder asks for its pair, compiles  *)
(* while no neighbour does, and gets up for good; once the simulation has  *)
(* stopped nobody starts to compile any more and everybody gets up.        *)
(* Codexion is shown to implement this specification.                      *)
(***************************************************************************)
CONSTANTS
  Coders,
  Neighbours(_, _)   (* do two coders share a dongle?                      *)

VARIABLES
  place,    (* coder -> what it is doing                                   *)
  stopped

table_vars == <<place, stopped>>

Places == {"away", "asking", "compiling", "gone"}

Init ==
  /\ place = [c \in Coders |-> "away"]
  /\ stopped = FALSE

move(c, from, to) ==
  /\ place[c] = from
  /\ place' = [place EXCEPT ![c] = to]
  /\ UNCHANGED stopped

Ask(c) == move(c, "away", "asking")

Compile(c) ==
  /\ ~stopped
  /\ \A other \in Coders \ {c} :
       Neighbours(c, other) => place[other] # "compiling"
  /\ move(c, "asking", "compiling")

Finish(c) == move(c, "compiling", "away")

(* A coder may give up from wherever it is. *)
GetUp(c) ==
  /\ place[c] # "gone"
  /\ place' = [place EXCEPT ![c] = "gone"]
  /\ UNCHANGED stopped

Stop ==
  /\ ~stopped
  /\ stopped' = TRUE
  /\ UNCHANGED place

Next ==
  \/ Stop
  \/ \E c \in Coders : Ask(c) \/ Compile(c) \/ Finish(c) \/ GetUp(c)

Spec == Init /\ [][Next]_table_vars

=============================================================================
