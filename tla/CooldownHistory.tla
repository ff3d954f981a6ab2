-------------------------- MODULE CooldownHistory --------------------------
(***************************************************************************)
(* Codexion with a history variable: when each dongle really went back to  *)
(* the table.  The code's own released_at is read before the mutex that    *)
(* makes the dongle available is taken.                                    *)
(***************************************************************************)
EXTENDS Codexion

VARIABLE freed_at  (* dongle -> when it last became available; 0: never    *)

history_vars == <<vars, freed_at>>

HInit == Init /\ freed_at = [d \in Dongles |-> 0]

HNext ==
  /\ Next
  /\ freed_at' = [d \in Dongles |->
                    IF ~available[d] /\ available'[d] THEN now
                    ELSE freed_at[d]]

HSpec == HInit /\ [][HNext]_history_vars

(***************************************************************************)
(* README.md:20: "released dongles observe a cooldown before they can be   *)
(* acquired again".  Between the moment a dongle goes back and the next    *)
(* reservation of it at least dongle_cooldown passes.                      *)
(***************************************************************************)
CooldownObserved ==
  [][\A c \in Coders : reserved_now(c) =>
       \A d \in Pair(c) :
         freed_at[d] # 0 => now >= freed_at[d] + dongle_cooldown]_history_vars

=============================================================================
