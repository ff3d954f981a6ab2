---------------------------- MODULE WaitHistory -----------------------------
(***************************************************************************)
(* Codexion with a history variable: how far the clock ran while a coder   *)
(* was between the two readings its timed wait is made of, the one its     *)
(* length is computed with (wait_for_scheduler) and the one the length is  *)
(* added to (build_deadline).                                              *)
(***************************************************************************)
EXTENDS Codexion

VARIABLE held_up  (* coder -> that many milliseconds, until its wait ends  *)

history_vars == <<vars, held_up>>

HInit == Init /\ held_up = [c \in Coders |-> 0]

HNext ==
  /\ Next
  /\ held_up' = [c \in Coders |->
                   IF pc[c] = "set_timer" THEN held_up[c] + (now' - now)
                   ELSE IF c \in stop_waiters THEN held_up[c] ELSE 0]

HSpec == HInit /\ [][HNext]_history_vars

(***************************************************************************)
(* No lost wakeup: between two critical sections, a coder asleep on        *)
(* stop_cond whose request could be granted at once times out in a         *)
(* millisecond, or as late as it was held up on its way into the wait.     *)
(* Its timer, set before it slept, is still the right one whatever others  *)
(* have reserved and released since (wait_for_scheduler, build_deadline).  *)
(***************************************************************************)
NoSleeperMissesItsTurn ==
  \A c \in stop_waiters :
    mutex_free /\ in_time(c) /\ can_reserve(c) =>
      timer[c] <= now + 1 \/ timer[c] <= now + held_up[c]

=============================================================================
