----------------------------- MODULE WallClock ------------------------------
(***************************************************************************)
(* Codexion on a machine whose wall clock may be set.  now_ms() reads      *)
(* CLOCK_MONOTONIC, but build_deadline turns a wait into a moment of       *)
(* CLOCK_REALTIME: when that clock is set back, the timed waits that have  *)
(* begun run out too late, here never.  Set forward, or wrapped by         *)
(* ms_to_wait * 1000000, they run out too early, as a spurious wakeup.     *)
(***************************************************************************)
EXTENDS Codexion

VARIABLES
  set_back,   (* the wall clock has been set back, which happens once      *)
  oversleeps  (* the coders whose timeout is out of reach                  *)

wall_vars == <<vars, set_back, oversleeps>>

WInit == Init /\ set_back = FALSE /\ oversleeps = {}

clock_set_back ==
  /\ ~set_back
  /\ set_back' = TRUE
  /\ oversleeps' = stop_waiters
  /\ UNCHANGED vars

(* A broadcast, or a signal, gets an oversleeper out of its wait still. *)
runs(step) ==
  /\ step
  /\ oversleeps' = oversleeps \cap stop_waiters'
  /\ UNCHANGED set_back

(* build_deadline's moment can still come. *)
timeout_works(c) == c \notin stop_waiters \cap oversleeps

coder_runs(c) == timeout_works(c) /\ runs(coder_step(c))

WNext ==
  \/ runs(Tick)
  \/ \E c \in Coders : coder_runs(c)
  \/ \E c \in Coders : runs(spurious_wakeup(c))
  \/ runs(monitor_step)
  \/ clock_set_back

(* Codexion's fairness, but a timeout out of reach is not waited for. *)
WSpec ==
  /\ WInit /\ [][WNext]_wall_vars
  /\ WF_wall_vars(runs(Tick))
  /\ \A c \in Coders : WF_wall_vars(coder_runs(c))
  /\ WF_wall_vars(runs(monitor_step))

=============================================================================
