----------------------------- MODULE RingProofs -----------------------------
(***************************************************************************)
(* At a ring of any size a dispatch is complete, although it looks at each *)
(* coder once per pass and its own reservations change what it has seen.   *)
(***************************************************************************)
EXTENDS Ring, TLAPS

(* Whoever dispatches has the mutex, and the scan stays in the array. *)
CallInv ==
  /\ caller \in Coders \cup {Nobody}
  /\ dispatching => caller # Nobody
  /\ scan_i \in 0 .. number_of_coders

servable(c) == in_time(c) /\ can_reserve(c)

(* Those the running pass has looked at cannot be served as long as it has  *)
(* reserved nothing: nothing that counts has changed since it looked.       *)
PassInv ==
  dispatching /\ ~scan_changed =>
    \A c \in Coders : c < scan_i => ~servable(c)

(* Serving a coder is a matter of these variables and of nothing else. *)
LEMMA ServableFrame ==
  ASSUME UNCHANGED <<now, dongle_vars, sequence, deadline, waiting>>,
         NEW c \in Coders
  PROVE  servable(c)' <=> servable(c)
BY DEF servable, in_time, can_reserve, scheduler_pair_ready, dongle_ready,
       scheduler_is_best_ready, pair_available, request_before,
       requests_overlap, Pair, left, right, dongle_vars

(* The pass goes on behind a coder that cannot be served. *)
LEMMA PassedOver ==
  ASSUME CallInv, PassInv, dispatching, ~scan_over, ~servable(scan_i),
         scan_i' = scan_i + 1, UNCHANGED scan_changed,
         UNCHANGED <<now, dongle_vars, sequence, deadline, waiting>>
  PROVE  PassInv'
<1> SUFFICES ASSUME ~scan_changed, NEW c \in Coders, c < scan_i'
             PROVE  ~servable(c)'
  BY DEF PassInv
<1>1. c < scan_i \/ c = scan_i
  BY DEF CallInv, Coders
<1>2. ~servable(c)
  BY <1>1 DEF PassInv
<1> QED
  BY <1>2, ServableFrame

LEMMA CallStep ==
  ASSUME CallInv, [Next]_vars
  PROVE  CallInv'
<1> USE SchedulerArgs, RingArgs DEF CallInv
<1>1. CASE Tick \/ \E c \in Coders : release(c) \/ stop_for_burnout(c)
  BY <1>1 DEF Tick, release, stop_for_burnout, scheduler_vars, scan_vars
<1>2. CASE \E c \in Coders : acquire_pair(c) \/ wake(c)
  BY <1>2 DEF acquire_pair, wake, scheduler_vars, scan_vars
<1>3. CASE acquire_gives_up \/ dispatch_ends
  BY <1>3 DEF acquire_gives_up, at_test, dispatch_ends, scheduler_vars, scan_vars
<1>4. CASE acquire_dispatches
  BY <1>4 DEF acquire_dispatches, at_test, dispatch_begin
<1>5. CASE dispatch
  BY <1>5 DEF dispatch, reserve, refuse, dispatch_reserve, dispatch_refuse,
              dispatch_skip, dispatch_again, dispatch_begin, scan_over
<1>6. CASE UNCHANGED vars
  BY <1>6 DEF vars, scheduler_vars, scan_vars
<1> QED
  BY <1>1, <1>2, <1>3, <1>4, <1>5, <1>6 DEF Next

LEMMA PassStep ==
  ASSUME CallInv, PassInv, [Next]_vars
  PROVE  PassInv'
<1>1. CASE \/ Tick \/ acquire_gives_up \/ dispatch_ends
           \/ \E c \in Coders : acquire_pair(c) \/ wake(c)
           \/ \E c \in Coders : release(c) \/ stop_for_burnout(c)
  BY <1>1 DEF Tick, acquire_gives_up, at_test, dispatch_ends, acquire_pair, wake,
              release, stop_for_burnout, CallInv, PassInv
<1>2. CASE acquire_dispatches
  BY <1>2 DEF acquire_dispatches, dispatch_begin, PassInv, Coders
<1>3. CASE dispatch
  <2>1. CASE ~scan_over /\ reserve
    BY <2>1 DEF reserve, dispatch_reserve, PassInv
  <2>2. CASE ~scan_over /\ refuse
    BY <1>3, <2>2, PassedOver
       DEF dispatch, refuse, dispatch_refuse, servable, request_vars, grant_vars
  <2>3. CASE dispatch_skip
    BY <1>3, <2>3, PassedOver
       DEF dispatch, dispatch_skip, servable, request_vars, grant_vars
  <2>4. CASE dispatch_again
    BY <2>4 DEF dispatch_again, dispatch_begin, PassInv, Coders
  <2> QED
    BY <1>3, <2>1, <2>2, <2>3, <2>4 DEF dispatch
<1>4. CASE UNCHANGED vars
  <2>1. /\ UNCHANGED <<dispatching, scan_i, scan_changed>>
        /\ UNCHANGED <<now, dongle_vars, sequence, deadline, waiting>>
    BY <1>4 DEF vars, scheduler_vars, request_vars, grant_vars, scan_vars
  <2> QED
    BY <2>1, ServableFrame DEF PassInv
<1> QED
  BY <1>1, <1>2, <1>3, <1>4 DEF Next

(***************************************************************************)
(* Whoever could be served when scheduler_dispatch returns has been        *)
(* served, at any ring and under both policies: its last pass reserves     *)
(* nothing, so that what it found about each coder still holds at the end. *)
(***************************************************************************)
THEOREM DispatchServesAll == Spec => DispatchIsComplete
<1>1. Init => CallInv /\ PassInv
  BY SchedulerArgs DEF Init, scheduler_init, CallInv, PassInv
<1>2. CallInv /\ [Next]_vars => CallInv'
  BY CallStep
<1>3. CallInv /\ PassInv /\ [Next]_vars => PassInv'
  BY PassStep
<1>4. CallInv /\ PassInv =>
        (dispatch_ends => \A c \in Coders : ~(in_time(c) /\ can_reserve(c)))
  BY SchedulerArgs
     DEF PassInv, servable, dispatch_ends, dispatch_done, scan_over, Coders
<1> QED
  BY <1>1, <1>2, <1>3, <1>4, PTL DEF Spec, DispatchIsComplete

=============================================================================
