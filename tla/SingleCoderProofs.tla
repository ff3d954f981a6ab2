------------------------- MODULE SingleCoderProofs --------------------------
(***************************************************************************)
(* The table of one is left clean and nobody is left asleep at it, for     *)
(* every burnout time, cooldown and time since boot.                       *)
(***************************************************************************)
EXTENDS SingleCoder, TLAPS

(* Places at which the coder has the dongle's mutex, a request in the       *)
(* queue, or the dongle itself.                                             *)
Locking == {"test", "try", "set_timer", "withdraw"}
Asking  == Locking \cup {"wait"}
Having  == {"log", "sleep", "release"}

(* The three follow the coder's place. *)
CoderInv ==
  /\ dongle_mutex = IF pc \in Locking THEN Coder ELSE Free
  /\ available <=> pc \notin Having
  /\ queue \in Seq(Nat)
  /\ Len(queue) = IF pc \in Asking THEN 1 ELSE 0

(***************************************************************************)
(* The flag goes up in the monitor only.  When it has woken the dongle,    *)
(* under its mutex, the coder is not between its test of the flag and its  *)
(* wait, and it cannot get there again.                                    *)
(***************************************************************************)
MonitorInv ==
  /\ simulation_stop <=> m_pc \in {"unlock", "wake_dongles", "exit"}
  /\ dongle_waiter => pc = "wait"
  /\ m_pc = "exit" => ~dongle_waiter /\ pc \notin {"try", "set_timer"}

IInv == TypeOK /\ last_compile_start \in Nat /\ CoderInv /\ MonitorInv

(* The steps that go on holding, or not holding, everything. *)
asking_state == next_round \/ get_coder_deadline \/ acquire_test

-----------------------------------------------------------------------------

LEMMA InitIInv == Init => IInv
<1> SUFFICES ASSUME Init PROVE IInv
  OBVIOUS
<1> USE SingleArgs DEF Init
<1>1. TypeOK
  <2>1. now \in 1 .. MaxTime /\ released_at \in 0 .. now /\ Len(queue) <= 1
    OBVIOUS
  <2> QED
    BY <2>1, Zenon DEF TypeOK
<1>2. last_compile_start \in Nat
  OBVIOUS
<1>3. CoderInv
  BY DEF CoderInv, Locking, Asking, Having
<1>4. MonitorInv
  BY DEF MonitorInv
<1> QED
  BY <1>1, <1>2, <1>3, <1>4 DEF IInv

LEMMA StepCases ==
  ASSUME [Next]_vars
  PROVE  \/ Tick
         \/ asking_state
         \/ push_request
         \/ acquire_if_ready
         \/ wait_for_dongle
         \/ build_deadline
         \/ wake
         \/ spurious_wakeup
         \/ withdraw
         \/ taken \/ good_sleep
         \/ release_dongle
         \/ monitor_step
         \/ UNCHANGED vars
BY DEF Next, coder_step, asking_state

LEMMA TypeStep ==
  ASSUME IInv, [Next]_vars
  PROVE  TypeOK' /\ last_compile_start' \in Nat
<1> USE SingleArgs DEF IInv, TypeOK, goto, coder_frame, clock_vars, broadcast
<1>1. CASE Tick
  BY <1>1 DEF Tick, lock_vars, coder_vars, dongle_vars
<1>2. CASE asking_state
  <2>1. /\ UNCHANGED <<clock_vars, simulation_stop, state_mutex, m_pc>>
        /\ UNCHANGED <<dongle_mutex, dongle_waiter, dongle_vars>>
    BY <1>2 DEF asking_state, next_round, get_coder_deadline, acquire_test,
                asks_state
  <2>2. pc' \in {"exit", "deadline", "push", "withdraw", "try"}
    BY <1>2, Zenon DEF asking_state, next_round, get_coder_deadline,
                       acquire_test, asks_state
  <2> QED
    BY <2>1, <2>2 DEF dongle_vars
<1>3. CASE push_request
  BY <1>3 DEF push_request, lock_dongle, deadline, CoderInv
<1>4. CASE acquire_if_ready
  <2>1. Len(queue') <= 1
    BY <1>4 DEF acquire_if_ready, popped, CoderInv
  <2>2. pc' = "log" /\ dongle_waiter' = FALSE /\ available' = FALSE
    BY <1>4 DEF acquire_if_ready
  <2>3. dongle_mutex' = Free /\ UNCHANGED <<released_at, simulation_stop, m_pc,
                                            now, last_compile_start, state_mutex>>
    BY <1>4 DEF acquire_if_ready, unlock_dongle
  <2> QED
    BY <2>1, <2>2, <2>3
<1>5. CASE wait_for_dongle \/ build_deadline \/ wake
  <2>1. /\ UNCHANGED <<clock_vars, simulation_stop, state_mutex, m_pc, dongle_vars>>
        /\ dongle_mutex' \in {Free, Coder}
        /\ dongle_waiter' \in BOOLEAN
        /\ pc' \in {"set_timer", "wait", "test"}
    BY <1>5 DEF wait_for_dongle, build_deadline, wake, lock_dongle, unlock_dongle
  <2> QED
    BY <2>1 DEF dongle_vars
<1>6. CASE spurious_wakeup
  BY <1>6 DEF spurious_wakeup, coder_vars, dongle_vars
<1>7. CASE withdraw
  <2>1. Len(queue') <= 1 /\ released_at' \in 0 .. now'
    BY <1>7 DEF withdraw
  <2> QED
    BY <1>7, <2>1, Zenon DEF withdraw, unlock_dongle
<1>8. CASE taken \/ good_sleep
  BY <1>8 DEF taken, good_sleep, dongle_vars
<1>9. CASE release_dongle
  <2>1. released_at' \in 0 .. now'
    BY <1>9 DEF release_dongle, release_time
  <2> QED
    BY <1>9, <2>1, Zenon DEF release_dongle
<1>10. CASE monitor_step
  BY <1>10 DEF monitor_step, monitor_goes, monitor_round, check_burnouts,
               stop_for_burnout, burnout_declared, unlock_state,
               wake_all_dongles, coder_vars, dongle_vars
<1>11. CASE UNCHANGED vars
  BY <1>11 DEF vars, lock_vars, coder_vars, dongle_vars
<1> QED
  BY StepCases, <1>1, <1>2, <1>3, <1>4, <1>5, <1>6, <1>7, <1>8, <1>9, <1>10, <1>11

(* What the coder holds. *)
LEMMA CoderStep ==
  ASSUME IInv, [Next]_vars
  PROVE  CoderInv'
<1> USE DEF IInv, CoderInv, Locking, Asking, Having, goto
<1>1. CASE Tick \/ monitor_step \/ spurious_wakeup \/ UNCHANGED vars
  <2>1. UNCHANGED <<dongle_mutex, available, queue, pc>>
    BY <1>1 DEF Tick, monitor_step, monitor_goes, monitor_round, check_burnouts,
                stop_for_burnout, burnout_declared, wake_all_dongles,
                spurious_wakeup, vars, lock_vars, coder_vars, dongle_vars
  <2> QED
    BY <2>1
<1>2. CASE asking_state
  BY <1>2 DEF asking_state, next_round, get_coder_deadline, acquire_test,
              asks_state, dongle_vars
<1>3. CASE push_request
  <2>1. deadline \in Nat
    BY SingleArgs DEF deadline
  <2> QED
    BY <1>3, <2>1 DEF push_request, lock_dongle
<1>4. CASE acquire_if_ready
  BY <1>4 DEF acquire_if_ready, popped, unlock_dongle
<1>5. CASE wait_for_dongle \/ build_deadline \/ wake
  BY <1>5 DEF wait_for_dongle, build_deadline, wake, lock_dongle,
              unlock_dongle, dongle_vars
<1>6. CASE withdraw
  BY <1>6 DEF withdraw, unlock_dongle
<1>7. CASE taken \/ good_sleep
  BY <1>7 DEF taken, good_sleep, dongle_vars
<1>8. CASE release_dongle
  BY <1>8 DEF release_dongle
<1> QED
  BY StepCases, <1>1, <1>2, <1>3, <1>4, <1>5, <1>6, <1>7, <1>8

(* The stop and the sleeper. *)
LEMMA MonitorStep ==
  ASSUME IInv, [Next]_vars
  PROVE  MonitorInv'
<1> USE DEF IInv, MonitorInv, goto, coder_frame, broadcast
<1>1. CASE Tick \/ UNCHANGED vars
  BY <1>1 DEF Tick, vars, coder_vars
<1>2. CASE asking_state
  BY <1>2 DEF asking_state, next_round, get_coder_deadline, acquire_test, asks_state
<1>3. CASE \/ push_request \/ acquire_if_ready \/ wait_for_dongle
           \/ build_deadline \/ wake \/ withdraw \/ taken \/ good_sleep \/ release_dongle
  BY <1>3 DEF push_request, acquire_if_ready, wait_for_dongle, build_deadline,
              wake, withdraw, taken, good_sleep, release_dongle
<1>4. CASE spurious_wakeup
  BY <1>4 DEF spurious_wakeup, coder_vars
<1>5. CASE wake_all_dongles
  <2>1. pc \notin {"try", "set_timer"}
    BY <1>5, SingleArgs DEF wake_all_dongles, lock_to_wake, CoderInv, Locking
  <2> QED
    BY <1>5, <2>1 DEF wake_all_dongles, monitor_goes, coder_vars
<1>6. CASE monitor_step /\ ~wake_all_dongles
  BY <1>6 DEF monitor_step, monitor_goes, monitor_round, check_burnouts,
              stop_for_burnout, burnout_declared, coder_vars
<1> QED
  BY StepCases, <1>1, <1>2, <1>3, <1>4, <1>5, <1>6

-----------------------------------------------------------------------------
(* The theorems. *)

(* Everything held follows the coder's place, and the stop the monitor's   *)
(* (sim_stuff.c, monitor.c), however long the waits and the cooldown are.  *)
THEOREM Invariance == Spec => []IInv
<1>1. Init => IInv
  BY InitIInv
<1>2. IInv /\ [Next]_vars => IInv'
  BY TypeStep, CoderStep, MonitorStep DEF IInv
<1> QED
  BY <1>1, <1>2, PTL DEF Spec

(* The variables keep their types, and the heap of capacity one its bound. *)
THEOREM TypeCorrect == Spec => []TypeOK
<1>1. IInv => TypeOK
  BY DEF IInv
<1> QED
  BY <1>1, Invariance, PTL

(* A coder that has left has put the dongle back, withdrawn its request and *)
(* unlocked (acquire_dongle, release_dongle).                               *)
THEOREM TableIsLeftClean == Spec => []LeavesTheTableClean
<1>1. IInv => LeavesTheTableClean
  BY DEF IInv, CoderInv, LeavesTheTableClean, Locking, Asking, Having
<1> QED
  BY <1>1, Invariance, PTL

(***************************************************************************)
(* The monitor's last broadcast is not lost, although acquire_dongle tests *)
(* the flag and goes to sleep in steps of its own: it holds the dongle's   *)
(* mutex in between, and wake_all_dongles takes that mutex.                  *)
(***************************************************************************)
THEOREM LastWakeupIsNotLost == Spec => []NobodySleepsOnADongle
<1>1. IInv => NobodySleepsOnADongle
  BY DEF IInv, MonitorInv, NobodySleepsOnADongle
<1> QED
  BY <1>1, Invariance, PTL

=============================================================================
