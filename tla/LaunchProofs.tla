---------------------------- MODULE LaunchProofs ----------------------------
(***************************************************************************)
(* The start and the end of a simulation are safe for every number of      *)
(* coders: IInv of Launch is inductive, and the properties follow.         *)
(***************************************************************************)
EXTENDS Launch, TLAPS

-----------------------------------------------------------------------------
(* Groups of steps that change the same things. *)

main_rests == UNCHANGED <<main, init_vars, count_vars>>

initialising == init_step \/ init_fail

starting ==
  \/ create_monitor
  \/ create_monitor_fails
  \/ start_coder
  \/ start_coder_fails
  \/ abort_start
  \/ start_all_threads

joining == join_coder \/ join_monitor \/ cleanup_app

LEMMA StepCases ==
  ASSUME [Next]_vars
  PROVE  \/ initialising
         \/ starting
         \/ joining
         \/ \E t \in Threads : thread_step(t) \/ spurious_wakeup(t)
         \/ UNCHANGED vars
BY DEF Next, main_step, initialising, starting, joining

LEMMA InitIInv == Init => IInv
<1> SUFFICES ASSUME Init PROVE IInv
  OBVIOUS
<1> USE LaunchArgs DEF Init, LaunchArgs
<1>1. TypeOK
  <2>1. 0 \in Coders /\ 0 \in 0 .. number_of_coders
    BY DEF Coders
  <2>2. main \in InitSteps
    BY DEF InitSteps
  <2> QED
    BY <2>1, <2>2, Zenon DEF TypeOK
<1>2. LiveInv
  BY DEF LiveInv, InitSteps, DongleParts, undo
<1>3. ThreadInv
  BY DEF ThreadInv, InitSteps, DongleParts
<1>4. BarrierInv
  BY DEF BarrierInv
<1>5. LocksOutliveThreads
  BY DEF LocksOutliveThreads
<1> QED
  BY <1>1, <1>2, <1>3, <1>4, <1>5 DEF IInv

(* The failure path of the next step takes back what this step has added. *)
LEMMA InitStepUndo ==
  ASSUME IInv, init_step
  PROVE  /\ main' \in InitSteps => live' = undo'
         /\ main' \notin InitSteps \cup {"exit"} => live' = cleanup'
         /\ dongle' \in Coders
         /\ main' \notin DongleParts \cup {"exit"} => dongle' = 0
<1> USE LaunchArgs DEF LaunchArgs, IInv, LiveInv, init_step
<1>0. dongle \in Coders /\ dongle \in Nat /\ main \in InitSteps /\ live = undo
  BY DEF TypeOK, Coders
<1>1. CASE main = "app"
  BY <1>0, <1>1 DEF after, undo, the, InitSteps, DongleParts, Coders
<1>2. CASE main = "state_mutex"
  BY <1>0, <1>2 DEF after, undo, the, InitSteps, DongleParts, Coders
<1>3. CASE main = "log_mutex"
  BY <1>0, <1>3 DEF after, undo, the, InitSteps, DongleParts, Coders,
                    init_fail_dongles, app_and_mutexes
<1>4. CASE main = "dongles"
  BY <1>0, <1>4 DEF after, undo, the, InitSteps, DongleParts, Coders,
                    init_fail_dongles, app_and_mutexes, free_dongles,
                    dongle_init_err_result, init_one_dongle_undo
<1>5. CASE main = "mutex"
  BY <1>0, <1>5 DEF after, undo, the, InitSteps, DongleParts, Coders,
                    init_fail_dongles, app_and_mutexes, free_dongles,
                    dongle_init_err_result, init_one_dongle_undo
<1>6. CASE main = "cond"
  BY <1>0, <1>6 DEF after, undo, the, InitSteps, DongleParts, Coders,
                    init_fail_dongles, app_and_mutexes, free_dongles,
                    dongle_init_err_result, init_one_dongle_undo
<1>7. CASE main = "heap"
  <2>1. DongleParts \X (0 .. dongle) =
          (DongleParts \X (0 .. dongle - 1)) \cup (DongleParts \X {dongle})
    BY <1>0
  <2>2. live' = free_dongles(dongle + 1) \cup app_and_mutexes
    BY <1>0, <1>7, <2>1 DEF undo, dongle_init_err_result, init_one_dongle_undo,
       free_dongles, init_fail_dongles, DongleParts
  <2>3. CASE dongle + 1 < number_of_coders
    <3>1. dongle' = dongle + 1 /\ main' = "mutex"
      BY <1>0, <1>7, <2>3 DEF after
    <3> QED
      BY <1>0, <2>2, <2>3, <3>1 DEF undo, dongle_init_err_result, DongleParts,
         init_one_dongle_undo, init_fail_dongles, InitSteps, Coders,
         free_dongles, app_and_mutexes
  <2>4. CASE ~(dongle + 1 < number_of_coders)
    <3>1. dongle + 1 = number_of_coders
      BY <1>0, <2>4 DEF Coders
    <3>2. dongle' = 0 /\ main' = "coders"
      BY <1>0, <1>7, <3>1 DEF after
    <3> QED
      BY <1>0, <2>2, <3>1, <3>2 DEF undo, init_fail_coders, DongleParts,
         InitSteps, Coders, free_dongles, app_and_mutexes
  <2> QED
    BY <2>3, <2>4
<1>8. CASE main = "coders"
  BY <1>0, <1>8 DEF after, undo, the, InitSteps, DongleParts, Coders,
                    init_fail_coders, init_fail_stop_cond
<1>9. CASE main = "stop_cond"
  BY <1>0, <1>9 DEF after, undo, the, InitSteps, DongleParts, Coders,
                    init_fail_start_cond, init_fail_stop_cond
<1>10. CASE main = "start_cond"
  BY <1>0, <1>10 DEF after, undo, the, InitSteps, DongleParts, Coders, cleanup,
          init_fail_start_cond, init_fail_stop_cond, init_fail_coders
<1> QED
  BY <1>0, <1>1, <1>2, <1>3, <1>4, <1>5, <1>6, <1>7, <1>8, <1>9, <1>10
     DEF InitSteps, DongleParts

-----------------------------------------------------------------------------
(* What main owns. *)

LEMMA LiveStep ==
  ASSUME IInv, [Next]_vars
  PROVE  LiveInv'
<1>1. CASE init_step
  <2>1. main' # "exit"
    BY <1>1 DEF init_step, after, InitSteps, DongleParts
  <2> QED
    BY <1>1, <2>1, InitStepUndo DEF LiveInv
<1>2. CASE init_fail
  BY <1>2 DEF IInv, LiveInv, init_fail, InitSteps, DongleParts
<1>3. CASE starting
  <2>1. main \notin InitSteps \cup {"exit"} /\ main' \notin InitSteps \cup {"exit"}
    BY <1>3 DEF starting, create_monitor, create_monitor_fails, start_coder,
       start_coder_fails, abort_start, start_all_threads, InitSteps, DongleParts
  <2>2. UNCHANGED init_vars
    BY <1>3 DEF starting, create_monitor, create_monitor_fails, start_coder,
       start_coder_fails, abort_start, start_all_threads
  <2> QED
    BY <2>1, <2>2 DEF IInv, LiveInv, init_vars, cleanup, InitSteps
<1>4. CASE joining
  BY <1>4 DEF IInv, LiveInv, joining, join_coder, join_monitor, cleanup_app,
     init_vars, cleanup, InitSteps, DongleParts
<1>5. CASE \E t \in Threads : thread_step(t) \/ spurious_wakeup(t)
  <2>1. UNCHANGED <<main, init_vars>>
    BY <1>5 DEF thread_step, wait_for_start, wake, stop_running, return,
       wake_all_dongles, spurious_wakeup, thread_frame
  <2> QED
    BY <2>1 DEF IInv, LiveInv, init_vars, cleanup, undo, dongle_init_err_result,
       init_one_dongle_undo, InitSteps
<1>6. CASE UNCHANGED vars
  BY <1>6 DEF vars, IInv, LiveInv, init_vars, cleanup, undo, InitSteps,
     dongle_init_err_result, init_one_dongle_undo
<1> QED
  BY <1>1, <1>2, <1>3, <1>4, <1>5, <1>6, StepCases DEF initialising

-----------------------------------------------------------------------------
(* Who exists.  A thread that exists goes on existing, one that is done      *)
(* stays done, and only main creates threads.                                *)

LEMMA ThreadFrame ==
  ASSUME IInv, NEW t \in Threads, thread_step(t) \/ spurious_wakeup(t)
  PROVE  /\ UNCHANGED <<main, init_vars, count_vars, simulation_started>>
         /\ thread' \in [Threads -> {"none", "barrier", "asleep", "run",
                                     "wake_dongles", "done"}]
         /\ \A u \in Threads : thread'[u] = "none" <=> thread[u] = "none"
         /\ \A u \in Threads : thread[u] = "done" => thread'[u] = "done"
         /\ \A u \in Threads : thread'[u] \in {"run", "wake_dongles"} =>
              thread[u] \in {"run", "wake_dongles"} \/ simulation_started
<1> USE DEF IInv, TypeOK, move, thread_frame
<1>1. CASE wait_for_start(t)
  BY <1>1 DEF wait_for_start
<1>2. CASE wake(t)
  BY <1>2 DEF wake
<1>3. CASE stop_running(t)
  BY <1>3 DEF stop_running
<1>4. CASE return(t)
  BY <1>4 DEF return
<1>5. CASE wake_all_dongles(t)
  BY <1>5 DEF wake_all_dongles
<1>6. CASE spurious_wakeup(t)
  BY <1>6 DEF spurious_wakeup
<1> QED
  BY <1>1, <1>2, <1>3, <1>4, <1>5, <1>6 DEF thread_step

LEMMA ThreadStep ==
  ASSUME IInv, [Next]_vars
  PROVE  ThreadInv'
<1> USE LaunchArgs DEF LaunchArgs, Threads, Coders
<1>0. /\ thread \in [Threads -> {"none", "barrier", "asleep", "run",
                                 "wake_dongles", "done"}]
      /\ coders_started \in 0 .. number_of_coders
      /\ ThreadInv
  BY DEF IInv, TypeOK
<1>1. CASE initialising
  BY <1>0, <1>1 DEF initialising, init_step, init_fail, after, ThreadInv,
     thread_vars, count_vars, InitSteps, DongleParts
<1>2. CASE starting
  <2>1. CASE create_monitor
    BY <1>0, <2>1 DEF create_monitor, create, ThreadInv, InitSteps, DongleParts
  <2>2. CASE create_monitor_fails
    BY <1>0, <2>2 DEF create_monitor_fails, ThreadInv, InitSteps, DongleParts
  <2>3. CASE start_coder
    BY <1>0, <2>3 DEF start_coder, create, ThreadInv, InitSteps, DongleParts
  <2>4. CASE start_coder_fails
    BY <1>0, <2>4 DEF start_coder_fails, count_vars, ThreadInv, InitSteps,
       DongleParts
  <2>5. CASE abort_start
    BY <1>0, <2>5 DEF abort_start, count_vars, ThreadInv, InitSteps, DongleParts
  <2>6. CASE start_all_threads
    BY <1>0, <2>6 DEF start_all_threads, count_vars, thread_vars, ThreadInv,
       InitSteps, DongleParts
  <2> QED
    BY <1>2, <2>1, <2>2, <2>3, <2>4, <2>5, <2>6 DEF starting
<1>3. CASE joining
  <2>1. CASE join_coder
    BY <1>0, <2>1 DEF join_coder, thread_vars, ThreadInv, InitSteps, DongleParts
  <2>2. CASE join_monitor
    BY <2>2 DEF join_monitor, ThreadInv, InitSteps, DongleParts
  <2>3. CASE cleanup_app
    BY <2>3 DEF cleanup_app, ThreadInv, InitSteps, DongleParts
  <2> QED
    BY <1>3, <2>1, <2>2, <2>3 DEF joining
<1>4. CASE \E t \in Threads : thread_step(t) \/ spurious_wakeup(t)
  BY <1>0, <1>4, ThreadFrame DEF ThreadInv, count_vars
<1>5. CASE UNCHANGED vars
  BY <1>0, <1>5 DEF vars, thread_vars, count_vars, ThreadInv
<1> QED
  BY <1>1, <1>2, <1>3, <1>4, <1>5, StepCases

LEMMA BarrierStep ==
  ASSUME IInv, [Next]_vars
  PROVE  BarrierInv'
<1> USE LaunchArgs DEF LaunchArgs, Threads, Coders
<1>0. /\ thread \in [Threads -> {"none", "barrier", "asleep", "run",
                                 "wake_dongles", "done"}]
      /\ coders_started \in 0 .. number_of_coders
      /\ BarrierInv /\ ThreadInv
  BY DEF IInv, TypeOK
<1>1. CASE initialising
  BY <1>0, <1>1 DEF initialising, init_step, init_fail, BarrierInv,
     thread_vars, flag_vars
<1>2. CASE starting
  <2>1. CASE create_monitor
    BY <1>0, <2>1 DEF create_monitor, create, BarrierInv, flag_vars
  <2>2. CASE start_coder
    BY <1>0, <2>2 DEF start_coder, create, BarrierInv, flag_vars
  <2>3. CASE create_monitor_fails \/ start_coder_fails \/ abort_start
    BY <1>0, <2>3 DEF create_monitor_fails, start_coder_fails, abort_start,
       BarrierInv
  <2>4. CASE start_all_threads
    <3>1. \A t \in Threads : thread[t] # "none"
      BY <1>0, <2>4 DEF start_all_threads, ThreadInv
    <3> QED
      BY <3>1, <2>4 DEF start_all_threads, BarrierInv
  <2> QED
    BY <1>2, <2>1, <2>2, <2>3, <2>4 DEF starting
<1>3. CASE joining
  BY <1>0, <1>3 DEF joining, join_coder, join_monitor, cleanup_app, BarrierInv,
     thread_vars, flag_vars
<1>4. CASE \E t \in Threads : thread_step(t) \/ spurious_wakeup(t)
  BY <1>0, <1>4, ThreadFrame DEF BarrierInv
<1>5. CASE UNCHANGED vars
  BY <1>0, <1>5 DEF vars, thread_vars, flag_vars, BarrierInv
<1> QED
  BY <1>1, <1>2, <1>3, <1>4, <1>5, StepCases

(* Whichever way main arrives at its cleanup, it has joined everybody. *)
LEMMA JoinStep ==
  ASSUME IInv, [Next]_vars
  PROVE  LocksOutliveThreads'
<1> USE LaunchArgs DEF LaunchArgs, Threads, Coders
<1>0. /\ thread \in [Threads -> {"none", "barrier", "asleep", "run",
                                 "wake_dongles", "done"}]
      /\ coders_started \in 0 .. number_of_coders
      /\ LocksOutliveThreads /\ ThreadInv
  BY DEF IInv, TypeOK
<1>1. CASE initialising
  BY <1>0, <1>1 DEF initialising, init_step, init_fail, after, ThreadInv,
     thread_vars, LocksOutliveThreads, InitSteps, DongleParts
<1>2. CASE starting
  BY <1>0, <1>2 DEF starting, create_monitor, create_monitor_fails, start_coder,
     start_coder_fails, abort_start, start_all_threads, LocksOutliveThreads,
     ThreadInv, thread_vars
<1>3. CASE joining
  <2>1. CASE join_coder
    BY <2>1 DEF join_coder, LocksOutliveThreads
  <2>2. CASE join_monitor
    BY <1>0, <2>2 DEF join_monitor, thread_vars, ThreadInv, LocksOutliveThreads
  <2>3. CASE cleanup_app
    BY <1>0, <2>3 DEF cleanup_app, thread_vars, LocksOutliveThreads
  <2> QED
    BY <1>3, <2>1, <2>2, <2>3 DEF joining
<1>4. CASE \E t \in Threads : thread_step(t) \/ spurious_wakeup(t)
  <2>1. PICK t \in Threads : thread_step(t) \/ spurious_wakeup(t)
    BY <1>4
  <2>2. \A u \in Threads : thread[u] \in {"none", "done"} =>
                             thread'[u] \in {"none", "done"}
    BY <2>1, ThreadFrame
  <2> QED
    BY <1>0, <2>1, <2>2, ThreadFrame DEF LocksOutliveThreads
<1>5. CASE UNCHANGED vars
  BY <1>0, <1>5 DEF vars, thread_vars, LocksOutliveThreads
<1> QED
  BY <1>1, <1>2, <1>3, <1>4, <1>5, StepCases

-----------------------------------------------------------------------------
(* Types. *)

LEMMA TypeStep ==
  ASSUME IInv, [Next]_vars
  PROVE  TypeOK'
<1> USE LaunchArgs DEF LaunchArgs
<1>0. TypeOK /\ LiveInv
  BY DEF IInv
<1>1. CASE init_step
  <2>1. main' \in InitSteps \cup {"create_monitor"}
    BY <1>1 DEF init_step, after, InitSteps, DongleParts
  <2>2. live' \subseteq InitSteps \X Coders
    BY <1>0, <1>1 DEF init_step, TypeOK
  <2>3. dongle' \in Coders
    BY <1>1, InitStepUndo
  <2> QED
    BY <1>0, <1>1, <2>1, <2>2, <2>3, Zenon DEF init_step, TypeOK, thread_vars,
       flag_vars, count_vars
<1>2. CASE init_fail
  <2>1. live' \subseteq InitSteps \X Coders
    BY <1>0, <1>2 DEF init_fail, TypeOK
  <2> QED
    BY <1>0, <1>2, <2>1, Zenon DEF init_fail, TypeOK, thread_vars, flag_vars,
       count_vars
<1>3. CASE starting
  <2>1. /\ coders_started' \in 0 .. number_of_coders
        /\ thread' \in [Threads -> {"none", "barrier", "asleep", "run",
                                    "wake_dongles", "done"}]
        /\ start_waiters' \in SUBSET Threads
    BY <1>0, <1>3 DEF starting, create_monitor, create_monitor_fails,
       start_coder, start_coder_fails, abort_start, start_all_threads, create,
       raise_stop, TypeOK, thread_vars, count_vars
  <2>2. main' \in {"create_monitor", "create_coders", "abort", "join", "cleanup"}
    BY <1>3 DEF starting, create_monitor, create_monitor_fails,
       start_coder, start_coder_fails, abort_start, start_all_threads
  <2>3. /\ simulation_started' \in BOOLEAN
        /\ simulation_stop' \in BOOLEAN
        /\ monitor_started' \in BOOLEAN
    BY <1>0, <1>3, Zenon DEF starting, create_monitor, create_monitor_fails,
       start_coder, start_coder_fails, abort_start, start_all_threads,
       raise_stop, TypeOK, flag_vars, count_vars
  <2>4. UNCHANGED init_vars
    BY <1>3 DEF starting, create_monitor, create_monitor_fails, start_coder,
       start_coder_fails, abort_start, start_all_threads
  <2> QED
    BY <1>0, <2>1, <2>2, <2>3, <2>4, Zenon DEF TypeOK, init_vars
<1>4. CASE joining
  <2>1. coders_started' \in 0 .. number_of_coders
    BY <1>0, <1>4 DEF joining, join_coder, join_monitor, cleanup_app, TypeOK,
       count_vars
  <2>2. live' \subseteq InitSteps \X Coders
    BY <1>0, <1>4 DEF joining, join_coder, join_monitor, cleanup_app, TypeOK,
       init_vars
  <2>3. /\ main' \in {"join", "cleanup", "exit"}
        /\ monitor_started' \in BOOLEAN
        /\ UNCHANGED <<dongle, thread_vars, flag_vars>>
    BY <1>0, <1>4, Zenon DEF joining, join_coder, join_monitor, cleanup_app,
       TypeOK, init_vars, count_vars
  <2> QED
    BY <1>0, <2>1, <2>2, <2>3, Zenon DEF TypeOK, thread_vars, flag_vars
<1>5. CASE \E t \in Threads : thread_step(t) \/ spurious_wakeup(t)
  <2>1. PICK t \in Threads : thread_step(t) \/ spurious_wakeup(t)
    BY <1>5
  <2>2. start_waiters' \in SUBSET Threads
    BY <1>0, <2>1 DEF thread_step, wait_for_start, wake, stop_running, return,
       wake_all_dongles, spurious_wakeup, raise_stop, TypeOK
  <2>3. simulation_stop' \in BOOLEAN
    BY <1>0, <2>1, Zenon DEF thread_step, wait_for_start, wake, stop_running,
       return, wake_all_dongles, spurious_wakeup, raise_stop, TypeOK
  <2> QED
    BY <1>0, <2>1, <2>2, <2>3, ThreadFrame, Zenon DEF TypeOK, init_vars,
       count_vars
<1>6. CASE UNCHANGED vars
  BY <1>0, <1>6, Zenon DEF vars, init_vars, thread_vars, flag_vars, count_vars,
     TypeOK
<1> QED
  BY <1>1, <1>2, <1>3, <1>4, <1>5, <1>6, StepCases DEF initialising

-----------------------------------------------------------------------------
(* The theorems. *)

LEMMA InvarianceStep ==
  ASSUME IInv, [Next]_vars
  PROVE  IInv'
BY TypeStep, LiveStep, ThreadStep, BarrierStep, JoinStep DEF IInv

(* Launch's inductive invariant holds however many coders are started and    *)
(* wherever the start fails: init_simulation, start_simulation,              *)
(* join_simulation and cleanup_app.                                          *)
THEOREM Invariance == Spec => []IInv
<1>1. Init => IInv
  BY InitIInv
<1>2. IInv /\ [Next]_vars => IInv'
  BY InvarianceStep
<1> QED
  BY <1>1, <1>2, PTL DEF Spec

(* The variables of Launch keep their types; coders_started stays inside     *)
(* app->coders.                                                              *)
THEOREM TypeCorrect == Spec => []TypeOK
BY Invariance, PTL DEF IInv

(* Every failure path of init_simulation, and cleanup_app, take back exactly *)
(* what is there, for any number of dongles.                                 *)
THEOREM NothingLeaks == Spec => []CleanupIsExact
<1>1. IInv => CleanupIsExact
  BY DEF IInv, LiveInv, CleanupIsExact, InitSteps, DongleParts
<1> QED
  BY <1>1, Invariance, PTL

(* main.c:20: the locks go after all threads are joined, also when           *)
(* start_coders fails half-way.                                              *)
THEOREM LocksGoLast == Spec => []LocksOutliveThreads
BY Invariance, PTL DEF IInv

(* Nobody passes start_cond before every thread exists.                      *)
THEOREM BarrierHolds == Spec => []NobodyRunsAlone
<1>1. IInv => NobodyRunsAlone
  BY DEF IInv, BarrierInv, NobodyRunsAlone
<1> QED
  BY <1>1, Invariance, PTL

=============================================================================
