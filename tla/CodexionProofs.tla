--------------------------- MODULE CodexionProofs ---------------------------
(***************************************************************************)
(* What holds of the simulation for every number of coders, every timing   *)
(* and both policies, as theorems of Codexion's specification (and, for    *)
(* NoWakeupIsLost, of WaitHistory's, which adds a history variable).  The  *)
(* first sections show that IInv is inductive, the others draw the         *)
(* theorems from it.                                                       *)
(***************************************************************************)
EXTENDS WaitHistory, TLAPS

-----------------------------------------------------------------------------
(* The steps of a coder in groups that change the same things. *)

outside(c) ==
  \/ next_round(c)
  \/ compile_sleep(c)
  \/ compile_checked(c)
  \/ finish_compile(c)
  \/ set_stop(c)
  \/ wake_all_dongles(c)
  \/ debug_sleep(c)
  \/ refactor_sleep(c)

dispatching(c) ==
  \/ acquire_dispatches(c)
  \/ scan_skip(c)
  \/ scan_select(c)
  \/ scan_refuse(c)
  \/ scan_again(c)

settling(c) ==
  \/ acquire_succeeds(c)
  \/ wait_for_scheduler(c)
  \/ build_deadline(c)
  \/ wake(c)
  \/ spurious_wakeup(c)

(* The groups are all there is. *)
LEMMA StepCases ==
  ASSUME [Next]_vars
  PROVE  \/ Tick
         \/ monitor_step
         \/ \E c \in Coders :
              \/ outside(c)
              \/ submit(c)
              \/ acquire_gives_up(c)
              \/ dispatching(c)
              \/ scan_reserve(c)
              \/ settling(c)
              \/ release_both_dongles(c)
         \/ UNCHANGED vars
BY DEF Next, coder_step, outside, dispatching, settling

(* What each group leaves alone. *)
LEMMA OutsideFrame ==
  ASSUME NEW c \in Coders, outside(c)
  PROVE  /\ UNCHANGED <<scheduler_vars, state_mutex, monitor_vars>>
         /\ pc[c] \notin InAcquire
         /\ \E label \in CoderPoints \ InAcquire : goto(c, label)
<1>1. UNCHANGED <<scheduler_vars, state_mutex, monitor_vars>>
  BY DEF outside, next_round, compile_sleep, compile_checked, finish_compile,
         set_stop, wake_all_dongles, debug_sleep, refactor_sleep
<1>2. pc[c] \notin InAcquire
  BY DEF outside, next_round, compile_sleep, compile_checked, finish_compile,
         set_stop, wake_all_dongles, debug_sleep, refactor_sleep,
         InAcquire, Holding, Scanning
<1>3. \E label \in {"exit", "register", "release", "count", "set_stop", "debug",
                    "wake_dongles", "refactor", "loop"} : goto(c, label)
  BY DEF outside, next_round, compile_sleep, compile_checked, finish_compile,
         set_stop, wake_all_dongles, debug_sleep, refactor_sleep
<1> QED
  BY <1>1, <1>2, <1>3 DEF CoderPoints, InAcquire, Holding, Scanning

LEMMA DispatchingFrame ==
  ASSUME NEW c \in Coders, dispatching(c)
  PROVE  /\ UNCHANGED <<now, dongle_vars, request_vars, grant_vars>>
         /\ UNCHANGED <<simulation_stop, state_mutex, stop_waiters, coder_vars,
                        monitor_vars>>
         /\ pc[c] \in Holding \ {"set_timer"}
         /\ UNCHANGED pc \/ \E label \in Scanning : goto(c, label)
<1>1. /\ UNCHANGED <<now, dongle_vars, request_vars, grant_vars>>
      /\ UNCHANGED <<simulation_stop, state_mutex, stop_waiters, coder_vars,
                     monitor_vars>>
  BY DEF dispatching, acquire_dispatches, scan_skip, scan_select, scan_refuse,
         scan_again, scan_frame, dispatch_skip, dispatch_select,
         dispatch_refuse, dispatch_again
<1> QED
  BY <1>1 DEF dispatching, acquire_dispatches, scan_skip, scan_select,
              scan_refuse, scan_again, Holding, Scanning

LEMMA SettlingFrame ==
  ASSUME NEW c \in Coders, settling(c)
  PROVE  /\ UNCHANGED <<scheduler_vars, simulation_stop, compiles_done,
                        monitor_vars>>
         /\ \/ UNCHANGED pc
            \/ /\ pc[c] \in {"scan", "set_timer", "wait"}
               /\ \/ goto(c, "compile") /\ granted[c]
                  \/ goto(c, "set_timer") /\ ~granted[c] /\ pc[c] = "scan"
                  \/ goto(c, "wait")
                  \/ goto(c, "acquire")
BY DEF settling, acquire_succeeds, wait_for_scheduler, build_deadline, wake,
       spurious_wakeup, coder_vars

LEMMA MonitorFrame ==
  ASSUME monitor_step
  PROVE  UNCHANGED <<scheduler_vars, pc, coder_vars>>
BY DEF monitor_step, monitor_round, check_burnouts, burnout_not_due,
       burnout_found, scan_ends, stop_for_burnout, burnout_too_late,
       monitor_relock, monitor_frame

-----------------------------------------------------------------------------
(* The initial states. *)

(* The ring closes: a coder's dongles are dongles of the table. *)
LEMMA PairIsOnTheTable ==
  ASSUME NEW c \in Coders
  PROVE  Pair(c) \subseteq Dongles
BY SchedulerArgs DEF Pair, left, right, Coders, Dongles

(* Dispatchers, waiters and the monitor begin in a consistent state. *)
LEMMA InitIInv == Init => IInv
<1> SUFFICES ASSUME Init PROVE IInv
  OBVIOUS
<1> USE SchedulerArgs, SimulationArgs
    DEF Init, scheduler_init, coders_initialised, dongles_initialised, all_started
<1>1. TypeOK
  <2>1. pc \in [Coders -> CoderPoints] /\ m_pc \in MonitorPoints
    BY DEF CoderPoints, MonitorPoints
  <2>2. /\ now \in StartTime .. MaxTime
        /\ scan_i \in 0 .. number_of_coders
        /\ m_i \in 0 .. number_of_coders
    OBVIOUS
  <2>3. last_compile_start \in [Coders -> Nat]
    OBVIOUS
  <2> QED
    BY <2>1, <2>2, <2>3 DEF TypeOK
<1>2. MutexInv
  BY DEF MutexInv, Holding, Scanning
<1>3. RequestInv /\ FinishInv /\ StopIsJustified /\ NoSleeperAfterStop
  BY DEF RequestInv, FinishInv, StopIsJustified, NoSleeperAfterStop
<1>4. ScanInv /\ BurnInv
  BY DEF ScanInv, BurnInv, Scanning
<1>5. PairExclusion
  BY DEF PairExclusion, holds, InAcquire, Holding, Scanning
<1>6. CompileInv
  BY DEF CompileInv
<1> QED
  BY <1>1, <1>2, <1>3, <1>4, <1>5, <1>6 DEF IInv

-----------------------------------------------------------------------------
(* Types, in the portions the provers take. *)

ScalarTypes ==
  /\ now \in StartTime .. MaxTime
  /\ next_sequence \in Nat
  /\ scan_i \in 0 .. number_of_coders
  /\ m_i \in 0 .. number_of_coders

FlagTypes ==
  /\ available \in [Dongles -> BOOLEAN]
  /\ waiting \in [Coders -> BOOLEAN]
  /\ granted \in [Coders -> BOOLEAN]
  /\ scan_changed \in BOOLEAN
  /\ simulation_stop \in BOOLEAN

TimeTypes ==
  /\ released_at \in [Dongles -> Nat]
  /\ last_compile_start \in [Coders -> Nat]
  /\ sequence \in [Coders -> Nat]
  /\ deadline \in [Coders -> Nat]
  /\ timer \in [Coders -> Nat]
  /\ stamp \in [Coders -> Nat]
  /\ compiles_done \in [Coders -> Nat]

ThreadTypes ==
  /\ state_mutex \in Coders \cup {Free, Monitor}
  /\ stop_waiters \in SUBSET Coders
  /\ burned \in SUBSET Coders
  /\ m_pc \in MonitorPoints
  /\ pc \in [Coders -> CoderPoints]

LEMMA TypeParts == TypeOK <=> ScalarTypes /\ FlagTypes /\ TimeTypes /\ ThreadTypes
BY DEF TypeOK, ScalarTypes, FlagTypes, TimeTypes, ThreadTypes

LEMMA ScalarStep ==
  ASSUME IInv, [Next]_vars
  PROVE  ScalarTypes'
<1> USE SchedulerArgs, SimulationArgs DEF ScalarTypes
<1>1. ScalarTypes
  BY TypeParts DEF IInv
<1>2. CASE Tick
  BY <1>1, <1>2 DEF Tick, request_vars, scan_vars, monitor_vars
<1>3. CASE monitor_step
  <2>1. UNCHANGED <<now, next_sequence, scan_i>>
    BY <1>3, MonitorFrame DEF scheduler_vars, request_vars, scan_vars
  <2>2. m_i' \in 0 .. number_of_coders
    BY <1>1, <1>3
       DEF IInv, ScanInv, Coders, monitor_step, monitor_round, check_burnouts,
           burnout_not_due, burnout_found, scan_ends, stop_for_burnout,
           burnout_too_late, monitor_relock
  <2> QED
    BY <1>1, <2>1, <2>2
<1>4. ASSUME NEW c \in Coders, outside(c)
      PROVE  ScalarTypes'
  BY <1>1, <1>4, OutsideFrame DEF scheduler_vars, request_vars, scan_vars, monitor_vars
<1>5. ASSUME NEW c \in Coders, submit(c)
      PROVE  ScalarTypes'
  BY <1>1, <1>5 DEF submit, register_request, scan_vars, monitor_vars
<1>6. ASSUME NEW c \in Coders, acquire_gives_up(c)
      PROVE  ScalarTypes'
  BY <1>1, <1>6 DEF acquire_gives_up, request_vars, scan_vars, monitor_vars
<1>7. ASSUME NEW c \in Coders, dispatching(c)
      PROVE  ScalarTypes'
  <2>1. UNCHANGED <<now, next_sequence, m_i>>
    BY <1>7, DispatchingFrame DEF request_vars, monitor_vars
  <2>2. scan_i' \in 0 .. number_of_coders
    BY <1>1, <1>7
       DEF IInv, ScanInv, Coders, dispatching, acquire_dispatches, scan_skip,
           scan_select, scan_refuse, scan_again, dispatch_begin, dispatch_skip,
           dispatch_select, dispatch_refuse, dispatch_again, scan_over, scan_vars
  <2> QED
    BY <1>1, <2>1, <2>2
<1>8. ASSUME NEW c \in Coders, scan_reserve(c)
      PROVE  ScalarTypes'
  BY <1>1, <1>8 DEF IInv, ScanInv, Coders, scan_reserve, dispatch_reserve,
                    scan_frame, request_vars, monitor_vars
<1>9. ASSUME NEW c \in Coders, settling(c)
      PROVE  ScalarTypes'
  BY <1>1, <1>9, SettlingFrame DEF scheduler_vars, request_vars, scan_vars, monitor_vars
<1>10. ASSUME NEW c \in Coders, release_both_dongles(c)
       PROVE  ScalarTypes'
  BY <1>1, <1>10 DEF release_both_dongles, request_vars, scan_vars, monitor_vars
<1>11. CASE UNCHANGED vars
  BY <1>1, <1>11 DEF vars, scheduler_vars, request_vars, scan_vars, monitor_vars
<1> QED
  BY StepCases, <1>2, <1>3, <1>4, <1>5, <1>6, <1>7, <1>8, <1>9, <1>10, <1>11

LEMMA FlagStep ==
  ASSUME IInv, [Next]_vars
  PROVE  FlagTypes'
<1> USE DEF FlagTypes
<1>1. FlagTypes
  BY TypeParts DEF IInv
<1>2. CASE Tick
  BY <1>1, <1>2 DEF Tick, dongle_vars, grant_vars, scan_vars
<1>3. CASE monitor_step
  <2>1. UNCHANGED <<available, waiting, granted, scan_changed>>
    BY <1>3, MonitorFrame DEF scheduler_vars, dongle_vars, grant_vars, scan_vars
  <2>2. simulation_stop' \in BOOLEAN
    BY <1>1, <1>3
       DEF monitor_step, monitor_round, check_burnouts, burnout_not_due,
           burnout_found, scan_ends, stop_for_burnout, burnout_too_late,
           monitor_relock
  <2> QED
    BY <1>1, <2>1, <2>2
<1>4. ASSUME NEW c \in Coders, outside(c)
      PROVE  FlagTypes'
  <2>1. UNCHANGED <<available, waiting, granted, scan_changed>>
    BY <1>4, OutsideFrame DEF scheduler_vars, dongle_vars, grant_vars, scan_vars
  <2>2. simulation_stop' \in BOOLEAN
    BY <1>1, <1>4
       DEF outside, next_round, compile_sleep, compile_checked, finish_compile,
           set_stop, wake_all_dongles, debug_sleep, refactor_sleep
  <2> QED
    BY <1>1, <2>1, <2>2
<1>5. ASSUME NEW c \in Coders, submit(c)
      PROVE  FlagTypes'
  BY <1>1, <1>5 DEF submit, register_request, dongle_vars, scan_vars
<1>6. ASSUME NEW c \in Coders, acquire_gives_up(c)
      PROVE  FlagTypes'
  BY <1>1, <1>6 DEF acquire_gives_up, withdraw_request, dongle_vars, scan_vars
<1>7. ASSUME NEW c \in Coders, dispatching(c)
      PROVE  FlagTypes'
  <2>1. UNCHANGED <<available, waiting, granted, simulation_stop>>
    BY <1>7, DispatchingFrame DEF dongle_vars, grant_vars
  <2>2. scan_changed' \in BOOLEAN
    BY <1>1, <1>7
       DEF dispatching, acquire_dispatches, scan_skip, scan_select, scan_refuse,
           scan_again, dispatch_begin, dispatch_skip, dispatch_select,
           dispatch_refuse, dispatch_again, scan_vars
  <2> QED
    BY <1>1, <2>1, <2>2
<1>8. ASSUME NEW c \in Coders, scan_reserve(c)
      PROVE  FlagTypes'
  <2>1. /\ available' \in [Dongles -> BOOLEAN]
        /\ scan_changed' \in BOOLEAN
    BY <1>8 DEF scan_reserve, dispatch_reserve, reserve_pair
  <2>2. /\ waiting' \in [Coders -> BOOLEAN]
        /\ granted' \in [Coders -> BOOLEAN]
    BY <1>1, <1>8 DEF scan_reserve, dispatch_reserve, reserve_pair
  <2>3. UNCHANGED simulation_stop
    BY <1>8 DEF scan_reserve, scan_frame
  <2> QED
    BY <1>1, <2>1, <2>2, <2>3
<1>9. ASSUME NEW c \in Coders, settling(c)
      PROVE  FlagTypes'
  BY <1>1, <1>9, SettlingFrame DEF scheduler_vars, dongle_vars, grant_vars, scan_vars
<1>10. ASSUME NEW c \in Coders, release_both_dongles(c)
       PROVE  FlagTypes'
  BY <1>1, <1>10 DEF release_both_dongles, free_pair, grant_vars, scan_vars
<1>11. CASE UNCHANGED vars
  BY <1>1, <1>11 DEF vars, scheduler_vars, dongle_vars, grant_vars, scan_vars
<1> QED
  BY StepCases, <1>2, <1>3, <1>4, <1>5, <1>6, <1>7, <1>8, <1>9, <1>10, <1>11

LEMMA TimeStep ==
  ASSUME IInv, [Next]_vars
  PROVE  TimeTypes'
<1> USE SchedulerArgs, SimulationArgs DEF TimeTypes
<1>1. TimeTypes /\ ScalarTypes /\ now \in Nat
  BY TypeParts DEF IInv, ScalarTypes
<1>2. CASE Tick
  BY <1>1, <1>2 DEF Tick, dongle_vars, request_vars, grant_vars, coder_vars
<1>3. CASE monitor_step
  BY <1>1, <1>3, MonitorFrame
     DEF scheduler_vars, dongle_vars, request_vars, grant_vars, coder_vars
<1>4. ASSUME NEW c \in Coders, outside(c)
      PROVE  TimeTypes'
  <2>1. UNCHANGED <<released_at, last_compile_start, sequence, deadline>>
    BY <1>4, OutsideFrame DEF scheduler_vars, dongle_vars, request_vars, grant_vars
  <2>2. /\ timer' \in [Coders -> Nat]
        /\ stamp' \in [Coders -> Nat]
        /\ compiles_done' \in [Coders -> Nat]
    BY <1>1, <1>4
       DEF outside, next_round, compile_sleep, compile_checked, finish_compile,
           set_stop, wake_all_dongles, debug_sleep, refactor_sleep, coder_vars
  <2> QED
    BY <1>1, <2>1, <2>2
<1>5. ASSUME NEW c \in Coders, submit(c)
      PROVE  TimeTypes'
  BY <1>1, <1>5 DEF submit, register_request, dongle_vars, coder_vars, ScalarTypes
<1>6. ASSUME NEW c \in Coders, acquire_gives_up(c)
      PROVE  TimeTypes'
  BY <1>1, <1>6 DEF acquire_gives_up, dongle_vars, request_vars, coder_vars
<1>7. ASSUME NEW c \in Coders, dispatching(c)
      PROVE  TimeTypes'
  BY <1>1, <1>7, DispatchingFrame
     DEF dongle_vars, request_vars, grant_vars, coder_vars
<1>8. ASSUME NEW c \in Coders, scan_reserve(c)
      PROVE  TimeTypes'
  <2>1. UNCHANGED <<released_at, sequence, deadline, timer, stamp, compiles_done>>
    BY <1>8 DEF scan_reserve, dispatch_reserve, scan_frame, request_vars, coder_vars
  <2>2. last_compile_start' \in [Coders -> Nat]
    BY <1>1, <1>8 DEF scan_reserve, dispatch_reserve, reserve_pair
  <2> QED
    BY <1>1, <2>1, <2>2
<1>9. ASSUME NEW c \in Coders, settling(c)
      PROVE  TimeTypes'
  <2>1. UNCHANGED <<released_at, last_compile_start, sequence, deadline, stamp,
                    compiles_done>>
    BY <1>9, SettlingFrame DEF settling, acquire_succeeds, wait_for_scheduler,
       build_deadline, wake, spurious_wakeup, scheduler_vars, dongle_vars,
       request_vars, grant_vars, coder_vars
  <2>2. wait_ms(c) \in Nat
    BY <1>1, PairIsOnTheTable
       DEF wait_ms, pair_cooldown_end, Pair, left, right
  <2>3. timer' \in [Coders -> Nat]
    BY <1>1, <1>9, <2>2 DEF settling, acquire_succeeds, wait_for_scheduler,
       build_deadline, wake, spurious_wakeup, coder_vars
  <2> QED
    BY <1>1, <2>1, <2>3
<1>10. ASSUME NEW c \in Coders, release_both_dongles(c)
       PROVE  TimeTypes'
  BY <1>1, <1>10
     DEF release_both_dongles, free_pair, request_vars, grant_vars
<1>11. CASE UNCHANGED vars
  BY <1>1, <1>11
     DEF vars, scheduler_vars, dongle_vars, request_vars, grant_vars, coder_vars
<1> QED
  BY StepCases, <1>2, <1>3, <1>4, <1>5, <1>6, <1>7, <1>8, <1>9, <1>10, <1>11

LEMMA ThreadStep ==
  ASSUME IInv, [Next]_vars
  PROVE  ThreadTypes'
<1> USE SchedulerArgs, SimulationArgs
    DEF ThreadTypes, MonitorPoints, CoderPoints, InAcquire, Holding, Scanning,
        goto, broadcast_stop
<1>1. ThreadTypes
  BY TypeParts DEF IInv
<1>2. CASE Tick
  BY <1>1, <1>2 DEF Tick, monitor_vars
<1>3. CASE monitor_step
  BY <1>1, <1>3
     DEF IInv, ScanInv, Coders, monitor_step, monitor_round, check_burnouts,
         burnout_not_due, burnout_found, scan_ends, stop_for_burnout,
         burnout_too_late, monitor_relock, monitor_frame
<1>4. ASSUME NEW c \in Coders, outside(c)
      PROVE  ThreadTypes'
  BY <1>1, <1>4
     DEF outside, next_round, compile_sleep, compile_checked, finish_compile,
         set_stop, wake_all_dongles, debug_sleep, refactor_sleep, monitor_vars
<1>5. ASSUME NEW c \in Coders, submit(c)
      PROVE  ThreadTypes'
  BY <1>1, <1>5 DEF submit, monitor_vars
<1>6. ASSUME NEW c \in Coders, acquire_gives_up(c)
      PROVE  ThreadTypes'
  BY <1>1, <1>6 DEF acquire_gives_up, monitor_vars
<1>7. ASSUME NEW c \in Coders, dispatching(c)
      PROVE  ThreadTypes'
  BY <1>1, <1>7, DispatchingFrame DEF monitor_vars
<1>8. ASSUME NEW c \in Coders, scan_reserve(c)
      PROVE  ThreadTypes'
  BY <1>1, <1>8 DEF scan_reserve, scan_frame, monitor_vars
<1>9. ASSUME NEW c \in Coders, settling(c)
      PROVE  ThreadTypes'
  BY <1>1, <1>9 DEF settling, acquire_succeeds, left_asleep,
                    wait_for_scheduler, build_deadline, wake, spurious_wakeup,
                    monitor_vars
<1>10. ASSUME NEW c \in Coders, release_both_dongles(c)
       PROVE  ThreadTypes'
  BY <1>1, <1>10 DEF release_both_dongles, monitor_vars
<1>11. CASE UNCHANGED vars
  BY <1>1, <1>11 DEF vars, monitor_vars
<1> QED
  BY StepCases, <1>2, <1>3, <1>4, <1>5, <1>6, <1>7, <1>8, <1>9, <1>10, <1>11

LEMMA TypeStep ==
  ASSUME IInv, [Next]_vars
  PROVE  TypeOK'
BY ScalarStep, FlagStep, TimeStep, ThreadStep
   DEF TypeOK, ScalarTypes, FlagTypes, TimeTypes, ThreadTypes

-----------------------------------------------------------------------------
(* The mutex, the requests and the dispatchers. *)

LEMMA MutexStep ==
  ASSUME IInv, [Next]_vars
  PROVE  MutexInv'
<1> USE SimulationArgs DEF MutexInv, Holding, Scanning, goto, mutex_free
<1>1. MutexInv /\ ThreadTypes
  BY TypeParts DEF IInv
<1> USE DEF ThreadTypes
<1>2. CASE Tick
  BY <1>1, <1>2 DEF Tick, monitor_vars
<1>3. CASE monitor_step
  BY <1>1, <1>3
     DEF monitor_step, monitor_round, check_burnouts, burnout_not_due,
         burnout_found, scan_ends, stop_for_burnout, burnout_too_late,
         monitor_relock, monitor_frame
<1>4. ASSUME NEW c \in Coders, outside(c)
      PROVE  MutexInv'
  BY <1>1, <1>4, OutsideFrame DEF InAcquire, monitor_vars
<1>5. ASSUME NEW c \in Coders, submit(c)
      PROVE  MutexInv'
  BY <1>1, <1>5 DEF submit, monitor_vars
<1>6. ASSUME NEW c \in Coders, acquire_gives_up(c)
      PROVE  MutexInv'
  BY <1>1, <1>6 DEF acquire_gives_up, monitor_vars
<1>7. ASSUME NEW c \in Coders, dispatching(c)
      PROVE  MutexInv'
  BY <1>1, <1>7, DispatchingFrame DEF monitor_vars
<1>8. ASSUME NEW c \in Coders, scan_reserve(c)
      PROVE  MutexInv'
  BY <1>1, <1>8 DEF scan_reserve, scan_frame, monitor_vars
<1>9. ASSUME NEW c \in Coders, settling(c)
      PROVE  MutexInv'
  BY <1>1, <1>9 DEF settling, acquire_succeeds, wait_for_scheduler,
                    build_deadline, wake, spurious_wakeup, monitor_vars
<1>10. ASSUME NEW c \in Coders, release_both_dongles(c)
       PROVE  MutexInv'
  BY <1>1, <1>10 DEF release_both_dongles, monitor_vars
<1>11. CASE UNCHANGED vars
  BY <1>1, <1>11 DEF vars, monitor_vars
<1> QED
  BY StepCases, <1>2, <1>3, <1>4, <1>5, <1>6, <1>7, <1>8, <1>9, <1>10, <1>11

LEMMA RequestStep ==
  ASSUME IInv, [Next]_vars
  PROVE  RequestInv'
<1> USE DEF RequestInv, InAcquire, Holding, Scanning, goto
<1>1. RequestInv /\ FlagTypes /\ TimeTypes /\ ThreadTypes
  BY TypeParts DEF IInv
<1> USE DEF FlagTypes, TimeTypes, ThreadTypes
<1>2. CASE Tick
  BY <1>1, <1>2 DEF Tick, request_vars, grant_vars
<1>3. CASE monitor_step
  BY <1>1, <1>3, MonitorFrame DEF scheduler_vars, request_vars, grant_vars
<1>4. ASSUME NEW c \in Coders, outside(c)
      PROVE  RequestInv'
  BY <1>1, <1>4, OutsideFrame DEF scheduler_vars, request_vars, grant_vars
<1>5. ASSUME NEW c \in Coders, submit(c)
      PROVE  RequestInv'
  BY <1>1, <1>5 DEF submit, register_request
<1>6. ASSUME NEW c \in Coders, acquire_gives_up(c)
      PROVE  RequestInv'
  BY <1>1, <1>6 DEF acquire_gives_up, withdraw_request, request_vars
<1>7. ASSUME NEW c \in Coders, dispatching(c)
      PROVE  RequestInv'
  BY <1>1, <1>7, DispatchingFrame DEF request_vars, grant_vars
<1>8. ASSUME NEW c \in Coders, scan_reserve(c)
      PROVE  RequestInv'
  BY <1>1, <1>8 DEF IInv, ScanInv, scan_reserve, dispatch_reserve, reserve_pair,
                    scan_frame, request_vars
<1>9. ASSUME NEW c \in Coders, settling(c)
      PROVE  RequestInv'
  BY <1>1, <1>9, SettlingFrame DEF scheduler_vars, request_vars, grant_vars
<1>10. ASSUME NEW c \in Coders, release_both_dongles(c)
       PROVE  RequestInv'
  BY <1>1, <1>10 DEF release_both_dongles, request_vars, grant_vars
<1>11. CASE UNCHANGED vars
  BY <1>1, <1>11 DEF vars, scheduler_vars, request_vars, grant_vars
<1> QED
  BY StepCases, <1>2, <1>3, <1>4, <1>5, <1>6, <1>7, <1>8, <1>9, <1>10, <1>11

(* Who may change the stop flag, and to what. *)
LEMMA StopIsFinal ==
  ASSUME IInv, [Next]_vars, simulation_stop
  PROVE  simulation_stop'
<1>1. CASE Tick
  BY <1>1 DEF Tick
<1>2. CASE monitor_step
  BY <1>2 DEF monitor_step, monitor_round, check_burnouts, burnout_not_due,
              burnout_found, scan_ends, stop_for_burnout, burnout_too_late,
              monitor_relock
<1>3. ASSUME NEW c \in Coders, outside(c)
      PROVE  simulation_stop'
  BY <1>3 DEF outside, next_round, compile_sleep, compile_checked,
              finish_compile, set_stop, wake_all_dongles, debug_sleep,
              refactor_sleep
<1>4. ASSUME NEW c \in Coders, 
             \/ submit(c)
             \/ acquire_gives_up(c)
             \/ scan_reserve(c)
             \/ release_both_dongles(c)
      PROVE  simulation_stop'
  BY <1>4 DEF submit, acquire_gives_up, scan_reserve, scan_frame,
              release_both_dongles
<1>5. ASSUME NEW c \in Coders, dispatching(c) \/ settling(c)
      PROVE  simulation_stop'
  BY <1>5, DispatchingFrame, SettlingFrame
<1>6. CASE UNCHANGED vars
  BY <1>6 DEF vars
<1> QED
  BY StepCases, <1>1, <1>2, <1>3, <1>4, <1>5, <1>6

LEMMA ScanStep ==
  ASSUME IInv, [Next]_vars
  PROVE  ScanInv'
<1> USE SimulationArgs DEF ScanInv, Scanning, Holding, goto, mutex_free
<1>1. ScanInv /\ MutexInv /\ RequestInv /\ TypeOK
  BY DEF IInv
<1>2. ScalarTypes /\ FlagTypes /\ ThreadTypes
  BY TypeParts, <1>1
<1> USE <1>1, <1>2 DEF ScalarTypes, FlagTypes, ThreadTypes
<1>3. CASE Tick
  BY <1>3 DEF Tick, grant_vars, scan_vars, monitor_vars
<1>4. CASE monitor_step
  <2>1. UNCHANGED <<scan_i, waiting, pc>>
    BY <1>4, MonitorFrame DEF scheduler_vars, grant_vars, scan_vars
  <2>2. \A c \in Coders : pc[c] \in Scanning \cup {"set_timer"} => ~simulation_stop'
    BY <1>4 DEF MutexInv, monitor_step, monitor_round, check_burnouts,
                burnout_not_due, burnout_found, scan_ends, stop_for_burnout,
                burnout_too_late, monitor_relock
  <2>3. m_pc' \in {"burn", "relock"} => m_i' \in Coders
    BY <1>4, SchedulerArgs
       DEF Coders, monitor_step, monitor_round, check_burnouts,
           burnout_not_due, burnout_found, scan_ends, stop_for_burnout,
           burnout_too_late, monitor_relock
  <2> QED
    BY <2>1, <2>2, <2>3
<1>5. ASSUME NEW c \in Coders, outside(c)
      PROVE  ScanInv'
  <2>1. UNCHANGED <<scan_i, waiting, m_pc, m_i>>
    BY <1>5, OutsideFrame DEF scheduler_vars, grant_vars, scan_vars, monitor_vars
  <2>2. \A a \in Coders : pc'[a] \in Holding => pc'[a] = pc[a]
    BY <1>5, OutsideFrame DEF InAcquire
  <2>3. simulation_stop' = simulation_stop \/ set_stop(c)
    BY <1>5 DEF outside, next_round, compile_sleep, compile_checked,
                finish_compile, wake_all_dongles, debug_sleep, refactor_sleep
  <2>4. set_stop(c) => \A a \in Coders : pc[a] \notin Holding
    BY DEF MutexInv, set_stop
  <2> QED
    BY <2>1, <2>2, <2>3, <2>4
<1>6. ASSUME NEW c \in Coders, submit(c)
      PROVE  ScanInv'
  BY <1>6 DEF MutexInv, submit, register_request, scan_vars, monitor_vars
<1>7. ASSUME NEW c \in Coders, acquire_gives_up(c)
      PROVE  ScanInv'
  BY <1>7 DEF MutexInv, acquire_gives_up, withdraw_request, scan_vars, monitor_vars
<1>8. ASSUME NEW c \in Coders, dispatching(c)
      PROVE  ScanInv'
  <2>1. UNCHANGED <<waiting, simulation_stop, m_pc, m_i>>
    BY <1>8, DispatchingFrame DEF grant_vars, monitor_vars
  <2>2. \A a \in Coders : pc'[a] \in Scanning \cup {"set_timer"} => a = c
    BY <1>8, DispatchingFrame DEF MutexInv
  <2>3. pc'[c] \in Scanning \cup {"set_timer"} => ~simulation_stop
    BY <1>8 DEF dispatching, acquire_dispatches, scan_skip, scan_select,
                scan_refuse, scan_again, acquire_over
  <2>4. pc'[c] = "reserve" => scan_i' \in Coders /\ waiting[scan_i']
    BY <1>8, SchedulerArgs
       DEF Coders, dispatching, acquire_dispatches, scan_skip, scan_select,
           scan_refuse, scan_again, dispatch_select, scan_over, in_time,
           scan_vars
  <2> QED
    BY <2>1, <2>2, <2>3, <2>4
<1>9. ASSUME NEW c \in Coders, scan_reserve(c)
      PROVE  ScanInv'
  <2>1. UNCHANGED <<simulation_stop, m_pc, m_i>> /\ ~simulation_stop
    BY <1>9 DEF scan_reserve, scan_frame, monitor_vars
  <2>2. \A a \in Coders : pc'[a] # "reserve"
    BY <1>9 DEF MutexInv, scan_reserve
  <2> QED
    BY <2>1, <2>2
<1>10. ASSUME NEW c \in Coders, settling(c)
       PROVE  ScanInv'
  <2>1. UNCHANGED <<scan_i, waiting, simulation_stop, m_pc, m_i>>
    BY <1>10, SettlingFrame DEF scheduler_vars, grant_vars, scan_vars, monitor_vars
  <2>2. \A a \in Coders : pc'[a] \in Scanning => pc'[a] = pc[a]
    BY <1>10, SettlingFrame
  <2>3. \A a \in Coders : pc'[a] = "set_timer" => pc[a] \in {"scan", "set_timer"}
    BY <1>10, SettlingFrame
  <2> QED
    BY <2>1, <2>2, <2>3
<1>11. ASSUME NEW c \in Coders, release_both_dongles(c)
       PROVE  ScanInv'
  BY <1>11 DEF release_both_dongles, grant_vars, scan_vars, monitor_vars
<1>12. CASE UNCHANGED vars
  BY <1>12 DEF vars, scheduler_vars, grant_vars, scan_vars, monitor_vars
<1> QED
  BY StepCases, <1>3, <1>4, <1>5, <1>6, <1>7, <1>8, <1>9, <1>10, <1>11, <1>12

-----------------------------------------------------------------------------
(* The reservations. *)

(* Exclusion survives when nobody new holds a pair and no dongle returns. *)
LEMMA ExclusionFrame ==
  ASSUME PairExclusion,
         UNCHANGED available,
         \A c \in Coders : holds(c)' => holds(c)
  PROVE  PairExclusion'
BY DEF PairExclusion, requests_overlap, Pair, left, right

LEMMA ExclusionStep ==
  ASSUME IInv, [Next]_vars
  PROVE  PairExclusion'
<1> USE DEF holds, InAcquire, Holding, Scanning, goto
<1>1. PairExclusion /\ ThreadTypes /\ FlagTypes
  BY TypeParts DEF IInv
<1> USE <1>1 DEF ThreadTypes, FlagTypes
<1>2. CASE Tick
  BY <1>2, ExclusionFrame DEF Tick, dongle_vars, grant_vars
<1>3. CASE monitor_step
  BY <1>3, MonitorFrame, ExclusionFrame DEF scheduler_vars, dongle_vars, grant_vars
<1>4. ASSUME NEW c \in Coders, outside(c)
      PROVE  PairExclusion'
  <2>1. UNCHANGED <<available, granted>>
    BY <1>4, OutsideFrame DEF scheduler_vars, dongle_vars, grant_vars
  <2>2. pc'[c] = "release" => pc[c] = "compile"
    BY <1>4 DEF outside, next_round, compile_sleep, compile_checked,
                finish_compile, set_stop, wake_all_dongles, debug_sleep,
                refactor_sleep
  <2>3. pc'[c] # "compile"
    BY <1>4 DEF outside, next_round, compile_sleep, compile_checked,
                finish_compile, set_stop, wake_all_dongles, debug_sleep,
                refactor_sleep
  <2> QED
    BY <1>4, <2>1, <2>2, <2>3, OutsideFrame, ExclusionFrame
<1>5. ASSUME NEW c \in Coders, submit(c)
      PROVE  PairExclusion'
  BY <1>5, ExclusionFrame DEF submit, register_request, dongle_vars
<1>6. ASSUME NEW c \in Coders, acquire_gives_up(c)
      PROVE  PairExclusion'
  BY <1>6, ExclusionFrame DEF acquire_gives_up, withdraw_request, dongle_vars
<1>7. ASSUME NEW c \in Coders, dispatching(c)
      PROVE  PairExclusion'
  BY <1>7, DispatchingFrame, ExclusionFrame DEF dongle_vars, grant_vars
<1>8. ASSUME NEW c \in Coders, scan_reserve(c)
      PROVE  PairExclusion'
  <2>1. scan_i \in Coders /\ waiting[scan_i]
    BY <1>8 DEF IInv, ScanInv, scan_reserve
  <2>2. \A d \in Pair(scan_i) : available[d]
    BY <1>8 DEF scan_reserve, dispatch_reserve, can_reserve,
                scheduler_pair_ready, dongle_ready
  <2>3. \A a \in Coders \ {scan_i} : holds(a)' => holds(a)
    BY <1>8, <2>1 DEF scan_reserve, dispatch_reserve, reserve_pair
  <2>4. \A d \in Dongles : available'[d] <=> available[d] /\ d \notin Pair(scan_i)
    BY <1>8 DEF scan_reserve, dispatch_reserve, reserve_pair
  <2>5. \A a \in Coders : holds(a) => ~requests_overlap(a, scan_i)
    BY <2>1, <2>2 DEF PairExclusion, requests_overlap
  <2>6. \A a \in Coders : holds(a)' => \A d \in Pair(a) : ~available'[d]
    BY <2>1, <2>3, <2>4, PairIsOnTheTable DEF PairExclusion
  <2>7. ASSUME NEW a \in Coders, NEW b \in Coders \ {a},
               holds(a)', holds(b)', requests_overlap(a, b)
        PROVE  FALSE
    <3>1. requests_overlap(b, a)
      BY <2>7 DEF requests_overlap
    <3>2. CASE a = scan_i
      BY <2>3, <2>5, <2>7, <3>1, <3>2
    <3>3. CASE b = scan_i
      BY <2>3, <2>5, <2>7, <3>3
    <3>4. CASE a # scan_i /\ b # scan_i
      BY <2>3, <2>7, <3>4 DEF PairExclusion
    <3> QED
      BY <3>2, <3>3, <3>4
  <2>8. \A a, b \in Coders : requests_overlap(a, b)' <=> requests_overlap(a, b)
    BY DEF requests_overlap, Pair, left, right
  <2>9. \A a \in Coders : Pair(a)' = Pair(a)
    BY DEF Pair, left, right
  <2> QED
    BY <2>6, <2>7, <2>8, <2>9 DEF PairExclusion
<1>9. ASSUME NEW c \in Coders, settling(c)
      PROVE  PairExclusion'
  BY <1>9, SettlingFrame, ExclusionFrame DEF scheduler_vars, dongle_vars, grant_vars
<1>10. ASSUME NEW c \in Coders, release_both_dongles(c)
       PROVE  PairExclusion'
  <2>1. holds(c) /\ ~holds(c)'
    BY <1>10 DEF release_both_dongles
  <2>2. \A a \in Coders : holds(a)' => holds(a) /\ a # c
    BY <1>10, <2>1 DEF release_both_dongles, grant_vars
  <2>3. \A d \in Dongles : available'[d] <=> available[d] \/ d \in Pair(c)
    BY <1>10 DEF release_both_dongles, free_pair
  <2>4. \A a \in Coders \ {c} : holds(a) => Pair(a) \cap Pair(c) = {}
    BY <2>1 DEF PairExclusion, requests_overlap
  <2>5. \A a \in Coders : holds(a)' => \A d \in Pair(a) : ~available'[d]
    BY <2>2, <2>3, <2>4, PairIsOnTheTable DEF PairExclusion
  <2>6. \A a, b \in Coders : requests_overlap(a, b)' <=> requests_overlap(a, b)
    BY DEF requests_overlap, Pair, left, right
  <2>7. \A a \in Coders : Pair(a)' = Pair(a)
    BY DEF Pair, left, right
  <2> QED
    BY <2>2, <2>5, <2>6, <2>7 DEF PairExclusion
<1>11. CASE UNCHANGED vars
  BY <1>11, ExclusionFrame DEF vars, scheduler_vars, dongle_vars, grant_vars
<1> QED
  BY StepCases, <1>2, <1>3, <1>4, <1>5, <1>6, <1>7, <1>8, <1>9, <1>10, <1>11

-----------------------------------------------------------------------------
(* The monitor, the stop and the compiles. *)

LEMMA BurnStep ==
  ASSUME IInv, [Next]_vars
  PROVE  BurnInv'
<1> USE SchedulerArgs, SimulationArgs DEF BurnInv, goto, mutex_free
<1>1. BurnInv /\ ScanInv /\ MutexInv /\ RequestInv
  BY DEF IInv
<1>2. ScalarTypes /\ TimeTypes /\ ThreadTypes /\ now \in Nat
  BY TypeParts DEF IInv, ScalarTypes
<1> USE <1>1, <1>2 DEF ScalarTypes, TimeTypes, ThreadTypes
<1>3. CASE Tick
  BY <1>3 DEF Tick, ScanInv, grant_vars, scan_vars, monitor_vars
<1>4. CASE monitor_step
  <2>1. UNCHANGED <<now, last_compile_start, scan_i, pc>>
    BY <1>4, MonitorFrame DEF scheduler_vars, grant_vars, scan_vars
  <2>2. m_pc' = "burn" => burnout_found
    BY <1>4 DEF monitor_step, monitor_round, check_burnouts, burnout_not_due,
                scan_ends, stop_for_burnout, burnout_too_late, monitor_relock
  <2>3. ASSUME burnout_found
        PROVE  /\ m_i' = m_i
               /\ now >= last_compile_start[m_i] + time_to_burnout
               /\ \A c \in Coders : pc[c] # "reserve"
    <3>1. m_i' = m_i /\ m_i \in Coders
      BY <2>3 DEF burnout_found, Coders
    <3>2. now >= last_compile_start[m_i] + time_to_burnout
      BY <2>3, <3>1 DEF burnout_found, burnout_due
    <3>3. \A c \in Coders : pc[c] # "reserve"
      BY <2>3 DEF burnout_found, MutexInv, Holding, Scanning
    <3> QED
      BY <3>1, <3>2, <3>3
  <2> QED
    BY <2>1, <2>2, <2>3
<1>5. ASSUME NEW c \in Coders, outside(c)
      PROVE  BurnInv'
  <2>1. UNCHANGED <<now, last_compile_start, scan_i, m_pc, m_i>>
    BY <1>5, OutsideFrame DEF scheduler_vars, grant_vars, scan_vars, monitor_vars
  <2>2. \A a \in Coders : pc'[a] = "reserve" => pc[a] = "reserve"
    BY <1>5, OutsideFrame DEF InAcquire, Holding, Scanning
  <2> QED
    BY <2>1, <2>2
<1>6. ASSUME NEW c \in Coders, submit(c)
      PROVE  BurnInv'
  BY <1>6 DEF submit, scan_vars, monitor_vars
<1>7. ASSUME NEW c \in Coders, acquire_gives_up(c)
      PROVE  BurnInv'
  BY <1>7 DEF acquire_gives_up, scan_vars, monitor_vars
<1>8. ASSUME NEW c \in Coders, dispatching(c)
      PROVE  BurnInv'
  <2>1. UNCHANGED <<now, last_compile_start, m_pc, m_i>>
    BY <1>8, DispatchingFrame DEF grant_vars, monitor_vars
  <2>2. \A a \in Coders : pc'[a] = "reserve" => a = c /\ scan_select(c)
    BY <1>8 DEF MutexInv, Holding, Scanning, dispatching, acquire_dispatches,
                scan_skip, scan_select, scan_refuse, scan_again
  <2>3. scan_select(c) => /\ scan_i' = scan_i
                          /\ scan_i \in Coders
                          /\ waiting[scan_i]
                          /\ now < deadline[scan_i]
    BY DEF scan_select, dispatch_select, scan_over, in_time, scan_vars, Coders
  <2>4. scan_select(c) => now < last_compile_start[scan_i] + time_to_burnout
    BY <2>3 DEF RequestInv
  <2>5. m_pc = "burn" /\ scan_select(c) => scan_i # m_i
    BY <2>4 DEF ScanInv
  <2> QED
    BY <2>1, <2>2, <2>3, <2>5
<1>9. ASSUME NEW c \in Coders, scan_reserve(c)
      PROVE  BurnInv'
  <2>1. UNCHANGED <<now, m_pc, m_i>>
    BY <1>9 DEF scan_reserve, scan_frame, monitor_vars
  <2>2. \A a \in Coders : pc'[a] # "reserve"
    BY <1>9 DEF MutexInv, Holding, Scanning, scan_reserve
  <2>3. m_pc = "burn" => last_compile_start'[m_i] = last_compile_start[m_i]
    BY <1>9 DEF ScanInv, scan_reserve, dispatch_reserve, reserve_pair
  <2> QED
    BY <2>1, <2>2, <2>3
<1>10. ASSUME NEW c \in Coders, settling(c)
       PROVE  BurnInv'
  BY <1>10, SettlingFrame DEF scheduler_vars, grant_vars, scan_vars, monitor_vars
<1>11. ASSUME NEW c \in Coders, release_both_dongles(c)
       PROVE  BurnInv'
  BY <1>11 DEF release_both_dongles, grant_vars, scan_vars, monitor_vars
<1>12. CASE UNCHANGED vars
  BY <1>12 DEF vars, scheduler_vars, grant_vars, scan_vars, monitor_vars
<1> QED
  BY StepCases, <1>3, <1>4, <1>5, <1>6, <1>7, <1>8, <1>9, <1>10, <1>11, <1>12

(* A coder that is done stays done, and burned out coders are not forgotten. *)
LEMMA ProgressStep ==
  ASSUME IInv, [Next]_vars
  PROVE  /\ \A c \in Coders : coder_is_done(c) => coder_is_done(c)'
         /\ burned \subseteq burned'
<1> USE SimulationArgs DEF coder_is_done, TimeTypes
<1>1. TimeTypes
  BY TypeParts DEF IInv
<1>2. CASE Tick
  BY <1>2 DEF Tick, coder_vars, monitor_vars
<1>3. CASE monitor_step
  BY <1>3 DEF monitor_step, monitor_round, check_burnouts, burnout_not_due,
              burnout_found, scan_ends, stop_for_burnout, burnout_too_late,
              monitor_relock, monitor_frame, coder_vars
<1>4. ASSUME NEW c \in Coders, outside(c)
      PROVE  /\ \A a \in Coders : coder_is_done(a) => coder_is_done(a)'
             /\ burned \subseteq burned'
  <2>1. burned' = burned
    BY <1>4, OutsideFrame DEF monitor_vars
  <2>2. compiles_done' = compiles_done \/ finish_compile(c)
    BY <1>4 DEF outside, next_round, compile_sleep, compile_checked, set_stop,
                wake_all_dongles, debug_sleep, refactor_sleep, coder_vars
  <2>3. finish_compile(c) =>
          \A a \in Coders : coder_is_done(a) => coder_is_done(a)'
    BY <1>1 DEF finish_compile
  <2> QED
    BY <2>1, <2>2, <2>3
<1>5. ASSUME NEW c \in Coders,
             \/ submit(c)
             \/ acquire_gives_up(c)
             \/ scan_reserve(c)
             \/ release_both_dongles(c)
      PROVE  UNCHANGED <<compiles_done, burned>>
  BY <1>5 DEF submit, acquire_gives_up, scan_reserve, scan_frame,
              release_both_dongles, coder_vars, monitor_vars
<1>6. ASSUME NEW c \in Coders, dispatching(c) \/ settling(c)
      PROVE  UNCHANGED <<compiles_done, burned>>
  BY <1>6, DispatchingFrame, SettlingFrame DEF coder_vars, monitor_vars
<1>7. CASE UNCHANGED vars
  BY <1>7 DEF vars, coder_vars, monitor_vars
<1> QED
  BY StepCases, <1>2, <1>3, <1>4, <1>5, <1>6, <1>7

LEMMA FinishStep ==
  ASSUME IInv, [Next]_vars
  PROVE  FinishInv'
<1> USE DEF FinishInv, goto
<1>1. FinishInv /\ ThreadTypes
  BY TypeParts DEF IInv
<1> USE DEF ThreadTypes
<1>2. ASSUME NEW c \in Coders, pc'[c] = "set_stop", pc[c] # "set_stop"
      PROVE  finish_compile(c) /\ all_coders_finished'
  <2>1. CASE Tick \/ monitor_step \/ UNCHANGED vars
    BY <1>2, <2>1, MonitorFrame DEF Tick, vars
  <2>2. ASSUME NEW a \in Coders, outside(a)
        PROVE  finish_compile(c) /\ all_coders_finished'
    <3>1. a = c
      BY <1>1, <1>2, <2>2, OutsideFrame
    <3> QED
      BY <1>1, <1>2, <2>2, <3>1
         DEF outside, next_round, compile_sleep, compile_checked,
             finish_compile, set_stop, wake_all_dongles, debug_sleep,
             refactor_sleep
  <2>3. ASSUME NEW a \in Coders,
               \/ submit(a)
               \/ acquire_gives_up(a)
               \/ scan_reserve(a)
               \/ release_both_dongles(a)
        PROVE  FALSE
    BY <1>1, <1>2, <2>3 DEF submit, acquire_gives_up, scan_reserve,
                            release_both_dongles
  <2>4. ASSUME NEW a \in Coders, dispatching(a) \/ settling(a)
        PROVE  FALSE
    BY <1>1, <1>2, <2>4, DispatchingFrame, SettlingFrame DEF Scanning
  <2> QED
    BY StepCases, <2>1, <2>2, <2>3, <2>4
<1>3. all_coders_finished' => \A a \in Coders : coder_is_done(a)'
  BY DEF all_coders_finished, coder_is_done
<1> QED
  BY <1>1, <1>2, <1>3, ProgressStep

LEMMA StopStep ==
  ASSUME IInv, [Next]_vars
  PROVE  StopIsJustified'
<1>1. StopIsJustified /\ FinishInv
  BY DEF IInv
<1>2. CASE simulation_stop
  BY <1>1, <1>2, ProgressStep DEF StopIsJustified
<1>3. ASSUME ~simulation_stop, simulation_stop'
      PROVE  stop_for_burnout \/ \E c \in Coders : set_stop(c)
  <2>1. CASE Tick \/ UNCHANGED vars
    BY <1>3, <2>1 DEF Tick, vars
  <2>2. CASE monitor_step
    BY <1>3, <2>2 DEF monitor_step, monitor_round, check_burnouts,
                      burnout_not_due, burnout_found, scan_ends,
                      burnout_too_late, monitor_relock
  <2>3. ASSUME NEW c \in Coders, outside(c)
        PROVE  set_stop(c)
    BY <1>3, <2>3 DEF outside, next_round, compile_sleep, compile_checked,
                      finish_compile, wake_all_dongles, debug_sleep,
                      refactor_sleep
  <2>4. ASSUME NEW c \in Coders,
               \/ submit(c)
               \/ acquire_gives_up(c)
               \/ scan_reserve(c)
               \/ release_both_dongles(c)
        PROVE  FALSE
    BY <1>3, <2>4 DEF submit, acquire_gives_up, scan_reserve, scan_frame,
                      release_both_dongles
  <2>5. ASSUME NEW c \in Coders, dispatching(c) \/ settling(c)
        PROVE  FALSE
    BY <1>3, <2>5, DispatchingFrame, SettlingFrame
  <2> QED
    BY StepCases, <2>1, <2>2, <2>3, <2>4, <2>5
<1>4. stop_for_burnout => burned' # {}
  BY DEF stop_for_burnout
<1>5. ASSUME NEW c \in Coders, set_stop(c)
      PROVE  \A a \in Coders : coder_is_done(a)'
  BY <1>1, <1>5, ProgressStep DEF FinishInv, set_stop
<1> QED
  BY <1>2, <1>3, <1>4, <1>5 DEF StopIsJustified

LEMMA SleeperStep ==
  ASSUME IInv, [Next]_vars
  PROVE  NoSleeperAfterStop'
<1> USE DEF NoSleeperAfterStop, broadcast_stop
<1>1. NoSleeperAfterStop /\ ScanInv
  BY DEF IInv
<1>2. CASE Tick
  BY <1>1, <1>2 DEF Tick
<1>3. CASE monitor_step
  BY <1>1, <1>3
     DEF monitor_step, monitor_round, check_burnouts, burnout_not_due,
         burnout_found, scan_ends, stop_for_burnout, burnout_too_late,
         monitor_relock
<1>4. ASSUME NEW c \in Coders, outside(c)
      PROVE  NoSleeperAfterStop'
  BY <1>1, <1>4
     DEF outside, next_round, compile_sleep, compile_checked, finish_compile,
         set_stop, wake_all_dongles, debug_sleep, refactor_sleep
<1>5. ASSUME NEW c \in Coders,
             \/ submit(c)
             \/ acquire_gives_up(c)
             \/ scan_reserve(c)
             \/ release_both_dongles(c)
      PROVE  NoSleeperAfterStop'
  BY <1>1, <1>5 DEF submit, acquire_gives_up, scan_reserve, scan_frame,
                    release_both_dongles
<1>6. ASSUME NEW c \in Coders, dispatching(c)
      PROVE  NoSleeperAfterStop'
  BY <1>1, <1>6, DispatchingFrame
<1>7. ASSUME NEW c \in Coders, settling(c)
      PROVE  NoSleeperAfterStop'
  <2>1. UNCHANGED simulation_stop
    BY <1>7, SettlingFrame
  <2>2. build_deadline(c) => ~simulation_stop
    BY <1>1 DEF ScanInv, build_deadline
  <2>3. stop_waiters' \subseteq stop_waiters \/ build_deadline(c)
    BY <1>7 DEF settling, acquire_succeeds, wait_for_scheduler, left_asleep,
                wake, spurious_wakeup
  <2> QED
    BY <1>1, <2>1, <2>2, <2>3
<1>8. CASE UNCHANGED vars
  BY <1>1, <1>8 DEF vars
<1> QED
  BY StepCases, <1>2, <1>3, <1>4, <1>5, <1>6, <1>7, <1>8

LEMMA CompileStep ==
  ASSUME IInv, [Next]_vars
  PROVE  CompileInv'
<1> USE SchedulerArgs, SimulationArgs DEF CompileInv, goto
<1>1. CompileInv /\ ScanInv /\ RequestInv
  BY DEF IInv
<1>2. ScalarTypes /\ TimeTypes /\ ThreadTypes /\ now \in Nat
  BY TypeParts DEF IInv, ScalarTypes
<1> USE <1>1, <1>2 DEF TimeTypes, ThreadTypes
<1>3. CASE Tick
  BY <1>3 DEF Tick, grant_vars, coder_vars
<1>4. CASE monitor_step
  <2>1. UNCHANGED <<now, last_compile_start, pc, timer>>
    BY <1>4, MonitorFrame DEF scheduler_vars, grant_vars, coder_vars
  <2>2. simulation_stop => simulation_stop'
    BY StopIsFinal
  <2> QED
    BY <2>1, <2>2
<1>5. ASSUME NEW c \in Coders, outside(c)
      PROVE  CompileInv'
  <2>1. UNCHANGED <<now, last_compile_start>>
    BY <1>5, OutsideFrame DEF scheduler_vars, grant_vars
  <2>2. \A a \in Coders \ {c} : pc'[a] = pc[a] /\ timer'[a] = timer[a]
    BY <1>5 DEF outside, next_round, compile_sleep, compile_checked,
                finish_compile, set_stop, wake_all_dongles, debug_sleep,
                refactor_sleep, coder_vars
  <2>3. simulation_stop => simulation_stop'
    BY StopIsFinal
  <2>4. pc'[c] \notin {"compile", "check"}
    BY <1>5 DEF outside, next_round, compile_sleep, compile_checked,
                finish_compile, set_stop, wake_all_dongles, debug_sleep,
                refactor_sleep
  <2>5. pc'[c] = "release" => compile_sleep(c)
    BY <1>5 DEF outside, next_round, compile_checked, finish_compile, set_stop,
                wake_all_dongles, debug_sleep, refactor_sleep
  <2>6. pc'[c] = "count" => compile_checked(c) /\ ~simulation_stop
    BY <1>5 DEF outside, next_round, compile_sleep, compile_checked,
                finish_compile, set_stop, wake_all_dongles, debug_sleep,
                refactor_sleep
  <2>7. compile_sleep(c) =>
          \/ simulation_stop'
          \/ now >= last_compile_start[c] + time_to_compile
    BY DEF compile_sleep, sleep_over
  <2>8. compile_checked(c) /\ ~simulation_stop =>
          now >= last_compile_start[c] + time_to_compile
    BY DEF compile_checked
  <2> QED
    BY <2>1, <2>2, <2>3, <2>4, <2>5, <2>6, <2>7, <2>8
<1>6. ASSUME NEW c \in Coders, submit(c) \/ acquire_gives_up(c)
      PROVE  CompileInv'
  BY <1>6 DEF submit, acquire_gives_up, coder_vars
<1>7. ASSUME NEW c \in Coders, dispatching(c)
      PROVE  CompileInv'
  BY <1>7, DispatchingFrame DEF Scanning, grant_vars, coder_vars
<1>8. ASSUME NEW c \in Coders, scan_reserve(c)
      PROVE  CompileInv'
  <2>1. UNCHANGED <<now, timer, simulation_stop>>
    BY <1>8 DEF scan_reserve, scan_frame, coder_vars
  <2>2. /\ scan_i \in Coders
        /\ pc'[scan_i] \in InAcquire
        /\ last_compile_start'[scan_i] = now
    BY <1>8 DEF ScanInv, RequestInv, scan_reserve, dispatch_reserve,
                reserve_pair, InAcquire, Holding, Scanning
  <2>3. \A a \in Coders \ {scan_i} :
          last_compile_start'[a] = last_compile_start[a]
    BY <1>8 DEF scan_reserve, dispatch_reserve, reserve_pair
  <2>4. \A a \in Coders : pc'[a] = pc[a] \/ pc'[a] = "scan"
    BY <1>8 DEF scan_reserve
  <2> QED
    BY <2>1, <2>2, <2>3, <2>4 DEF InAcquire, Holding, Scanning
<1>9. ASSUME NEW c \in Coders, settling(c)
      PROVE  CompileInv'
  <2>1. UNCHANGED <<now, last_compile_start, simulation_stop>>
    BY <1>9, SettlingFrame DEF scheduler_vars, grant_vars
  <2>2. \A a \in Coders \ {c} : pc'[a] = pc[a] /\ timer'[a] = timer[a]
    BY <1>9 DEF settling, acquire_succeeds, wait_for_scheduler,
                build_deadline, wake, spurious_wakeup, coder_vars
  <2>3. \/ pc'[c] = pc[c] /\ timer'[c] = timer[c]
        \/ pc'[c] \in {"acquire", "set_timer", "wait"}
        \/ pc'[c] = "compile" /\ timer'[c] = now + time_to_compile
    BY <1>9 DEF settling, acquire_succeeds, wait_for_scheduler,
                build_deadline, wake, spurious_wakeup, coder_vars
  <2> QED
    BY <2>1, <2>2, <2>3
<1>10. ASSUME NEW c \in Coders, release_both_dongles(c)
       PROVE  CompileInv'
  BY <1>10 DEF release_both_dongles, grant_vars
<1>11. CASE UNCHANGED vars
  BY <1>11 DEF vars, scheduler_vars, grant_vars, coder_vars
<1> QED
  BY StepCases, <1>3, <1>4, <1>5, <1>6, <1>7, <1>8, <1>9, <1>10, <1>11

-----------------------------------------------------------------------------
(* The theorems. *)

LEMMA InvarianceStep ==
  ASSUME IInv, [Next]_vars
  PROVE  IInv'
BY TypeStep, MutexStep, RequestStep, ScanStep, ExclusionStep, BurnStep,
   FinishStep, CompileStep, StopStep, SleeperStep DEF IInv

(***************************************************************************)
(* The inductive invariant holds in every reachable state: the mutex, the  *)
(* requests, the dispatchers, the reservations, the monitor and the stop   *)
(* stay consistent with each other, for any table and any timing.          *)
(***************************************************************************)
THEOREM Invariance == Spec => []IInv
<1>1. Init => IInv
  BY InitIInv
<1>2. IInv /\ [Next]_vars => IInv'
  BY InvarianceStep
<1> QED
  BY <1>1, <1>2, PTL DEF Spec

(* Every variable keeps its type; the scans stay inside their arrays.      *)
THEOREM TypeCorrect == Spec => []TypeOK
<1>1. IInv => TypeOK
  BY DEF IInv
<1> QED
  BY <1>1, Invariance, PTL

(***************************************************************************)
(* Two neighbours never compile at the same time, whoever reserves for     *)
(* whom and whoever releases meanwhile (scheduler_dispatch, release.c).    *)
(***************************************************************************)
THEOREM Exclusion == Spec => []PairExclusion
<1>1. IInv => PairExclusion
  BY DEF IInv
<1> QED
  BY <1>1, Invariance, PTL

(* The simulation stops only for a burnout or when everybody has finished. *)
THEOREM StopJustified == Spec => []StopIsJustified
<1>1. IInv => StopIsJustified
  BY DEF IInv
<1> QED
  BY <1>1, Invariance, PTL

(* A stop leaves nobody asleep on stop_cond: no shutdown wakeup is lost.   *)
THEOREM NobodySleepsThroughTheStop == Spec => []NoSleeperAfterStop
<1>1. IInv => NoSleeperAfterStop
  BY DEF IInv
<1> QED
  BY <1>1, Invariance, PTL

-----------------------------------------------------------------------------
(* The wakeup that comes with a reservation. *)

(* Which step can make a reservation: the dispatcher's own, while it runs. *)
LEMMA OnlyDispatchersReserve ==
  ASSUME IInv, [Next]_vars, NEW a \in Coders, reserved_now(a)
  PROVE  \E c \in Coders : scan_reserve(c)
<1> USE DEF reserved_now
<1>1. FlagTypes
  BY TypeParts DEF IInv
<1>2. CASE Tick \/ monitor_step \/ UNCHANGED vars
  BY <1>2, MonitorFrame DEF Tick, vars, scheduler_vars, grant_vars
<1>3. ASSUME NEW c \in Coders, outside(c) \/ dispatching(c) \/ settling(c)
      PROVE  FALSE
  BY <1>3, OutsideFrame, DispatchingFrame, SettlingFrame
     DEF scheduler_vars, grant_vars
<1>4. ASSUME NEW c \in Coders,
             submit(c) \/ acquire_gives_up(c) \/ release_both_dongles(c)
      PROVE  FALSE
  BY <1>1, <1>4 DEF submit, register_request, acquire_gives_up,
                    withdraw_request, release_both_dongles, grant_vars, FlagTypes
<1> QED
  BY StepCases, <1>2, <1>3, <1>4

(***************************************************************************)
(* A coder on its way into its timed wait has no pair, and nobody sleeps:  *)
(* its own dispatch has just woken everybody, and it holds the mutex.      *)
(***************************************************************************)
AwakeInv ==
  \A c \in Coders : pc[c] = "set_timer" => stop_waiters = {} /\ ~granted[c]

(* Who can become such a coder, and who can fall asleep. *)
LEMMA NewWaits ==
  ASSUME IInv, [Next]_vars, NEW a \in Coders
  PROVE  /\ a \in stop_waiters' \ stop_waiters => build_deadline(a)
         /\ pc'[a] = "set_timer" /\ pc[a] # "set_timer" => wait_for_scheduler(a)
<1> USE DEF goto, broadcast_stop
<1>1. ThreadTypes
  BY TypeParts DEF IInv
<1> USE <1>1 DEF ThreadTypes
<1>2. CASE Tick \/ monitor_step \/ UNCHANGED vars
  BY <1>2, MonitorFrame
     DEF Tick, vars, monitor_step, monitor_round, check_burnouts,
         burnout_not_due, burnout_found, scan_ends, stop_for_burnout,
         burnout_too_late, monitor_relock
<1>3. ASSUME NEW c \in Coders, outside(c)
      PROVE  stop_waiters' \subseteq stop_waiters /\ pc'[c] # "set_timer"
  BY <1>3 DEF outside, next_round, compile_sleep, compile_checked,
              finish_compile, set_stop, wake_all_dongles, debug_sleep,
              refactor_sleep
<1>4. ASSUME NEW c \in Coders, submit(c) \/ acquire_gives_up(c)
                               \/ scan_reserve(c) \/ release_both_dongles(c)
      PROVE  stop_waiters' \subseteq stop_waiters /\ pc'[c] # "set_timer"
  BY <1>4 DEF submit, acquire_gives_up, scan_reserve, scan_frame,
              release_both_dongles
<1>5. ASSUME NEW c \in Coders, dispatching(c)
      PROVE  stop_waiters' \subseteq stop_waiters /\ pc'[c] # "set_timer"
  BY <1>5, DispatchingFrame DEF Scanning
<1>6. ASSUME NEW c \in Coders, outside(c) \/ submit(c) \/ acquire_gives_up(c)
                               \/ dispatching(c) \/ scan_reserve(c)
                               \/ release_both_dongles(c)
      PROVE  \A b \in Coders : b # c => pc'[b] = pc[b]
  BY <1>6, OutsideFrame, DispatchingFrame
     DEF submit, acquire_gives_up, scan_reserve, release_both_dongles
<1>7. ASSUME NEW c \in Coders, settling(c)
      PROVE  /\ a \in stop_waiters' \ stop_waiters => build_deadline(a)
             /\ pc'[a] = "set_timer" /\ pc[a] # "set_timer" => wait_for_scheduler(a)
  BY <1>7 DEF settling, acquire_succeeds, wait_for_scheduler, build_deadline,
              wake, spurious_wakeup, left_asleep
<1> QED
  BY StepCases, <1>2, <1>3, <1>4, <1>5, <1>6, <1>7

(* While it is on its way the mutex is its own, and no grant can come. *)
LEMMA AwakeStep ==
  ASSUME IInv, [Next]_vars, AwakeInv
  PROVE  AwakeInv'
<1>1. FlagTypes /\ ThreadTypes /\ MutexInv
  BY TypeParts DEF IInv
<1> SUFFICES ASSUME NEW a \in Coders, pc'[a] = "set_timer"
             PROVE  stop_waiters' = {} /\ ~granted'[a]
  BY DEF AwakeInv
<1>2. CASE wait_for_scheduler(a)
  BY <1>2 DEF wait_for_scheduler, left_asleep, scheduler_vars, grant_vars
<1>3. CASE pc[a] = "set_timer"
  <2>1. stop_waiters = {} /\ ~granted[a] /\ state_mutex = a
    BY <1>1, <1>3 DEF AwakeInv, MutexInv, Holding
  <2>2. \A b \in Coders : b \notin stop_waiters'
    BY <1>1, <1>3, <2>1, NewWaits
       DEF build_deadline, goto, MutexInv, Holding, ThreadTypes
  <2>3. stop_waiters' \subseteq Coders
    BY ThreadStep DEF ThreadTypes
  <2>4. granted'[a] => \E c \in Coders : scan_reserve(c)
    BY <2>1, OnlyDispatchersReserve DEF reserved_now
  <2>5. \A c \in Coders : scan_reserve(c) => pc[c] = "reserve"
    BY DEF scan_reserve
  <2>6. \A c \in Coders : pc[c] # "reserve"
    BY <1>1, <1>3 DEF MutexInv, Holding, Scanning
  <2> QED
    BY <2>2, <2>3, <2>4, <2>5, <2>6
<1> QED
  BY <1>2, <1>3, NewWaits

(***************************************************************************)
(* A sleeper is in its timed wait, and when its pair has been reserved the *)
(* dispatcher that did it is still on its way to the broadcast.            *)
(***************************************************************************)
SleepInv ==
  \A c \in stop_waiters :
    /\ pc[c] = "wait"
    /\ granted[c] => \E a \in Coders : pc[a] \in Scanning

(* A dispatcher stays on its way, or it is the one that settles.           *)
LEMMA SleepStep ==
  ASSUME IInv, [Next]_vars, SleepInv, AwakeInv
  PROVE  SleepInv'
<1> USE DEF SleepInv
<1>1. FlagTypes /\ ThreadTypes
  BY TypeParts DEF IInv
<1>2. CASE Tick \/ monitor_step \/ UNCHANGED vars
  <2>1. UNCHANGED <<pc, granted>> /\ stop_waiters' \subseteq stop_waiters
    BY <1>2, MonitorFrame
       DEF Tick, vars, scheduler_vars, grant_vars, monitor_step, monitor_round,
           check_burnouts, burnout_not_due, burnout_found, scan_ends,
           stop_for_burnout, burnout_too_late, monitor_relock, broadcast_stop
  <2> QED
    BY <2>1
<1>3. ASSUME NEW c \in Coders, outside(c) \/ submit(c) \/ acquire_gives_up(c)
                               \/ release_both_dongles(c)
      PROVE  SleepInv'
  <2>1. pc[c] \notin Scanning \cup {"wait"}
    BY <1>3, OutsideFrame DEF submit, acquire_gives_up, release_both_dongles,
                              InAcquire, Holding, Scanning
  <2>2. stop_waiters' \subseteq stop_waiters
    BY <1>3 DEF outside, next_round, compile_sleep, compile_checked,
                finish_compile, set_stop, wake_all_dongles, debug_sleep,
                refactor_sleep, submit, acquire_gives_up,
                release_both_dongles, broadcast_stop
  <2>3. \E label \in CoderPoints : goto(c, label)
    BY <1>3, OutsideFrame DEF submit, acquire_gives_up, release_both_dongles,
                              CoderPoints, InAcquire, Holding
  <2>4. \A a \in Coders : a # c => pc'[a] = pc[a]
    BY <1>1, <2>3 DEF goto, ThreadTypes
  <2>5. \A a \in Coders : a # c => granted'[a] = granted[a]
    BY <1>1, <1>3, OutsideFrame
       DEF scheduler_vars, grant_vars, submit, register_request,
           acquire_gives_up, withdraw_request, release_both_dongles, FlagTypes
  <2>6. stop_waiters \subseteq Coders
    BY <1>1 DEF ThreadTypes
  <2>7. ASSUME NEW a \in stop_waiters'
        PROVE  pc'[a] = "wait" /\ granted'[a] = granted[a]
    BY <2>1, <2>2, <2>4, <2>5, <2>6, <2>7
  <2>8. ASSUME NEW a \in Coders, pc[a] \in Scanning
        PROVE  pc'[a] \in Scanning
    BY <2>1, <2>4, <2>8
  <2> QED
    BY <2>2, <2>7, <2>8
<1>4. ASSUME NEW c \in Coders, dispatching(c) \/ scan_reserve(c)
      PROVE  SleepInv'
  <2>1. UNCHANGED stop_waiters /\ stop_waiters \subseteq Coders
    BY <1>1, <1>4, DispatchingFrame DEF scan_reserve, scan_frame, ThreadTypes
  <2>2. pc[c] # "wait"
    BY <1>4, DispatchingFrame DEF scan_reserve, Holding, Scanning
  <2>3. UNCHANGED pc \/ \E label \in Scanning : goto(c, label)
    BY <1>4, DispatchingFrame DEF scan_reserve, Scanning
  <2>4. \A a \in Coders : a # c => pc'[a] = pc[a]
    BY <1>1, <2>3 DEF goto, ThreadTypes
  <2>5. pc[c] \in Scanning => pc'[c] \in Scanning
    BY <1>1, <2>3 DEF goto, ThreadTypes
  <2>6. ASSUME NEW a \in stop_waiters, granted'[a]
        PROVE  granted[a] \/ pc'[c] \in Scanning
    <3>1. CASE dispatching(c)
      BY <2>6, <3>1, DispatchingFrame DEF grant_vars
    <3>2. CASE scan_reserve(c)
      BY <2>5, <3>2 DEF scan_reserve, Scanning
    <3> QED
      BY <1>4, <3>1, <3>2
  <2> QED
    BY <2>1, <2>2, <2>4, <2>5, <2>6
<1>5. ASSUME NEW c \in Coders, settling(c)
      PROVE  SleepInv'
  <2>1. UNCHANGED granted
    BY <1>5, SettlingFrame DEF scheduler_vars, grant_vars
  <2>2. CASE acquire_succeeds(c)
    BY <2>2 DEF acquire_succeeds, left_asleep
  <2>3. CASE wait_for_scheduler(c)
    BY <2>3 DEF wait_for_scheduler, left_asleep
  <2>4. CASE wake(c) \/ spurious_wakeup(c)
    <3>1. stop_waiters' = stop_waiters \ {c} /\ stop_waiters \subseteq Coders
      BY <1>1, <2>4 DEF wake, spurious_wakeup, ThreadTypes
    <3>2. \A a \in Coders : a # c => pc'[a] = pc[a]
      BY <1>1, <2>4 DEF wake, spurious_wakeup, goto, ThreadTypes
    <3>3. pc'[c] = pc[c] \/ pc[c] \notin Scanning
      BY <2>4 DEF wake, spurious_wakeup, Scanning
    <3> QED
      BY <2>1, <3>1, <3>2, <3>3
  <2>5. CASE build_deadline(c)
    <3>1. stop_waiters' = {c} /\ ~granted'[c]
      BY <2>1, <2>5 DEF build_deadline, AwakeInv
    <3>2. pc'[c] = "wait"
      BY <1>1, <2>5 DEF build_deadline, goto, ThreadTypes
    <3> QED
      BY <3>1, <3>2
  <2> QED
    BY <1>5, <2>2, <2>3, <2>4, <2>5 DEF settling
<1> QED
  BY StepCases, <1>2, <1>3, <1>4, <1>5

(***************************************************************************)
(* Nobody sleeps on between two critical sections once its pair has been   *)
(* reserved: whoever reserves it broadcasts before it gives the mutex back *)
(* (scheduler_dispatch), even when it goes to sleep itself.                *)
(***************************************************************************)
THEOREM ReservationsWake == Spec => []ServedIsWoken
<1>1. Init => SleepInv /\ AwakeInv
  BY DEF Init, SleepInv, AwakeInv
<1>2. IInv /\ SleepInv /\ AwakeInv /\ [Next]_vars => SleepInv' /\ AwakeInv'
  BY SleepStep, AwakeStep
<1>3. ASSUME IInv, SleepInv
      PROVE  ServedIsWoken
  <2>1. mutex_free => \A a \in Coders : pc[a] \notin Scanning
    BY <1>3, SimulationArgs DEF IInv, MutexInv, mutex_free, Holding
  <2> QED
    BY <1>3, <2>1 DEF SleepInv, ServedIsWoken
<1> QED
  BY <1>1, <1>2, <1>3, Invariance, PTL DEF Spec

(***************************************************************************)
(* When the timed wait of a coder with both dongles back has to end: with  *)
(* their cooldown or its deadline, or at most one millisecond from now;    *)
(* later only by as long as it was held up between its two readings of the *)
(* clock.  Before the second one, timer is the length of the wait.         *)
(***************************************************************************)
LengthInv ==
  \A c \in Coders : pc[c] = "set_timer" /\ pair_available(c) =>
    timer[c] = 1 \/ now + timer[c] <= pair_cooldown_end(c) + held_up[c]

TimerInv ==
  /\ held_up \in [Coders -> Nat]
  /\ LengthInv
  /\ \A c \in stop_waiters : pair_available(c) =>
       timer[c] <= now + 1 \/ timer[c] <= pair_cooldown_end(c) + held_up[c]

(* A wait of that kind is over for the dongles when both have cooled.       *)
LEMMA CooldownEnds ==
  ASSUME ScalarTypes, TimeTypes, NEW c \in Coders
  PROVE  /\ pair_cooldown_end(c) \in Nat
         /\ scheduler_pair_ready(c) => pair_cooldown_end(c) <= now
<1>1. left(c) \in Dongles /\ right(c) \in Dongles
  BY PairIsOnTheTable DEF Pair
<1>2. scheduler_pair_ready(c) =>
        /\ now >= released_at[left(c)] + dongle_cooldown
        /\ now >= released_at[right(c)] + dongle_cooldown
  BY DEF scheduler_pair_ready, dongle_ready, Pair
<1> QED
  BY <1>1, <1>2, SchedulerArgs, SimulationArgs
     DEF pair_cooldown_end, ScalarTypes, TimeTypes

(* What has been computed of a wait, or is being waited for, stays put: its  *)
(* dongles may only go meanwhile, and a release wakes everybody.            *)
LEMMA SameWait ==
  ASSUME IInv, SleepInv, AwakeInv, [Next]_vars, NEW a \in Coders,
         \/ a \in stop_waiters /\ a \in stop_waiters'
         \/ pc[a] = "set_timer" /\ pc'[a] = "set_timer"
  PROVE  /\ pair_available(a)' => pair_available(a)
         /\ pair_cooldown_end(a)' = pair_cooldown_end(a)
         /\ timer'[a] = timer[a]
<1> DEFINE same == /\ pair_available(a)' => pair_available(a)
                   /\ UNCHANGED released_at
                   /\ deadline'[a] = deadline[a]
                   /\ timer'[a] = timer[a]
<1> USE DEF pair_available, Pair, left, right
<1>1. FlagTypes /\ TimeTypes /\ ThreadTypes /\ MutexInv
  BY TypeParts DEF IInv
<1>2. /\ a \in stop_waiters => pc[a] = "wait"
      /\ pc[a] = "set_timer" => stop_waiters = {} /\ state_mutex = a
      /\ pc[a] \in {"set_timer", "wait"}
  BY <1>1 DEF SleepInv, AwakeInv, MutexInv, Holding
<1>3. ASSUME Tick \/ monitor_step \/ UNCHANGED vars
      PROVE  same
  <2>1. UNCHANGED <<available, released_at, deadline, timer>>
    BY <1>3, MonitorFrame
       DEF Tick, vars, scheduler_vars, dongle_vars, request_vars, coder_vars
  <2> QED
    BY <2>1 DEF same
<1>4. ASSUME NEW c \in Coders, outside(c)
      PROVE  same
  <2>1. a # c /\ UNCHANGED scheduler_vars
    BY <1>2, <1>4, OutsideFrame DEF InAcquire, Holding
  <2>2. timer'[a] = timer[a]
    BY <1>1, <1>4, <2>1
       DEF outside, next_round, compile_sleep, compile_checked, finish_compile,
           set_stop, wake_all_dongles, debug_sleep, refactor_sleep, coder_vars,
           TimeTypes, ThreadTypes
  <2> QED
    BY <2>1, <2>2 DEF same, scheduler_vars, dongle_vars, request_vars
<1>5. ASSUME NEW c \in Coders, submit(c)
      PROVE  same
  <2>1. a # c /\ UNCHANGED <<available, released_at, timer>>
    BY <1>2, <1>5 DEF submit, dongle_vars, coder_vars
  <2>2. deadline'[a] = deadline[a]
    BY <1>1, <1>5, <2>1 DEF submit, register_request, TimeTypes
  <2> QED
    BY <2>1, <2>2 DEF same
<1>6. ASSUME NEW c \in Coders, acquire_gives_up(c) \/ release_both_dongles(c)
                               \/ acquire_succeeds(c) \/ wait_for_scheduler(c)
      PROVE  FALSE
  <2>1. a \notin stop_waiters'
    BY <1>6 DEF acquire_gives_up, release_both_dongles, acquire_succeeds,
                wait_for_scheduler, broadcast_stop, left_asleep
  <2>2. pc[a] # "set_timer"
    BY <1>1, <1>6, SimulationArgs
       DEF acquire_gives_up, release_both_dongles, acquire_succeeds, mutex_free,
           wait_for_scheduler, MutexInv, Holding, Scanning
  <2> QED
    BY <2>1, <2>2
<1>7. ASSUME NEW c \in Coders, dispatching(c)
      PROVE  same
  BY <1>7, DispatchingFrame DEF same, dongle_vars, request_vars, coder_vars
<1>8. ASSUME NEW c \in Coders, scan_reserve(c)
      PROVE  same
  <2>1. UNCHANGED <<released_at, deadline, timer>>
    BY <1>8 DEF scan_reserve, scan_frame, dispatch_reserve, request_vars, coder_vars
  <2>2. available' = [d \in Dongles |-> available[d] /\ d \notin Pair(scan_i)]
    BY <1>8 DEF scan_reserve, dispatch_reserve, reserve_pair
  <2>3. pair_available(a)' => pair_available(a)
    BY <2>2, PairIsOnTheTable
  <2> QED
    BY <2>1, <2>3 DEF same
<1>9. ASSUME NEW c \in Coders, build_deadline(c)
      PROVE  FALSE
  <2>1. stop_waiters = {} /\ state_mutex = c
    BY <1>1, <1>9 DEF build_deadline, AwakeInv, MutexInv, Holding
  <2>2. pc'[c] = "wait"
    BY <1>1, <1>9 DEF build_deadline, goto, ThreadTypes
  <2> QED
    BY <1>2, <2>1, <2>2
<1>10. ASSUME NEW c \in Coders, wake(c) \/ spurious_wakeup(c)
       PROVE  same
  <2>1. UNCHANGED scheduler_vars
    BY <1>10 DEF wake, spurious_wakeup
  <2>2. wake(c) => a # c
    BY <1>1, <1>2 DEF wake, ThreadTypes
  <2>3. timer'[a] = timer[a]
    BY <1>1, <1>10, <2>2 DEF wake, spurious_wakeup, coder_vars, TimeTypes
  <2> QED
    BY <2>1, <2>3 DEF same, scheduler_vars, dongle_vars, request_vars
<1>11. same
  BY StepCases, <1>3, <1>4, <1>5, <1>6, <1>7, <1>8, <1>9, <1>10 DEF settling
<1>12. pair_cooldown_end(a)' = pair_cooldown_end(a)
  BY <1>11 DEF same, pair_cooldown_end
<1> QED
  BY <1>11, <1>12 DEF same

(* The clock only ever moves by a tick. *)
LEMMA ClockStep ==
  ASSUME [Next]_vars
  PROVE  now' \in {now, now + 1}
<1>1. CASE Tick \/ monitor_step \/ UNCHANGED vars
  BY <1>1, MonitorFrame DEF Tick, vars, scheduler_vars
<1>2. ASSUME NEW c \in Coders, outside(c) \/ dispatching(c) \/ settling(c)
      PROVE  UNCHANGED now
  BY <1>2, OutsideFrame, DispatchingFrame, SettlingFrame DEF scheduler_vars
<1>3. ASSUME NEW c \in Coders, submit(c) \/ acquire_gives_up(c)
                               \/ scan_reserve(c) \/ release_both_dongles(c)
      PROVE  UNCHANGED now
  BY <1>3 DEF submit, acquire_gives_up, scan_reserve, scan_frame,
              release_both_dongles
<1> QED
  BY StepCases, <1>1, <1>2, <1>3

(* The length is right when it is computed, and loses a millisecond with    *)
(* each one that passes before the coder adds it to the clock.              *)
LEMMA LengthStep ==
  ASSUME IInv, SleepInv, AwakeInv, TimerInv, [HNext]_history_vars
  PROVE  held_up' \in [Coders -> Nat] /\ LengthInv'
<1>1. [Next]_vars
  BY DEF HNext, history_vars
<1>2. ScalarTypes /\ TimeTypes /\ ThreadTypes
  BY TypeParts DEF IInv
<1>3. now \in Nat /\ now' \in {now, now + 1}
  BY <1>1, <1>2, ClockStep, SimulationArgs DEF ScalarTypes
<1>4. held_up' \in [Coders -> Nat]
  <2>1. CASE HNext
    BY <1>3, <2>1 DEF HNext, TimerInv
  <2>2. CASE UNCHANGED history_vars
    BY <2>2 DEF history_vars, TimerInv
  <2> QED
    BY <2>1, <2>2
<1>5. ASSUME NEW a \in Coders, pc'[a] = "set_timer", pair_available(a)'
      PROVE  timer'[a] = 1 \/ now' + timer'[a] <= pair_cooldown_end(a)' + held_up'[a]
  <2>1. CASE pc[a] = "set_timer"
    <3>1. /\ pair_available(a)
          /\ pair_cooldown_end(a)' = pair_cooldown_end(a)
          /\ timer'[a] = timer[a]
      BY <1>1, <1>5, <2>1, SameWait
    <3>2. held_up'[a] = held_up[a] + (now' - now)
      <4>1. CASE HNext
        BY <2>1, <4>1 DEF HNext
      <4>2. CASE UNCHANGED history_vars
        BY <1>3, <4>2 DEF history_vars, vars, scheduler_vars, TimerInv
      <4> QED
        BY <4>1, <4>2
    <3>3. timer[a] = 1 \/ now + timer[a] <= pair_cooldown_end(a) + held_up[a]
      BY <2>1, <3>1 DEF TimerInv, LengthInv
    <3>4. /\ pair_cooldown_end(a) \in Nat
          /\ timer[a] \in Nat
          /\ held_up[a] \in Nat
      BY <1>2, CooldownEnds DEF TimeTypes, TimerInv
    <3> QED
      BY <1>3, <3>1, <3>2, <3>3, <3>4
  <2>2. CASE pc[a] # "set_timer"
    <3>1. wait_for_scheduler(a)
      BY <1>1, <1>5, <2>2, NewWaits
    <3>2. /\ UNCHANGED <<available, released_at, deadline, now>>
          /\ timer'[a] = wait_ms(a)
      BY <1>2, <3>1 DEF wait_for_scheduler, scheduler_vars, dongle_vars,
                        request_vars, TimeTypes
    <3>3. /\ pair_available(a)
          /\ pair_cooldown_end(a)' = pair_cooldown_end(a)
      BY <1>5, <3>2 DEF pair_available, pair_cooldown_end, Pair, left, right
    <3>4. pair_cooldown_end(a) \in Nat /\ held_up'[a] \in Nat
      BY <1>2, <1>4, CooldownEnds
    <3>5. wait_ms(a) = 1 \/ now + wait_ms(a) = pair_cooldown_end(a)
      BY <1>3, <3>3, <3>4 DEF wait_ms
    <3> QED
      BY <1>3, <3>2, <3>3, <3>4, <3>5
  <2> QED
    BY <2>1, <2>2
<1> QED
  BY <1>4, <1>5 DEF LengthInv

(* A coder falls asleep with such a timer, and nobody resets it.            *)
LEMMA TimerStep ==
  ASSUME IInv, SleepInv, AwakeInv, TimerInv, [HNext]_history_vars
  PROVE  TimerInv'
<1>1. [Next]_vars
  BY DEF HNext, history_vars
<1>2. ScalarTypes /\ TimeTypes /\ ThreadTypes
  BY TypeParts DEF IInv
<1>3. now \in Nat /\ now' \in {now, now + 1}
  BY <1>1, <1>2, ClockStep, SimulationArgs DEF ScalarTypes
<1>4. stop_waiters' \subseteq Coders
  BY <1>1, ThreadStep DEF ThreadTypes
<1>5. ASSUME NEW a \in Coders, a \in stop_waiters', pair_available(a)'
      PROVE  \/ timer'[a] <= now' + 1
             \/ timer'[a] <= pair_cooldown_end(a)' + held_up'[a]
  <2>1. /\ pair_cooldown_end(a) \in Nat
        /\ timer[a] \in Nat
        /\ held_up[a] \in Nat
    BY <1>2, CooldownEnds DEF TimeTypes, TimerInv
  <2>2. CASE a \in stop_waiters
    <3>1. /\ pair_available(a)
          /\ pair_cooldown_end(a)' = pair_cooldown_end(a)
          /\ timer'[a] = timer[a]
      BY <1>1, <1>5, <2>2, SameWait
    <3>2. held_up'[a] = held_up[a]
      BY <2>2 DEF HNext, history_vars, SleepInv
    <3> QED
      BY <1>3, <2>1, <2>2, <3>1, <3>2 DEF TimerInv
  <2>3. CASE a \notin stop_waiters
    <3>1. build_deadline(a)
      BY <1>1, <1>5, <2>3, NewWaits
    <3>2. /\ UNCHANGED <<available, released_at, deadline, now>>
          /\ timer'[a] = now + timer[a]
          /\ pc[a] = "set_timer" /\ pc'[a] = "wait"
      BY <1>2, <3>1 DEF build_deadline, goto, scheduler_vars, dongle_vars,
                        request_vars, TimeTypes, ThreadTypes
    <3>3. /\ pair_available(a)
          /\ pair_cooldown_end(a)' = pair_cooldown_end(a)
      BY <1>5, <3>2 DEF pair_available, pair_cooldown_end, Pair, left, right
    <3>4. held_up'[a] = held_up[a]
      <4>1. HNext
        BY <3>2 DEF history_vars, vars
      <4> QED
        BY <1>3, <2>1, <3>2, <4>1 DEF HNext
    <3>5. timer[a] = 1 \/ now + timer[a] <= pair_cooldown_end(a) + held_up[a]
      BY <3>2, <3>3 DEF TimerInv, LengthInv
    <3> QED
      BY <1>3, <2>1, <3>2, <3>3, <3>4, <3>5
  <2> QED
    BY <2>2, <2>3
<1> QED
  BY <1>4, <1>5, LengthStep DEF TimerInv

(* The history only watches: its behaviours are Codexion's.                 *)
LEMMA HistoryIsCodexion == HSpec => Spec
<1>1. HInit => Init
  BY DEF HInit
<1>2. [HNext]_history_vars => [Next]_vars
  BY DEF HNext, history_vars
<1> QED
  BY <1>1, <1>2, PTL DEF HSpec, Spec

(***************************************************************************)
(* No lost wakeup: a sleeper that could be served is about to time out, or *)
(* does so as much later as it was held up on its way into the wait.       *)
(* While it sleeps its dongles only come back with a broadcast, so that    *)
(* those that are back were there when it computed the length of its wait  *)
(* (wait_for_scheduler), and the length is right for them.                 *)
(***************************************************************************)
THEOREM NoWakeupIsLost == HSpec => []NoSleeperMissesItsTurn
<1>1. HInit => SleepInv /\ AwakeInv /\ TimerInv
  <2>1. HInit => SleepInv /\ AwakeInv /\ LengthInv
    BY DEF HInit, Init, SleepInv, AwakeInv, LengthInv
  <2>2. HInit => held_up \in [Coders -> Nat] /\ stop_waiters = {}
    BY DEF HInit, Init
  <2> QED
    BY <2>1, <2>2 DEF TimerInv
<1>2. [HNext]_history_vars => [Next]_vars
  BY DEF HNext, history_vars
<1>3. IInv /\ SleepInv /\ AwakeInv /\ [HNext]_history_vars => SleepInv' /\ AwakeInv'
  BY <1>2, SleepStep, AwakeStep
<1>4. IInv /\ SleepInv /\ AwakeInv /\ TimerInv /\ [HNext]_history_vars => TimerInv'
  BY TimerStep
<1>5. IInv /\ TimerInv => NoSleeperMissesItsTurn
  <2> SUFFICES ASSUME IInv, TimerInv, NEW c \in stop_waiters, can_reserve(c)
               PROVE  timer[c] <= now + 1 \/ timer[c] <= now + held_up[c]
    BY DEF NoSleeperMissesItsTurn
  <2>1. ScalarTypes /\ TimeTypes /\ ThreadTypes /\ c \in Coders
    BY TypeParts DEF IInv, ThreadTypes
  <2>2. pair_available(c) /\ scheduler_pair_ready(c)
    BY DEF can_reserve, scheduler_pair_ready, dongle_ready, pair_available
  <2>3. pair_cooldown_end(c) \in Nat /\ pair_cooldown_end(c) <= now
    BY <2>1, <2>2, CooldownEnds
  <2> QED
    BY <2>1, <2>2, <2>3, SimulationArgs DEF TimerInv, ScalarTypes, TimeTypes
<1> QED
  BY <1>1, <1>3, <1>4, <1>5, HistoryIsCodexion, Invariance, PTL DEF HSpec

(***************************************************************************)
(* Nothing is reserved once the simulation has stopped: the stop flag and  *)
(* the dispatcher are serialised by state_mutex.                           *)
(***************************************************************************)
THEOREM StopEndsReservations == Spec => NoReservationAfterStop
<1>1. IInv /\ [Next]_vars =>
        (simulation_stop => \A c \in Coders : ~reserved_now(c))
  <2> SUFFICES ASSUME IInv, [Next]_vars, simulation_stop,
                      NEW a \in Coders, reserved_now(a)
               PROVE  FALSE
    OBVIOUS
  <2> QED
    BY OnlyDispatchersReserve DEF IInv, ScanInv, Scanning, scan_reserve
<1> QED
  BY <1>1, Invariance, PTL DEF Spec, NoReservationAfterStop

(***************************************************************************)
(* A burnout line is written only for a coder that is burned out when it   *)
(* is written: no dispatcher can have rescued it since the monitor looked. *)
(***************************************************************************)
THEOREM BurnoutsAreReal == Spec => BurnoutIsReal
<1>1. IInv /\ [Next]_vars =>
        \A c \in burned' \ burned : now >= last_compile_start[c] + time_to_burnout
  <2> SUFFICES ASSUME IInv, [Next]_vars, NEW a \in burned' \ burned
               PROVE  now >= last_compile_start[a] + time_to_burnout
    OBVIOUS
  <2>1. CASE Tick \/ UNCHANGED vars
    BY <2>1 DEF Tick, vars, monitor_vars
  <2>2. CASE monitor_step
    BY <2>2 DEF IInv, BurnInv, monitor_step, monitor_round, check_burnouts,
                burnout_not_due, burnout_found, scan_ends, stop_for_burnout,
                burnout_too_late, monitor_relock
  <2>3. ASSUME NEW c \in Coders, outside(c) \/ dispatching(c) \/ settling(c)
        PROVE  FALSE
    BY <2>3, OutsideFrame, DispatchingFrame, SettlingFrame DEF monitor_vars
  <2>4. ASSUME NEW c \in Coders,
               \/ submit(c)
               \/ acquire_gives_up(c)
               \/ scan_reserve(c)
               \/ release_both_dongles(c)
        PROVE  FALSE
    BY <2>4 DEF submit, acquire_gives_up, scan_reserve, scan_frame,
                release_both_dongles, monitor_vars
  <2> QED
    BY StepCases, <2>1, <2>2, <2>3, <2>4
<1> QED
  BY <1>1, Invariance, PTL DEF Spec, BurnoutIsReal

(***************************************************************************)
(* A compile is counted only after its dongles were held for the whole     *)
(* time_to_compile, although the stop may cut the sleep short.             *)
(***************************************************************************)
THEOREM CountedCompilesAreFull == Spec => CountedCompileIsFull
<1>1. IInv /\ [Next]_vars =>
        \A c \in Coders : compiles_done'[c] # compiles_done[c] =>
          now >= last_compile_start[c] + time_to_compile
  <2> SUFFICES ASSUME IInv, [Next]_vars,
                      NEW a \in Coders, compiles_done'[a] # compiles_done[a]
               PROVE  now >= last_compile_start[a] + time_to_compile
    OBVIOUS
  <2>1. TimeTypes
    BY TypeParts DEF IInv
  <2>2. CASE Tick \/ monitor_step \/ UNCHANGED vars
    BY <2>2, MonitorFrame DEF Tick, vars, coder_vars
  <2>3. ASSUME NEW c \in Coders, outside(c)
        PROVE  finish_compile(c)
    BY <2>3 DEF outside, next_round, compile_sleep, compile_checked, set_stop,
                wake_all_dongles, debug_sleep, refactor_sleep, coder_vars
  <2>4. ASSUME NEW c \in Coders, finish_compile(c)
        PROVE  now >= last_compile_start[a] + time_to_compile
    BY <2>1, <2>4 DEF IInv, CompileInv, TimeTypes, finish_compile
  <2>5. ASSUME NEW c \in Coders,
               \/ submit(c)
               \/ acquire_gives_up(c)
               \/ scan_reserve(c)
               \/ release_both_dongles(c)
        PROVE  FALSE
    BY <2>5 DEF submit, acquire_gives_up, scan_reserve, scan_frame,
                release_both_dongles, coder_vars
  <2>6. ASSUME NEW c \in Coders, dispatching(c) \/ settling(c)
        PROVE  FALSE
    BY <2>6, DispatchingFrame, SettlingFrame DEF coder_vars
  <2> QED
    BY StepCases, <2>2, <2>3, <2>4, <2>5, <2>6
<1> QED
  BY <1>1, Invariance, PTL DEF Spec, CountedCompileIsFull

-----------------------------------------------------------------------------
(* The pairs, and the order of service. *)

(* An owner holds its pair, or has left the table without it. *)
in_place(c) == holds(c) \/ pc[c] = "exit"

(* The owners stay who they are when nobody new holds a pair, no dongle     *)
(* moves and no owner forgets its pair.                                     *)
LEMMA LedgerFrame ==
  ASSUME DonglesGoInPairs,
         UNCHANGED available,
         \A c \in Coders : holds(c)' => holds(c),
         \A c \in Coders : in_place(c) => in_place(c)'
  PROVE  DonglesGoInPairs'
<1>1. PICK owners \in SUBSET Coders : OwnedBy(owners)
  BY DEF DonglesGoInPairs
<1>2. \A c \in Coders : holds(c)' => c \in owners
  BY <1>1 DEF OwnedBy
<1>3. \A a, b \in owners : requests_overlap(a, b)' => a = b
  BY <1>1 DEF OwnedBy, requests_overlap, Pair, left, right
<1>4. \A d \in Dongles : available'[d] <=> \A c \in owners : d \notin Pair(c)'
  BY <1>1 DEF OwnedBy, Pair, left, right
<1>5. \A c \in owners : in_place(c)'
  BY <1>1 DEF OwnedBy, in_place
<1> QED
  BY <1>2, <1>3, <1>4, <1>5 DEF DonglesGoInPairs, OwnedBy, in_place

(* Only a reservation makes a holder. *)
LEMMA HoldersStep ==
  ASSUME IInv, [Next]_vars, NEW c \in Coders, holds(c)', ~holds(c)
  PROVE  \E a \in Coders : scan_reserve(a)
<1> USE DEF holds, InAcquire, Holding, Scanning, goto
<1>1. ThreadTypes /\ FlagTypes
  BY TypeParts DEF IInv
<1> USE <1>1 DEF ThreadTypes, FlagTypes
<1>2. CASE Tick \/ monitor_step \/ UNCHANGED vars
  BY <1>2, MonitorFrame DEF Tick, vars, scheduler_vars, grant_vars
<1>3. ASSUME NEW a \in Coders, outside(a)
      PROVE  FALSE
  <2>1. UNCHANGED granted /\ pc[a] \notin InAcquire
    BY <1>3, OutsideFrame DEF scheduler_vars, grant_vars
  <2>2. /\ pc'[a] = "release" => pc[a] = "compile"
        /\ pc'[a] # "compile"
    BY <1>3 DEF outside, next_round, compile_sleep, compile_checked,
                finish_compile, set_stop, wake_all_dongles, debug_sleep,
                refactor_sleep
  <2> QED
    BY <1>3, <2>1, <2>2, OutsideFrame
<1>4. ASSUME NEW a \in Coders, submit(a) \/ acquire_gives_up(a)
      PROVE  FALSE
  BY <1>4 DEF submit, register_request, acquire_gives_up, withdraw_request
<1>5. ASSUME NEW a \in Coders, dispatching(a)
      PROVE  FALSE
  BY <1>5, DispatchingFrame DEF grant_vars
<1>6. ASSUME NEW a \in Coders, settling(a)
      PROVE  FALSE
  BY <1>6, SettlingFrame DEF scheduler_vars, grant_vars
<1>7. ASSUME NEW a \in Coders, release_both_dongles(a)
      PROVE  FALSE
  BY <1>7 DEF release_both_dongles, grant_vars
<1> QED
  BY StepCases, <1>2, <1>3, <1>4, <1>5, <1>6, <1>7

(* Only a release, or leaving the table, ends it: a coder that has left does *)
(* not come back, and one that gives up leaves.                             *)
LEMMA PlacesStep ==
  ASSUME IInv, [Next]_vars, NEW c \in Coders, in_place(c), ~in_place(c)'
  PROVE  release_both_dongles(c)
<1> USE DEF in_place, holds, InAcquire, Holding, Scanning, goto
<1>1. ThreadTypes /\ FlagTypes
  BY TypeParts DEF IInv
<1> USE <1>1 DEF ThreadTypes, FlagTypes
<1>2. CASE Tick \/ monitor_step \/ UNCHANGED vars
  BY <1>2, MonitorFrame DEF Tick, vars, scheduler_vars, grant_vars
<1>3. ASSUME NEW a \in Coders, outside(a)
      PROVE  FALSE
  <2>1. UNCHANGED granted /\ pc[a] \notin InAcquire
    BY <1>3, OutsideFrame DEF scheduler_vars, grant_vars
  <2>2. /\ pc[a] = "compile" => pc'[a] = "release"
        /\ pc[a] # "release" /\ pc[a] # "exit"
    BY <1>3 DEF outside, next_round, compile_sleep, compile_checked,
                finish_compile, set_stop, wake_all_dongles, debug_sleep,
                refactor_sleep
  <2> QED
    BY <1>3, <2>1, <2>2, OutsideFrame
<1>4. ASSUME NEW a \in Coders, submit(a) \/ acquire_gives_up(a)
      PROVE  FALSE
  BY <1>4 DEF submit, register_request, acquire_gives_up, withdraw_request
<1>5. ASSUME NEW a \in Coders, dispatching(a)
      PROVE  FALSE
  BY <1>5, DispatchingFrame DEF grant_vars
<1>6. ASSUME NEW a \in Coders, scan_reserve(a)
      PROVE  FALSE
  BY <1>6 DEF scan_reserve, dispatch_reserve, reserve_pair
<1>7. ASSUME NEW a \in Coders, settling(a)
      PROVE  FALSE
  BY <1>7 DEF settling, acquire_succeeds, wait_for_scheduler, build_deadline,
              wake, spurious_wakeup, scheduler_vars, grant_vars
<1>8. ASSUME NEW a \in Coders, release_both_dongles(a)
      PROVE  a = c
  BY <1>8 DEF release_both_dongles, grant_vars
<1> QED
  BY StepCases, <1>2, <1>3, <1>4, <1>5, <1>6, <1>7, <1>8

(* Dongles go out in a reservation and come back in a release. *)
LEMMA DonglesStep ==
  ASSUME [Next]_vars, available' # available
  PROVE  \E c \in Coders : scan_reserve(c) \/ release_both_dongles(c)
<1>1. CASE Tick \/ monitor_step \/ UNCHANGED vars
  BY <1>1, MonitorFrame DEF Tick, vars, scheduler_vars, dongle_vars
<1>2. ASSUME NEW c \in Coders, outside(c) \/ dispatching(c) \/ settling(c)
      PROVE  FALSE
  BY <1>2, OutsideFrame, DispatchingFrame, SettlingFrame
     DEF scheduler_vars, dongle_vars
<1>3. ASSUME NEW c \in Coders, submit(c) \/ acquire_gives_up(c)
      PROVE  FALSE
  BY <1>3 DEF submit, acquire_gives_up, dongle_vars
<1> QED
  BY StepCases, <1>1, <1>2, <1>3

LEMMA LedgerStep ==
  ASSUME IInv, DonglesGoInPairs, [Next]_vars
  PROVE  DonglesGoInPairs'
<1>1. PICK owners \in SUBSET Coders : OwnedBy(owners)
  BY DEF DonglesGoInPairs
<1>2. /\ \A a, b \in Coders : requests_overlap(a, b)' <=> requests_overlap(a, b)
      /\ \A a \in Coders : Pair(a)' = Pair(a)
  BY DEF requests_overlap, Pair, left, right
<1>3. ASSUME NEW c \in Coders, scan_reserve(c)
      PROVE  DonglesGoInPairs'
  <2>1. PICK i \in Coders : i = scan_i
    BY <1>3 DEF IInv, ScanInv, scan_reserve
  <2> DEFINE owners1 == owners \cup {i}
  <2>2. \A d \in Pair(i) : d \in Dongles /\ available[d]
    BY <1>3, <2>1, PairIsOnTheTable
       DEF scan_reserve, dispatch_reserve, can_reserve, scheduler_pair_ready,
           dongle_ready
  <2>3. \A d \in Dongles : available'[d] <=> available[d] /\ d \notin Pair(i)
    BY <1>3, <2>1 DEF scan_reserve, dispatch_reserve, reserve_pair
  <2>4. \A a \in Coders : holds(a)' => a \in owners1
    <3> SUFFICES ASSUME NEW a \in Coders, a # i, holds(a)'
                 PROVE  holds(a)
      BY <1>1 DEF OwnedBy
    <3> QED
      BY <1>3, <2>1, TypeParts
         DEF IInv, FlagTypes, ThreadTypes, scan_reserve, dispatch_reserve,
             reserve_pair, goto, holds, InAcquire, Holding, Scanning
  <2>5. \A a \in owners : Pair(a) \cap Pair(i) = {}
    BY <1>1, <2>2 DEF OwnedBy
  <2>6. \A a, b \in owners1 : requests_overlap(a, b)' => a = b
    BY <1>1, <1>2, <2>1, <2>5 DEF OwnedBy, requests_overlap
  <2>7. \A d \in Dongles : available'[d] <=> \A a \in owners1 : d \notin Pair(a)'
    BY <1>1, <1>2, <2>1, <2>3 DEF OwnedBy
  <2>8. \A a \in owners : in_place(a)'
    <3>1. \A a \in Coders : ~release_both_dongles(a)
      BY <1>3, SimulationArgs
         DEF IInv, MutexInv, Holding, Scanning, scan_reserve,
             release_both_dongles, mutex_free
    <3> QED
      BY <1>1, <3>1, PlacesStep DEF OwnedBy, in_place
  <2>9. holds(i)'
    <3>1. granted'[i]
      BY <1>3, <2>1, TypeParts
         DEF IInv, FlagTypes, scan_reserve, dispatch_reserve, reserve_pair
    <3>2. pc[i] \in InAcquire
      BY <1>3, <2>1 DEF IInv, ScanInv, RequestInv, scan_reserve
    <3>3. pc'[i] \in InAcquire
      BY <1>3, <3>2, TypeParts
         DEF IInv, ThreadTypes, scan_reserve, goto, InAcquire, Holding, Scanning
    <3> QED
      BY <3>1, <3>3 DEF holds
  <2>10. owners1 \in SUBSET Coders /\ \A a \in owners1 : in_place(a)'
    BY <2>8, <2>9 DEF in_place
  <2> QED
    BY <2>4, <2>6, <2>7, <2>10 DEF DonglesGoInPairs, OwnedBy, in_place
<1>4. ASSUME NEW c \in Coders, release_both_dongles(c)
      PROVE  DonglesGoInPairs'
  <2> DEFINE owners1 == owners \ {c}
  <2>1. c \in owners
    BY <1>1, <1>4 DEF OwnedBy, holds, release_both_dongles
  <2>2. \A d \in Dongles : available'[d] <=> available[d] \/ d \in Pair(c)
    BY <1>4 DEF release_both_dongles, free_pair
  <2>3. \A a \in Coders : holds(a)' => a \in owners1
    <3>1. \A a \in Coders : holds(a)' => holds(a) /\ a # c
      BY <1>4, TypeParts
         DEF IInv, FlagTypes, ThreadTypes, release_both_dongles, grant_vars, goto,
             holds, InAcquire, Holding, Scanning
    <3> QED
      BY <1>1, <3>1 DEF OwnedBy
  <2>4. \A a \in owners1 : Pair(a) \cap Pair(c) = {}
    BY <1>1, <2>1 DEF OwnedBy, requests_overlap
  <2>5. \A a, b \in owners1 : requests_overlap(a, b)' => a = b
    BY <1>1, <1>2 DEF OwnedBy
  <2>6. \A d \in Dongles : available'[d] <=> \A a \in owners1 : d \notin Pair(a)'
    BY <1>1, <1>2, <2>1, <2>2, <2>4 DEF OwnedBy
  <2>7. owners1 \in SUBSET Coders
    OBVIOUS
  <2>8. \A a \in owners1 : in_place(a)'
    <3> SUFFICES ASSUME NEW a \in owners, a # c PROVE in_place(a)'
      OBVIOUS
    <3>1. in_place(a) /\ a \in Coders
      BY <1>1 DEF OwnedBy, in_place
    <3>2. ~release_both_dongles(a)
      BY <1>4, TypeParts
         DEF IInv, ThreadTypes, release_both_dongles, goto
    <3> QED
      BY <3>1, <3>2, PlacesStep
  <2> QED
    BY <2>3, <2>5, <2>6, <2>7, <2>8 DEF DonglesGoInPairs, OwnedBy, in_place
<1> QED
  BY <1>3, <1>4, LedgerFrame, HoldersStep, PlacesStep, DonglesStep

(***************************************************************************)
(* At any table dongles go out and come back in whole pairs only, each on  *)
(* behalf of one coder (reserve_pair and release_both_dongles write both   *)
(* under state_mutex), and no owner but one that has left is without its   *)
(* pair: what a starved coder takes with it is a pair as well.             *)
(***************************************************************************)
THEOREM PairsStayWhole == Spec => []DonglesGoInPairs
<1>1. Init => DonglesGoInPairs
  <2> SUFFICES ASSUME Init PROVE OwnedBy({})
    BY DEF DonglesGoInPairs
  <2> QED
    BY DEF Init, scheduler_init, dongles_initialised, OwnedBy, holds,
           InAcquire, Holding, Scanning
<1>2. IInv /\ DonglesGoInPairs /\ [Next]_vars => DonglesGoInPairs'
  BY LedgerStep
<1> QED
  BY <1>1, <1>2, Invariance, PTL DEF Spec

(* Two or three coders are all each other's neighbours. *)
LEMMA EverybodyOverlaps ==
  ASSUME number_of_coders <= 3, NEW a \in Coders, NEW b \in Coders
  PROVE  requests_overlap(a, b)
<1> USE SchedulerArgs DEF requests_overlap, Pair, left, right, Coders
<1>1. CASE number_of_coders = 2
  <2>1. a \in {0, 1} /\ b \in {0, 1}
    BY <1>1
  <2>2. (0 + 1) % number_of_coders = 1 /\ (1 + 1) % number_of_coders = 0
    BY <1>1
  <2> QED
    BY <2>1, <2>2
<1>2. CASE number_of_coders = 3
  <2>1. a \in {0, 1, 2} /\ b \in {0, 1, 2}
    BY <1>2
  <2>2. /\ (0 + 1) % number_of_coders = 1
        /\ (1 + 1) % number_of_coders = 2
        /\ (2 + 1) % number_of_coders = 0
    BY <1>2
  <2> QED
    BY <2>1, <2>2
<1> QED
  BY <1>1, <1>2

(***************************************************************************)
(* With two or three coders no waiting request is overtaken by a worse     *)
(* one.  A request protects its dongles only when both are in              *)
(* (scheduler_is_best_ready); here they are whenever somebody else's are,  *)
(* because whoever had one of them out would have one of the others' too.  *)
(***************************************************************************)
THEOREM ServiceInOrder == number_of_coders <= 3 => (Spec => ReservedInOrder)
<1> SUFFICES ASSUME number_of_coders <= 3 PROVE Spec => ReservedInOrder
  OBVIOUS
<1>1. IInv /\ DonglesGoInPairs /\ [Next]_vars =>
        \A c, other \in Coders :
          reserved_now(c) /\ waiting[other] /\ requests_overlap(c, other)
            => rank(c) <= rank(other)
  <2> SUFFICES ASSUME IInv, DonglesGoInPairs, [Next]_vars,
                      NEW c \in Coders, NEW other \in Coders,
                      reserved_now(c), waiting[other]
               PROVE  rank(c) <= rank(other)
    OBVIOUS
  <2>1. PICK a \in Coders : scan_reserve(a)
    BY OnlyDispatchersReserve
  <2>2. TimeTypes /\ FlagTypes
    BY TypeParts DEF IInv
  <2>3. scan_i = c /\ can_reserve(c)
    BY <2>1, <2>2 DEF scan_reserve, dispatch_reserve, reserve_pair,
                      reserved_now, FlagTypes
  <2>4. PICK owners \in SUBSET Coders : OwnedBy(owners)
    BY DEF DonglesGoInPairs
  <2>5. owners = {}
    <3> SUFFICES ASSUME NEW o \in owners PROVE FALSE
      OBVIOUS
    <3>1. PICK d \in Pair(c) : d \in Pair(o)
      BY EverybodyOverlaps DEF requests_overlap
    <3>2. available[d] /\ d \in Dongles
      BY <2>3, PairIsOnTheTable DEF can_reserve, scheduler_pair_ready, dongle_ready
    <3> QED
      BY <2>4, <3>1, <3>2 DEF OwnedBy
  <2>6. pair_available(other)
    BY <2>4, <2>5, PairIsOnTheTable DEF OwnedBy, pair_available
  <2>7. c # other => ~request_before(other, c)
    BY <2>3, <2>6, EverybodyOverlaps DEF can_reserve, scheduler_is_best_ready
  <2>8. sequence[c] \in Nat /\ sequence[other] \in Nat
    BY <2>2 DEF TimeTypes
  <2>9. deadline[c] \in Nat /\ deadline[other] \in Nat
    BY <2>2 DEF TimeTypes
  <2> QED
    BY <2>7, <2>8, <2>9, SchedulerArgs DEF request_before, rank
<1> QED
  BY <1>1, PairsStayWhole, Invariance, PTL DEF Spec, ReservedInOrder

=============================================================================
