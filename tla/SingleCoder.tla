---------------------------- MODULE SingleCoder -----------------------------
(***************************************************************************)
(* A table of one: left and right are the same dongle, so the only coder   *)
(* goes through acquire_dongle, takes it, and can but burn out.  The       *)
(* dongle's own mutex and condition variable, its queue of requests, and   *)
(* state_mutex, which is asked for while the dongle's mutex is held.       *)
(***************************************************************************)
EXTENDS Naturals, Sequences

CONSTANTS
  time_to_burnout, dongle_cooldown,  (* of t_args                          *)
  StartTimes,  (* the times since boot at which the run may start          *)
  MaxTime,     (* bound: the clock stops here                              *)
  MaxWait,     (* wait_for_dongle's 2000 milliseconds                      *)
  Free, Coder, Monitor

ASSUME SingleArgs ==
  /\ time_to_burnout \in Nat
  /\ dongle_cooldown \in Nat
  /\ StartTimes \subseteq 1 .. MaxTime
  /\ MaxTime \in Nat
  /\ MaxWait \in Nat \ {0}
  /\ Free # Coder /\ Free # Monitor /\ Coder # Monitor

VARIABLES
  now, last_compile_start, simulation_stop,
  state_mutex, dongle_mutex,
  available, released_at,  (* of the dongle                                *)
  queue,                   (* its heap: deadlines of requests, capacity 1  *)
  dongle_waiter,           (* the coder is blocked on dongle->cond         *)
  pc, timer,               (* the coder, and when its wait or sleep is over*)
  m_pc                     (* the monitor                                  *)

lock_vars   == <<state_mutex, dongle_mutex>>
dongle_vars == <<available, released_at, queue>>
clock_vars  == <<now, last_compile_start>>
coder_vars  == <<dongle_vars, pc, timer>>
vars == <<clock_vars, simulation_stop, lock_vars, dongle_waiter, coder_vars, m_pc>>

deadline == last_compile_start + time_to_burnout

Init ==
  /\ now \in StartTimes
  /\ last_compile_start = now
  /\ simulation_stop = FALSE
  /\ state_mutex = Free
  /\ dongle_mutex = Free
  /\ available = TRUE
  /\ released_at = 0
  /\ queue = <<>>
  /\ dongle_waiter = FALSE
  /\ pc = "loop"
  /\ timer = 0
  /\ m_pc = "round"

Tick ==
  /\ now < MaxTime
  /\ now' = now + 1
  /\ UNCHANGED <<last_compile_start, simulation_stop, lock_vars, dongle_waiter,
                 coder_vars, m_pc>>

-----------------------------------------------------------------------------
(* The coder. *)

coder_frame == UNCHANGED <<clock_vars, simulation_stop, state_mutex, m_pc>>
goto(label) == pc' = label
broadcast   == dongle_waiter' = FALSE

lock_dongle   == dongle_mutex = Free /\ dongle_mutex' = Coder
unlock_dongle == dongle_mutex' = Free

(* A test that state_mutex protects, and nothing else. *)
asks_state(from, to) ==
  /\ pc = from /\ goto(to)
  /\ state_mutex = Free
  /\ UNCHANGED <<dongle_mutex, dongle_waiter, dongle_vars, timer>>
  /\ coder_frame

(* is_stopped; it never has compiled, so coder_is_done is false. *)
next_round == asks_state("loop", IF simulation_stop THEN "exit" ELSE "deadline")

(* Its value does not change before it is pushed. *)
get_coder_deadline == asks_state("deadline", "push")

(* heap_push fails on a full heap only, and there is no other request. *)
push_request ==
  /\ pc = "push" /\ goto("test")
  /\ lock_dongle
  /\ Len(queue) < 1
  /\ queue' = Append(queue, deadline)
  /\ UNCHANGED <<dongle_waiter, available, released_at, timer>>
  /\ coder_frame

(* while (!is_stopped), with the dongle's mutex held. *)
acquire_test == asks_state("test", IF simulation_stop THEN "withdraw" ELSE "try")

cooled == now >= released_at + dongle_cooldown

(* Mutant of popped: heap_pop is forgotten. *)
only_peeked == queue

popped == Tail(queue)

acquire_if_ready ==
  /\ pc = "try" /\ goto("log")
  /\ available /\ cooled
  /\ queue # <<>>
  /\ queue' = popped
  /\ available' = FALSE
  /\ broadcast
  /\ unlock_dongle
  /\ UNCHANGED <<released_at, timer>>
  /\ coder_frame

dongle_time_left ==
  IF available THEN released_at + dongle_cooldown - now ELSE 10

(* The length of the wait, which a later reading of the clock is added to. *)
wait_for_dongle ==
  /\ pc = "try" /\ goto("set_timer")
  /\ ~(available /\ cooled)
  /\ timer' = IF dongle_time_left > MaxWait THEN MaxWait ELSE dongle_time_left
  /\ UNCHANGED <<dongle_mutex, dongle_waiter, dongle_vars>>
  /\ coder_frame

build_deadline ==
  /\ pc = "set_timer" /\ goto("wait")
  /\ timer' = now + timer
  /\ dongle_waiter' = TRUE
  /\ unlock_dongle
  /\ UNCHANGED dongle_vars
  /\ coder_frame

(* A broadcast, a timeout or nothing at all ends the wait. *)
wake ==
  /\ pc = "wait" /\ goto("test")
  /\ ~dongle_waiter \/ now >= timer
  /\ lock_dongle
  /\ dongle_waiter' = FALSE
  /\ timer' = 0
  /\ UNCHANGED dongle_vars
  /\ coder_frame

spurious_wakeup ==
  /\ dongle_waiter
  /\ dongle_waiter' = FALSE
  /\ UNCHANGED <<dongle_mutex, coder_vars>>
  /\ coder_frame

(* Mutant of withdraw: the dongle's mutex is not given back. *)
withdraw_locked ==
  /\ pc = "withdraw" /\ goto("exit")
  /\ queue' = <<>>
  /\ broadcast
  /\ UNCHANGED <<dongle_mutex, available, released_at, timer>>
  /\ coder_frame

(* heap_remove, and acquire_dongle fails. *)
withdraw ==
  /\ pc = "withdraw" /\ goto("exit")
  /\ queue' = <<>>
  /\ broadcast
  /\ unlock_dongle
  /\ UNCHANGED <<available, released_at, timer>>
  /\ coder_frame

(* log_msg, then good_sleep starts. *)
taken ==
  /\ pc = "log" /\ goto("sleep")
  /\ state_mutex = Free
  /\ timer' = now + time_to_burnout + 10
  /\ UNCHANGED <<dongle_mutex, dongle_waiter, dongle_vars>>
  /\ coder_frame

good_sleep ==
  /\ pc = "sleep" /\ goto("release")
  /\ now >= timer \/ (state_mutex = Free /\ simulation_stop)
  /\ timer' = 0
  /\ UNCHANGED <<dongle_mutex, dongle_waiter, dongle_vars>>
  /\ coder_frame

(* Mutant of release_time: records when the cooldown will be over. *)
cooldown_end == now + dongle_cooldown

release_time == now

(* acquire_single_coder_dongle fails in any case, and the coder returns. *)
release_dongle ==
  /\ pc = "release" /\ goto("exit")
  /\ dongle_mutex = Free
  /\ available' = TRUE
  /\ released_at' = release_time
  /\ broadcast
  /\ UNCHANGED <<dongle_mutex, queue, timer>>
  /\ coder_frame

-----------------------------------------------------------------------------
(* The monitor. *)

monitor_goes(from, to) ==
  m_pc = from /\ m_pc' = to /\ UNCHANGED <<clock_vars, coder_vars, dongle_mutex>>

monitor_round ==
  /\ monitor_goes("round", IF simulation_stop THEN "exit" ELSE "scan")
  /\ state_mutex = Free
  /\ UNCHANGED <<simulation_stop, state_mutex, dongle_waiter>>

burnout_due == last_compile_start > 0 /\ now - last_compile_start >= time_to_burnout

check_burnouts ==
  /\ monitor_goes("scan", IF burnout_due THEN "burn" ELSE "round")
  /\ state_mutex = Free
  /\ UNCHANGED <<simulation_stop, state_mutex, dongle_waiter>>

(* Nobody else stops this simulation: the flag is still down. *)
stop_for_burnout ==
  /\ monitor_goes("burn", "unlock")
  /\ state_mutex = Free
  /\ state_mutex' = Monitor
  /\ simulation_stop' = TRUE
  /\ UNCHANGED dongle_waiter

(* Mutant of unlock_state: the dongles are woken under state_mutex. *)
unlock_state_later == dongle_mutex = Free /\ state_mutex' = Free

unlock_state == state_mutex' = Free

burnout_declared ==
  /\ monitor_goes("unlock", "wake_dongles")
  /\ unlock_state
  /\ UNCHANGED <<simulation_stop, dongle_waiter>>

(* Mutant of lock_to_wake: broadcasts without the dongle's mutex. *)
no_lock_to_wake == TRUE

lock_to_wake == dongle_mutex = Free

wake_all_dongles ==
  /\ monitor_goes("wake_dongles", "exit")
  /\ lock_to_wake
  /\ broadcast
  /\ UNCHANGED <<simulation_stop, state_mutex>>

coder_step ==
  \/ next_round
  \/ get_coder_deadline
  \/ push_request
  \/ acquire_test
  \/ acquire_if_ready
  \/ wait_for_dongle
  \/ build_deadline
  \/ wake
  \/ withdraw
  \/ taken
  \/ good_sleep
  \/ release_dongle

monitor_step ==
  \/ monitor_round
  \/ check_burnouts
  \/ stop_for_burnout
  \/ burnout_declared
  \/ wake_all_dongles

Next == Tick \/ coder_step \/ spurious_wakeup \/ monitor_step

Spec == Init /\ [][Next]_vars

(***************************************************************************)
(* A thread that can run is run.  The timeout of a wait is not counted on: *)
(* it is a moment of CLOCK_REALTIME, and that clock may be set back.       *)
(***************************************************************************)
FairSpec ==
  /\ Spec
  /\ WF_vars(Tick)
  /\ WF_vars(~dongle_waiter /\ coder_step)
  /\ WF_vars(monitor_step)

-----------------------------------------------------------------------------
(* Properties. *)

TypeOK ==
  /\ now \in 1 .. MaxTime
  /\ simulation_stop \in BOOLEAN
  /\ state_mutex \in {Free, Monitor}
  /\ dongle_mutex \in {Free, Coder}
  /\ available \in BOOLEAN
  /\ released_at \in 0 .. now
  /\ Len(queue) <= 1
  /\ dongle_waiter \in BOOLEAN
  /\ pc \in {"loop", "deadline", "push", "test", "try", "set_timer", "wait",
             "withdraw", "log", "sleep", "release", "exit"}
  /\ m_pc \in {"round", "scan", "burn", "unlock", "wake_dongles", "exit"}

(* However the coder leaves, by the stop or after its sleep, the dongle is  *)
(* back on the table, unlocked, and no request is left in its queue.        *)
LeavesTheTableClean ==
  pc = "exit" => available /\ queue = <<>> /\ dongle_mutex = Free

(* The stop does not rely on the wait's timeout: once the monitor has woken *)
(* the dongles nobody is asleep on one, although the coder tests the flag   *)
(* and falls asleep in steps.                                               *)
NobodySleepsOnADongle == m_pc = "exit" => ~dongle_waiter

(* README.md:87-89: one coder "burns out cleanly instead of waiting forever *)
(* for a non-existent second dongle": the burnout is declared and both      *)
(* threads return.                                                          *)
BurnsOutCleanly == <>(simulation_stop /\ pc = "exit" /\ m_pc = "exit")

=============================================================================
