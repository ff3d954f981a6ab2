------------------------------ MODULE Codexion ------------------------------
(***************************************************************************)
(* The running simulation with two coders or more: one thread per coder    *)
(* (coder_routine), the monitor thread (monitor_routine), the mutex        *)
(* app->state_mutex and the condition variable app->stop_cond.             *)
(*                                                                         *)
(* A step is what a thread does between two points where another thread    *)
(* or the clock can matter.  A critical section that neither waits nor     *)
(* depends on several clock readings is one step, enabled when the mutex   *)
(* is free; scheduler_acquire_pair and the monitor's scan hold the mutex   *)
(* over several steps, because the clock moves while they run.             *)
(***************************************************************************)
EXTENDS PairScheduler

CONSTANTS
  time_to_compile, time_to_debug, time_to_refactor,  (* of t_args          *)
  number_of_compiles_required,
  StartTime,  (* now_ms() when start_all_threads runs: time since boot     *)
  MaxTime,    (* bound: the clock stops here                               *)
  Free,       (* state_mutex is not held                                   *)
  Monitor     (* the monitor thread, as a holder of state_mutex            *)

ASSUME SimulationArgs ==
  /\ time_to_compile \in Nat
  /\ time_to_debug \in Nat
  /\ time_to_refactor \in Nat
  /\ number_of_compiles_required \in Nat \ {0}
  /\ StartTime \in Nat \ {0}
  /\ MaxTime \in Nat
  /\ StartTime <= MaxTime
  /\ Free \notin Coders
  /\ Monitor \notin Coders
  /\ Free # Monitor

VARIABLES
  simulation_stop,  (* app->simulation_stop                                *)
  state_mutex,      (* the holder of app->state_mutex, or Free             *)
  stop_waiters,     (* coders blocked on app->stop_cond                    *)
  pc,               (* where each coder thread is                          *)
  timer,            (* when a coder's sleep or timed wait runs out         *)
  stamp,            (* release_both_dongles' local released_at             *)
  compiles_done,    (* coder->compiles_done                                *)
  m_pc,             (* where the monitor thread is                         *)
  m_i,              (* check_burnouts' i                                   *)
  burned            (* the coders a burnout line was written for           *)

coder_vars   == <<timer, stamp, compiles_done>>
monitor_vars == <<m_pc, m_i, burned>>

vars == <<scheduler_vars, simulation_stop, state_mutex, stop_waiters, pc,
          coder_vars, monitor_vars>>

-----------------------------------------------------------------------------
(* Labels.  At the Holding ones the coder has state_mutex. *)

Scanning == {"scan", "reserve"}
Holding  == {"acquire", "set_timer"} \cup Scanning
InAcquire == Holding \cup {"wait"}
CoderPoints ==
  InAcquire \cup {"loop", "register", "compile", "release", "check", "count",
                  "set_stop", "wake_dongles", "debug", "refactor", "exit"}
MonitorPoints == {"round", "lock", "scan", "burn", "relock", "exit"}

(***************************************************************************)
(* What start_all_threads leaves behind the start barrier.  The threads    *)
(* pass wait_for_start one by one afterwards, and do nothing before that.  *)
(***************************************************************************)
Init ==
  /\ scheduler_init(StartTime)
  /\ simulation_stop = FALSE
  /\ state_mutex = Free
  /\ stop_waiters = {}
  /\ pc = [c \in Coders |-> "loop"]
  /\ timer = [c \in Coders |-> 0]
  /\ stamp = [c \in Coders |-> 0]
  /\ compiles_done = [c \in Coders |-> 0]
  /\ m_pc = "round"
  /\ m_i = 0
  /\ burned = {}

goto(c, label) == pc' = [pc EXCEPT ![c] = label]
mutex_free     == state_mutex = Free
broadcast_stop == stop_waiters' = {}

Tick ==
  /\ now < MaxTime
  /\ now' = now + 1
  /\ UNCHANGED <<dongle_vars, request_vars, grant_vars, scan_vars,
                 simulation_stop, state_mutex, stop_waiters, pc, coder_vars,
                 monitor_vars>>

-----------------------------------------------------------------------------
(* The coder's loop up to its request. *)

coder_is_done(c) == compiles_done[c] >= number_of_compiles_required

(* Mutant of all_coders_finished: one is enough. *)
a_coder_finished ==
  \E c \in Coders : compiles_done[c] >= number_of_compiles_required

all_coders_finished ==
  \A c \in Coders : compiles_done[c] >= number_of_compiles_required

(***************************************************************************)
(* while (!is_stopped(app)) and coder_is_done.  The counter is written by  *)
(* its own thread only, so its critical section joins the one before it.   *)
(***************************************************************************)
next_round(c) ==
  /\ pc[c] = "loop"
  /\ mutex_free
  /\ goto(c, IF simulation_stop \/ coder_is_done(c) THEN "exit" ELSE "register")
  /\ UNCHANGED <<scheduler_vars, simulation_stop, state_mutex, stop_waiters,
                 coder_vars, monitor_vars>>

(* scheduler_acquire_pair: lock, register_request. *)
submit(c) ==
  /\ pc[c] = "register"
  /\ mutex_free
  /\ state_mutex' = c
  /\ register_request(c)
  /\ goto(c, "acquire")
  /\ UNCHANGED <<now, dongle_vars, last_compile_start, scan_vars,
                 simulation_stop, stop_waiters, coder_vars, monitor_vars>>

(* Mutant of acquire_over: the stop flag is not looked at. *)
acquire_out_of_time(c) == now >= deadline[c]

(* Its loop tests: stopped, or past the deadline of the request. *)
acquire_over(c) == simulation_stop \/ now >= deadline[c]

acquire_gives_up(c) ==
  /\ pc[c] = "acquire"
  /\ acquire_over(c)
  /\ withdraw_request(c)
  /\ broadcast_stop
  /\ state_mutex' = Free
  /\ goto(c, "exit")
  /\ UNCHANGED <<now, dongle_vars, request_vars, last_compile_start, scan_vars,
                 simulation_stop, coder_vars, monitor_vars>>

acquire_dispatches(c) ==
  /\ pc[c] = "acquire"
  /\ ~acquire_over(c)
  /\ dispatch_begin
  /\ goto(c, "scan")
  /\ UNCHANGED <<now, dongle_vars, request_vars, grant_vars, simulation_stop,
                 state_mutex, stop_waiters, coder_vars, monitor_vars>>

-----------------------------------------------------------------------------
(* scheduler_dispatch, run by coder c under the mutex. *)

scan_frame == UNCHANGED <<now, request_vars, simulation_stop, state_mutex,
                          stop_waiters, coder_vars, monitor_vars>>

scan_skip(c)   == pc[c] = "scan" /\ dispatch_skip /\ UNCHANGED pc /\ scan_frame

scan_select(c) ==
  pc[c] = "scan" /\ dispatch_select /\ goto(c, "reserve") /\ scan_frame

scan_reserve(c) ==
  pc[c] = "reserve" /\ dispatch_reserve /\ goto(c, "scan") /\ scan_frame

scan_refuse(c) ==
  pc[c] = "reserve" /\ dispatch_refuse /\ goto(c, "scan") /\ scan_frame

scan_again(c)  == pc[c] = "scan" /\ dispatch_again /\ UNCHANGED pc /\ scan_frame

(* Mutant of left_asleep: the dispatcher's broadcast is missing. *)
nobody_woken == stop_waiters

(* Who is on stop_cond behind the broadcast that ends scheduler_dispatch. *)
left_asleep == {}

(***************************************************************************)
(* The pass is over: dispatch broadcasts.  A granted coder unlocks and     *)
(* starts to compile (log lines are left to the logging module), another   *)
(* one reads the clock for the length of its wait, and reads another one   *)
(* for its end (build_deadline) when it falls asleep on stop_cond, which   *)
(* frees the mutex atomically.  In between timer is the length.            *)
(***************************************************************************)
acquire_succeeds(c) ==
  /\ pc[c] = "scan"
  /\ dispatch_done
  /\ granted[c]
  /\ stop_waiters' = left_asleep
  /\ state_mutex' = Free
  /\ timer' = [timer EXCEPT ![c] = now + time_to_compile]
  /\ goto(c, "compile")
  /\ UNCHANGED <<scheduler_vars, simulation_stop, stamp, compiles_done,
                 monitor_vars>>

wait_for_scheduler(c) ==
  /\ pc[c] = "scan"
  /\ dispatch_done
  /\ ~granted[c]
  /\ stop_waiters' = left_asleep
  /\ timer' = [timer EXCEPT ![c] = wait_ms(c)]
  /\ goto(c, "set_timer")
  /\ UNCHANGED <<scheduler_vars, simulation_stop, state_mutex, stamp,
                 compiles_done, monitor_vars>>

build_deadline(c) ==
  /\ pc[c] = "set_timer"
  /\ stop_waiters' = stop_waiters \cup {c}
  /\ state_mutex' = Free
  /\ timer' = [timer EXCEPT ![c] = now + timer[c]]
  /\ goto(c, "wait")
  /\ UNCHANGED <<scheduler_vars, simulation_stop, stamp, compiles_done,
                 monitor_vars>>

(* pthread_cond_timedwait returns, after a broadcast or a timeout. *)
wake(c) ==
  /\ pc[c] = "wait"
  /\ c \in stop_waiters => now >= timer[c]
  /\ mutex_free
  /\ state_mutex' = c
  /\ stop_waiters' = stop_waiters \ {c}
  /\ timer' = [timer EXCEPT ![c] = 0]
  /\ goto(c, "acquire")
  /\ UNCHANGED <<scheduler_vars, simulation_stop, stamp, compiles_done,
                 monitor_vars>>

(* POSIX lets a wait return without a broadcast or a timeout. *)
spurious_wakeup(c) ==
  /\ c \in stop_waiters
  /\ stop_waiters' = stop_waiters \ {c}
  /\ UNCHANGED <<scheduler_vars, simulation_stop, state_mutex, pc, coder_vars,
                 monitor_vars>>

-----------------------------------------------------------------------------
(* Compiling, counting, debugging, refactoring. *)

(***************************************************************************)
(* good_sleep: over time, or is_stopped (which locks the mutex).  The two   *)
(* are tested at different moments, so running over time needs no mutex;    *)
(* the timer starts when the thread leaves its last critical section.       *)
(***************************************************************************)
sleep_over(c) ==
  \/ now >= timer[c]
  \/ mutex_free /\ simulation_stop

(* release_both_dongles reads the clock before it takes the mutex. *)
compile_sleep(c) ==
  /\ pc[c] = "compile"
  /\ sleep_over(c)
  /\ stamp' = [stamp EXCEPT ![c] = now]
  /\ timer' = [timer EXCEPT ![c] = 0]
  /\ goto(c, "release")
  /\ UNCHANGED <<scheduler_vars, simulation_stop, state_mutex, stop_waiters,
                 compiles_done, monitor_vars>>

release_both_dongles(c) ==
  /\ pc[c] = "release"
  /\ mutex_free
  /\ free_pair(c, stamp[c])
  /\ stamp' = [stamp EXCEPT ![c] = 0]
  /\ broadcast_stop
  /\ goto(c, "check")
  /\ UNCHANGED <<now, request_vars, grant_vars, scan_vars, simulation_stop,
                 state_mutex, timer, compiles_done, monitor_vars>>

(* Mutant of compile_checked: no second look at the stop flag. *)
compile_unchecked(c) ==
  /\ pc[c] = "check"
  /\ mutex_free
  /\ goto(c, "count")
  /\ UNCHANGED <<scheduler_vars, simulation_stop, state_mutex, stop_waiters,
                 coder_vars, monitor_vars>>

(* A compile cut short by the stop is not counted. *)
compile_checked(c) ==
  /\ pc[c] = "check"
  /\ mutex_free
  /\ goto(c, IF simulation_stop THEN "exit" ELSE "count")
  /\ UNCHANGED <<scheduler_vars, simulation_stop, state_mutex, stop_waiters,
                 coder_vars, monitor_vars>>

(***************************************************************************)
(* finish_compile.  The last coder to finish calls set_stop after it has   *)
(* given the mutex back; another one logs and starts debugging.            *)
(***************************************************************************)
finish_compile(c) ==
  /\ pc[c] = "count"
  /\ mutex_free
  /\ compiles_done' = [compiles_done EXCEPT ![c] = @ + 1]
  /\ \/ /\ all_coders_finished'
        /\ goto(c, "set_stop")
        /\ UNCHANGED timer
     \/ /\ ~all_coders_finished'
        /\ goto(c, "debug")
        /\ timer' = [timer EXCEPT ![c] = now + time_to_debug]
  /\ UNCHANGED <<scheduler_vars, simulation_stop, state_mutex, stop_waiters,
                 stamp, monitor_vars>>

set_stop(c) ==
  /\ pc[c] = "set_stop"
  /\ mutex_free
  /\ simulation_stop' = TRUE
  /\ broadcast_stop
  /\ goto(c, "wake_dongles")
  /\ UNCHANGED <<scheduler_vars, state_mutex, coder_vars, monitor_vars>>

(* It goes on to broadcast every dongle's own condition, on which nobody    *)
(* waits here, and then the thread returns.                                 *)
wake_all_dongles(c) ==
  /\ pc[c] = "wake_dongles"
  /\ goto(c, "exit")
  /\ UNCHANGED <<scheduler_vars, simulation_stop, state_mutex, stop_waiters,
                 coder_vars, monitor_vars>>

(* The debugging sleep and the is_stopped test behind it. *)
debug_sleep(c) ==
  /\ pc[c] = "debug"
  /\ mutex_free
  /\ \/ /\ simulation_stop
        /\ timer' = [timer EXCEPT ![c] = 0]
        /\ goto(c, "exit")
     \/ /\ ~simulation_stop
        /\ now >= timer[c]
        /\ timer' = [timer EXCEPT ![c] = now + time_to_refactor]
        /\ goto(c, "refactor")
  /\ UNCHANGED <<scheduler_vars, simulation_stop, state_mutex, stop_waiters,
                 stamp, compiles_done, monitor_vars>>

refactor_sleep(c) ==
  /\ pc[c] = "refactor"
  /\ sleep_over(c)
  /\ timer' = [timer EXCEPT ![c] = 0]
  /\ goto(c, "loop")
  /\ UNCHANGED <<scheduler_vars, simulation_stop, state_mutex, stop_waiters,
                 stamp, compiles_done, monitor_vars>>

-----------------------------------------------------------------------------
(* The monitor: is_stopped, then check_burnouts, then one millisecond's     *)
(* sleep, which is the freedom of every other step to come first.           *)

monitor_frame == UNCHANGED <<scheduler_vars, pc, coder_vars>>

monitor_round ==
  /\ m_pc = "round"
  /\ mutex_free
  /\ m_pc' = IF simulation_stop THEN "exit" ELSE "lock"
  /\ UNCHANGED <<m_i, burned, simulation_stop, state_mutex, stop_waiters>>
  /\ monitor_frame

check_burnouts ==
  /\ m_pc = "lock"
  /\ mutex_free
  /\ state_mutex' = Monitor
  /\ m_i' = 0
  /\ m_pc' = "scan"
  /\ UNCHANGED <<burned, simulation_stop, stop_waiters>>
  /\ monitor_frame

burnout_due(c) ==
  /\ last_compile_start[c] > 0
  /\ now - last_compile_start[c] >= time_to_burnout

(* Mutant of burnout_not_due: one coder past the end of the array. *)
burnout_not_due_past_the_end ==
  /\ m_pc = "scan"
  /\ m_i <= number_of_coders
  /\ m_i = number_of_coders \/ ~burnout_due(m_i)
  /\ m_i' = m_i + 1
  /\ UNCHANGED <<m_pc, burned, simulation_stop, state_mutex, stop_waiters>>
  /\ monitor_frame

burnout_not_due ==
  /\ m_pc = "scan"
  /\ m_i < number_of_coders
  /\ ~burnout_due(m_i)
  /\ m_i' = m_i + 1
  /\ UNCHANGED <<m_pc, burned, simulation_stop, state_mutex, stop_waiters>>
  /\ monitor_frame

(* check_coder_burnout gives the mutex back before stop_for_burnout. *)
burnout_found ==
  /\ m_pc = "scan"
  /\ m_i < number_of_coders
  /\ burnout_due(m_i)
  /\ state_mutex' = Free
  /\ m_pc' = "burn"
  /\ UNCHANGED <<m_i, burned, simulation_stop, stop_waiters>>
  /\ monitor_frame

scan_ends ==
  /\ m_pc = "scan"
  /\ m_i = number_of_coders
  /\ state_mutex' = Free
  /\ m_pc' = "round"
  /\ UNCHANGED <<m_i, burned, simulation_stop, stop_waiters>>
  /\ monitor_frame

(* Mutant of stop_for_burnout: the waiters are not woken. *)
stop_for_burnout_silently ==
  /\ m_pc = "burn"
  /\ mutex_free
  /\ ~simulation_stop
  /\ simulation_stop' = TRUE
  /\ burned' = burned \cup {m_i}
  /\ m_pc' = "exit"
  /\ UNCHANGED <<m_i, state_mutex, stop_waiters>>
  /\ monitor_frame

stop_for_burnout ==
  /\ m_pc = "burn"
  /\ mutex_free
  /\ ~simulation_stop
  /\ simulation_stop' = TRUE
  /\ broadcast_stop
  /\ burned' = burned \cup {m_i}
  /\ m_pc' = "exit"
  /\ UNCHANGED <<m_i, state_mutex>>
  /\ monitor_frame

(* Somebody else stopped the simulation: the monitor goes on with its scan. *)
burnout_too_late ==
  /\ m_pc = "burn"
  /\ mutex_free
  /\ simulation_stop
  /\ m_pc' = "relock"
  /\ UNCHANGED <<m_i, burned, simulation_stop, state_mutex, stop_waiters>>
  /\ monitor_frame

monitor_relock ==
  /\ m_pc = "relock"
  /\ mutex_free
  /\ state_mutex' = Monitor
  /\ m_i' = m_i + 1
  /\ m_pc' = "scan"
  /\ UNCHANGED <<burned, simulation_stop, stop_waiters>>
  /\ monitor_frame

-----------------------------------------------------------------------------

coder_step(c) ==
  \/ next_round(c)
  \/ submit(c)
  \/ acquire_gives_up(c)
  \/ acquire_dispatches(c)
  \/ scan_skip(c)
  \/ scan_select(c)
  \/ scan_reserve(c)
  \/ scan_refuse(c)
  \/ scan_again(c)
  \/ acquire_succeeds(c)
  \/ wait_for_scheduler(c)
  \/ build_deadline(c)
  \/ wake(c)
  \/ compile_sleep(c)
  \/ release_both_dongles(c)
  \/ compile_checked(c)
  \/ finish_compile(c)
  \/ set_stop(c)
  \/ wake_all_dongles(c)
  \/ debug_sleep(c)
  \/ refactor_sleep(c)

monitor_step ==
  \/ monitor_round
  \/ check_burnouts
  \/ burnout_not_due
  \/ burnout_found
  \/ scan_ends
  \/ stop_for_burnout
  \/ burnout_too_late
  \/ monitor_relock

Next ==
  \/ Tick
  \/ \E c \in Coders : coder_step(c)
  \/ \E c \in Coders : spurious_wakeup(c)
  \/ monitor_step

Spec == Init /\ [][Next]_vars

(***************************************************************************)
(* Every thread that can run is run, and time passes.  Weak fairness: the  *)
(* mutex may be taken by others first, any finite number of times.         *)
(***************************************************************************)
Fairness ==
  /\ WF_vars(Tick)
  /\ \A c \in Coders : WF_vars(coder_step(c))
  /\ WF_vars(monitor_step)

FairSpec == Spec /\ Fairness

-----------------------------------------------------------------------------
(* Properties. *)

TypeOK ==
  /\ now \in StartTime .. MaxTime
  /\ available \in [Dongles -> BOOLEAN]
  /\ released_at \in [Dongles -> Nat]
  /\ last_compile_start \in [Coders -> Nat]
  /\ sequence \in [Coders -> Nat]
  /\ deadline \in [Coders -> Nat]
  /\ waiting \in [Coders -> BOOLEAN]
  /\ granted \in [Coders -> BOOLEAN]
  /\ next_sequence \in Nat
  /\ scan_i \in 0 .. number_of_coders
  /\ scan_changed \in BOOLEAN
  /\ simulation_stop \in BOOLEAN
  /\ state_mutex \in Coders \cup {Free, Monitor}
  /\ stop_waiters \in SUBSET Coders
  /\ pc \in [Coders -> CoderPoints]
  /\ timer \in [Coders -> Nat]
  /\ stamp \in [Coders -> Nat]
  /\ compiles_done \in [Coders -> Nat]
  /\ m_pc \in MonitorPoints
  /\ m_i \in 0 .. number_of_coders
  /\ burned \in SUBSET Coders

(***************************************************************************)
(* A coder holds its pair from the reservation, made by whichever thread   *)
(* dispatches, until it has released it.  granted alone does not tell: it  *)
(* keeps its value until the next request is registered.                   *)
(***************************************************************************)
holds(c) ==
  \/ pc[c] \in {"compile", "release"}
  \/ pc[c] \in InAcquire /\ granted[c]

(***************************************************************************)
(* The reservations are pairwise disjoint and recorded in the dongles,     *)
(* although one thread reserves for another and a third may be releasing.  *)
(***************************************************************************)
PairExclusion ==
  \A c \in Coders : holds(c) =>
    /\ \A d \in Pair(c) : ~available[d]
    /\ \A other \in Coders \ {c} : requests_overlap(c, other) => ~holds(other)

(***************************************************************************)
(* The dongles that are out are the whole pairs of some owners, nobody's   *)
(* twice.  An owner that holds nothing has left the table: it gave up with *)
(* a pair reserved for it, and its dongles are out for ever.               *)
(***************************************************************************)
OwnedBy(owners) ==
  /\ \A c \in Coders : holds(c) => c \in owners
  /\ \A c \in owners : holds(c) \/ pc[c] = "exit"
  /\ \A a, b \in owners : requests_overlap(a, b) => a = b
  /\ \A d \in Dongles : available[d] <=> \A c \in owners : d \notin Pair(c)

(***************************************************************************)
(* No dongle goes out or comes back alone, or twice, over any number of    *)
(* reservations made for others, releases and failures: what is lost is    *)
(* the whole pair of a coder that gave up (see FailedAcquireHoldsNothing). *)
(***************************************************************************)
DonglesGoInPairs == \E owners \in SUBSET Coders : OwnedBy(owners)

reserved_now(c) == ~granted[c] /\ granted'[c]

(* No reservation is made after the simulation has stopped, by any thread:  *)
(* nothing can begin to compile behind the burnout line.                    *)
NoReservationAfterStop ==
  [][simulation_stop => \A c \in Coders : ~reserved_now(c)]_vars

(***************************************************************************)
(* A coder declared burned out really has not begun to compile in time     *)
(* when the line is written, although the monitor gave the mutex back      *)
(* between finding the deadline missed and stopping the simulation.        *)
(***************************************************************************)
BurnoutIsReal ==
  [][\A c \in burned' \ burned :
       now >= last_compile_start[c] + time_to_burnout]_vars

(* The simulation stops only for a burnout or because all coders finished.  *)
StopIsJustified ==
  simulation_stop => burned # {} \/ \A c \in Coders : coder_is_done(c)

(***************************************************************************)
(* A compile is counted only when its dongles were held for the whole of   *)
(* time_to_compile, although the stop may end the sleep at any moment.     *)
(***************************************************************************)
CountedCompileIsFull ==
  [][\A c \in Coders : compiles_done'[c] # compiles_done[c] =>
       now >= last_compile_start[c] + time_to_compile]_vars

(***************************************************************************)
(* The pair reserved for a sleeping coder comes with a wakeup: between two *)
(* critical sections nobody sleeps on with its dongles taken for it,       *)
(* although another thread reserved them and went to sleep itself.         *)
(***************************************************************************)
ServedIsWoken == mutex_free => \A c \in stop_waiters : ~granted[c]

(* Whoever stops the simulation leaves nobody asleep on stop_cond. *)
NoSleeperAfterStop == simulation_stop => stop_waiters = {}

(***************************************************************************)
(* FIFO reserves in the order of the requests and EDF in the order of      *)
(* their deadlines wherever all coders compete for each other's dongles    *)
(* (two or three of them): no waiting request is overtaken by a worse one. *)
(***************************************************************************)
rank(c) == IF policy = "fifo" THEN sequence[c] ELSE deadline[c]

ReservedInOrder ==
  [][\A c, other \in Coders :
       reserved_now(c) /\ waiting[other] /\ requests_overlap(c, other)
         => rank(c) <= rank(other)]_vars

(* Every thread returns, so that join_simulation and main do: finished,     *)
(* burned out or starved, nobody is left waiting, sleeping or locked out.   *)
AllThreadsReturn ==
  <>(m_pc = "exit" /\ \A c \in Coders : pc[c] = "exit")

(***************************************************************************)
(* The inductive invariant behind the safety properties, in named parts.   *)
(***************************************************************************)

(* The mutex is held by exactly the thread whose position says so. *)
MutexInv ==
  /\ \A c \in Coders : pc[c] \in Holding <=> state_mutex = c
  /\ m_pc = "scan" <=> state_mutex = Monitor

(* A request is waiting only while its coder is inside scheduler_acquire_   *)
(* pair, and its deadline is the one the monitor goes by.                   *)
RequestInv ==
  \A c \in Coders : waiting[c] =>
    /\ pc[c] \in InAcquire
    /\ ~granted[c]
    /\ deadline[c] = last_compile_start[c] + time_to_burnout

(* A dispatcher runs before the stop only, and reserves for a request that  *)
(* is still waiting; the monitor's index stays inside the array.            *)
ScanInv ==
  /\ \A c \in Coders :
       /\ pc[c] \in Scanning \cup {"set_timer"} => ~simulation_stop
       /\ pc[c] = "reserve" => scan_i \in Coders /\ waiting[scan_i]
  /\ m_pc \in {"burn", "relock"} => m_i \in Coders

(* Between finding a burnout and declaring it the coder stays burned out:   *)
(* no dispatcher can select its request any more.                           *)
BurnInv ==
  m_pc = "burn" =>
    /\ now >= last_compile_start[m_i] + time_to_burnout
    /\ \A c \in Coders : pc[c] = "reserve" => scan_i # m_i

(* The coder on its way into set_stop has seen everybody finished. *)
FinishInv == \A c \in Coders : pc[c] = "set_stop" => \A a \in Coders : coder_is_done(a)

(* How far a compile has come. *)
CompileInv ==
  \A c \in Coders :
    LET full == last_compile_start[c] + time_to_compile
    IN  /\ last_compile_start[c] <= now
        /\ pc[c] = "compile" => timer[c] >= full
        /\ pc[c] \in {"release", "check"} => simulation_stop \/ now >= full
        /\ pc[c] = "count" => now >= full

IInv ==
  /\ TypeOK
  /\ MutexInv
  /\ RequestInv
  /\ ScanInv
  /\ PairExclusion
  /\ BurnInv
  /\ FinishInv
  /\ CompileInv
  /\ StopIsJustified
  /\ NoSleeperAfterStop

(***************************************************************************)
(* The simulation implements the table.                                    *)
(***************************************************************************)
place ==
  [c \in Coders |->
     CASE pc[c] = "exit" -> "gone"
       [] holds(c)       -> "compiling"
       [] waiting[c]     -> "asking"
       [] OTHER          -> "away"]

T == INSTANCE Table WITH Coders <- Coders, Neighbours <- requests_overlap,
                         place <- place, stopped <- simulation_stop

ImplementsTable == T!Spec

(***************************************************************************)
(* Claims of the repository that the code does not keep; each is refuted   *)
(* by a run of its own.                                                    *)
(***************************************************************************)

(* README.md:127: "Reaching the deadline counts as burnout; acquisition     *)
(* must happen before it."  The time a reservation records is in time.      *)
AcquisitionBeforeDeadline ==
  [][\A c \in Coders : reserved_now(c) =>
       last_compile_start'[c] < deadline[c]]_vars

(* acquire.c:27: acquire_both_dongles "releases partial acquisition on      *)
(* failure".  While the simulation runs, a dongle is out only for a coder   *)
(* that holds it, and not for one whose acquisition failed.                 *)
FailedAcquireHoldsNothing ==
  ~simulation_stop =>
    \A d \in Dongles : ~available[d] =>
      \E c \in Coders : d \in Pair(c) /\ holds(c)

=============================================================================
