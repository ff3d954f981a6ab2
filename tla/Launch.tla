------------------------------- MODULE Launch -------------------------------
(***************************************************************************)
(* main: init_simulation builds the application, start_simulation creates  *)
(* the threads behind a start barrier, join_simulation waits for them and  *)
(* cleanup_app takes everything down again.  Each initialisation and each  *)
(* thread creation may fail.                                               *)
(*                                                                         *)
(* What a thread does between the barrier and its end is Codexion's        *)
(* matter; here it runs until it returns, and some thread stops the        *)
(* simulation.  Every critical section of state_mutex is one step.         *)
(***************************************************************************)
EXTENDS Naturals

CONSTANTS
  number_of_coders,
  Monitor            (* the monitor thread                                 *)

Coders == 0 .. number_of_coders - 1

ASSUME LaunchArgs ==
  /\ number_of_coders \in Nat \ {0}
  /\ Monitor \notin Coders

Threads == Coders \cup {Monitor}

VARIABLES
  main,              (* what main does next                                *)
  dongle,            (* init_dongles' i; 0 outside its loop                *)
  live,              (* what is initialised: <<kind, index>>               *)
  thread,            (* where each thread is                               *)
  start_waiters,     (* threads blocked on app->start_cond                 *)
  simulation_started, simulation_stop, coders_started, monitor_started

init_vars   == <<dongle, live>>
thread_vars == <<thread, start_waiters>>
flag_vars   == <<simulation_started, simulation_stop>>
count_vars  == <<coders_started, monitor_started>>
vars        == <<main, init_vars, thread_vars, flag_vars, count_vars>>

-----------------------------------------------------------------------------
(* init_simulation.  Its steps are named for what they initialise. *)

DongleParts == {"mutex", "cond", "heap"}
InitSteps   == {"app", "state_mutex", "log_mutex", "dongles"} \cup DongleParts
                 \cup {"coders", "stop_cond", "start_cond"}

after ==
  [app |-> "state_mutex", state_mutex |-> "log_mutex", log_mutex |-> "dongles",
   dongles |-> "mutex", mutex |-> "cond", cond |-> "heap",
   heap |-> IF dongle + 1 < number_of_coders THEN "mutex" ELSE "coders",
   coders |-> "stop_cond", stop_cond |-> "start_cond",
   start_cond |-> "create_monitor"]

the(kinds)      == kinds \X {0}
free_dongles(n) == (DongleParts \X (0 .. n - 1)) \cup the({"dongles"})
app_and_mutexes == the({"app", "state_mutex", "log_mutex"})

(* Mutant of init_one_dongle_undo: the mutex outlives a failing condition. *)
init_one_dongle_undo_heap ==
  (IF main = "heap" THEN {"mutex", "cond"} ELSE {}) \X {dongle}

(* What init_one_dongle itself takes back when it fails. *)
init_one_dongle_undo ==
  (IF main = "heap" THEN {"mutex", "cond"}
   ELSE IF main = "cond" THEN {"mutex"} ELSE {}) \X {dongle}

(* The failure paths: what each of them destroys and frees. *)

init_fail_dongles      == app_and_mutexes
dongle_init_err_result == init_one_dongle_undo \cup free_dongles(dongle)
init_fail_coders       == free_dongles(number_of_coders) \cup app_and_mutexes
init_fail_stop_cond    == the({"coders"}) \cup init_fail_coders
init_fail_start_cond   == the({"stop_cond"}) \cup init_fail_stop_cond

(* What is destroyed and freed when the step that is next fails. *)
undo ==
  [app |-> {}, state_mutex |-> the({"app"}),
   log_mutex |-> the({"app", "state_mutex"}),
   dongles |-> init_fail_dongles,
   mutex |-> dongle_init_err_result \cup init_fail_dongles,
   cond  |-> dongle_init_err_result \cup init_fail_dongles,
   heap  |-> dongle_init_err_result \cup init_fail_dongles,
   coders |-> init_fail_coders, stop_cond |-> init_fail_stop_cond,
   start_cond |-> init_fail_start_cond][main]

cleanup ==
  the({"coders", "stop_cond", "start_cond"}) \cup free_dongles(number_of_coders)
    \cup app_and_mutexes

Init ==
  /\ main = "app"
  /\ dongle = 0
  /\ live = {}
  /\ thread = [t \in Threads |-> "none"]
  /\ start_waiters = {}
  /\ simulation_started = FALSE
  /\ simulation_stop = FALSE
  /\ coders_started = 0
  /\ monitor_started = FALSE

init_step ==
  /\ main \in InitSteps
  /\ live' = live \cup {<<main, dongle>>}
  /\ dongle' = IF main = "heap" THEN (dongle + 1) % number_of_coders ELSE dongle
  /\ main' = after[main]
  /\ UNCHANGED <<thread_vars, flag_vars, count_vars>>

init_fail ==
  /\ main \in InitSteps
  /\ live' = live \ undo
  /\ main' = "exit"
  /\ UNCHANGED <<dongle, thread_vars, flag_vars, count_vars>>

-----------------------------------------------------------------------------
(* start_simulation. *)

(* Mutant of raise_stop: start_cond is forgotten. *)
raise_stop_for_dispatchers == simulation_stop' = TRUE /\ UNCHANGED start_waiters

(* The critical section of set_stop and stop_for_burnout. *)
raise_stop == simulation_stop' = TRUE /\ start_waiters' = {}

create(t) == thread' = [thread EXCEPT ![t] = "barrier"]

create_monitor ==
  /\ main = "create_monitor"
  /\ create(Monitor)
  /\ monitor_started' = TRUE
  /\ main' = "create_coders"
  /\ UNCHANGED <<init_vars, start_waiters, flag_vars, coders_started>>

create_monitor_fails ==
  /\ main = "create_monitor"
  /\ raise_stop
  /\ main' = "cleanup"
  /\ UNCHANGED <<init_vars, thread, simulation_started, count_vars>>

(* Mutant of start_coder: one coder past the end of the array. *)
start_coder_past_the_end ==
  /\ main = "create_coders"
  /\ coders_started <= number_of_coders
  /\ create(coders_started)
  /\ coders_started' = coders_started + 1
  /\ UNCHANGED <<main, init_vars, start_waiters, flag_vars, monitor_started>>

start_coder ==
  /\ main = "create_coders"
  /\ coders_started < number_of_coders
  /\ create(coders_started)
  /\ coders_started' = coders_started + 1
  /\ UNCHANGED <<main, init_vars, start_waiters, flag_vars, monitor_started>>

(***************************************************************************)
(* A failing pthread_create leaves the handle undefined.  If it is not     *)
(* zero, start_coders stops the simulation and joins it, and               *)
(* start_simulation stops it again.  Joining a thread that was never       *)
(* created is undefined too; it is taken to return.                        *)
(***************************************************************************)
start_coder_fails ==
  /\ main = "create_coders"
  /\ coders_started < number_of_coders
  /\ raise_stop \/ UNCHANGED <<start_waiters, simulation_stop>>
  /\ main' = "abort"
  /\ UNCHANGED <<init_vars, thread, simulation_started, count_vars>>

(* Mutant of abort_start: nobody joins the threads that were created. *)
abort_start_unjoined ==
  /\ main = "abort"
  /\ raise_stop
  /\ main' = "cleanup"
  /\ UNCHANGED <<init_vars, thread, simulation_started, count_vars>>

abort_start ==
  /\ main = "abort"
  /\ raise_stop
  /\ main' = "join"
  /\ UNCHANGED <<init_vars, thread, simulation_started, count_vars>>

(* Mutant of start_all_threads: the coders that exist are let go at once. *)
start_without_waiting ==
  /\ main = "create_coders"
  /\ ~simulation_started
  /\ simulation_started' = TRUE
  /\ start_waiters' = {}
  /\ main' = IF coders_started = number_of_coders THEN "join" ELSE main
  /\ UNCHANGED <<init_vars, thread, simulation_stop, count_vars>>

start_all_threads ==
  /\ main = "create_coders"
  /\ coders_started = number_of_coders
  /\ simulation_started' = TRUE
  /\ start_waiters' = {}
  /\ main' = "join"
  /\ UNCHANGED <<init_vars, thread, simulation_stop, count_vars>>

-----------------------------------------------------------------------------
(* join_simulation (join_started_threads when the start failed), cleanup. *)

join_coder ==
  /\ main = "join"
  /\ coders_started > 0
  /\ thread[coders_started - 1] = "done"
  /\ coders_started' = coders_started - 1
  /\ UNCHANGED <<main, init_vars, thread_vars, flag_vars, monitor_started>>

join_monitor ==
  /\ main = "join"
  /\ coders_started = 0
  /\ thread[Monitor] = "done"
  /\ monitor_started' = FALSE
  /\ main' = "cleanup"
  /\ UNCHANGED <<init_vars, thread_vars, flag_vars, coders_started>>

cleanup_app ==
  /\ main = "cleanup"
  /\ live' = live \ cleanup
  /\ main' = "exit"
  /\ UNCHANGED <<dongle, thread_vars, flag_vars, count_vars>>

-----------------------------------------------------------------------------
(* A thread: wait_for_start, its run, its end. *)

move(t, place) == thread' = [thread EXCEPT ![t] = place]
thread_frame   == UNCHANGED <<main, init_vars, count_vars, simulation_started>>

wait_for_start(t) ==
  /\ thread[t] = "barrier"
  /\ \/ /\ simulation_stop
        /\ move(t, "done")
        /\ UNCHANGED start_waiters
     \/ /\ simulation_started /\ ~simulation_stop
        /\ move(t, "run")
        /\ UNCHANGED start_waiters
     \/ /\ ~simulation_started /\ ~simulation_stop
        /\ move(t, "asleep")
        /\ start_waiters' = start_waiters \cup {t}
  /\ UNCHANGED simulation_stop
  /\ thread_frame

wake(t) ==
  /\ thread[t] = "asleep"
  /\ t \notin start_waiters
  /\ move(t, "barrier")
  /\ UNCHANGED <<start_waiters, simulation_stop>>
  /\ thread_frame

spurious_wakeup(t) ==
  /\ t \in start_waiters
  /\ start_waiters' = start_waiters \ {t}
  /\ UNCHANGED <<thread, simulation_stop>>
  /\ thread_frame

(***************************************************************************)
(* The monitor declares a burnout, once; the last coder to finish stops    *)
(* the simulation when all of them have compiled, hence passed the barrier.*)
(***************************************************************************)
stop_running(t) ==
  /\ thread[t] = "run"
  /\ t = Monitor => ~simulation_stop
  /\ t \in Coders => \A c \in Coders : thread[c] \notin {"barrier", "asleep"}
  /\ raise_stop
  /\ move(t, "wake_dongles")
  /\ thread_frame

(* A coder may also end by itself: finished, or late for its deadline. *)
return(t) ==
  /\ thread[t] = "run"
  /\ t = Monitor => simulation_stop
  /\ move(t, "done")
  /\ UNCHANGED <<start_waiters, simulation_stop>>
  /\ thread_frame

(* After the stop its thread still locks and broadcasts every dongle. *)
wake_all_dongles(t) ==
  /\ thread[t] = "wake_dongles"
  /\ move(t, "done")
  /\ UNCHANGED <<start_waiters, simulation_stop>>
  /\ thread_frame

main_step ==
  \/ init_step
  \/ init_fail
  \/ create_monitor
  \/ create_monitor_fails
  \/ start_coder
  \/ start_coder_fails
  \/ abort_start
  \/ start_all_threads
  \/ join_coder
  \/ join_monitor
  \/ cleanup_app

thread_step(t) ==
  \/ wait_for_start(t)
  \/ wake(t)
  \/ stop_running(t)
  \/ return(t)
  \/ wake_all_dongles(t)

Next ==
  \/ main_step
  \/ \E t \in Threads : thread_step(t)
  \/ \E t \in Threads : spurious_wakeup(t)

Spec == Init /\ [][Next]_vars

(***************************************************************************)
(* main and every thread keep running; that a run ends is Codexion's       *)
(* AllThreadsReturn.                                                       *)
(***************************************************************************)
FairSpec ==
  /\ Spec
  /\ WF_vars(main_step)
  /\ \A t \in Threads : WF_vars(thread_step(t))

-----------------------------------------------------------------------------
(* Properties. *)

TypeOK ==
  /\ main \in InitSteps \cup {"create_monitor", "create_coders", "abort", "join",
                              "cleanup", "exit"}
  /\ dongle \in Coders
  /\ live \subseteq InitSteps \X Coders
  /\ thread \in [Threads -> {"none", "barrier", "asleep", "run",
                             "wake_dongles", "done"}]
  /\ start_waiters \in SUBSET Threads
  /\ simulation_started \in BOOLEAN
  /\ simulation_stop \in BOOLEAN
  /\ coders_started \in 0 .. number_of_coders
  /\ monitor_started \in BOOLEAN

(***************************************************************************)
(* Wherever init_simulation fails, its failure path takes back exactly     *)
(* what is initialised by then, and so does cleanup_app at the end: no     *)
(* lock or block is leaked, destroyed twice or destroyed uninitialised.    *)
(***************************************************************************)
CleanupIsExact ==
  /\ main \in InitSteps => undo = live
  /\ main = "cleanup"   => cleanup = live
  /\ main = "exit"      => live = {}

(***************************************************************************)
(* main.c:20: synchronization objects are destroyed "after all threads     *)
(* joined".  No thread that main created is still on its way when the      *)
(* locks go, whichever creation failed and whoever is last to wake the     *)
(* others.                                                                 *)
(***************************************************************************)
LocksOutliveThreads ==
  main \in {"cleanup", "exit"} =>
    \A t \in Threads : thread[t] \in {"none", "done"}

(* Nobody passes the barrier unless every thread exists: a start that fails *)
(* half-way lets no coder begin.                                            *)
NobodyRunsAlone ==
  \A t \in Threads : thread[t] \in {"run", "wake_dongles"} =>
    \A u \in Threads : thread[u] # "none"

(***************************************************************************)
(* The inductive invariant: what is alive, which threads exist and which   *)
(* are still to be joined, at each place of main.                          *)
(***************************************************************************)
LiveInv ==
  /\ main \notin DongleParts \cup {"exit"} => dongle = 0
  /\ main \in InitSteps => live = undo
  /\ main \notin InitSteps \cup {"exit"} => live = cleanup
  /\ main = "exit" => live = {}

ThreadInv ==
  /\ main \in InitSteps \cup {"create_monitor"} =>
       /\ \A t \in Threads : thread[t] = "none"
       /\ coders_started = 0
       /\ ~monitor_started
  /\ main \in {"create_coders", "abort"} =>
       /\ thread[Monitor] # "none"
       /\ \A c \in Coders : thread[c] = "none" <=> c >= coders_started
  /\ main = "join" =>
       \A c \in Coders : c >= coders_started => thread[c] \in {"none", "done"}

(* Everybody exists once the barrier is open, and only then goes through it. *)
BarrierInv ==
  /\ simulation_started => \A t \in Threads : thread[t] # "none"
  /\ \A t \in Threads : thread[t] \in {"run", "wake_dongles"} => simulation_started

(* Why main never pulls the locks from under a thread, whichever step of the *)
(* start fails: what main owns and who runs are tied to where main is.       *)
IInv == TypeOK /\ LiveInv /\ ThreadInv /\ BarrierInv /\ LocksOutliveThreads

(* README.md:120-122: startup failures leave no thread stuck behind the     *)
(* barrier.  main always returns, and nobody is left behind it.             *)
MainReturns == <>(main = "exit")

=============================================================================
