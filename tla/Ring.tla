-------------------------------- MODULE Ring --------------------------------
(***************************************************************************)
(* The pair scheduler at a larger table, with threads that are infinitely  *)
(* fast: no time passes while state_mutex is held, and a coder that has    *)
(* compiled is ready to ask again at once, any number of times.  What a    *)
(* table of four or more shows, and the step-by-step Codexion is too large *)
(* for.  Coders still fail: by the deadline of the request they wait with, *)
(* though it may have been granted meanwhile, or by the stop.              *)
(***************************************************************************)
EXTENDS PairScheduler

CONSTANTS
  time_to_compile,
  StartTime, MaxTime,  (* the first and the last moment                    *)
  Nobody               (* state_mutex is free                              *)

ASSUME RingArgs ==
  /\ time_to_compile \in Nat
  /\ StartTime \in Nat \ {0}
  /\ MaxTime \in Nat
  /\ Nobody \notin Coders

VARIABLES
  simulation_stop,
  caller,       (* who is in scheduler_acquire_pair with state_mutex       *)
  dispatching,  (* and in scheduler_dispatch                               *)
  pc,           (* "loop", "acquire" (also asleep in it), "compile", "exit" *)
  overtaken     (* how often a waiting request has been overtaken, up to 3 *)

vars == <<scheduler_vars, simulation_stop, caller, dispatching, pc, overtaken>>

Init ==
  /\ scheduler_init(StartTime)
  /\ simulation_stop = FALSE
  /\ caller = Nobody
  /\ dispatching = FALSE
  /\ pc = [c \in Coders |-> "loop"]
  /\ overtaken = [c \in Coders |-> 0]

goto(c, label) == pc' = [pc EXCEPT ![c] = label]

Tick ==
  /\ caller = Nobody
  /\ now < MaxTime
  /\ now' = now + 1
  /\ UNCHANGED <<dongle_vars, request_vars, grant_vars, scan_vars,
                 simulation_stop, caller, dispatching, pc, overtaken>>

-----------------------------------------------------------------------------
(* scheduler_acquire_pair. *)

(* A coder asks for its pair and goes into the loop. *)
acquire_pair(c) ==
  /\ caller = Nobody
  /\ pc[c] = "loop"
  /\ register_request(c)
  /\ overtaken' = [overtaken EXCEPT ![c] = 0]
  /\ caller' = c
  /\ goto(c, "acquire")
  /\ UNCHANGED <<now, dongle_vars, last_compile_start, scan_vars,
                 simulation_stop, dispatching>>

(* A sleeper is back in the loop, woken by a broadcast, by its timeout or by *)
(* nothing at all, and whether its request was granted meanwhile or not.    *)
wake(c) ==
  /\ caller = Nobody
  /\ pc[c] = "acquire"
  /\ caller' = c
  /\ UNCHANGED <<scheduler_vars, simulation_stop, dispatching, pc, overtaken>>

at_test == caller # Nobody /\ ~dispatching

acquire_over == simulation_stop \/ now >= deadline[caller]

acquire_gives_up ==
  /\ at_test
  /\ acquire_over
  /\ withdraw_request(caller)
  /\ goto(caller, "exit")
  /\ caller' = Nobody
  /\ UNCHANGED <<now, dongle_vars, request_vars, last_compile_start, scan_vars,
                 simulation_stop, dispatching, overtaken>>

acquire_dispatches ==
  /\ at_test
  /\ ~acquire_over
  /\ dispatch_begin
  /\ dispatching' = TRUE
  /\ UNCHANGED <<now, dongle_vars, request_vars, grant_vars, simulation_stop,
                 caller, pc, overtaken>>

reserve ==
  /\ in_time(scan_i)
  /\ dispatch_reserve
  /\ overtaken' =
       [c \in Coders |->
          IF /\ overtaken[c] < 3 /\ waiting[c] /\ c # scan_i
             /\ requests_overlap(c, scan_i) /\ request_before(c, scan_i)
          THEN overtaken[c] + 1 ELSE overtaken[c]]

refuse == in_time(scan_i) /\ dispatch_refuse /\ UNCHANGED overtaken

dispatch ==
  /\ dispatching
  /\ \/ ~scan_over /\ reserve
     \/ ~scan_over /\ refuse
     \/ dispatch_skip /\ UNCHANGED overtaken
     \/ dispatch_again /\ UNCHANGED overtaken
  /\ UNCHANGED <<now, request_vars, simulation_stop, caller, dispatching, pc>>

(* Its caller compiles with its pair, or falls asleep without one. *)
dispatch_ends ==
  /\ dispatching
  /\ dispatch_done
  /\ dispatching' = FALSE
  /\ caller' = Nobody
  /\ goto(caller, IF granted[caller] THEN "compile" ELSE "acquire")
  /\ UNCHANGED <<scheduler_vars, simulation_stop, overtaken>>

-----------------------------------------------------------------------------

(* The stop cuts the compile short. *)
release(c) ==
  /\ caller = Nobody
  /\ pc[c] = "compile"
  /\ simulation_stop \/ now >= last_compile_start[c] + time_to_compile
  /\ free_pair(c, now)
  /\ goto(c, IF simulation_stop THEN "exit" ELSE "loop")
  /\ UNCHANGED <<now, request_vars, grant_vars, scan_vars, simulation_stop,
                 caller, dispatching, overtaken>>

(* The monitor, some time after the coder's deadline. *)
stop_for_burnout(c) ==
  /\ caller = Nobody
  /\ ~simulation_stop
  /\ now >= last_compile_start[c] + time_to_burnout
  /\ simulation_stop' = TRUE
  /\ UNCHANGED <<scheduler_vars, caller, dispatching, pc, overtaken>>

Next ==
  \/ Tick
  \/ \E c \in Coders : acquire_pair(c)
  \/ \E c \in Coders : wake(c)
  \/ acquire_gives_up
  \/ acquire_dispatches
  \/ dispatch
  \/ dispatch_ends
  \/ \E c \in Coders : release(c)
  \/ \E c \in Coders : stop_for_burnout(c)

Spec == Init /\ [][Next]_vars

-----------------------------------------------------------------------------
(* Properties. *)

(***************************************************************************)
(* README.md:94-101, work-conserving: when a dispatch is over nobody is    *)
(* left whose pair could be reserved, although a reservation at a high     *)
(* index may be what frees a coder at a low one.                           *)
(***************************************************************************)
DispatchIsComplete ==
  [][dispatch_ends => \A c \in Coders : ~(in_time(c) /\ can_reserve(c))]_vars

(* README.md:97-98: protecting its available dongles "prevents a later      *)
(* request from repeatedly delaying an earlier overlapping request".  With  *)
(* two neighbours, a third delay is one neighbour's second.                 *)
NotRepeatedlyOvertaken == \A c \in Coders : overtaken[c] <= 2

=============================================================================
