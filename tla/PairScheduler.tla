--------------------------- MODULE PairScheduler ---------------------------
(***************************************************************************)
(* The pair scheduler: the data that app->state_mutex protects when there  *)
(* are at least two coders, and the functions that read and write it       *)
(* (scheduler_compare.c, scheduler_ready.c, scheduler_dispatch.c and       *)
(* scheduler_pair.c).  The threads that call them are in Codexion.         *)
(*                                                                         *)
(* A coder is named by its index in app->coders, a dongle by its index in  *)
(* app->dongles; the id that is logged is the index plus one.  The fields  *)
(* of t_coder, t_request and t_dongle are functions of that index.  Time   *)
(* is a natural number of milliseconds, the value of now_ms().             *)
(***************************************************************************)
EXTENDS Integers

CONSTANTS
  number_of_coders,  (* args.number_of_coders                              *)
  policy,            (* args.scheduler.policy: "fifo" or "edf"             *)
  time_to_burnout,   (* args.time_to_burnout                               *)
  dongle_cooldown    (* args.dongle_cooldown                               *)

(***************************************************************************)
(* What validate_semantic_constraints accepts.  Two coders or more: with   *)
(* one coder left = right and the pair scheduler is never entered.  The    *)
(* times are far enough from INT64_MAX for every sum below to fit.         *)
(***************************************************************************)
ASSUME SchedulerArgs ==
  /\ number_of_coders \in Nat
  /\ number_of_coders >= 2
  /\ policy \in {"fifo", "edf"}
  /\ time_to_burnout \in Nat
  /\ dongle_cooldown \in Nat

Coders  == 0 .. number_of_coders - 1
Dongles == 0 .. number_of_coders - 1

VARIABLES
  now,                 (* CLOCK_MONOTONIC in milliseconds                  *)
  available,           (* dongle->available                                *)
  released_at,         (* dongle->released_at                              *)
  last_compile_start,  (* coder->last_compile_start                        *)
  sequence,            (* coder->request.sequence                          *)
  deadline,            (* coder->request.deadline                          *)
  waiting,             (* coder->waiting                                   *)
  granted,             (* coder->granted                                   *)
  next_sequence,       (* app->next_sequence                               *)
  scan_i,              (* scheduler_dispatch's i                           *)
  scan_changed         (* scheduler_dispatch's changed                     *)

dongle_vars  == <<available, released_at>>
request_vars == <<sequence, deadline, next_sequence>>
grant_vars   == <<last_compile_start, waiting, granted>>
scan_vars    == <<scan_i, scan_changed>>

scheduler_vars == <<now, dongle_vars, request_vars, grant_vars, scan_vars>>

-----------------------------------------------------------------------------
(* The ring laid out by link_dongles. *)

left(c)  == c
right(c) == (c + 1) % number_of_coders

Pair(c) == {left(c), right(c)}

requests_overlap(a, b) == Pair(a) \cap Pair(b) # {}

-----------------------------------------------------------------------------
(* What the simulation starts from. *)

(* init_coder_fields, but for the stamp that start_all_threads replaces.    *)
coders_initialised ==
  /\ sequence = [c \in Coders |-> 0]
  /\ deadline = [c \in Coders |-> 0]
  /\ waiting = [c \in Coders |-> FALSE]
  /\ granted = [c \in Coders |-> FALSE]

(* A dongle that was never used counts as released when the machine booted. *)
dongles_initialised ==
  /\ available = [d \in Dongles |-> TRUE]
  /\ released_at = [d \in Dongles |-> 0]

(* start_all_threads: one stamp for all. *)
all_started(at) ==
  /\ now = at
  /\ last_compile_start = [c \in Coders |-> at]
  /\ next_sequence = 0

scheduler_init(at) ==
  /\ coders_initialised
  /\ dongles_initialised
  /\ all_started(at)
  /\ scan_i = 0
  /\ scan_changed = FALSE

-----------------------------------------------------------------------------
(* The predicates of one dispatch step. *)

(* Mutant of request_before: EDF forgets the deadlines. *)
request_before_by_arrival(a, b) == sequence[a] < sequence[b]

(* Is coder a's request ahead of coder b's under the policy of this run?   *)
request_before(a, b) ==
  \/ /\ policy = "fifo"
     /\ sequence[a] < sequence[b]
  \/ /\ policy = "edf"
     /\ \/ deadline[a] < deadline[b]
        \/ deadline[a] = deadline[b] /\ sequence[a] < sequence[b]
        \/ deadline[a] = deadline[b] /\ sequence[a] = sequence[b] /\ a < b

dongle_ready(d) == available[d] /\ now >= released_at[d] + dongle_cooldown

(* Mutant of scheduler_pair_ready: the right dongle is not looked at. *)
left_dongle_ready(c) == dongle_ready(left(c))

scheduler_pair_ready(c) == \A d \in Pair(c) : dongle_ready(d)

pair_available(c) == \A d \in Pair(c) : available[d]

(* Mutant of scheduler_is_best_ready: no request protects its dongles. *)
best_by_default(c) == TRUE

(* No overlapping request that could use its own pair is ahead of c's: such *)
(* a request protects its dongles even while they are still cooling.        *)
scheduler_is_best_ready(c) ==
  \A other \in Coders \ {c} :
    ~ /\ waiting[other]
      /\ pair_available(other)
      /\ requests_overlap(other, c)
      /\ request_before(other, c)

(* Mutant of in_time: a request past its deadline is still served. *)
waits(c) == waiting[c]

(* The loop condition's first half; the clock may move before the second.  *)
in_time(c) == waiting[c] /\ now < deadline[c]

can_reserve(c) == scheduler_pair_ready(c) /\ scheduler_is_best_ready(c)

-----------------------------------------------------------------------------
(* The writes. *)

register_request(c) ==
  /\ sequence' = [sequence EXCEPT ![c] = next_sequence]
  /\ next_sequence' = next_sequence + 1
  /\ deadline' = [deadline EXCEPT ![c] = last_compile_start[c] + time_to_burnout]
  /\ waiting' = [waiting EXCEPT ![c] = TRUE]
  /\ granted' = [granted EXCEPT ![c] = FALSE]

(* Mutant of withdraw_request: the request goes on waiting. *)
withdraw_grant_only(c) ==
  /\ granted' = [granted EXCEPT ![c] = FALSE]
  /\ UNCHANGED waiting

(* Withdrawing the request when scheduler_acquire_pair gives up.           *)
withdraw_request(c) ==
  /\ waiting' = [waiting EXCEPT ![c] = FALSE]
  /\ granted' = [granted EXCEPT ![c] = FALSE]

(* Mutant of reserve_pair: the first dongle only. *)
reserve_left_dongle(c) ==
  /\ available' = [available EXCEPT ![left(c)] = FALSE]
  /\ last_compile_start' = [last_compile_start EXCEPT ![c] = now]
  /\ waiting' = [waiting EXCEPT ![c] = FALSE]
  /\ granted' = [granted EXCEPT ![c] = TRUE]

reserve_pair(c) ==
  /\ available' = [d \in Dongles |-> available[d] /\ d \notin Pair(c)]
  /\ last_compile_start' = [last_compile_start EXCEPT ![c] = now]
  /\ waiting' = [waiting EXCEPT ![c] = FALSE]
  /\ granted' = [granted EXCEPT ![c] = TRUE]

(* Mutant of free_pair: the left dongle only. *)
free_left_dongle(c, at) ==
  /\ available' = [available EXCEPT ![left(c)] = TRUE]
  /\ released_at' = [released_at EXCEPT ![left(c)] = at]

(* release_both_dongles under the lock, with the time it read before it.   *)
free_pair(c, at) ==
  /\ available' = [d \in Dongles |-> available[d] \/ d \in Pair(c)]
  /\ released_at' = [d \in Dongles |-> IF d \in Pair(c) THEN at
                                       ELSE released_at[d]]

-----------------------------------------------------------------------------
(* One scheduler_dispatch, step by step, since every test reads the clock   *)
(* again: dispatch_begin, then for each index dispatch_skip or (dispatch_   *)
(* select and then dispatch_reserve or dispatch_refuse), and a new pass     *)
(* (dispatch_again) as long as the last one reserved something.             *)

dispatch_begin ==
  /\ scan_i' = 0
  /\ scan_changed' = FALSE

scan_over == scan_i = number_of_coders

dispatch_skip ==
  /\ ~scan_over
  /\ ~in_time(scan_i)
  /\ scan_i' = scan_i + 1
  /\ UNCHANGED <<scan_changed, dongle_vars, grant_vars>>

dispatch_select ==
  /\ ~scan_over
  /\ in_time(scan_i)
  /\ UNCHANGED <<scan_vars, dongle_vars, grant_vars>>

(* Mutant of dispatch_reserve: the reservation is not another pass's reason. *)
reserve_in_one_pass ==
  /\ can_reserve(scan_i)
  /\ reserve_pair(scan_i)
  /\ scan_i' = scan_i + 1
  /\ UNCHANGED <<scan_changed, released_at>>

dispatch_reserve ==
  /\ can_reserve(scan_i)
  /\ reserve_pair(scan_i)
  /\ scan_changed' = TRUE
  /\ scan_i' = scan_i + 1
  /\ UNCHANGED released_at

dispatch_refuse ==
  /\ ~can_reserve(scan_i)
  /\ scan_i' = scan_i + 1
  /\ UNCHANGED <<scan_changed, dongle_vars, grant_vars>>

dispatch_again ==
  /\ scan_over
  /\ scan_changed
  /\ dispatch_begin
  /\ UNCHANGED <<dongle_vars, grant_vars>>

dispatch_done == scan_over /\ ~scan_changed

-----------------------------------------------------------------------------
(* wait_for_scheduler: for how long the timed wait of c is to last.  A       *)
(* coder whose dongles are both back waits for the later cooldown, another  *)
(* one until its deadline; never less than one millisecond.                 *)

pair_cooldown_end(c) ==
  LET left_at  == released_at[left(c)] + dongle_cooldown
      right_at == released_at[right(c)] + dongle_cooldown
      ready_at == IF right_at > left_at THEN right_at ELSE left_at
  IN  IF ready_at > deadline[c] THEN deadline[c] ELSE ready_at

(* Mutant of wait_ms: the cooldown's end does not wake the coder. *)
wait_ms_to_deadline(c) == IF deadline[c] > now THEN deadline[c] - now ELSE 1

wait_ms(c) ==
  LET end == IF pair_available(c) THEN pair_cooldown_end(c) ELSE deadline[c]
  IN  IF end - now < 1 THEN 1 ELSE end - now

=============================================================================
