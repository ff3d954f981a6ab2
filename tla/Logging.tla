------------------------------ MODULE Logging -------------------------------
(***************************************************************************)
(* The log of a run with two coders or more: state_mutex, log_mutex and    *)
(* stdout.  Every lock and every write is a step of its own, and so is the *)
(* reading of the clock that a line is stamped with.                       *)
(*                                                                         *)
(* Which pairs a dispatch reserves, and when a coder burns out or is late, *)
(* is Codexion's matter; here any of it may happen at any time.            *)
(***************************************************************************)
EXTENDS Naturals, Sequences

CONSTANTS
  Coders,
  Monitor,  (* the monitor thread                                          *)
  Free,     (* a mutex nobody holds                                        *)
  number_of_compiles_required,
  MaxTime   (* bound: the clock stops here                                 *)

ASSUME LoggingArgs ==
  /\ Free \notin Coders \cup {Monitor}
  /\ Monitor \notin Coders
  /\ number_of_compiles_required \in Nat \ {0}
  /\ MaxTime \in Nat \ {0}

Threads == Coders \cup {Monitor}

VARIABLES
  now, simulation_stop, state_mutex, log_mutex,
  waiting, granted,  (* the coders whose flag of that name is set          *)
  compiles_done,
  pc,                (* where each thread is                               *)
  job,               (* what a thread has still to write: lines <<id, msg>>*)
  stamp,             (* log_msg_force's data.time; 0 before it is read     *)
  stdout,            (* the last three lines written: [id, msg, time]      *)
  lines              (* how many lines of its round a coder has in the log *)

lock_vars    == <<state_mutex, log_mutex>>
request_vars == <<waiting, granted>>
print_vars   == <<job, stamp, stdout, lines>>
sim_vars     == <<simulation_stop, request_vars, compiles_done>>
vars         == <<now, sim_vars, lock_vars, pc, print_vars>>

Init ==
  /\ now = 1
  /\ simulation_stop = FALSE
  /\ state_mutex = Free
  /\ log_mutex = Free
  /\ waiting = {}
  /\ granted = {}
  /\ compiles_done = [c \in Coders |-> 0]
  /\ pc = [t \in Threads |-> IF t = Monitor THEN "watch" ELSE "ask"]
  /\ job = [t \in Threads |-> <<>>]
  /\ stamp = [t \in Threads |-> 0]
  /\ stdout = <<>>
  /\ lines = [c \in Coders |-> 0]

Tick ==
  /\ now < MaxTime
  /\ now' = now + 1
  /\ UNCHANGED <<sim_vars, lock_vars, pc, print_vars>>

-----------------------------------------------------------------------------
(* Steps that locks are made of. *)

move(t, from, to) == pc[t] = from /\ pc' = [pc EXCEPT ![t] = to]

lock_state(t) == state_mutex = Free /\ state_mutex' = t /\ UNCHANGED log_mutex
unlock_state  == state_mutex' = Free /\ UNCHANGED log_mutex
lock_log(t)   == log_mutex = Free /\ log_mutex' = t /\ UNCHANGED state_mutex
unlock_log    == log_mutex' = Free /\ UNCHANGED state_mutex

(* A critical section of state_mutex that is one step. *)
lock_and_unlock == state_mutex = Free /\ UNCHANGED lock_vars

silent == UNCHANGED <<now, print_vars>>
passes == silent /\ UNCHANGED sim_vars

-----------------------------------------------------------------------------
(* log_msg_force: read the clock, write the line. *)

Printing == {"print_group", "print_debug", "print_refactor", "print_burnout"}

read_clock(t) ==
  /\ pc[t] \in Printing
  /\ job[t] # <<>>
  /\ stamp[t] = 0
  /\ stamp' = [stamp EXCEPT ![t] = now]
  /\ UNCHANGED <<now, sim_vars, lock_vars, pc, job, stdout, lines>>

write(t) ==
  /\ pc[t] \in Printing
  /\ stamp[t] # 0
  /\ LET id  == job[t][1][1]
         msg == job[t][1][2]
         log == Append(stdout, [id |-> id, msg |-> msg, time |-> stamp[t]])
     IN  /\ stdout' = IF Len(log) > 3 THEN Tail(log) ELSE log
         /\ lines' = IF msg = "burnout" THEN lines
                     ELSE [lines EXCEPT ![id] = (@ + 1) % 5]
  /\ job' = [job EXCEPT ![t] = Tail(@)]
  /\ stamp' = [stamp EXCEPT ![t] = 0]
  /\ UNCHANGED <<now, sim_vars, lock_vars, pc>>

(* A thread starts on what it has to write, and has written it all. *)
prints_next(t, todo) ==
  job' = [job EXCEPT ![t] = todo] /\ UNCHANGED <<now, stamp, stdout, lines>>

logged(t, print, to) == job[t] = <<>> /\ move(t, print, to) /\ unlock_log /\ passes

-----------------------------------------------------------------------------
(* scheduler_acquire_pair and the dispatch it runs under state_mutex. *)

acquire(c) ==
  /\ move(c, "ask", "acquire")
  /\ lock_state(c)
  /\ waiting' = waiting \cup {c}
  /\ granted' = granted \ {c}
  /\ silent /\ UNCHANGED <<simulation_stop, compiles_done>>

(* Stopped, or late for its deadline. *)
give_up(c) ==
  /\ move(c, "acquire", "exit")
  /\ unlock_state
  /\ waiting' = waiting \ {c}
  /\ granted' = granted \ {c}
  /\ silent /\ UNCHANGED <<simulation_stop, compiles_done>>

dispatch(c) ==
  ~simulation_stop /\ move(c, "acquire", "dispatch") /\ passes /\ UNCHANGED lock_vars

(* Mutant of asks: the waiting flag is not looked at. *)
has_no_pair(c) == c \notin granted

asks(c) == c \in waiting

reserve_pair(c, served) ==
  /\ move(c, "dispatch", "lock_group")
  /\ asks(served)
  /\ waiting' = waiting \ {served}
  /\ granted' = granted \cup {served}
  /\ prints_next(c, <<<<served, "fork">>, <<served, "fork">>, <<served, "compile">>>>)
  /\ UNCHANGED <<simulation_stop, compiles_done, lock_vars>>

(* Mutant of log_reservation: state_mutex is thought to be enough. *)
log_reservation_unlocked(c) ==
  move(c, "lock_group", "print_group") /\ passes /\ UNCHANGED lock_vars

log_reservation(c) == move(c, "lock_group", "print_group") /\ lock_log(c) /\ passes

dispatched(c) ==
  /\ move(c, "dispatch", IF c \in granted THEN "compile" ELSE "wait")
  /\ unlock_state /\ passes

(* Whatever ends the wait on stop_cond. *)
wake(c) == move(c, "wait", "acquire") /\ lock_state(c) /\ passes

-----------------------------------------------------------------------------
(* The rest of a coder's round. *)

(* is_stopped, at the points where the coder then goes on or returns. *)
goes_on(c, from, to) ==
  move(c, from, IF simulation_stop THEN "exit" ELSE to) /\ lock_and_unlock /\ passes

(* Mutant of coder_is_done: only the stop ends the rounds. *)
coder_is_never_done(c) == FALSE

coder_is_done(c) == compiles_done[c] >= number_of_compiles_required

next_round(c) ==
  /\ move(c, "loop", IF simulation_stop \/ coder_is_done(c) THEN "exit" ELSE "ask")
  /\ lock_and_unlock /\ passes

finish_compile(c) ==
  /\ compiles_done' = [compiles_done EXCEPT ![c] = @ + 1]
  /\ LET finished == \A a \in Coders : compiles_done'[a] >= number_of_compiles_required
     IN  move(c, "count", IF finished THEN "set_stop" ELSE "log_debug")
  /\ lock_and_unlock
  /\ silent /\ UNCHANGED <<simulation_stop, request_vars>>

set_stop(c) ==
  /\ move(c, "set_stop", "exit")
  /\ lock_and_unlock
  /\ simulation_stop' = TRUE
  /\ silent /\ UNCHANGED <<request_vars, compiles_done>>

(* Mutant of log_msg: the early return forgets to unlock. *)
log_msg_locked(c, from, lock, to) ==
  move(c, from, IF simulation_stop THEN to ELSE lock) /\ lock_state(c) /\ passes

(* log_msg: the stop flag decides under state_mutex ... *)
log_msg(c, from, lock, to) ==
  /\ \/ simulation_stop /\ move(c, from, to) /\ lock_and_unlock
     \/ ~simulation_stop /\ move(c, from, lock) /\ lock_state(c)
  /\ passes

(* Mutant of hand_over: state_mutex is given back before log_mutex is taken, *)
(* and the step to printing comes with the second of the two.               *)
hand_over_late(c, lock, print) ==
  /\ pc[c] = lock
  /\ \/ state_mutex = c /\ unlock_state /\ UNCHANGED pc
     \/ state_mutex # c /\ lock_log(c) /\ move(c, lock, print)

(* ... and log_mutex is taken before state_mutex is given back. *)
hand_over(c, lock, print) ==
  log_mutex = Free /\ log_mutex' = c /\ state_mutex' = Free /\ move(c, lock, print)

log_line(c, lock, print, msg) ==
  /\ hand_over(c, lock, print)
  /\ prints_next(c, <<<<c, msg>>>>)
  /\ UNCHANGED sim_vars

-----------------------------------------------------------------------------
(* The monitor. *)

watch ==
  /\ move(Monitor, "watch", IF simulation_stop THEN "exit" ELSE "burn")
  /\ lock_and_unlock /\ passes

(* A scan that finds nobody, or stop_for_burnout. *)
scan_burnouts ==
  /\ \/ move(Monitor, "burn", "watch") /\ lock_and_unlock
     \/ move(Monitor, "burn", "lock_burnout") /\ lock_state(Monitor)
  /\ passes

(* Somebody else has stopped the simulation: the scan goes on. *)
burnout_too_late ==
  /\ simulation_stop
  /\ log_mutex = Free
  /\ move(Monitor, "lock_burnout", "burn")
  /\ unlock_state /\ passes

stop_for_burnout ==
  /\ ~simulation_stop
  /\ simulation_stop' = TRUE
  /\ move(Monitor, "lock_burnout", "print_burnout")
  /\ log_mutex = Free /\ log_mutex' = Monitor /\ state_mutex' = Free
  /\ \E c \in Coders : prints_next(Monitor, <<<<c, "burnout">>>>)
  /\ UNCHANGED <<request_vars, compiles_done>>

prints(t) == read_clock(t) \/ write(t)

coder_step(c) ==
  \/ acquire(c)
  \/ give_up(c)
  \/ dispatch(c)
  \/ \E served \in Coders : reserve_pair(c, served)
  \/ log_reservation(c)
  \/ logged(c, "print_group", "dispatch")
  \/ dispatched(c)
  \/ wake(c)
  \/ goes_on(c, "compile", "count")
  \/ finish_compile(c)
  \/ set_stop(c)
  \/ log_msg(c, "log_debug", "lock_debug", "debug")
  \/ log_line(c, "lock_debug", "print_debug", "debug")
  \/ logged(c, "print_debug", "debug")
  \/ goes_on(c, "debug", "log_refactor")
  \/ log_msg(c, "log_refactor", "lock_refactor", "loop")
  \/ log_line(c, "lock_refactor", "print_refactor", "refactor")
  \/ logged(c, "print_refactor", "loop")
  \/ next_round(c)

monitor_step ==
  \/ watch
  \/ scan_burnouts
  \/ burnout_too_late
  \/ stop_for_burnout
  \/ logged(Monitor, "print_burnout", "exit")

Next ==
  \/ Tick
  \/ \E c \in Coders : coder_step(c)
  \/ monitor_step
  \/ \E t \in Threads : prints(t)

Spec == Init /\ [][Next]_vars

(* Every thread that can run is run. *)
FairSpec ==
  /\ Spec
  /\ \A c \in Coders : WF_vars(coder_step(c) \/ prints(c))
  /\ WF_vars(monitor_step \/ prints(Monitor))

-----------------------------------------------------------------------------
(* Properties. *)

Messages == {"fork", "compile", "debug", "refactor", "burnout"}
Lines    == [id : Coders, msg : Messages, time : 1 .. MaxTime]

TypeOK ==
  /\ now \in 1 .. MaxTime
  /\ simulation_stop \in BOOLEAN
  /\ state_mutex \in Threads \cup {Free}
  /\ log_mutex \in Threads \cup {Free}
  /\ waiting \in SUBSET Coders
  /\ granted \in SUBSET Coders
  /\ compiles_done \in [Coders -> 0 .. number_of_compiles_required]
  /\ job \in [Threads -> Seq(Coders \X Messages)]
  /\ stamp \in [Threads -> 0 .. MaxTime]
  /\ stdout \in Seq(Lines)
  /\ lines \in [Coders -> 0 .. 4]

(* README.md:128: "no normal message can print after the burnout line",     *)
(* although its writer may have passed the stop test long before.           *)
BurnoutIsLast ==
  \A i \in DOMAIN stdout : stdout[i].msg = "burnout" => i = Len(stdout)

(* README.md:142-143: a reservation's lines are "one uninterrupted group",  *)
(* whoever writes them and whoever else is writing.                         *)
GroupsAreWhole ==
  stdout # <<>> /\ stdout[Len(stdout)].msg = "compile" =>
    /\ Len(stdout) = 3
    /\ \A k \in {1, 2} : stdout[k].id = stdout[3].id /\ stdout[k].msg = "fork"

(* The clock is read by the writers, but no line is stamped earlier than    *)
(* the line above it.                                                       *)
TimesInOrder ==
  \A i \in 2 .. Len(stdout) : stdout[i - 1].time <= stdout[i].time

(***************************************************************************)
(* Everything a coder logs follows its round: another thread may write its *)
(* group while it sleeps, but never ahead of its refactoring line.         *)
(***************************************************************************)
round == <<"fork", "fork", "compile", "debug", "refactor">>

RoundsInOrder ==
  [][\A c \in Coders : lines'[c] # lines[c] =>
       stdout'[Len(stdout')].msg = round[lines[c] + 1]]_vars

(* Neither mutex is kept for ever: there is no lock order in which two      *)
(* threads wait for each other, and no way out that forgets to unlock.      *)
MutexesAreGivenBack == []<>(state_mutex = Free) /\ []<>(log_mutex = Free)

=============================================================================
