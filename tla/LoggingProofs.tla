--------------------------- MODULE LoggingProofs ----------------------------
(***************************************************************************)
(* What the log promises, for any number of coders and any schedule: its   *)
(* lines are in the order of their times and of each coder's round, groups *)
(* are whole, and nothing is written behind a burnout.                     *)
(***************************************************************************)
EXTENDS Logging, SequenceTheorems, TLAPS

-----------------------------------------------------------------------------
(* The inductive invariant, in parts. *)

CoderPoints == {"ask", "acquire", "dispatch", "lock_group", "print_group", "wait",
                "compile", "count", "set_stop", "log_debug", "lock_debug",
                "print_debug", "debug", "log_refactor", "lock_refactor",
                "print_refactor", "loop", "exit"}
MonitorPoints == {"watch", "burn", "lock_burnout", "print_burnout", "exit"}

InAcquire == {"acquire", "dispatch", "lock_group", "print_group", "wait"}
InGroup   == {"lock_group", "print_group"}

(* The places at which a thread has state_mutex; at Printing, log_mutex.    *)
StatePoints == {"acquire", "dispatch", "lock_group", "print_group", "lock_debug",
                "lock_refactor", "lock_burnout"}

LogTypes ==
  /\ TypeOK
  /\ pc \in [Threads -> CoderPoints \cup MonitorPoints]
  /\ \A c \in Coders : pc[c] \in CoderPoints
  /\ pc[Monitor] \in MonitorPoints
  /\ Len(stdout) \in 0 .. 3

LockInv ==
  \A t \in Threads :
    /\ (pc[t] \in StatePoints <=> state_mutex = t)
    /\ (pc[t] \in Printing <=> log_mutex = t)

(* A coder that is going to count a compile has one to count. *)
CountInv ==
  \A c \in Coders :
    pc[c] \in InAcquire \cup {"ask", "compile", "count"} =>
      compiles_done[c] < number_of_compiles_required

(***************************************************************************)
(* A line is stamped under log_mutex, so that the clock cannot be behind   *)
(* the last line's.                                                        *)
(***************************************************************************)
TimesInv ==
  /\ \A i \in DOMAIN stdout : stdout[i].time <= now
  /\ \A t \in Threads : stamp[t] # 0 =>
       /\ pc[t] \in Printing
       /\ job[t] # <<>>
       /\ stamp[t] <= now
       /\ \A i \in DOMAIN stdout : stdout[i].time <= stamp[t]

(* Outside a group a thread has a line of its own to write, or none. *)
JobInv ==
  \A t \in Threads :
    /\ pc[t] \notin Printing \cup InGroup => job[t] = <<>>
    /\ pc[t] = "print_debug" => job[t] \in {<<>>, <<<<t, "debug">>>>}
    /\ pc[t] = "print_refactor" => job[t] \in {<<>>, <<<<t, "refactor">>>>}
    /\ pc[t] = "print_burnout" =>
         \E c \in Coders : job[t] \in {<<>>, <<<<c, "burnout">>>>}

(* The last n lines of the group of coder s. *)
remaining(s, n) ==
  CASE n = 3 -> <<<<s, "fork">>, <<s, "fork">>, <<s, "compile">>>>
    [] n = 2 -> <<<<s, "fork">>, <<s, "compile">>>>
    [] n = 1 -> <<<<s, "compile">>>>
    [] n = 0 -> <<>>

(* The last n lines of the log are forks of coder s. *)
forks(s, n) ==
  \E m \in 0 .. 3 :
    /\ Len(stdout) = m /\ n <= m
    /\ \A i \in m - n + 1 .. m : stdout[i].id = s /\ stdout[i].msg = "fork"

(***************************************************************************)
(* A group is written for a coder that sleeps or is the writer itself, and *)
(* what of it has been written is at the end of the log.                   *)
(***************************************************************************)
GroupInv ==
  \A t \in Threads : pc[t] \in InGroup =>
    \E s \in Coders, n \in 0 .. 3 :
      /\ job[t] = remaining(s, n)
      /\ pc[t] = "lock_group" => n = 3
      /\ n # 0 => /\ s \in granted
                  /\ s = t \/ pc[s] = "wait"
                  /\ lines[s] = 3 - n
                  /\ forks(s, 3 - n)

(* Somebody has still to write a line of c's group. *)
pending(c) ==
  \E t \in Threads : pc[t] \in InGroup /\ job[t] # <<>> /\ job[t][1][1] = c

(* How many lines of its round a coder has in the log at each place.        *)
in_round(c) ==
  /\ c \in waiting => pc[c] \in InAcquire /\ c \notin granted
  /\ pc[c] = "ask" => lines[c] = 0
  /\ pc[c] \in InAcquire =>
       \/ c \in waiting /\ lines[c] = 0
       \/ c \in granted /\ (lines[c] = 3 \/ pending(c))
  /\ pc[c] \in {"compile", "count", "log_debug", "lock_debug"} => lines[c] = 3
  /\ pc[c] = "print_debug" => lines[c] = IF job[c] = <<>> THEN 4 ELSE 3
  /\ pc[c] = "debug" => simulation_stop \/ lines[c] = 4
  /\ pc[c] \in {"log_refactor", "lock_refactor"} => lines[c] = 4
  /\ pc[c] = "print_refactor" => lines[c] = IF job[c] = <<>> THEN 0 ELSE 4
  /\ pc[c] = "loop" => simulation_stop \/ lines[c] = 0

RoundInv == \A c \in Coders : in_round(c)

(* The places at which a coder has passed the stop test and may yet write.  *)
Talking == InGroup \cup {"dispatch", "lock_debug", "print_debug", "lock_refactor",
                         "print_refactor"}

burnt == \E i \in DOMAIN stdout : stdout[i].msg = "burnout"

(***************************************************************************)
(* The burnout is declared with both mutexes held, so that no coder is     *)
(* left with a line to write.                                              *)
(***************************************************************************)
QuietInv ==
  /\ burnt => pc[Monitor] \in {"print_burnout", "exit"} /\ job[Monitor] = <<>>
  /\ burnt \/ pc[Monitor] = "print_burnout" =>
       simulation_stop /\ \A c \in Coders : pc[c] \notin Talking

-----------------------------------------------------------------------------
(* Every step is one thread's, and it moves like the locks it takes. *)

moves(t) == pc' = [pc EXCEPT ![t] = pc'[t]]

locks_state(t) ==
  \/ UNCHANGED state_mutex /\ (pc[t] \in StatePoints <=> pc'[t] \in StatePoints)
  \/ state_mutex = Free /\ state_mutex' = t /\ pc'[t] \in StatePoints
  \/ pc[t] \in StatePoints /\ state_mutex' = Free /\ pc'[t] \notin StatePoints

locks_log(t) ==
  \/ UNCHANGED log_mutex /\ (pc[t] \in Printing <=> pc'[t] \in Printing)
  \/ log_mutex = Free /\ log_mutex' = t /\ pc'[t] \in Printing
  \/ pc[t] \in Printing /\ log_mutex' = Free /\ pc'[t] \notin Printing

(* The steps of a coder before it has something to write, and after.        *)
asking(c) ==
  acquire(c) \/ give_up(c) \/ dispatch(c) \/ dispatched(c) \/ wake(c)

going_on(c) ==
  \/ goes_on(c, "compile", "count")
  \/ finish_compile(c)
  \/ set_stop(c)
  \/ log_msg(c, "log_debug", "lock_debug", "debug")
  \/ goes_on(c, "debug", "log_refactor")
  \/ log_msg(c, "log_refactor", "lock_refactor", "loop")
  \/ next_round(c)

(* The steps that say what is to be written, and that have written it.      *)
begins(c) ==
  \/ \E served \in Coders : reserve_pair(c, served)
  \/ log_line(c, "lock_debug", "print_debug", "debug")
  \/ log_line(c, "lock_refactor", "print_refactor", "refactor")

ends(t) ==
  \/ t \in Coders /\ logged(t, "print_group", "dispatch")
  \/ t \in Coders /\ logged(t, "print_debug", "debug")
  \/ t \in Coders /\ logged(t, "print_refactor", "loop")
  \/ t = Monitor /\ logged(t, "print_burnout", "exit")

monitoring == watch \/ scan_burnouts \/ burnout_too_late

LEMMA StepCases ==
  ASSUME [Next]_vars
  PROVE  \/ Tick \/ UNCHANGED vars
         \/ \E c \in Coders : asking(c) \/ going_on(c)
         \/ \E c \in Coders : begins(c)
         \/ \E c \in Coders : log_reservation(c)
         \/ \E t \in Threads : ends(t)
         \/ monitoring
         \/ stop_for_burnout
         \/ \E t \in Threads : read_clock(t)
         \/ \E t \in Threads : write(t)
BY DEF Next, coder_step, monitor_step, prints, asking, going_on, begins, ends,
       monitoring, Threads

(* What a step does to the places and the locks, group by group.            *)
move_of(t) == moves(t) /\ locks_state(t) /\ locks_log(t)

LEMMA CoderMoves ==
  ASSUME LogTypes, NEW c \in Coders,
         asking(c) \/ going_on(c) \/ begins(c) \/ log_reservation(c)
  PROVE  move_of(c) /\ pc'[c] \in CoderPoints
<1>0. pc \in [Threads -> CoderPoints \cup MonitorPoints]
  BY DEF LogTypes
<1> USE DEF move_of, moves, locks_state, locks_log, move, StatePoints,
            Printing, CoderPoints, Threads
<1>1. CASE asking(c)
  BY <1>0, <1>1 DEF asking, acquire, give_up, dispatch, dispatched, wake, lock_state,
                    unlock_state, lock_vars
<1>2. CASE going_on(c)
  BY <1>0, <1>2 DEF going_on, goes_on, finish_compile, set_stop, log_msg, next_round,
                    lock_and_unlock, lock_state, lock_vars
<1>3. CASE begins(c)
  BY <1>0, <1>3 DEF begins, reserve_pair, log_line, hand_over, lock_vars
<1>4. CASE log_reservation(c)
  BY <1>0, <1>4 DEF log_reservation, lock_log
<1> QED
  BY <1>1, <1>2, <1>3, <1>4

LEMMA MonitorMoves ==
  ASSUME LogTypes, monitoring \/ stop_for_burnout
  PROVE  move_of(Monitor) /\ pc'[Monitor] \in MonitorPoints
<1>0. pc \in [Threads -> CoderPoints \cup MonitorPoints]
  BY DEF LogTypes
<1> QED
  BY <1>0
     DEF move_of, moves, locks_state, locks_log, move, StatePoints, Printing,
         MonitorPoints, Threads, monitoring, watch, scan_burnouts, burnout_too_late,
         stop_for_burnout, lock_and_unlock, lock_state, unlock_state, lock_vars

LEMMA EndMoves ==
  ASSUME LogTypes, NEW t \in Threads, ends(t)
  PROVE  /\ move_of(t)
         /\ t \in Coders => pc'[t] \in CoderPoints
         /\ t = Monitor => pc'[t] \in MonitorPoints
<1>0. pc \in [Threads -> CoderPoints \cup MonitorPoints]
  BY DEF LogTypes
<1> QED
  BY <1>0, LoggingArgs
     DEF move_of, moves, locks_state, locks_log, move, StatePoints, Printing,
         CoderPoints, MonitorPoints, Threads, ends, logged, unlock_log

(* A step that moves no thread. *)
still == UNCHANGED <<pc, lock_vars>>

LEMMA SomebodyMoves ==
  ASSUME LogTypes, [Next]_vars
  PROVE  \/ still
         \/ \E c \in Coders : move_of(c) /\ pc'[c] \in CoderPoints
         \/ move_of(Monitor) /\ pc'[Monitor] \in MonitorPoints
<1>1. CASE Tick \/ UNCHANGED vars
  BY <1>1 DEF still, Tick, vars
<1>2. CASE \E t \in Threads : read_clock(t) \/ write(t)
  BY <1>2 DEF still, read_clock, write
<1>3. CASE \E t \in Threads : ends(t)
  BY <1>3, EndMoves DEF Threads
<1> QED
  BY <1>1, <1>2, <1>3, CoderMoves, MonitorMoves, StepCases

LEMMA PlaceStep ==
  ASSUME LogTypes, [Next]_vars
  PROVE  /\ pc' \in [Threads -> CoderPoints \cup MonitorPoints]
         /\ \A c \in Coders : pc'[c] \in CoderPoints
         /\ pc'[Monitor] \in MonitorPoints
         /\ state_mutex' \in Threads \cup {Free}
         /\ log_mutex' \in Threads \cup {Free}
<1>0. /\ pc \in [Threads -> CoderPoints \cup MonitorPoints]
      /\ \A c \in Coders : pc[c] \in CoderPoints
      /\ pc[Monitor] \in MonitorPoints
      /\ state_mutex \in Threads \cup {Free}
      /\ log_mutex \in Threads \cup {Free}
  BY DEF LogTypes, TypeOK
<1>1. CASE still
  BY <1>0, <1>1 DEF still, lock_vars
<1>2. CASE \E c \in Coders : move_of(c) /\ pc'[c] \in CoderPoints
  BY <1>0, <1>2, LoggingArgs DEF Threads, move_of, moves, locks_state, locks_log
<1>3. CASE move_of(Monitor) /\ pc'[Monitor] \in MonitorPoints
  BY <1>0, <1>3, LoggingArgs DEF Threads, move_of, moves, locks_state, locks_log
<1> QED
  BY <1>1, <1>2, <1>3, SomebodyMoves

LEMMA LockStep ==
  ASSUME LogTypes, LockInv, [Next]_vars
  PROVE  LockInv'
<1>1. CASE still
  BY <1>1 DEF still, lock_vars, LockInv
<1>2. ASSUME NEW t \in Threads, move_of(t)
      PROVE  LockInv'
  <2>1. Free \notin Threads /\ pc' = [pc EXCEPT ![t] = pc'[t]]
    BY <1>2, LoggingArgs DEF Threads, move_of, moves
  <2>2. \A u \in Threads : u # t => pc'[u] = pc[u]
    BY <2>1 DEF LogTypes
  <2>3. ASSUME NEW u \in Threads
        PROVE  pc'[u] \in StatePoints <=> state_mutex' = u
    BY <1>2, <2>1, <2>2 DEF LockInv, move_of, locks_state
  <2>4. ASSUME NEW u \in Threads
        PROVE  pc'[u] \in Printing <=> log_mutex' = u
    BY <1>2, <2>1, <2>2 DEF LockInv, move_of, locks_log
  <2> QED
    BY <2>3, <2>4 DEF LockInv
<1> QED
  BY <1>1, <1>2, SomebodyMoves DEF Threads

-----------------------------------------------------------------------------
(* What a step does to the log. *)

(* The last three lines with one more behind them. *)
roll(s, x) == IF Len(Append(s, x)) > 3 THEN Tail(Append(s, x)) ELSE Append(s, x)

LEMMA TailOfFour ==
  ASSUME NEW S, NEW a \in Seq(S), Len(a) = 4
  PROVE  /\ Tail(a) \in Seq(S) /\ Len(Tail(a)) = 3
         /\ \A i \in 1 .. 3 : Tail(a)[i] = a[i + 1]
<1>1. a # <<>>
  BY EmptySeq
<1>2. Tail(a) \in Seq(S) /\ Len(Tail(a)) = 3
  BY <1>1, HeadTailProperties
<1>3. \A i \in 1 .. Len(Tail(a)) : Tail(a)[i] = a[i + 1]
  BY <1>1, HeadTailProperties
<1> QED
  BY <1>2, <1>3

(* r is the last three of s and of x behind it. *)
behind(r, s, x) ==
  \E m \in 0 .. 3, n \in 1 .. 3 :
    /\ n = IF m = 3 THEN 3 ELSE m + 1
    /\ Len(s) = m /\ DOMAIN s = 1 .. m
    /\ Len(r) = n /\ DOMAIN r = 1 .. n
    /\ r[n] = x
    /\ \A i \in 1 .. n - 1 : r[i] = s[i + m + 1 - n]

LEMMA RollProperties ==
  ASSUME NEW S, NEW s \in Seq(S), Len(s) \in 0 .. 3, NEW x \in S
  PROVE  /\ roll(s, x) \in Seq(S) /\ Len(roll(s, x)) \in 1 .. 3
         /\ behind(roll(s, x), s, x)
<1>1. PICK a : a = Append(s, x)
  OBVIOUS
<1>2. PICK m \in 0 .. 3 : Len(s) = m
  OBVIOUS
<1>3. /\ DOMAIN s = 1 .. m
      /\ a \in Seq(S) /\ Len(a) = m + 1 /\ a[m + 1] = x
      /\ \A i \in 1 .. m : a[i] = s[i]
  BY <1>1, <1>2, AppendProperties, LenProperties
<1>4. CASE m = 3
  <2>1. Len(a) = 4
    BY <1>3, <1>4
  <2>2. PICK r : r = Tail(a)
    OBVIOUS
  <2>3. roll(s, x) = r
    BY <1>1, <2>1, <2>2 DEF roll
  <2>4. /\ r \in Seq(S) /\ Len(r) = 3
        /\ \A i \in 1 .. 3 : r[i] = a[i + 1]
    BY <1>3, <2>1, <2>2, TailOfFour
  <2>5. DOMAIN r = 1 .. 3
    BY <2>4, LenProperties
  <2>6. behind(r, s, x)
    BY <1>2, <1>3, <1>4, <2>4, <2>5 DEF behind
  <2>7. Len(r) \in 1 .. 3
    BY <2>4
  <2> QED
    BY <2>3, <2>4, <2>6, <2>7
<1>5. CASE m # 3
  <2>1. PICK n \in 1 .. 3 : n = m + 1 /\ Len(a) = n /\ DOMAIN a = 1 .. n
    BY <1>3, <1>5, LenProperties
  <2>2. roll(s, x) = a
    BY <1>1, <2>1 DEF roll
  <2>3. behind(a, s, x)
    BY <1>2, <1>3, <1>5, <2>1 DEF behind
  <2>4. Len(a) \in 1 .. 3
    BY <2>1
  <2> QED
    BY <1>3, <2>2, <2>3, <2>4
<1> QED
  BY <1>4, <1>5

LEMMA SmallSequences ==
  ASSUME NEW S, NEW a \in S, NEW b \in S
  PROVE  /\ <<>> \in Seq(S) /\ <<b>> \in Seq(S)
         /\ <<a, b>> \in Seq(S) /\ <<a, a, b>> \in Seq(S)
         /\ <<b>> # <<>> /\ <<a, b>> # <<>> /\ <<a, a, b>> # <<>>
         /\ <<b>>[1] = b /\ <<a, b>>[1] = a /\ <<a, a, b>>[1] = a
         /\ Tail(<<b>>) = <<>> /\ Tail(<<a, b>>) = <<b>>
         /\ Tail(<<a, a, b>>) = <<a, b>>
OBVIOUS

LEMMA Remaining ==
  ASSUME NEW s \in Coders
  PROVE  /\ remaining(s, 0) = <<>>
         /\ remaining(s, 3) \in Seq(Coders \X Messages)
         /\ remaining(s, 3) # <<>> /\ remaining(s, 3)[1] = <<s, "fork">>
         /\ \A n \in 1 .. 3 :
              /\ remaining(s, n) \in Seq(Coders \X Messages)
              /\ remaining(s, n) # <<>>
              /\ remaining(s, n)[1] = <<s, IF n = 1 THEN "compile" ELSE "fork">>
              /\ Tail(remaining(s, n)) = remaining(s, n - 1)
<1> DEFINE fork == <<s, "fork">>  compile == <<s, "compile">>
           none == <<>>  one == <<compile>>  two == <<fork, compile>>
           three == <<fork, fork, compile>>
<1>1. fork \in Coders \X Messages /\ compile \in Coders \X Messages
  BY DEF Messages
<1>2. /\ remaining(s, 3) = three /\ remaining(s, 2) = two
      /\ remaining(s, 1) = one /\ remaining(s, 0) = none
  BY DEF remaining
<1> HIDE DEF fork, compile
<1>3. /\ {one, two, three} \subseteq Seq(Coders \X Messages)
      /\ none \notin {one, two, three}
      /\ one[1] = compile /\ two[1] = fork /\ three[1] = fork
      /\ Tail(one) = none /\ Tail(two) = one /\ Tail(three) = two
  BY <1>1, SmallSequences
<1> HIDE DEF none, one, two, three
<1>4. ASSUME NEW n \in 1 .. 3
      PROVE  /\ remaining(s, n) \in Seq(Coders \X Messages)
             /\ remaining(s, n) # none
             /\ remaining(s, n)[1] = IF n = 1 THEN compile ELSE fork
             /\ Tail(remaining(s, n)) = remaining(s, n - 1)
  <2>1. \/ n = 1 /\ n - 1 = 0
        \/ n = 2 /\ n - 1 = 1
        \/ n = 3 /\ n - 1 = 2
    OBVIOUS
  <2> QED
    BY <1>2, <1>3, <2>1
<1>5. /\ remaining(s, 3) \in Seq(Coders \X Messages)
      /\ remaining(s, 3) # none /\ remaining(s, 3)[1] = fork
  BY <1>2, <1>3
<1> QED
  BY <1>2, <1>4, <1>5 DEF none, fork, compile

first_line(t) == [id |-> job[t][1][1], msg |-> job[t][1][2], time |-> stamp[t]]

LEMMA Writing ==
  ASSUME LogTypes, TimesInv, NEW t \in Threads, write(t)
  PROVE  /\ job[t] # <<>> /\ job[t][1] \in Coders \X Messages
         /\ first_line(t) \in Lines
         /\ stdout' = roll(stdout, first_line(t))
         /\ stdout' \in Seq(Lines) /\ Len(stdout') \in 1 .. 3
         /\ behind(stdout', stdout, first_line(t))
         /\ job' = [job EXCEPT ![t] = Tail(@)]
         /\ stamp' = [stamp EXCEPT ![t] = 0]
         /\ UNCHANGED <<now, simulation_stop, lock_vars, pc, request_vars, compiles_done>>
<1>1. stamp[t] \in 1 .. MaxTime /\ job[t] # <<>>
  BY DEF LogTypes, TypeOK, write, TimesInv
<1>2. job[t] \in Seq(Coders \X Messages)
  BY DEF LogTypes, TypeOK
<1>3. job[t][1] \in Coders \X Messages
  BY <1>1, <1>2, EmptySeq, ElementOfSeq
<1>4. first_line(t) \in Lines
  BY <1>1, <1>3 DEF first_line, Lines
<1>5. stdout' = roll(stdout, first_line(t))
  BY DEF write, roll, first_line
<1>6. /\ stdout' \in Seq(Lines) /\ Len(stdout') \in 1 .. 3
      /\ behind(stdout', stdout, first_line(t))
  BY <1>4, <1>5, RollProperties DEF LogTypes, TypeOK
<1> QED
  BY <1>1, <1>3, <1>4, <1>5, <1>6 DEF write, sim_vars

(* The steps that leave the log and everything that is to be written.       *)
quiet == UNCHANGED <<now, print_vars>>

LEMMA QuietSteps ==
  ASSUME \/ UNCHANGED vars
         \/ \E c \in Coders : asking(c) \/ going_on(c) \/ log_reservation(c)
         \/ \E t \in Threads : ends(t)
         \/ monitoring
  PROVE  quiet
BY DEF quiet, vars, asking, acquire, give_up, dispatch, dispatched, wake, going_on,
       goes_on, finish_compile, set_stop, log_msg, next_round, log_reservation, ends,
       logged, monitoring, watch, scan_burnouts, burnout_too_late, silent, passes

(* Every coder's job is a sequence of lines.                                *)
LEMMA Beginning ==
  ASSUME LogTypes, NEW t \in Threads, NEW todo \in Seq(Coders \X Messages),
         prints_next(t, todo)
  PROVE  /\ job' \in [Threads -> Seq(Coders \X Messages)]
         /\ job'[t] = todo
         /\ \A u \in Threads : u # t => job'[u] = job[u]
         /\ UNCHANGED <<now, stamp, stdout, lines>>
BY DEF LogTypes, TypeOK, prints_next

LEMMA WhatBegins ==
  ASSUME NEW c \in Coders, begins(c)
  PROVE  /\ UNCHANGED <<simulation_stop, compiles_done>>
         /\ \/ /\ move(c, "dispatch", "lock_group")
               /\ UNCHANGED lock_vars
               /\ \E served \in Coders :
                    /\ served \in waiting
                    /\ waiting' = waiting \ {served}
                    /\ granted' = granted \cup {served}
                    /\ prints_next(c, remaining(served, 3))
            \/ /\ move(c, "lock_debug", "print_debug")
               /\ UNCHANGED request_vars
               /\ prints_next(c, <<<<c, "debug">>>>)
            \/ /\ move(c, "lock_refactor", "print_refactor")
               /\ UNCHANGED request_vars
               /\ prints_next(c, <<<<c, "refactor">>>>)
<1>1. ASSUME NEW served \in Coders, reserve_pair(c, served)
      PROVE  prints_next(c, remaining(served, 3))
  <2>1. remaining(served, 3) =
          <<<<served, "fork">>, <<served, "fork">>, <<served, "compile">>>>
    BY DEF remaining
  <2> QED
    BY <1>1, <2>1, Zenon DEF reserve_pair
<1> QED
  BY <1>1, Zenon DEF begins, reserve_pair, asks, log_line, hand_over, sim_vars

LEMMA BurnoutBegins ==
  ASSUME stop_for_burnout
  PROVE  /\ UNCHANGED <<request_vars, compiles_done>>
         /\ ~simulation_stop /\ simulation_stop'
         /\ move(Monitor, "lock_burnout", "print_burnout")
         /\ log_mutex = Free
         /\ \E c \in Coders : prints_next(Monitor, <<<<c, "burnout">>>>)
BY DEF stop_for_burnout

LEMMA OneLine ==
  ASSUME NEW c \in Coders, NEW m \in Messages
  PROVE  /\ <<<<c, m>>>> \in Seq(Coders \X Messages)
         /\ <<<<c, m>>>> # <<>>
         /\ <<<<c, m>>>>[1] = <<c, m>>
         /\ Tail(<<<<c, m>>>>) = <<>>
BY SmallSequences

-----------------------------------------------------------------------------
(* The types. *)

(* The log and the jobs. *)
LEMMA LogTypeStep ==
  ASSUME LogTypes, TimesInv, [Next]_vars
  PROVE  /\ now' \in 1 .. MaxTime
         /\ job' \in [Threads -> Seq(Coders \X Messages)]
         /\ stamp' \in [Threads -> 0 .. MaxTime]
         /\ stdout' \in Seq(Lines)
         /\ Len(stdout') \in 0 .. 3
         /\ lines' \in [Coders -> 0 .. 4]
<1>0. /\ now \in 1 .. MaxTime
      /\ job \in [Threads -> Seq(Coders \X Messages)]
      /\ stamp \in [Threads -> 0 .. MaxTime]
      /\ stdout \in Seq(Lines) /\ Len(stdout) \in 0 .. 3
      /\ lines \in [Coders -> 0 .. 4]
  BY DEF LogTypes, TypeOK
<1>1. CASE quiet
  BY <1>0, <1>1 DEF quiet, print_vars
<1>2. CASE Tick
  BY <1>0, <1>2, LoggingArgs DEF Tick, print_vars
<1>3. ASSUME NEW t \in Threads, NEW todo \in Seq(Coders \X Messages),
             prints_next(t, todo)
      PROVE  /\ job' \in [Threads -> Seq(Coders \X Messages)]
             /\ UNCHANGED <<now, stamp, stdout, lines>>
  BY <1>3, Beginning
<1>4. CASE \E c \in Coders : begins(c)
  <2>1. PICK c \in Coders : begins(c)
    BY <1>4
  <2>2. /\ \A served \in Coders : remaining(served, 3) \in Seq(Coders \X Messages)
        /\ \A m \in Messages : <<<<c, m>>>> \in Seq(Coders \X Messages)
    BY Remaining, OneLine, Zenon
  <2>3. "debug" \in Messages /\ "refactor" \in Messages /\ c \in Threads
    BY DEF Messages, Threads
  <2> QED
    BY <1>0, <1>3, <2>1, <2>2, <2>3, WhatBegins, Zenon
<1>5. CASE stop_for_burnout
  <2>1. "burnout" \in Messages /\ Monitor \in Threads
    BY DEF Messages, Threads
  <2> QED
    BY <1>0, <1>3, <1>5, <2>1, BurnoutBegins, OneLine, Zenon
<1>6. CASE \E t \in Threads : read_clock(t)
  BY <1>0, <1>6 DEF read_clock
<1>7. ASSUME NEW t \in Threads, write(t)
      PROVE  /\ job' \in [Threads -> Seq(Coders \X Messages)]
             /\ stamp' \in [Threads -> 0 .. MaxTime]
             /\ stdout' \in Seq(Lines) /\ Len(stdout') \in 0 .. 3
             /\ lines' \in [Coders -> 0 .. 4]
             /\ UNCHANGED now
  <2>1. /\ stdout' \in Seq(Lines) /\ Len(stdout') \in 1 .. 3 /\ UNCHANGED now
        /\ job[t][1] \in Coders \X Messages
        /\ stamp' = [stamp EXCEPT ![t] = 0]
        /\ job[t] # <<>> /\ job' = [job EXCEPT ![t] = Tail(@)]
    BY <1>7, Writing
  <2>2. Tail(job[t]) \in Seq(Coders \X Messages)
    BY <1>0, <2>1, HeadTailProperties
  <2>3. Len(stdout') \in 0 .. 3
    BY <2>1
  <2>4. \A n \in 0 .. 4 : (n + 1) % 5 \in 0 .. 4
    OBVIOUS
  <2>5. lines' \in [Coders -> 0 .. 4]
    BY <1>0, <1>7, <2>4 DEF write
  <2>6. job' \in [Threads -> Seq(Coders \X Messages)]
    BY <1>0, <2>1, <2>2
  <2>7. stamp' \in [Threads -> 0 .. MaxTime]
    BY <1>0, <2>1, LoggingArgs
  <2> QED
    BY <2>1, <2>3, <2>5, <2>6, <2>7
<1> QED
  BY <1>0, <1>1, <1>2, <1>4, <1>5, <1>6, <1>7, StepCases, QuietSteps, Zenon

(* The stop, the requests and the counts of compiles.                       *)
LEMMA SimTypeStep ==
  ASSUME LogTypes, CountInv, [Next]_vars
  PROVE  /\ simulation_stop' \in BOOLEAN
         /\ waiting' \in SUBSET Coders
         /\ granted' \in SUBSET Coders
         /\ compiles_done' \in [Coders -> 0 .. number_of_compiles_required]
         /\ CountInv'
<1>0. /\ simulation_stop \in BOOLEAN
      /\ waiting \in SUBSET Coders
      /\ granted \in SUBSET Coders
      /\ compiles_done \in [Coders -> 0 .. number_of_compiles_required]
      /\ pc \in [Threads -> CoderPoints \cup MonitorPoints]
  BY DEF LogTypes, TypeOK
<1>1. CASE \/ UNCHANGED vars \/ Tick
           \/ \E t \in Threads : read_clock(t)
           \/ \E t \in Threads : write(t)
  BY <1>0, <1>1 DEF CountInv, vars, sim_vars, request_vars, Tick, read_clock, write
<1>2. CASE \E c \in Coders : begins(c) \/ log_reservation(c)
  <2>1. PICK c \in Coders : begins(c) \/ log_reservation(c)
    BY <1>2
  <2>2. /\ simulation_stop' \in BOOLEAN
        /\ waiting' \in SUBSET Coders /\ granted' \in SUBSET Coders
        /\ UNCHANGED compiles_done
        /\ \/ move(c, "dispatch", "lock_group")
           \/ move(c, "lock_debug", "print_debug")
           \/ move(c, "lock_refactor", "print_refactor")
           \/ move(c, "lock_group", "print_group")
    BY <1>0, <2>1, WhatBegins DEF log_reservation, passes, sim_vars, request_vars
  <2> QED
    BY <1>0, <2>2 DEF CountInv, move, InAcquire, Threads
<1>3. CASE monitoring \/ stop_for_burnout
  BY <1>0, <1>3, LoggingArgs
     DEF CountInv, monitoring, watch, scan_burnouts, burnout_too_late, stop_for_burnout,
         move, passes, sim_vars, request_vars, Threads
<1>4. CASE \E t \in Threads : ends(t)
  BY <1>0, <1>4, LoggingArgs
     DEF CountInv, ends, logged, move, passes, sim_vars, request_vars, Threads, InAcquire
<1>5. CASE \E c \in Coders : asking(c)
  BY <1>0, <1>5
     DEF CountInv, asking, acquire, give_up, dispatch, dispatched, wake, move, passes,
         sim_vars, request_vars, Threads, InAcquire
<1>6. CASE \E c \in Coders : going_on(c)
  <2>1. PICK c \in Coders : going_on(c)
    BY <1>6
  <2> USE <1>0, LoggingArgs DEF CountInv, move, sim_vars, request_vars, Threads, InAcquire
  <2>2. CASE finish_compile(c)
    <3>1. /\ compiles_done' = [compiles_done EXCEPT ![c] = @ + 1]
          /\ pc[c] = "count" /\ pc'[c] \in {"set_stop", "log_debug"}
          /\ \A u \in Coders : u # c => pc'[u] = pc[u]
          /\ UNCHANGED <<simulation_stop, request_vars>>
      BY <2>2 DEF finish_compile
    <3>2. compiles_done[c] < number_of_compiles_required
      BY <3>1
    <3>3. compiles_done' \in [Coders -> 0 .. number_of_compiles_required]
      BY <3>1, <3>2
    <3> QED
      BY <3>1, <3>3
  <2>3. CASE next_round(c)
    BY <2>3 DEF next_round, coder_is_done, passes
  <2>4. CASE set_stop(c)
    BY <2>4 DEF set_stop
  <2>5. CASE goes_on(c, "compile", "count") \/ goes_on(c, "debug", "log_refactor")
    BY <2>5 DEF goes_on, passes
  <2>6. CASE \/ log_msg(c, "log_debug", "lock_debug", "debug")
             \/ log_msg(c, "log_refactor", "lock_refactor", "loop")
    BY <2>6 DEF log_msg, passes
  <2> QED
    BY <2>1, <2>2, <2>3, <2>4, <2>5, <2>6 DEF going_on
<1> QED
  BY <1>1, <1>2, <1>3, <1>4, <1>5, <1>6, StepCases

LEMMA TypeStep ==
  ASSUME LogTypes, CountInv, TimesInv, [Next]_vars
  PROVE  LogTypes'
BY PlaceStep, LogTypeStep, SimTypeStep DEF LogTypes, TypeOK

-----------------------------------------------------------------------------
(* Times. *)

(* A thread that moves has no line stamped. *)
LEMMA MoverHasNoStamp ==
  ASSUME LogTypes, TimesInv, NEW t \in Threads,
         \/ t \in Coders /\ (asking(t) \/ going_on(t) \/ begins(t) \/ log_reservation(t))
         \/ t = Monitor /\ (monitoring \/ stop_for_burnout)
         \/ ends(t)
  PROVE  stamp[t] = 0 /\ moves(t)
<1>1. \/ pc[t] \notin Printing
      \/ job[t] = <<>>
  BY DEF asking, acquire, give_up, dispatch, dispatched, wake, going_on, goes_on,
         finish_compile, set_stop, log_msg, next_round, begins, reserve_pair, log_line,
         hand_over, log_reservation, monitoring, watch, scan_burnouts, burnout_too_late,
         stop_for_burnout, ends, logged, move, Printing
<1>2. stamp[t] = 0
  BY <1>1 DEF TimesInv
<1>3. moves(t)
  BY CoderMoves, MonitorMoves, EndMoves DEF move_of
<1> QED
  BY <1>2, <1>3

LEMMA MoveKeepsTimes ==
  ASSUME LogTypes, TimesInv, TimesInOrder, NEW t \in Threads, moves(t), stamp[t] = 0,
         UNCHANGED <<now, stamp, stdout>>,
         \A u \in Threads : u # t => job'[u] = job[u]
  PROVE  TimesInv' /\ TimesInOrder'
<1>1. \A u \in Threads : u # t => pc'[u] = pc[u]
  BY DEF LogTypes, moves
<1> QED
  BY <1>1 DEF TimesInv, TimesInOrder

LEMMA WriteKeepsTimes ==
  ASSUME LogTypes, LockInv, TimesInv, TimesInOrder, NEW t \in Threads, write(t)
  PROVE  TimesInv' /\ TimesInOrder'
<1>1. /\ behind(stdout', stdout, first_line(t))
      /\ stamp' = [stamp EXCEPT ![t] = 0]
      /\ UNCHANGED <<now, pc>>
  BY Writing
<1>2. /\ pc[t] \in Printing /\ stamp[t] <= now /\ stamp[t] \in 0 .. MaxTime
      /\ \A i \in DOMAIN stdout : stdout[i].time <= stamp[t]
  BY DEF TimesInv, write, LogTypes, TypeOK
<1>3. \A u \in Threads : stamp'[u] = 0
  BY <1>1, <1>2 DEF LogTypes, TypeOK, TimesInv, LockInv
<1>4. PICK m \in 0 .. 3, n \in 1 .. 3 :
        /\ n = IF m = 3 THEN 3 ELSE m + 1
        /\ Len(stdout) = m /\ DOMAIN stdout = 1 .. m
        /\ Len(stdout') = n /\ DOMAIN stdout' = 1 .. n
        /\ stdout'[n] = first_line(t)
        /\ \A i \in 1 .. n - 1 : stdout'[i] = stdout[i + m + 1 - n]
  BY <1>1 DEF behind
<1>5. stdout'[n].time = stamp[t]
  BY <1>4 DEF first_line
<1>6. \A i \in 1 .. m : stdout[i].time <= stamp[t]
  BY <1>2, <1>4
<1>7. \A i \in 1 .. m : stdout[i].time <= now
  BY <1>4 DEF TimesInv
<1>8. \A i \in 1 .. n : stdout'[i].time <= now
  BY <1>2, <1>4, <1>5, <1>7
<1>9. \A i \in 2 .. m : stdout[i - 1].time <= stdout[i].time
  BY <1>4 DEF TimesInOrder
<1>10. ASSUME NEW i \in 2 .. n
       PROVE  stdout'[i - 1].time <= stdout'[i].time
  <2>1. i - 1 \in 1 .. n - 1 /\ stdout'[i - 1] = stdout[i + m - n]
    BY <1>4
  <2>2. CASE i = n
    BY <1>4, <1>5, <1>6, <2>1, <2>2
  <2>3. CASE i # n
    <3>1. i \in 1 .. n - 1 /\ i + m + 1 - n \in 2 .. m
      BY <1>4, <2>3
    <3>2. stdout'[i] = stdout[i + m + 1 - n]
      BY <1>4, <3>1
    <3> QED
      BY <1>9, <2>1, <3>1, <3>2
  <2> QED
    BY <2>2, <2>3
<1>11. TimesInOrder'
  BY <1>4, <1>10 DEF TimesInOrder
<1>12. TimesInv'
  BY <1>1, <1>3, <1>4, <1>8 DEF TimesInv
<1> QED
  BY <1>11, <1>12

LEMMA TimesStep ==
  ASSUME LogTypes, LockInv, TimesInv, TimesInOrder, [Next]_vars
  PROVE  TimesInv' /\ TimesInOrder'
<1>1. CASE UNCHANGED vars
  BY <1>1 DEF vars, print_vars, TimesInv, TimesInOrder
<1>2. CASE Tick
  <2>1. now' = now + 1 /\ now \in Nat /\ UNCHANGED <<pc, job, stamp, stdout>>
    BY <1>2 DEF Tick, print_vars, LogTypes, TypeOK
  <2>2. \A i \in DOMAIN stdout : stdout[i] \in Lines
    BY ElementOfSeq, LenProperties DEF LogTypes, TypeOK
  <2>3. \A i \in DOMAIN stdout : stdout[i].time \in Nat
    BY <2>2 DEF Lines
  <2>4. \A t \in Threads : stamp[t] \in Nat
    BY DEF LogTypes, TypeOK
  <2> QED
    BY <2>1, <2>3, <2>4 DEF TimesInv, TimesInOrder
<1>3. ASSUME NEW t \in Threads,
             stamp[t] = 0, moves(t), UNCHANGED <<now, stamp, stdout>>,
             \A u \in Threads : u # t => job'[u] = job[u]
      PROVE  TimesInv' /\ TimesInOrder'
  BY <1>3, MoveKeepsTimes
<1>4. CASE \/ \E c \in Coders : asking(c) \/ going_on(c) \/ log_reservation(c)
           \/ \E t \in Threads : ends(t)
           \/ monitoring
  BY <1>3, <1>4, QuietSteps, MoverHasNoStamp DEF quiet, print_vars, Threads
<1>5. CASE \E c \in Coders : begins(c)
  <2>1. PICK c \in Coders : begins(c)
    BY <1>5
  <2>2. c \in Threads /\ stamp[c] = 0 /\ moves(c)
    BY <2>1, MoverHasNoStamp DEF Threads
  <2>3. \E todo : prints_next(c, todo)
    BY <2>1, WhatBegins
  <2>4. UNCHANGED <<now, stamp, stdout>> /\ \A u \in Threads : u # c => job'[u] = job[u]
    BY <2>3 DEF prints_next, LogTypes, TypeOK
  <2> QED
    BY <1>3, <2>2, <2>4
<1>6. CASE stop_for_burnout
  <2>1. Monitor \in Threads /\ stamp[Monitor] = 0 /\ moves(Monitor)
    BY <1>6, MoverHasNoStamp DEF Threads
  <2>2. \E todo : prints_next(Monitor, todo)
    BY <1>6, BurnoutBegins
  <2>3. UNCHANGED <<now, stamp, stdout>> /\ \A u \in Threads : u # Monitor => job'[u] = job[u]
    BY <2>2 DEF prints_next, LogTypes, TypeOK
  <2> QED
    BY <1>3, <2>1, <2>3
<1>7. CASE \E t \in Threads : read_clock(t)
  <2>1. PICK t \in Threads : read_clock(t)
    BY <1>7
  <2>2. now \in Nat /\ stamp \in [Threads -> 0 .. MaxTime]
    BY DEF LogTypes, TypeOK
  <2> QED
    BY <2>1, <2>2 DEF read_clock, TimesInv, TimesInOrder
<1> QED
  BY <1>1, <1>2, <1>4, <1>5, <1>6, <1>7, WriteKeepsTimes, StepCases

-----------------------------------------------------------------------------
(* What threads have to write. *)

LEMMA JobStep ==
  ASSUME LogTypes, LockInv, TimesInv, JobInv, [Next]_vars
  PROVE  JobInv'
<1>0. /\ pc \in [Threads -> CoderPoints \cup MonitorPoints]
      /\ job \in [Threads -> Seq(Coders \X Messages)]
      /\ Monitor \in Threads /\ Monitor \notin Coders /\ Coders \subseteq Threads
  BY LoggingArgs DEF LogTypes, TypeOK, Threads
<1>1. CASE UNCHANGED <<pc, job>>
  BY <1>1, Zenon DEF JobInv
<1>2. ASSUME NEW t \in Threads, moves(t), UNCHANGED job,
             \/ pc'[t] = "print_group"
             \/ pc'[t] \notin Printing \cup InGroup /\ job[t] = <<>>
      PROVE  JobInv'
  <2>1. \A u \in Threads : u # t => pc'[u] = pc[u]
    BY <1>0, <1>2 DEF moves
  <2> QED
    BY <1>2, <2>1 DEF JobInv, Printing, InGroup
<1>3. CASE \E c \in Coders : asking(c) \/ going_on(c) \/ log_reservation(c)
  <2>1. PICK c \in Coders : asking(c) \/ going_on(c) \/ log_reservation(c)
    BY <1>3
  <2>2. c \in Threads /\ moves(c) /\ UNCHANGED job
    BY <1>0, <2>1, MoverHasNoStamp, QuietSteps DEF quiet, print_vars
  <2>3. \/ pc'[c] = "print_group"
        \/ pc'[c] \notin Printing \cup InGroup /\ pc[c] \notin Printing \cup InGroup
    BY <1>0, <2>1
       DEF asking, acquire, give_up, dispatch, dispatched, wake, going_on, goes_on,
           finish_compile, set_stop, log_msg, next_round, log_reservation, move,
           Printing, InGroup
  <2>4. \/ pc'[c] = "print_group"
        \/ pc'[c] \notin Printing \cup InGroup /\ job[c] = <<>>
    BY <2>2, <2>3 DEF JobInv
  <2> QED
    BY <1>2, <2>2, <2>4
<1>4. CASE monitoring
  <2>1. moves(Monitor) /\ UNCHANGED job
    BY <1>0, <1>4, MoverHasNoStamp, QuietSteps DEF quiet, print_vars
  <2>2. pc'[Monitor] \notin Printing \cup InGroup /\ pc[Monitor] \notin Printing \cup InGroup
    BY <1>0, <1>4
       DEF monitoring, watch, scan_burnouts, burnout_too_late, move, Printing, InGroup
  <2> QED
    BY <1>0, <1>2, <2>1, <2>2 DEF JobInv
<1>5. CASE \E t \in Threads : ends(t)
  <2>1. PICK t \in Threads : ends(t)
    BY <1>5
  <2>2. moves(t) /\ UNCHANGED job
    BY <2>1, MoverHasNoStamp, QuietSteps DEF quiet, print_vars
  <2>3. job[t] = <<>> /\ pc'[t] \notin Printing \cup InGroup
    BY <1>0, <2>1 DEF ends, logged, move, Printing, InGroup
  <2> QED
    BY <1>2, <2>2, <2>3
<1>6. ASSUME NEW t \in Threads, moves(t), NEW todo, prints_next(t, todo),
             \/ pc'[t] = "lock_group"
             \/ pc'[t] = "print_debug" /\ todo = <<<<t, "debug">>>>
             \/ pc'[t] = "print_refactor" /\ todo = <<<<t, "refactor">>>>
             \/ pc'[t] = "print_burnout" /\ \E c \in Coders : todo = <<<<c, "burnout">>>>
      PROVE  JobInv'
  <2>1. /\ \A u \in Threads : u # t => pc'[u] = pc[u] /\ job'[u] = job[u]
        /\ job'[t] = todo
    BY <1>0, <1>6 DEF moves, prints_next
  <2> QED
    BY <1>6, <2>1 DEF JobInv, Printing, InGroup
<1>7. CASE \E c \in Coders : begins(c)
  <2>1. PICK c \in Coders : begins(c)
    BY <1>7
  <2>2. c \in Threads /\ moves(c)
    BY <1>0, <2>1, MoverHasNoStamp
  <2>3. \E todo : /\ prints_next(c, todo)
                  /\ \/ pc'[c] = "lock_group"
                     \/ pc'[c] = "print_debug" /\ todo = <<<<c, "debug">>>>
                     \/ pc'[c] = "print_refactor" /\ todo = <<<<c, "refactor">>>>
    BY <1>0, <2>1, <2>2, WhatBegins DEF move
  <2> QED
    BY <1>6, <2>2, <2>3
<1>8. CASE stop_for_burnout
  <2>1. moves(Monitor) /\ pc'[Monitor] = "print_burnout"
    BY <1>0, <1>8, MoverHasNoStamp, BurnoutBegins DEF move
  <2> QED
    BY <1>0, <1>6, <1>8, <2>1, BurnoutBegins
<1>9. CASE \E t \in Threads : write(t)
  <2>1. PICK t \in Threads : write(t)
    BY <1>9
  <2>2. job[t] # <<>> /\ job' = [job EXCEPT ![t] = Tail(@)] /\ UNCHANGED pc
    BY <2>1, Writing
  <2>3. pc[t] \in Printing
    BY <2>1 DEF write
  <2>4. CASE pc[t] = "print_group"
    BY <1>0, <2>2, <2>4 DEF JobInv, Printing
  <2>5. CASE pc[t] # "print_group"
    <3>1. \E x : job[t] = <<x>>
      BY <2>2, <2>3, <2>5 DEF JobInv, Printing
    <3>2. \A x : Tail(<<x>>) = <<>>
      OBVIOUS
    <3>3. Tail(job[t]) = <<>>
      BY <3>1, <3>2, Zenon
    <3>4. /\ job'[t] = <<>>
          /\ \A u \in Threads : u # t => job'[u] = job[u]
      BY <1>0, <2>2, <3>3
    <3> QED
      BY <2>2, <2>3, <3>4 DEF JobInv, Printing
  <2> QED
    BY <2>4, <2>5
<1> QED
  BY <1>1, <1>3, <1>4, <1>5, <1>7, <1>8, <1>9, StepCases
     DEF Tick, vars, print_vars, read_clock

-----------------------------------------------------------------------------
(* Nothing is written behind a burnout. *)

(* A coder writes no burnout. *)
LEMMA CodersAreAlive ==
  ASSUME LogTypes, TimesInv, JobInv, GroupInv, NEW c \in Coders, write(c)
  PROVE  job[c][1][2] # "burnout" /\ pc[c] \in Talking
<1>1. pc[c] \in {"print_group", "print_debug", "print_refactor"} /\ c \in Threads
  BY DEF write, Printing, LogTypes, CoderPoints, Threads
<1>2. job[c] # <<>>
  BY <1>1, Writing
<1>3. CASE pc[c] = "print_group"
  <2>1. PICK s \in Coders, n \in 0 .. 3 : job[c] = remaining(s, n)
    BY <1>1, <1>3 DEF GroupInv, InGroup
  <2>2. n \in 1 .. 3
    BY <1>2, <2>1, Remaining
  <2>3. job[c][1] = <<s, IF n = 1 THEN "compile" ELSE "fork">>
    BY <2>1, <2>2, Remaining
  <2> QED
    BY <1>3, <2>3 DEF Talking, InGroup
<1>4. CASE pc[c] = "print_debug"
  <2>1. job[c] = <<<<c, "debug">>>>
    BY <1>1, <1>2, <1>4 DEF JobInv
  <2> QED
    BY <1>4, <2>1 DEF Talking
<1>5. CASE pc[c] = "print_refactor"
  <2>1. job[c] = <<<<c, "refactor">>>>
    BY <1>1, <1>2, <1>5 DEF JobInv
  <2> QED
    BY <1>5, <2>1 DEF Talking
<1> QED
  BY <1>1, <1>3, <1>4, <1>5

LEMMA WriteKeepsQuiet ==
  ASSUME LogTypes, TimesInv, JobInv, GroupInv, QuietInv, BurnoutIsLast,
         NEW t \in Threads, write(t)
  PROVE  QuietInv' /\ BurnoutIsLast'
<1>1. /\ job[t] # <<>> /\ behind(stdout', stdout, first_line(t))
      /\ job' = [job EXCEPT ![t] = Tail(@)]
      /\ UNCHANGED <<simulation_stop, pc>>
  BY Writing
<1>2. ~burnt
  BY <1>1, CodersAreAlive DEF QuietInv, Threads
<1>3. PICK m \in 0 .. 3, n \in 1 .. 3 :
        /\ n = IF m = 3 THEN 3 ELSE m + 1
        /\ DOMAIN stdout = 1 .. m
        /\ Len(stdout') = n /\ DOMAIN stdout' = 1 .. n
        /\ stdout'[n] = first_line(t)
        /\ \A i \in 1 .. n - 1 : stdout'[i] = stdout[i + m + 1 - n]
  BY <1>1 DEF behind
<1>4. \A i \in 1 .. n - 1 : stdout'[i].msg # "burnout"
  <2>1. \A i \in 1 .. n - 1 : i + m + 1 - n \in 1 .. m
    BY <1>3
  <2> QED
    BY <1>2, <1>3, <2>1 DEF burnt
<1>5. BurnoutIsLast'
  <2>1. \A i \in 1 .. n : i \in 1 .. n - 1 \/ i = n
    OBVIOUS
  <2> QED
    BY <1>3, <1>4, <2>1 DEF BurnoutIsLast
<1>6. CASE t = Monitor
  <2>1. pc[Monitor] = "print_burnout"
    BY <1>6 DEF write, LogTypes, MonitorPoints, Printing
  <2>2. \E x : job[Monitor] = <<x>>
    BY <1>1, <1>6, <2>1 DEF JobInv
  <2>3. \A x : Tail(<<x>>) = <<>>
    OBVIOUS
  <2>4. Tail(job[Monitor]) = <<>>
    BY <2>2, <2>3, Zenon
  <2>5. job'[Monitor] = <<>>
    BY <1>1, <1>6, <2>4 DEF LogTypes, TypeOK, Threads
  <2> QED
    BY <1>1, <1>5, <2>1, <2>5 DEF QuietInv
<1>7. CASE t # Monitor
  <2>1. t \in Coders
    BY <1>7 DEF Threads
  <2>2. job[t][1][2] # "burnout"
    BY <2>1, CodersAreAlive
  <2>3. ~burnt'
    BY <1>3, <1>4, <2>2 DEF burnt, first_line
  <2> QED
    BY <1>1, <1>5, <2>3 DEF QuietInv
<1> QED
  BY <1>6, <1>7

LEMMA QuietStep ==
  ASSUME LogTypes, LockInv, TimesInv, JobInv, GroupInv, QuietInv, BurnoutIsLast,
         [Next]_vars
  PROVE  QuietInv' /\ BurnoutIsLast'
<1>0. /\ pc \in [Threads -> CoderPoints \cup MonitorPoints]
      /\ Monitor \in Threads /\ Monitor \notin Coders /\ Coders \subseteq Threads
  BY LoggingArgs DEF LogTypes, Threads
<1>1. CASE UNCHANGED <<pc, simulation_stop, job, stdout>>
  BY <1>1 DEF QuietInv, BurnoutIsLast, burnt
<1>2. ASSUME UNCHANGED stdout
      PROVE  BurnoutIsLast' /\ (burnt' <=> burnt)
  BY <1>2 DEF BurnoutIsLast, burnt
<1>3. ASSUME NEW c \in Coders, moves(c), UNCHANGED stdout,
             job'[Monitor] = job[Monitor], simulation_stop => simulation_stop',
             pc[c] \in Talking \/ (simulation_stop => pc'[c] \notin Talking)
      PROVE  QuietInv'
  <2>1. \A u \in Threads : u # c => pc'[u] = pc[u]
    BY <1>0, <1>3 DEF moves
  <2>2. pc'[Monitor] = pc[Monitor]
    BY <1>0, <2>1
  <2> QED
    BY <1>0, <1>2, <1>3, <2>1, <2>2 DEF QuietInv
<1>4. CASE \E c \in Coders : asking(c) \/ going_on(c) \/ log_reservation(c)
  <2>1. PICK c \in Coders : asking(c) \/ going_on(c) \/ log_reservation(c)
    BY <1>4
  <2>2. moves(c) /\ UNCHANGED <<job, stdout>>
    BY <1>0, <2>1, MoverHasNoStamp, QuietSteps DEF quiet, print_vars
  <2>3. /\ simulation_stop => simulation_stop'
        /\ pc[c] \in Talking \/ (simulation_stop => pc'[c] \notin Talking)
    BY <1>0, <2>1
       DEF asking, acquire, give_up, dispatch, dispatched, wake, going_on, goes_on,
           finish_compile, set_stop, log_msg, next_round, log_reservation, move,
           Talking, InGroup, passes, sim_vars
  <2> QED
    BY <1>2, <1>3, <2>1, <2>2, <2>3
<1>5. CASE \E t \in Threads : ends(t)
  <2>1. PICK t \in Threads : ends(t)
    BY <1>5
  <2>2. moves(t) /\ UNCHANGED <<job, stdout, simulation_stop>>
    BY <2>1, MoverHasNoStamp, QuietSteps
       DEF quiet, print_vars, ends, logged, passes, sim_vars
  <2>3. CASE t \in Coders
    <3>1. pc[t] \in Talking
      BY <1>0, <2>1, <2>3 DEF ends, logged, move, Talking, InGroup
    <3> QED
      BY <1>2, <1>3, <2>2, <2>3, <3>1
  <2>4. CASE t = Monitor
    <3>1. pc[Monitor] = "print_burnout" /\ pc' = [pc EXCEPT ![Monitor] = "exit"]
      BY <1>0, <2>1, <2>4 DEF ends, logged, move
    <3>2. pc'[Monitor] = "exit" /\ \A c \in Coders : pc'[c] = pc[c]
      BY <1>0, <3>1
    <3> QED
      BY <1>2, <2>2, <3>1, <3>2 DEF QuietInv
  <2> QED
    BY <2>3, <2>4 DEF Threads
<1>6. CASE monitoring
  <2>1. /\ UNCHANGED <<job, stdout, simulation_stop>>
        /\ pc[Monitor] \notin {"print_burnout", "exit"}
        /\ pc'[Monitor] # "print_burnout"
    BY <1>0, <1>6, QuietSteps
       DEF quiet, print_vars, monitoring, watch, scan_burnouts, burnout_too_late, passes,
           sim_vars, move
  <2> QED
    BY <1>2, <2>1 DEF QuietInv
<1>7. CASE \E c \in Coders : begins(c)
  <2>1. PICK c \in Coders : begins(c)
    BY <1>7
  <2>2. /\ moves(c) /\ UNCHANGED simulation_stop /\ pc[c] \in Talking
        /\ \E todo : prints_next(c, todo)
    BY <1>0, <2>1, MoverHasNoStamp, WhatBegins DEF move, Talking
  <2>3. UNCHANGED stdout /\ job'[Monitor] = job[Monitor]
    BY <1>0, <2>2 DEF prints_next, LogTypes, TypeOK
  <2> QED
    BY <1>2, <1>3, <2>2, <2>3
<1>8. CASE stop_for_burnout
  <2>1. /\ pc[Monitor] = "lock_burnout" /\ log_mutex = Free /\ simulation_stop'
        /\ pc' = [pc EXCEPT ![Monitor] = "print_burnout"]
    BY <1>8, BurnoutBegins DEF move
  <2>2. \E todo : prints_next(Monitor, todo)
    BY <1>8, BurnoutBegins
  <2>3. UNCHANGED stdout
    BY <2>2 DEF prints_next
  <2>4. ~burnt
    BY <2>1 DEF QuietInv
  <2>5. \A c \in Coders : pc[c] \notin StatePoints /\ pc[c] \notin Printing
    BY <1>0, <2>1, LoggingArgs DEF LockInv, StatePoints
  <2>6. \A c \in Coders : pc'[c] = pc[c]
    BY <1>0, <2>1
  <2>7. \A c \in Coders : pc'[c] \notin Talking
    BY <2>5, <2>6 DEF StatePoints, Printing, Talking, InGroup
  <2> QED
    BY <1>2, <2>1, <2>3, <2>4, <2>7 DEF QuietInv
<1> QED
  BY <1>1, <1>4, <1>5, <1>6, <1>7, <1>8, WriteKeepsQuiet, StepCases
     DEF Tick, vars, print_vars, sim_vars, read_clock

-----------------------------------------------------------------------------
(* Groups. *)

(* A step of a thread that is not in a group afterwards, and that does not  *)
(* wake from its sleep while somebody else is.                              *)
LEMMA MoveKeepsGroups ==
  ASSUME LogTypes, GroupInv, NEW t \in Threads, moves(t), pc'[t] \notin InGroup,
         UNCHANGED <<stdout, lines>>,
         \A u \in Threads : u # t => job'[u] = job[u],
         granted \ {t} \subseteq granted',
         pc[t] = "wait" => \A u \in Threads : pc[u] \notin InGroup
  PROVE  GroupInv'
<1>1. \A u \in Threads : u # t => pc'[u] = pc[u]
  BY DEF LogTypes, moves
<1>2. Coders \subseteq Threads
  BY DEF Threads
<1>3. SUFFICES ASSUME NEW u \in Threads, pc[u] \in InGroup, u # t
               PROVE  \E s \in Coders, n \in 0 .. 3 :
                        /\ job[u] = remaining(s, n)
                        /\ pc[u] = "lock_group" => n = 3
                        /\ n # 0 => /\ s \in granted'
                                    /\ s = u \/ pc'[s] = "wait"
                                    /\ lines[s] = 3 - n
                                    /\ forks(s, 3 - n)
  BY <1>1 DEF GroupInv, forks
<1>4. PICK s \in Coders, n \in 0 .. 3 :
        /\ job[u] = remaining(s, n)
        /\ pc[u] = "lock_group" => n = 3
        /\ n # 0 => /\ s \in granted
                    /\ s = u \/ pc[s] = "wait"
                    /\ lines[s] = 3 - n
                    /\ forks(s, 3 - n)
  BY <1>3 DEF GroupInv
<1>5. n # 0 => s \in granted' /\ (s = u \/ pc'[s] = "wait")
  BY <1>1, <1>2, <1>3, <1>4
<1> QED
  BY <1>4, <1>5

LEMMA ReserveKeepsGroups ==
  ASSUME LogTypes, LockInv, RoundInv, NEW c \in Coders, NEW served \in waiting,
         move(c, "dispatch", "lock_group"), granted' = granted \cup {served},
         prints_next(c, remaining(served, 3))
  PROVE  GroupInv'
<1>1. /\ c \in Threads /\ served \in Threads /\ served \in Coders
      /\ pc[c] = "dispatch" /\ pc'[c] = "lock_group"
      /\ \A u \in Threads : u # c => pc'[u] = pc[u]
  BY DEF LogTypes, TypeOK, move, Threads
<1>2. \A u \in Threads : u # c => pc[u] \notin StatePoints
  BY <1>1 DEF LockInv, StatePoints
<1>3. lines[served] = 0 /\ (served = c \/ pc[served] = "wait")
  <2>1. pc[served] \in InAcquire /\ served \notin granted
    BY <1>1 DEF RoundInv, in_round
  <2>2. served # c => pc[served] \notin StatePoints
    BY <1>1, <1>2
  <2>3. served = c \/ pc[served] = "wait"
    BY <2>1, <2>2 DEF InAcquire, StatePoints
  <2> QED
    BY <1>1, <2>1, <2>3 DEF RoundInv, in_round, InAcquire
<1>4. job'[c] = remaining(served, 3) /\ UNCHANGED <<stdout, lines>>
  BY <1>1 DEF prints_next, LogTypes, TypeOK
<1>5. forks(served, 0)'
  <2>1. PICK m \in 0 .. 3 : Len(stdout) = m
    BY DEF LogTypes
  <2>2. m - 0 + 1 .. m = {}
    OBVIOUS
  <2> QED
    BY <1>4, <2>1, <2>2 DEF forks
<1>6. ASSUME NEW u \in Threads, pc'[u] \in InGroup
      PROVE  u = c
  BY <1>1, <1>2, <1>6 DEF StatePoints, InGroup
<1>7. /\ served \in granted'
      /\ served = c \/ pc'[served] = "wait"
      /\ lines'[served] = 3 - 3
  BY <1>1, <1>3, <1>4
<1>8. forks(served, 3 - 3)'
  BY <1>5
<1> QED
  BY <1>1, <1>4, <1>6, <1>7, <1>8 DEF GroupInv

(* Where a line goes in the log, and behind which lines.                    *)
appended(t, m, k) ==
  /\ k = IF m = 3 THEN 3 ELSE m + 1
  /\ Len(stdout) = m /\ DOMAIN stdout = 1 .. m
  /\ Len(stdout') = k /\ DOMAIN stdout' = 1 .. k
  /\ stdout'[k] = first_line(t)
  /\ \A i \in 1 .. k - 1 : stdout'[i] = stdout[i + m + 1 - k]

(* The next line of a group is written. *)
LEMMA GroupLine ==
  ASSUME LogTypes, TimesInv, GroupInv, NEW t \in Threads, write(t), pc[t] = "print_group"
  PROVE  \E s \in Coders, n \in 1 .. 3 :
           /\ job[t] = remaining(s, n)
           /\ job[t][1] = <<s, IF n = 1 THEN "compile" ELSE "fork">>
           /\ job'[t] = remaining(s, n - 1)
           /\ s \in granted
           /\ s = t \/ pc[s] = "wait"
           /\ lines[s] = 3 - n
           /\ forks(s, 3 - n)
           /\ lines' = [lines EXCEPT ![s] = 4 - n]
<1>1. job[t] # <<>> /\ job' = [job EXCEPT ![t] = Tail(@)]
  BY Writing
<1>2. PICK s \in Coders, n \in 0 .. 3 :
        /\ job[t] = remaining(s, n)
        /\ n # 0 => /\ s \in granted
                    /\ s = t \/ pc[s] = "wait"
                    /\ lines[s] = 3 - n
                    /\ forks(s, 3 - n)
  BY DEF GroupInv, InGroup
<1>3. n # 0
  BY <1>1, <1>2, Remaining, Zenon
<1>4. n \in 1 .. 3
  BY <1>3
<1>5. /\ job[t][1] = <<s, IF n = 1 THEN "compile" ELSE "fork">>
      /\ Tail(job[t]) = remaining(s, n - 1)
  BY <1>2, <1>4, Remaining
<1>6. job'[t] = remaining(s, n - 1)
  BY <1>1, <1>5 DEF LogTypes, TypeOK
<1>7. lines' = [lines EXCEPT ![s] = 4 - n]
  <2>1. job[t][1][1] = s /\ job[t][1][2] # "burnout"
    BY <1>5
  <2>2. lines' = [lines EXCEPT ![s] = (lines[s] + 1) % 5]
    BY <2>1 DEF write
  <2>3. (3 - n + 1) % 5 = 4 - n
    BY <1>4
  <2>4. lines[s] = 3 - n
    BY <1>2, <1>3
  <2> QED
    BY <2>2, <2>3, <2>4, Zenon
<1> QED
  BY <1>2, <1>3, <1>4, <1>5, <1>6, <1>7, Zenon

LEMMA ForkBehindForks ==
  ASSUME LogTypes, NEW t \in Threads, NEW s, NEW n \in 2 .. 3, forks(s, 3 - n),
         first_line(t).id = s, first_line(t).msg = "fork",
         NEW m \in 0 .. 3, NEW k \in 1 .. 3, appended(t, m, k)
  PROVE  forks(s, 4 - n)'
<1>1. 3 - n <= m /\ \A i \in m - (3 - n) + 1 .. m : stdout[i].id = s /\ stdout[i].msg = "fork"
  BY DEF forks, appended
<1>2. 4 - n <= k
  BY <1>1 DEF appended
<1>3. ASSUME NEW i \in k - (4 - n) + 1 .. k
      PROVE  stdout'[i].id = s /\ stdout'[i].msg = "fork"
  <2>1. CASE i = k
    BY <2>1 DEF appended
  <2>2. CASE i # k
    <3>1. i \in 1 .. k - 1 /\ i + m + 1 - k \in m - (3 - n) + 1 .. m
      BY <1>2, <2>2
    <3> QED
      BY <1>1, <3>1 DEF appended
  <2> QED
    BY <2>1, <2>2
<1>4. k \in 0 .. 3 /\ Len(stdout') = k
  BY DEF appended
<1> QED
  BY <1>2, <1>3, <1>4 DEF forks

LEMMA CompileBehindForks ==
  ASSUME LogTypes, NEW t \in Threads, NEW s, forks(s, 2), first_line(t).id = s,
         NEW m \in 0 .. 3, NEW k \in 1 .. 3, appended(t, m, k)
  PROVE  GroupsAreWhole'
<1>1. m \in 2 .. 3 /\ \A i \in m - 1 .. m : stdout[i].id = s /\ stdout[i].msg = "fork"
  BY DEF forks, appended
<1>2. k = 3 /\ stdout'[3].id = s
  BY <1>1 DEF appended
<1>3. ASSUME NEW i \in {1, 2}
      PROVE  stdout'[i].id = s /\ stdout'[i].msg = "fork"
  <2>1. i \in 1 .. k - 1 /\ i + m + 1 - k \in m - 1 .. m
    BY <1>1, <1>2
  <2> QED
    BY <1>1, <2>1 DEF appended
<1>4. Len(stdout') = 3
  BY <1>2 DEF appended
<1> QED
  BY <1>2, <1>3, <1>4 DEF GroupsAreWhole

(* What a thread writes outside a group is a line of its own.               *)
LEMMA OwnLine ==
  ASSUME LogTypes, TimesInv, JobInv, NEW t \in Threads, write(t), pc[t] # "print_group"
  PROVE  /\ job'[t] = <<>>
         /\ job[t][1][2] # "compile"
         /\ \/ t = Monitor /\ UNCHANGED lines
            \/ /\ t \in Coders /\ lines' = [lines EXCEPT ![t] = (@ + 1) % 5]
               /\ \/ pc[t] = "print_debug" /\ job[t][1] = <<t, "debug">>
                  \/ pc[t] = "print_refactor" /\ job[t][1] = <<t, "refactor">>
<1>1. job[t] # <<>> /\ job' = [job EXCEPT ![t] = Tail(@)]
  BY Writing
<1>2. \A x : Tail(<<x>>) = <<>> /\ <<x>>[1] = x
  OBVIOUS
<1>3. \E x : /\ job[t] = <<x>>
              /\ \/ pc[t] = "print_debug" /\ x = <<t, "debug">>
                 \/ pc[t] = "print_refactor" /\ x = <<t, "refactor">>
                 \/ pc[t] = "print_burnout" /\ \E c \in Coders : x = <<c, "burnout">>
  BY <1>1 DEF write, Printing, JobInv
<1>4. PICK x :
        /\ job[t] = <<x>>
        /\ \/ pc[t] = "print_debug" /\ x = <<t, "debug">>
           \/ pc[t] = "print_refactor" /\ x = <<t, "refactor">>
           \/ pc[t] = "print_burnout" /\ \E c \in Coders : x = <<c, "burnout">>
  BY <1>3
<1>5. Tail(job[t]) = <<>> /\ job[t][1] = x
  BY <1>2, <1>4, Zenon
<1>6. job'[t] = <<>>
  BY <1>1, <1>5 DEF LogTypes, TypeOK
<1>7. t \in Coders => pc[t] # "print_burnout"
  BY DEF LogTypes, CoderPoints
<1>8. t = Monitor => pc[t] \notin {"print_debug", "print_refactor"}
  BY DEF LogTypes, MonitorPoints
<1>9. lines' = IF x[2] = "burnout" THEN lines ELSE [lines EXCEPT ![x[1]] = (@ + 1) % 5]
  BY <1>5 DEF write
<1>10. CASE pc[t] = "print_burnout"
  <2>1. t = Monitor /\ x[2] = "burnout"
    BY <1>4, <1>7, <1>10 DEF Threads
  <2> QED
    BY <1>5, <1>6, <1>9, <2>1
<1>11. CASE pc[t] # "print_burnout"
  <2>1. /\ t \in Coders /\ x[1] = t /\ x[2] \in {"debug", "refactor"}
        /\ \/ pc[t] = "print_debug" /\ x = <<t, "debug">>
           \/ pc[t] = "print_refactor" /\ x = <<t, "refactor">>
    BY <1>4, <1>8, <1>11 DEF Threads
  <2>2. lines' = [lines EXCEPT ![t] = (@ + 1) % 5]
    BY <1>9, <2>1
  <2> QED
    BY <1>5, <1>6, <2>1, <2>2
<1> QED
  BY <1>10, <1>11

LEMMA WriteKeepsGroups ==
  ASSUME LogTypes, LockInv, TimesInv, JobInv, GroupInv, NEW t \in Threads, write(t)
  PROVE  GroupInv' /\ GroupsAreWhole'
<1>0. lines \in [Coders -> 0 .. 4]
  BY DEF LogTypes, TypeOK
<1>1. /\ UNCHANGED <<pc, granted>>
      /\ \A u \in Threads : u # t => job'[u] = job[u]
  BY Writing DEF request_vars, LogTypes, TypeOK
<1>2. \E m \in 0 .. 3, k \in 1 .. 3 : appended(t, m, k)
  BY Writing DEF behind, appended
<1>3. PICK m \in 0 .. 3, k \in 1 .. 3 : appended(t, m, k)
  BY <1>2
<1>4. stdout'[k] = first_line(t) /\ Len(stdout') = k
  BY <1>3 DEF appended
<1>5. CASE pc[t] = "print_group"
  <2>1. PICK s \in Coders, n \in 1 .. 3 :
          /\ job[t][1] = <<s, IF n = 1 THEN "compile" ELSE "fork">>
          /\ job'[t] = remaining(s, n - 1)
          /\ s \in granted
          /\ s = t \/ pc[s] = "wait"
          /\ forks(s, 3 - n)
          /\ lines' = [lines EXCEPT ![s] = 4 - n]
    BY <1>5, GroupLine
  <2>2. \A u \in Threads : pc[u] \in InGroup => u = t
    BY <1>5 DEF LockInv, StatePoints, InGroup
  <2>3. /\ first_line(t).id = s
        /\ first_line(t).msg = IF n = 1 THEN "compile" ELSE "fork"
    BY <2>1 DEF first_line
  <2>4. CASE n = 1
    <3>1. 3 - n = 2 /\ n - 1 = 0
      BY <2>4
    <3>2. GroupsAreWhole'
      BY <1>3, <2>1, <2>3, <3>1, CompileBehindForks
    <3>3. GroupInv'
      BY <1>1, <1>5, <2>1, <2>2, <3>1 DEF GroupInv
    <3> QED
      BY <3>2, <3>3
  <2>5. CASE n # 1
    <3>1. n \in 2 .. 3 /\ n - 1 \in 0 .. 3 /\ 3 - (n - 1) = 4 - n
      BY <2>5
    <3>2. first_line(t).msg = "fork"
      BY <2>3, <2>5
    <3>3. forks(s, 4 - n)'
      BY <1>3, <2>1, <2>3, <3>1, <3>2, ForkBehindForks
    <3>4. lines'[s] = 3 - (n - 1) /\ forks(s, 3 - (n - 1))'
      BY <1>0, <2>1, <3>1, <3>3
    <3>5. ASSUME NEW u \in Threads, pc'[u] \in InGroup
          PROVE  /\ job'[u] = remaining(s, n - 1)
                 /\ pc'[u] # "lock_group"
                 /\ s \in granted'
                 /\ s = u \/ pc'[s] = "wait"
      BY <1>1, <1>5, <2>1, <2>2, <3>5
    <3>6. GroupInv'
      BY <3>1, <3>4, <3>5, Zenon DEF GroupInv
    <3>7. GroupsAreWhole'
      BY <1>4, <3>2 DEF GroupsAreWhole
    <3> QED
      BY <3>6, <3>7
  <2> QED
    BY <2>4, <2>5
<1>6. CASE pc[t] # "print_group"
  <2>1. /\ job[t][1][2] # "compile"
        /\ UNCHANGED lines \/ \E v : lines' = [lines EXCEPT ![t] = v]
        /\ t = Monitor \/ pc[t] # "wait"
    BY <1>6, OwnLine
  <2>2. first_line(t).msg # "compile"
    BY <2>1 DEF first_line
  <2>3. GroupsAreWhole'
    BY <1>4, <2>2 DEF GroupsAreWhole
  <2>4. pc[t] \in Printing
    BY DEF write
  <2>5. ASSUME NEW u \in Threads, pc'[u] \in InGroup
        PROVE  \E s \in Coders :
                 /\ job'[u] = remaining(s, 3) /\ s \in granted'
                 /\ s = u \/ pc'[s] = "wait"
                 /\ lines'[s] = 3 - 3 /\ forks(s, 3 - 3)'
    <3>1. u # t /\ pc[u] = "lock_group"
      BY <1>1, <1>6, <2>4, <2>5 DEF LockInv, Printing, InGroup
    <3>2. PICK s \in Coders :
            /\ job[u] = remaining(s, 3) /\ s \in granted
            /\ s = u \/ pc[s] = "wait"
            /\ lines[s] = 3 - 3
      BY <3>1 DEF GroupInv, InGroup
    <3>3. s # t
      BY <2>4, <3>1, <3>2 DEF Printing
    <3>4. lines'[s] = 3 - 3
      BY <1>0, <2>1, <3>2, <3>3
    <3>5. forks(s, 3 - 3)'
      <4>1. k \in 0 .. 3 /\ k - 0 + 1 .. k = {} /\ 3 - 3 = 0 /\ 0 <= k
        OBVIOUS
      <4> QED
        BY <1>4, <4>1 DEF forks
    <3> QED
      BY <1>1, <3>1, <3>2, <3>4, <3>5
  <2>6. GroupInv'
    BY <2>5 DEF GroupInv
  <2> QED
    BY <2>3, <2>6
<1> QED
  BY <1>5, <1>6

LEMMA GroupStep ==
  ASSUME LogTypes, LockInv, TimesInv, JobInv, GroupInv, RoundInv, GroupsAreWhole,
         [Next]_vars
  PROVE  GroupInv' /\ GroupsAreWhole'
<1>0. /\ pc \in [Threads -> CoderPoints \cup MonitorPoints]
      /\ Monitor \in Threads /\ Monitor \notin Coders /\ Coders \subseteq Threads
      /\ granted \subseteq Coders
  BY LoggingArgs DEF LogTypes, TypeOK, Threads
<1>1. CASE UNCHANGED <<pc, job, stdout, lines, granted>>
  BY <1>1, Zenon DEF GroupInv, GroupsAreWhole, forks
<1>2. ASSUME UNCHANGED stdout
      PROVE  GroupsAreWhole'
  BY <1>2 DEF GroupsAreWhole
<1>3. CASE \E c \in Coders : asking(c) \/ going_on(c)
  <2>1. PICK c \in Coders : asking(c) \/ going_on(c)
    BY <1>3
  <2>2. moves(c) /\ UNCHANGED <<job, stdout, lines>>
    BY <1>0, <2>1, MoverHasNoStamp, QuietSteps DEF quiet, print_vars
  <2>3. /\ pc'[c] \notin InGroup
        /\ granted \ {c} \subseteq granted'
        /\ pc[c] = "wait" => state_mutex = Free
    BY <1>0, <2>1
       DEF asking, acquire, give_up, dispatch, dispatched, wake, going_on, goes_on,
           finish_compile, set_stop, log_msg, next_round, move, InGroup, passes,
           sim_vars, request_vars, lock_state
  <2>4. pc[c] = "wait" => \A u \in Threads : pc[u] \notin InGroup
    BY <2>3, LoggingArgs DEF LockInv, StatePoints, InGroup, Threads
  <2> QED
    BY <1>0, <1>2, <2>2, <2>3, <2>4, MoveKeepsGroups
<1>4. CASE \E t \in Threads : ends(t)
  <2>1. PICK t \in Threads : ends(t)
    BY <1>4
  <2>2. moves(t) /\ UNCHANGED <<job, stdout, lines>>
    BY <1>0, <2>1, MoverHasNoStamp, QuietSteps DEF quiet, print_vars
  <2>3. UNCHANGED granted /\ pc'[t] \notin InGroup /\ pc[t] # "wait"
    BY <1>0, <2>1 DEF ends, logged, move, InGroup, passes, sim_vars, request_vars
  <2> QED
    BY <1>2, <2>2, <2>3, MoveKeepsGroups
<1>5. CASE monitoring
  <2>1. moves(Monitor) /\ UNCHANGED <<job, stdout, lines>>
    BY <1>0, <1>5, MoverHasNoStamp, QuietSteps DEF quiet, print_vars
  <2>2. UNCHANGED granted /\ pc'[Monitor] \notin InGroup /\ pc[Monitor] # "wait"
    BY <1>0, <1>5
       DEF monitoring, watch, scan_burnouts, burnout_too_late, move, InGroup, passes,
           sim_vars, request_vars
  <2> QED
    BY <1>0, <1>2, <2>1, <2>2, MoveKeepsGroups
<1>6. CASE stop_for_burnout
  <2>1. moves(Monitor) /\ pc'[Monitor] \notin InGroup /\ pc[Monitor] # "wait"
    BY <1>0, <1>6, MoverHasNoStamp, BurnoutBegins DEF move, InGroup
  <2>2. UNCHANGED granted /\ \E todo : prints_next(Monitor, todo)
    BY <1>6, BurnoutBegins DEF request_vars
  <2>3. /\ UNCHANGED <<stdout, lines>>
        /\ \A u \in Threads : u # Monitor => job'[u] = job[u]
    BY <2>2 DEF prints_next, LogTypes, TypeOK
  <2> QED
    BY <1>0, <1>2, <2>1, <2>2, <2>3, MoveKeepsGroups
<1>7. CASE \E c \in Coders : begins(c)
  <2>1. PICK c \in Coders : begins(c)
    BY <1>7
  <2>2. moves(c) /\ UNCHANGED stdout
    BY <1>0, <2>1, MoverHasNoStamp, WhatBegins DEF prints_next
  <2>3. CASE move(c, "dispatch", "lock_group")
    <3>1. \E served \in waiting :
            /\ granted' = granted \cup {served}
            /\ prints_next(c, remaining(served, 3))
      BY <2>1, <2>3, WhatBegins DEF move
    <3> QED
      BY <1>2, <2>2, <2>3, <3>1, ReserveKeepsGroups
  <2>4. CASE ~move(c, "dispatch", "lock_group")
    <3>1. /\ UNCHANGED granted
          /\ \/ move(c, "lock_debug", "print_debug")
             \/ move(c, "lock_refactor", "print_refactor")
          /\ \E todo : prints_next(c, todo)
      BY <2>1, <2>4, WhatBegins DEF request_vars
    <3>2. pc'[c] \notin InGroup /\ pc[c] # "wait"
      BY <1>0, <3>1 DEF move, InGroup
    <3>3. UNCHANGED lines /\ \A u \in Threads : u # c => job'[u] = job[u]
      BY <3>1 DEF prints_next, LogTypes, TypeOK
    <3> QED
      BY <1>0, <1>2, <2>2, <3>1, <3>2, <3>3, MoveKeepsGroups
  <2> QED
    BY <2>3, <2>4
<1>8. CASE \E c \in Coders : log_reservation(c)
  <2>1. PICK c \in Coders : log_reservation(c)
    BY <1>8
  <2>2. /\ UNCHANGED <<job, stdout, lines, granted>>
        /\ pc[c] = "lock_group" /\ pc'[c] = "print_group"
        /\ \A u \in Threads : u # c => pc'[u] = pc[u]
    BY <1>0, <2>1
       DEF log_reservation, passes, silent, sim_vars, request_vars, print_vars, move
  <2>3. \A u \in Threads :
          /\ (pc'[u] \in InGroup <=> pc[u] \in InGroup)
          /\ pc'[u] = "lock_group" => pc[u] = "lock_group"
          /\ (pc'[u] = "wait" <=> pc[u] = "wait")
    BY <2>2 DEF InGroup
  <2>4. \A s, n : forks(s, n)' <=> forks(s, n)
    BY <2>2 DEF forks
  <2> QED
    BY <1>0, <1>2, <2>2, <2>3, <2>4 DEF GroupInv
<1> QED
  BY <1>1, <1>3, <1>4, <1>5, <1>6, <1>7, <1>8, WriteKeepsGroups, StepCases
     DEF Tick, vars, print_vars, sim_vars, request_vars, read_clock

-----------------------------------------------------------------------------
(* Rounds. *)

(* A step of one thread that goes on with its group, if it is in one.       *)
LEMMA OthersKeepTheirRound ==
  ASSUME LogTypes, RoundInv, NEW t \in Threads, moves(t), UNCHANGED lines,
         \A u \in Threads : u # t => job'[u] = job[u],
         simulation_stop => simulation_stop',
         pc[t] \in InGroup =>
           job[t] = <<>> \/ (pc'[t] \in InGroup /\ job'[t] = job[t])
  PROVE  /\ \A u \in Coders : pending(u) => pending(u)'
         /\ \A u \in Coders :
              /\ u # t
              /\ (u \in waiting' <=> u \in waiting)
              /\ (u \in granted' <=> u \in granted)
              => in_round(u)'
<1>1. \A u \in Threads : u # t => pc'[u] = pc[u]
  BY DEF LogTypes, moves
<1>2. ASSUME NEW u \in Coders, pending(u)
      PROVE  pending(u)'
  <2>1. PICK v \in Threads : pc[v] \in InGroup /\ job[v] # <<>> /\ job[v][1][1] = u
    BY <1>2 DEF pending
  <2>2. pc'[v] \in InGroup /\ job'[v] = job[v]
    BY <1>1, <2>1
  <2> QED
    BY <2>1, <2>2 DEF pending
<1>3. ASSUME NEW u \in Coders, u # t, (u \in waiting' <=> u \in waiting),
             (u \in granted' <=> u \in granted)
      PROVE  in_round(u)'
  <2>1. u \in Threads
    BY DEF Threads
  <2>2. pc'[u] = pc[u] /\ job'[u] = job[u] /\ lines'[u] = lines[u]
    BY <1>1, <1>3, <2>1
  <2> QED
    BY <1>2, <1>3, <2>2 DEF RoundInv, in_round
<1> QED
  BY <1>2, <1>3

(* Nobody is writing for a coder that has state_mutex itself.               *)
LEMMA NobodyWritesFor ==
  ASSUME LogTypes, LockInv, NEW c \in Coders, pc[c] \in {"acquire", "dispatch"},
         NEW u \in Coders
  PROVE  ~pending(u)
BY DEF LockInv, StatePoints, pending, InGroup, Threads

LEMMA OwnRound ==
  ASSUME LogTypes, LockInv, RoundInv, NEW c \in Coders,
         asking(c) \/ going_on(c) \/ log_reservation(c) \/ ends(c),
         UNCHANGED <<job, lines>>, pending(c) => pending(c)'
  PROVE  in_round(c)'
<1>0. /\ pc \in [Threads -> CoderPoints \cup MonitorPoints] /\ c \in Threads
      /\ c # Monitor
  BY LoggingArgs DEF LogTypes, Threads
<1>1. in_round(c)
  BY DEF RoundInv
<1> USE <1>0, <1>1 DEF in_round, InAcquire, move
<1>2. CASE acquire(c)
  BY <1>2 DEF acquire
<1>3. CASE give_up(c)
  BY <1>3 DEF give_up
<1>4. CASE dispatch(c)
  BY <1>4 DEF dispatch, passes, sim_vars, request_vars
<1>5. CASE dispatched(c)
  <2>1. ~pending(c)
    BY <1>5, NobodyWritesFor DEF dispatched
  <2> QED
    BY <1>5, <2>1 DEF dispatched, passes, sim_vars, request_vars
<1>6. CASE wake(c)
  BY <1>6 DEF wake, passes, sim_vars, request_vars
<1>7. CASE goes_on(c, "compile", "count") \/ goes_on(c, "debug", "log_refactor")
  BY <1>7 DEF goes_on, passes, sim_vars, request_vars
<1>8. CASE finish_compile(c)
  BY <1>8 DEF finish_compile, request_vars
<1>9. CASE set_stop(c)
  BY <1>9 DEF set_stop, request_vars
<1>10. CASE \/ log_msg(c, "log_debug", "lock_debug", "debug")
            \/ log_msg(c, "log_refactor", "lock_refactor", "loop")
  BY <1>10 DEF log_msg, passes, sim_vars, request_vars
<1>11. CASE next_round(c)
  BY <1>11 DEF next_round, passes, sim_vars, request_vars
<1>12. CASE log_reservation(c)
  BY <1>12 DEF log_reservation, passes, sim_vars, request_vars
<1>13. CASE ends(c)
  BY <1>13 DEF ends, logged, passes, sim_vars, request_vars
<1> QED
  BY <1>2, <1>3, <1>4, <1>5, <1>6, <1>7, <1>8, <1>9, <1>10, <1>11, <1>12, <1>13
     DEF asking, going_on

LEMMA ReserveKeepsRounds ==
  ASSUME LogTypes, LockInv, RoundInv, NEW c \in Coders, NEW served \in Coders,
         served \in waiting,
         move(c, "dispatch", "lock_group"), UNCHANGED simulation_stop,
         waiting' = waiting \ {served}, granted' = granted \cup {served},
         prints_next(c, remaining(served, 3))
  PROVE  RoundInv'
<1>0. /\ c \in Threads /\ served \in Threads /\ pc[c] = "dispatch"
      /\ pc'[c] = "lock_group" /\ moves(c)
      /\ \A u \in Threads : u # c => pc'[u] = pc[u]
  BY DEF LogTypes, move, moves, Threads
<1>1. /\ job'[c] = remaining(served, 3) /\ UNCHANGED lines
      /\ \A u \in Threads : u # c => job'[u] = job[u]
  BY <1>0 DEF prints_next, LogTypes, TypeOK
<1>2. \A u \in Coders :
        /\ u # c
        /\ (u \in waiting' <=> u \in waiting)
        /\ (u \in granted' <=> u \in granted)
        => in_round(u)'
  BY <1>0, <1>1, OthersKeepTheirRound DEF InGroup
<1>3. /\ remaining(served, 3) # <<>>
      /\ remaining(served, 3)[1] = <<served, "fork">>
  BY Remaining
<1>4. job'[c] # <<>> /\ job'[c][1][1] = served
  <2>1. job'[c][1] = <<served, "fork">>
    BY <1>1, <1>3, Zenon
  <2> QED
    BY <1>1, <1>3, <2>1
<1>5. pending(served)'
  BY <1>0, <1>4 DEF pending, InGroup
<1>6. in_round(served) /\ in_round(c) /\ ~pending(c)
  BY <1>0, NobodyWritesFor DEF RoundInv
<1>7. pc[served] \in InAcquire /\ pc'[served] \in InAcquire
  BY <1>0, <1>6 DEF in_round, InAcquire
<1>8. in_round(served)'
  BY <1>5, <1>7 DEF in_round, InAcquire
<1>9. CASE c # served
  <2>1. in_round(c)'
    BY <1>0, <1>1, <1>6, <1>9 DEF in_round, InAcquire
  <2>2. ASSUME NEW u \in Coders, u # c, u # served
        PROVE  in_round(u)'
    BY <1>2, <2>2
  <2> QED
    BY <1>8, <2>1, <2>2 DEF RoundInv
<1>10. CASE c = served
  <2>1. ASSUME NEW u \in Coders, u # served
        PROVE  in_round(u)'
    BY <1>2, <1>10, <2>1
  <2> QED
    BY <1>8, <2>1 DEF RoundInv
<1> QED
  BY <1>9, <1>10

LEMMA WriteKeepsRounds ==
  ASSUME LogTypes, LockInv, TimesInv, JobInv, GroupInv, RoundInv,
         NEW t \in Threads, write(t)
  PROVE  /\ RoundInv'
         /\ \A c \in Coders : lines'[c] # lines[c] =>
              stdout'[Len(stdout')].msg = round[lines[c] + 1]
<1>0. lines \in [Coders -> 0 .. 4] /\ Coders \subseteq Threads
  BY DEF LogTypes, TypeOK, Threads
<1>1. /\ UNCHANGED <<pc, waiting, granted, simulation_stop>>
      /\ \A u \in Threads : u # t => job'[u] = job[u]
      /\ stdout'[Len(stdout')].msg = job[t][1][2]
  <2>1. \E m \in 0 .. 3, k \in 1 .. 3 : appended(t, m, k)
    BY Writing DEF behind, appended
  <2>2. stdout'[Len(stdout')] = first_line(t)
    BY <2>1 DEF appended
  <2> QED
    BY <2>2, Writing DEF request_vars, LogTypes, TypeOK, first_line
<1>2. CASE pc[t] = "print_group"
  <2>1. PICK s \in Coders, n \in 1 .. 3 :
          /\ job[t] = remaining(s, n)
          /\ job[t][1] = <<s, IF n = 1 THEN "compile" ELSE "fork">>
          /\ job'[t] = remaining(s, n - 1)
          /\ s \in granted
          /\ s = t \/ pc[s] = "wait"
          /\ lines[s] = 3 - n
          /\ lines' = [lines EXCEPT ![s] = 4 - n]
    BY <1>2, GroupLine
  <2>2. \A v \in Threads : pc[v] \in InGroup => v = t
    BY <1>2 DEF LockInv, StatePoints, InGroup
  <2>3. /\ lines'[s] = 4 - n
        /\ \A u \in Coders : u # s => lines'[u] = lines[u]
    BY <1>0, <2>1
  <2>4. lines'[s] = 3 \/ pending(s)'
    <3>1. CASE n = 1
      BY <2>3, <3>1
    <3>2. CASE n # 1
      <4>1. PICK k \in 1 .. 3 : k = n - 1
        BY <3>2
      <4>2. /\ job'[t] # <<>>
            /\ job'[t][1] = <<s, IF k = 1 THEN "compile" ELSE "fork">>
        <5>1. job'[t] = remaining(s, k)
          BY <2>1, <4>1
        <5> QED
          BY <5>1, Remaining
      <4> QED
        BY <1>1, <1>2, <4>2 DEF pending, InGroup
    <3> QED
      BY <3>1, <3>2
  <2>5. \A u \in Coders : u # s => ~pending(u)
    BY <2>1, <2>2 DEF pending
  <2>6. in_round(s)'
    <3>1. pc'[s] \in InAcquire /\ in_round(s)
      BY <1>1, <1>2, <2>1 DEF InAcquire, RoundInv
    <3> QED
      BY <1>1, <2>1, <2>4, <3>1 DEF in_round, InAcquire
  <2>7. ASSUME NEW u \in Coders, u # s
        PROVE  in_round(u)'
    <3>1. lines'[u] = lines[u] /\ ~pending(u) /\ in_round(u)
      BY <2>3, <2>5, <2>7 DEF RoundInv
    <3>2. job'[u] = job[u] \/ pc[u] = "print_group"
      BY <1>0, <1>1, <1>2
    <3> QED
      BY <1>1, <3>1, <3>2 DEF in_round, InAcquire
  <2>8. RoundInv'
    BY <2>6, <2>7 DEF RoundInv
  <2>9. job[t][1][2] = round[3 - n + 1]
    <3>1. job[t][1][2] = IF n = 1 THEN "compile" ELSE "fork"
      BY <2>1
    <3>2. \/ n = 1 /\ 3 - n + 1 = 3
          \/ n = 2 /\ 3 - n + 1 = 2
          \/ n = 3 /\ 3 - n + 1 = 1
      OBVIOUS
    <3>3. round[1] = "fork" /\ round[2] = "fork" /\ round[3] = "compile"
      BY DEF round
    <3> QED
      BY <3>1, <3>2, <3>3
  <2>10. ASSUME NEW c \in Coders, lines'[c] # lines[c]
         PROVE  stdout'[Len(stdout')].msg = round[lines[c] + 1]
    <3>1. c = s /\ lines[c] = 3 - n
      BY <2>1, <2>3, <2>10
    <3> QED
      BY <1>1, <2>9, <3>1
  <2> QED
    BY <2>8, <2>10
<1>3. CASE pc[t] # "print_group"
  <2>1. /\ job[t] # <<>> /\ job'[t] = <<>>
        /\ \/ t = Monitor /\ UNCHANGED lines
           \/ /\ t \in Coders /\ lines' = [lines EXCEPT ![t] = (@ + 1) % 5]
              /\ \/ pc[t] = "print_debug" /\ job[t][1] = <<t, "debug">>
                 \/ pc[t] = "print_refactor" /\ job[t][1] = <<t, "refactor">>
    BY <1>3, Writing, OwnLine
  <2>2. pc[t] \notin InGroup
    BY <1>3 DEF write, Printing, InGroup
  <2>3. ASSUME NEW u \in Coders, pending(u)
        PROVE  pending(u)'
    BY <1>1, <2>2, <2>3 DEF pending
  <2>4. ASSUME NEW u \in Coders, u # t
        PROVE  in_round(u)'
    <3>1. lines'[u] = lines[u] /\ job'[u] = job[u] /\ in_round(u)
      BY <1>0, <1>1, <2>1, <2>4 DEF RoundInv
    <3> QED
      BY <1>1, <2>3, <3>1 DEF in_round
  <2>5. CASE t = Monitor
    <3>1. t \notin Coders
      BY <2>5, LoggingArgs
    <3>2. UNCHANGED lines
      BY <2>1, <3>1
    <3>3. RoundInv'
      BY <2>4, <3>1 DEF RoundInv
    <3> QED
      BY <3>2, <3>3
  <2>6. CASE t \in Coders
    <3>0. Monitor \notin Coders
      BY LoggingArgs
    <3>1. in_round(t) /\ \A u \in Coders : u # t => lines'[u] = lines[u]
      BY <1>0, <2>1, <2>6 DEF RoundInv
    <3>2. round[4] = "debug" /\ round[5] = "refactor" /\ (3 + 1) % 5 = 4 /\ (4 + 1) % 5 = 0
      BY DEF round
    <3>3. lines'[t] = (lines[t] + 1) % 5
      BY <1>0, <2>1, <2>6, <3>0
    <3>4. CASE pc[t] = "print_debug"
      <4>1. lines[t] = 3 /\ lines'[t] = 4 /\ job[t][1] = <<t, "debug">>
        BY <2>1, <2>6, <3>0, <3>1, <3>2, <3>3, <3>4 DEF in_round
      <4>2. in_round(t)'
        BY <1>1, <2>1, <3>1, <3>4, <4>1 DEF in_round, InAcquire
      <4> QED
        BY <1>1, <2>4, <3>1, <3>2, <4>1, <4>2 DEF RoundInv
    <3>5. CASE pc[t] = "print_refactor"
      <4>1. lines[t] = 4 /\ lines'[t] = 0 /\ job[t][1] = <<t, "refactor">>
        BY <2>1, <2>6, <3>0, <3>1, <3>2, <3>3, <3>5 DEF in_round
      <4>2. in_round(t)'
        BY <1>1, <2>1, <3>1, <3>5, <4>1 DEF in_round, InAcquire
      <4> QED
        BY <1>1, <2>4, <3>1, <3>2, <4>1, <4>2 DEF RoundInv
    <3> QED
      BY <2>1, <2>6, <3>0, <3>4, <3>5
  <2> QED
    BY <2>5, <2>6 DEF Threads
<1> QED
  BY <1>2, <1>3

(* Between two steps of the log nobody's lines change. *)
LEMMA RoundStep ==
  ASSUME LogTypes, LockInv, TimesInv, JobInv, GroupInv, RoundInv, [Next]_vars
  PROVE  /\ RoundInv'
         /\ \A c \in Coders : lines'[c] # lines[c] =>
              stdout'[Len(stdout')].msg = round[lines[c] + 1]
<1>0. /\ pc \in [Threads -> CoderPoints \cup MonitorPoints]
      /\ Monitor \in Threads /\ Monitor \notin Coders /\ Coders \subseteq Threads
      /\ pc[Monitor] \notin InGroup
  BY LoggingArgs DEF LogTypes, TypeOK, Threads, MonitorPoints, InGroup
<1>1. CASE UNCHANGED <<pc, job, lines, waiting, granted, simulation_stop>>
  BY <1>1, Zenon DEF RoundInv, in_round, pending
<1>2. CASE \/ \E c \in Coders : asking(c) \/ going_on(c) \/ log_reservation(c)
           \/ \E c \in Coders : ends(c)
  <2>1. PICK c \in Coders : asking(c) \/ going_on(c) \/ log_reservation(c) \/ ends(c)
    BY <1>2
  <2>2. c \in Threads /\ moves(c) /\ UNCHANGED <<job, lines>>
    BY <1>0, <2>1, MoverHasNoStamp, QuietSteps DEF quiet, print_vars
  <2>3. /\ simulation_stop => simulation_stop'
        /\ \A u \in Coders : u # c => (u \in waiting' <=> u \in waiting)
        /\ \A u \in Coders : u # c => (u \in granted' <=> u \in granted)
    BY <2>1
       DEF asking, acquire, give_up, dispatch, dispatched, wake, going_on, goes_on,
           finish_compile, set_stop, log_msg, next_round, log_reservation, ends, logged,
           passes, sim_vars, request_vars
  <2>4. pc[c] \in InGroup => job[c] = <<>> \/ pc'[c] \in InGroup
    BY <1>0, <2>1
       DEF asking, acquire, give_up, dispatch, dispatched, wake, going_on, goes_on,
           finish_compile, set_stop, log_msg, next_round, log_reservation, ends, logged,
           move, InGroup
  <2>5. /\ pending(c) => pending(c)'
        /\ \A u \in Coders : u # c => in_round(u)'
    <3>1. /\ \A u \in Threads : u # c => job'[u] = job[u]
          /\ pc[c] \in InGroup =>
               job[c] = <<>> \/ (pc'[c] \in InGroup /\ job'[c] = job[c])
      BY <2>2, <2>4
    <3>2. /\ \A u \in Coders : pending(u) => pending(u)'
          /\ \A u \in Coders :
               /\ u # c
               /\ (u \in waiting' <=> u \in waiting)
               /\ (u \in granted' <=> u \in granted)
               => in_round(u)'
      BY <2>2, <2>3, <3>1, OthersKeepTheirRound
    <3> QED
      BY <2>3, <3>2
  <2>6. in_round(c)'
    BY <2>1, <2>2, <2>5, OwnRound
  <2> QED
    BY <2>2, <2>5, <2>6 DEF RoundInv
<1>3. CASE ends(Monitor) \/ monitoring \/ stop_for_burnout
  <2>1. moves(Monitor)
    BY <1>0, <1>3, MoverHasNoStamp
  <2>2. CASE ends(Monitor) \/ monitoring
    <3>1. UNCHANGED <<job, lines>>
      BY <1>0, <2>2, QuietSteps DEF quiet, print_vars
    <3>2. UNCHANGED <<waiting, granted, simulation_stop>>
      BY <1>0, <2>2
         DEF ends, logged, monitoring, watch, scan_burnouts, burnout_too_late, passes,
             sim_vars, request_vars
    <3> QED
      BY <1>0, <2>1, <3>1, <3>2, OthersKeepTheirRound DEF RoundInv
  <2>3. CASE stop_for_burnout
    <3>1. /\ UNCHANGED <<waiting, granted>> /\ simulation_stop'
          /\ \E todo : prints_next(Monitor, todo)
      BY <2>3, BurnoutBegins DEF request_vars
    <3>2. UNCHANGED lines /\ \A u \in Threads : u # Monitor => job'[u] = job[u]
      BY <3>1 DEF prints_next, LogTypes, TypeOK
    <3> QED
      BY <1>0, <2>1, <3>1, <3>2, OthersKeepTheirRound DEF RoundInv
  <2> QED
    BY <1>3, <2>2, <2>3
<1>4. CASE \E c \in Coders : begins(c)
  <2>1. PICK c \in Coders : begins(c)
    BY <1>4
  <2>2. c \in Threads /\ moves(c) /\ UNCHANGED simulation_stop
    BY <1>0, <2>1, MoverHasNoStamp, WhatBegins
  <2>3. \E todo : prints_next(c, todo)
    BY <2>1, WhatBegins
  <2>4. UNCHANGED lines /\ \A u \in Threads : u # c => job'[u] = job[u]
    BY <2>3 DEF prints_next, LogTypes, TypeOK
  <2>5. CASE move(c, "dispatch", "lock_group")
    <3>1. \E served \in Coders :
            /\ served \in waiting
            /\ waiting' = waiting \ {served}
            /\ granted' = granted \cup {served}
            /\ prints_next(c, remaining(served, 3))
      BY <2>1, <2>5, WhatBegins DEF move
    <3> QED
      BY <2>2, <2>4, <2>5, <3>1, ReserveKeepsRounds
  <2>6. CASE ~move(c, "dispatch", "lock_group")
    <3>1. /\ UNCHANGED <<waiting, granted>>
          /\ \/ /\ move(c, "lock_debug", "print_debug")
                /\ prints_next(c, <<<<c, "debug">>>>)
             \/ /\ move(c, "lock_refactor", "print_refactor")
                /\ prints_next(c, <<<<c, "refactor">>>>)
      BY <2>1, <2>6, WhatBegins DEF request_vars
    <3>2. pc[c] \notin InGroup
      BY <3>1 DEF move, InGroup
    <3>3. \A u \in Coders : u # c => in_round(u)'
      BY <2>2, <2>4, <3>1, <3>2, OthersKeepTheirRound
    <3>4. \A x : <<x>> # <<>>
      OBVIOUS
    <3>5. \E x : job'[c] = <<x>>
      BY <2>2, <3>1 DEF prints_next, LogTypes, TypeOK
    <3>6. job'[c] # <<>>
      BY <3>4, <3>5, Zenon
    <3>7. in_round(c)'
      BY <1>0, <2>2, <2>4, <3>1, <3>6 DEF move, in_round, InAcquire, RoundInv
    <3> QED
      BY <2>4, <3>3, <3>7 DEF RoundInv
  <2> QED
    BY <2>5, <2>6
<1>5. UNCHANGED vars \/ Tick \/ (\E t \in Threads : read_clock(t)) =>
        UNCHANGED <<pc, job, lines, waiting, granted, simulation_stop>>
  BY DEF Tick, vars, print_vars, sim_vars, request_vars, read_clock
<1>6. (\E t \in Threads : ends(t)) => ends(Monitor) \/ \E c \in Coders : ends(c)
  BY DEF Threads
<1>7. CASE UNCHANGED vars \/ Tick \/ \E t \in Threads : read_clock(t)
  BY <1>1, <1>5, <1>7
<1> QED
  BY <1>2, <1>3, <1>4, <1>6, <1>7, WriteKeepsRounds, StepCases

-----------------------------------------------------------------------------
(* The invariant. *)

IInv ==
  /\ LogTypes /\ LockInv /\ CountInv
  /\ TimesInv /\ TimesInOrder
  /\ JobInv /\ GroupInv /\ RoundInv /\ GroupsAreWhole
  /\ QuietInv /\ BurnoutIsLast

LEMMA InitIInv == Init => IInv
<1> SUFFICES ASSUME Init PROVE IInv
  OBVIOUS
<1>1. /\ \A c \in Coders : pc[c] = "ask"
      /\ pc[Monitor] = "watch"
      /\ \A t \in Threads : pc[t] \in {"ask", "watch"} /\ job[t] = <<>> /\ stamp[t] = 0
      /\ Free \notin Threads
  BY LoggingArgs DEF Init, Threads
<1>2. <<>> \in Seq(Lines) /\ <<>> \in Seq(Coders \X Messages) /\ Len(<<>>) = 0
  BY EmptySeq
<1>3. TypeOK
  <2>1. job \in [Threads -> Seq(Coders \X Messages)] /\ stdout \in Seq(Lines)
    BY <1>2, Zenon DEF Init
  <2>2. stamp \in [Threads -> 0 .. MaxTime] /\ now \in 1 .. MaxTime
    BY LoggingArgs DEF Init
  <2>3. /\ compiles_done \in [Coders -> 0 .. number_of_compiles_required]
        /\ lines \in [Coders -> 0 .. 4]
    BY LoggingArgs DEF Init
  <2> QED
    BY <2>1, <2>2, <2>3 DEF Init, TypeOK
<1>4. LogTypes
  <2>1. Len(stdout) = 0
    BY <1>2 DEF Init
  <2>2. pc \in [Threads -> CoderPoints \cup MonitorPoints]
    BY DEF Init, CoderPoints, MonitorPoints
  <2> QED
    BY <1>1, <1>3, <2>1, <2>2 DEF LogTypes, CoderPoints, MonitorPoints
<1>5. DOMAIN stdout = {}
  BY DEF Init
<1>6. LockInv
  BY <1>1 DEF Init, LockInv, StatePoints, Printing
<1>7. CountInv
  BY LoggingArgs DEF Init, CountInv
<1>8. TimesInv /\ QuietInv /\ BurnoutIsLast
  BY <1>1, <1>5 DEF TimesInv, QuietInv, burnt, BurnoutIsLast
<1>9. TimesInOrder /\ GroupsAreWhole
  <2>1. 2 .. 0 = {}
    OBVIOUS
  <2>2. stdout = <<>> /\ Len(stdout) = 0
    BY <1>2 DEF Init
  <2> QED
    BY <2>1, <2>2 DEF TimesInOrder, GroupsAreWhole
<1>10. JobInv /\ GroupInv
  BY <1>1 DEF JobInv, GroupInv, Printing, InGroup
<1>11. RoundInv
  BY <1>1 DEF Init, RoundInv, in_round, InAcquire
<1> QED
  BY <1>4, <1>6, <1>7, <1>8, <1>9, <1>10, <1>11 DEF IInv

(* Any schedule, any number of coders. *)
THEOREM Invariance == Spec => []IInv
<1>1. Init => IInv
  BY InitIInv
<1>2. IInv /\ [Next]_vars => IInv'
  BY TypeStep, LockStep, SimTypeStep, TimesStep, JobStep, GroupStep, RoundStep, QuietStep
     DEF IInv
<1> QED
  BY <1>1, <1>2, PTL DEF Spec

(* The variables keep their types: a coder never counts more compiles than  *)
(* it was asked for, although it tests the count only between rounds.       *)
THEOREM TypeCorrect == Spec => []TypeOK
<1>1. IInv => TypeOK
  BY DEF IInv, LogTypes
<1> QED
  BY <1>1, Invariance, PTL

(* No line is written behind the burnout, although a coder's stop test and  *)
(* its write are steps apart: stop_for_burnout has both mutexes.            *)
THEOREM BurnoutEndsTheLog == Spec => []BurnoutIsLast
<1>1. IInv => BurnoutIsLast
  BY DEF IInv
<1> QED
  BY <1>1, Invariance, PTL

(* The three lines of a reservation are one behind the other, whoever       *)
(* writes them and whoever waits for log_mutex (log_pair_ready).            *)
THEOREM GroupsStayWhole == Spec => []GroupsAreWhole
<1>1. IInv => GroupsAreWhole
  BY DEF IInv
<1> QED
  BY <1>1, Invariance, PTL

(* No line is stamped earlier than the one above it: log_msg_force reads    *)
(* the clock behind log_mutex.                                              *)
THEOREM StampsGoForward == Spec => []TimesInOrder
<1>1. IInv => TimesInOrder
  BY DEF IInv
<1> QED
  BY <1>1, Invariance, PTL

(* Each coder's lines come in the order of its round, although another      *)
(* thread writes the first three of them.                                   *)
THEOREM RoundsAreKept == Spec => RoundsInOrder
<1>1. IInv /\ [Next]_vars =>
        [\A c \in Coders : lines'[c] # lines[c] =>
           stdout'[Len(stdout')].msg = round[lines[c] + 1]]_vars
  BY RoundStep DEF IInv
<1> QED
  BY <1>1, Invariance, PTL DEF Spec, RoundsInOrder

=============================================================================
