# Codexion in TLA+

Codexion (`src/README.md`) is a simulation in the manner of the dining
philosophers: *coders* sit around a table, a *dongle* lies between any two of
them, and a coder compiles only while it holds the dongles on both of its sides.
A coder that does not begin to compile within `time_to_burnout` milliseconds of
the last time it did burns out and the simulation stops; it also stops when every
coder has compiled `number_of_compiles_required` times. Every coder is a POSIX
thread, a monitor thread looks for burnouts, and pairs of dongles are reserved by
a scheduler that has no thread of its own: each waiting coder runs it, for
everybody, under `app->state_mutex`.

This directory holds a model of that program, the TLC runs that check it on small
tables, and TLAPS proofs for tables of every size. Paths below are relative to
`src/`.

## 1. Inventory

| component | state | operations | interacts with |
|---|---|---|---|
| Pair scheduler (`src/sim/scheduler_*.c`, `release.c`) | per coder `request` (sequence, deadline), `waiting`, `granted`; per dongle `available`, `released_at`; `next_sequence` | `scheduler_acquire_pair`, `scheduler_dispatch`, `reserve_pair`, `wait_for_scheduler`, `release_both_dongles` | run by the coder threads under `state_mutex`; reads the clock several times per call; sleeps on `stop_cond` |
| Coder threads (`sim.c`, `acquire.c`, `sleep.c`) | position in `coder_routine`, `compiles_done`, `last_compile_start` | request, compile, release, count, debug, refactor, exit | scheduler, log, `set_stop` |
| Monitor (`monitor.c`, `sim_helpers.c`) | the scan index, `simulation_stop` | `check_burnouts`, `stop_for_burnout`, `set_stop` | gives `state_mutex` back between finding a burnout and declaring it; wakes every sleeper |
| Start barrier and joins (`start_helpers.c`, `thread_start.c`, `thread_join.c`, `main.c`) | `simulation_started`, thread handles | create the threads, hold them at `start_cond`, release or abort them, join them | `main` and all threads |
| Single-coder dongle (`sim_stuff.c`) | the dongle's mutex, condition and request heap | `acquire_dongle`, `wait_for_dongle`, `release_dongle` | used by the only coder of a one-coder table, which has one dongle and can never compile |
| Request heap (`heap_*.c`) | array and size | push, pop, peek, remove, ordered by FIFO or EDF | used by the single-coder dongle |
| Initialisation and cleanup (`init_simulation.c`, `dongle_init.c`, `coder_init.c`, `heap_init.c`, `sim_cleanup.c`) | which mutexes, conditions and blocks are live | build everything or undo what was built | `main` |
| Logging (`utils/printing.c`) | `log_mutex` | one line, or the group of lines of a reservation | takes `log_mutex`, then `state_mutex` for the stop test |
| Arguments (`arg/arg.c`, `utils/utils.c`) | `args` | `parse_arguments`: count, parse, look up the policy, validate | `main`, which returns 1 when it fails |
| Numbers (`ft_parse_uint`, `append_u64`, `build_line`) | none | decimal to unsigned and back | arguments, log lines |

What is hard here:

* **Reservations for others.** A dispatcher reserves pairs for sleeping threads; a
  sleeper learns of it when it wakes, by broadcast, timeout or spuriously, and by
  then its deadline may have passed.
* **Many readings of the clock.** One `scheduler_dispatch` reads `now_ms()` for
  every request it looks at, and again to record a reservation.
* **The monitor's gap.** It unlocks between finding and declaring a burnout, and
  the last coder to finish unlocks between seeing that and stopping.
* **Timed waits without a waker.** Nobody broadcasts when a cooldown ends.
* **Shutdown.** `main` joins every thread; a thread that sleeps for ever hangs it.
* **Lock order.** `log_mutex`, `state_mutex` and the dongles' mutexes are nested in
  several places.
* **Partial start.** Any allocation, initialisation or thread creation may fail, and
  the failure has to survive the joins and the cleanup behind it.
* **Two clocks.** Deadlines and cooldowns are on the monotonic clock, which counts
  from boot; the moments at which waits end are on the wall clock, which may be set.
* **Widths.** Words, products and sums are tested against 32, 64 and 63 bits in
  different places; what one test lets through another one relies on.

`PROJECT.json` lists every such hazard at its line, with the property that covers
it.

## 2. The modules

| module | models | role |
|---|---|---|
| `PairScheduler` | `scheduler_compare.c`, `scheduler_ready.c`, `scheduler_dispatch.c`, `release.c`, what `init_coders`, `init_dongles` and `start_all_threads` leave behind | state, initial state and operations of the pair scheduler, without threads; extended by `Codexion` and `Ring` |
| `Codexion` | `sim.c`, `scheduler_pair.c`, `acquire.c`, `monitor.c`, `sim_helpers.c`, `sleep.c` with two coders or more | the composed system: the coder threads, the monitor, the clock |
| `Table` | nothing: a promise | abstract specification implemented by `Codexion` |
| `CooldownHistory` | `Codexion` and one history variable | when a dongle was really given back |
| `WaitHistory` | `Codexion` and one history variable | how long a coder was held up on its way into a timed wait |
| `WallClock` | `Codexion` and `build_deadline`'s wall clock | `Codexion` when that clock is set back |
| `Ring` | the scheduler and `scheduler_acquire_pair` with infinitely fast threads | tables of four, too large for `Codexion` |
| `Launch` | `main.c`, `init_simulation.c`, `dongle_init.c`, `coder_init.c`, `fails.c`, `sim_cleanup.c`, `thread_start.c`, `start_helpers.c`, `thread_join.c` | start, failing start, join, cleanup |
| `Main`, `MCMain` | `main.c`, `arg.c` | `Launch` between the command line and the exit status; the command lines that are checked |
| `Decimal` | `ft_parse_uint`, `append_u64`, `build_line` | pure functions on words; extended by `Main` |
| `Logging` | `printing.c`, `log_reservation`, and every caller of `log_msg` | the two mutexes and the order of the lines |
| `SingleCoder` | `sim_stuff.c`, the dongle half of `acquire.c` and `release.c` | the table of one |
| `RequestHeap`, `MCRequestHeap`, `RequestQueue` | `heap_*.c`; `RequestQueue` is a promise | the array heap implements a bounded priority queue; who asks in the run |
| `CodexionProofs`, `TableProofs`, `LaunchProofs`, `MainProofs`, `LoggingProofs`, `SingleCoderProofs`, `RequestHeapProofs`, `RingProofs` | | TLAPS proofs |

**PairScheduler and Codexion.** A coder's `request`, `waiting`, `granted`,
`last_compile_start` and a dongle's `available`, `released_at` keep the names of the
C fields, as functions on coders and dongles numbered as in the arrays.
`scheduler_dispatch` is a scan with an index and a *changed* flag, `scan_i` and
`scan_changed`, as its `i` and `changed`. The code reads the clock for the deadline test
(`scheduler_dispatch.c:50`), for each dongle's cooldown (`scheduler_ready.c:21`) and for
the recording (`scheduler_dispatch.c:31`). In the model the deadline test is one step and
the readiness test and the recording are the next, with one reading: a dongle that was
ready stays ready while the clock moves on under the mutex, so a later recording is the
same as a later test. A timed wait is made of two readings as well: `wait_for_scheduler`
takes its length from one and `build_deadline` adds it to the next (`sleep.c:22`); at
`"set_timer"`, in between, `timer` is the length and the clock may move. `pc[c]` is the
place of a coder in `coder_routine`, one value for each point at which it holds no lock or reads the
clock; `m_pc` and `m_i` are the monitor's place and index. `state_mutex` is the
mutex itself. A critical section that reads the clock once at most is one action. The
wait on `stop_cond` is membership of `stop_waiters` with a `timer`: a broadcast
empties the set, a timeout needs `timer[c] <= now`, a spurious wakeup needs nothing.
After it the coder still has to get the mutex.

**Launch.** `main` is the place of the main thread. Initialisation runs through
named steps, each of which may fail; `live` is what has been initialised and not
taken back, and every failure path (`init_fail_*`, `dongle_init_err_result`) is the
set it destroys. Threads then go through the start barrier; what they do behind it
is `Codexion`'s matter and is here one step that may raise the stop.

**Main and Decimal.** `Main` puts `parse_arguments` in front of Launch's first step
and the exit status behind its last: `run(step)` is a step of `Launch` that remembers
a failure. A word is a sequence of digits and other characters; `read_char` is one
turn of `ft_parse_uint`'s loop, with its overflow test and arithmetic modulo
`MaxU64 + 1`, and `reading` is the value before each turn. The sizes are constants, so
that a run can reach every limit with words of five digits. The number of coders is
`Launch`'s constant, so an accepted command line for another number of coders belongs to
another instance and `MainInit` leaves it out; rejected ones all stay. `append_u64` is a
recursive function that takes two digits per turn.

**WallClock.** Its only new action sets the wall clock back, once, at any moment: the
coders in a timed wait at that moment (`oversleeps`) get out of it by a broadcast or
spuriously, no longer by their timeout.

**Logging.** Here every lock and write is a step, and when a coder is served or late
is left open (any of it may happen at any time), so what holds here holds for each
schedule `Codexion` allows. `stdout` keeps the last three lines, enough for a group.

**SingleCoder.** Both sides of the coder are the same dongle, so it takes
`acquire_single_coder_dongle`, which can never lead to a compile. `dongle_mutex` and
`state_mutex` are separate and held across steps where the code nests them. Its timed
wait has the same two readings as `Codexion`'s.

**RequestHeap.** `heap_push`, `heap_pop` and `heap_remove` walk the array as the loops
do, one turn of a loop a step; `doing` says which loop runs and `index` where it is. No
other call comes in between, because the callers hold the dongle's mutex. The program
never has more than one request in a heap; the module lets any sequence of coders
(`askers`) push, pop and remove.

**Ring.** No time passes and nobody else runs while `state_mutex` is held, and a coder
that has compiled asks again at once, any number of times. `scheduler_acquire_pair` is
whole: its loop tests the stop and the deadline each time round, a sleeper may wake at any
moment, granted or not, and one that wakes too late gives up and takes a pair reserved for
it along. The monitor may stop the run from the first deadline on. With several readings
of the clock in one dispatch, `DispatchIsComplete` would compare a pass with a later
moment, at which another dongle may have cooled; that is why the clock is frozen here.

**WaitHistory.** `held_up` adds up how far the clock ran while a coder was at
`"set_timer"`, and keeps the sum until its wait ends.

## 3. Runs

| run | instance | shows |
|---|---|---|
| `codexion_fifo` | `WaitHistory`: 3 coders, FIFO, 1 compile, cooldown 2, other durations 1, burnout 4, time 2..6 | types, exclusion, a reservation wakes its sleeper, no sleeper misses its turn, dongles go out and come back in pairs, service in order, implements `Table` |
| `codexion_edf` | 2 coders, EDF, 2 compiles, burnout 5, time 1..8 | the inductive invariant, a stop has a reason, nobody asleep after the stop, no reservation behind it, burnouts are real, counted compiles are full, order by deadline, implements `Table` |
| `codexion_live` | `WallClock`: 2 coders, FIFO, 1 compile, cooldown 2 from boot at 0, time 1..8, fair | every thread returns, even when the timeouts of its waits never come |
| `ring` | 4 coders, EDF, 1 compile after the other, burnout 3, time 1..5 | a dispatch leaves nobody who could be served, whatever was reserved, released and lost before |
| `launch` | `MCMain`: some 110 command lines, 3 coders and the monitor, fair | a run starts exactly when it is asked for, no sum of its times overflows, numbers are read back as written, nothing leaks, nobody runs alone or outlives the locks, the exit status tells the run, `main` returns |
| `logging` | 2 coders, 2 compiles, 2 ticks, fair | burnout line last, whole groups, times and rounds in order, mutexes given back |
| `single_coder` | burnout 4, cooldown 7, starts at 1, 3, 6 and 8, fair | burns out cleanly, leaves dongle, queue and mutex clean, is not left asleep, all without a timeout |
| `request_heap` | 8 requests by 7 coders, 2 deadlines, capacity 6, EDF | heap order between the calls; a bounded priority queue with withdrawal |
| `orphaned_pair` | 2 coders, 2 compiles | *violated*: a failed acquisition keeps the pair |
| `late_acquisition` | 2 coders | *violated*: a pair is acquired at the deadline |
| `cooldown_short` | 2 coders | *violated*: a cooldown is cut short |
| `overtaking` | 4 coders, FIFO, time 1..8 | *violated*: a request is overtaken again and again |

**Bounds.** `MaxTime` stops the clock. In the `codexion_*` runs it lies at or beyond the
first deadline, so that on-time and late coders, cooldowns, timeouts and burnouts all
occur; the counters then stay bounded by themselves. Three coders are the smallest
table on which a coder has two different neighbours and everybody competes with
everybody; four the smallest with coders who do not. In `codexion_edf` and
`codexion_live` the burnout time is just long enough for everybody to finish, so that
`set_stop` and the monitor's late burnouts happen as well. In `codexion_fifo` the
cooldown is 2, so that a coder held up for two milliseconds between the two readings of
its wait oversleeps: without `held_up`, `NoSleeperMissesItsTurn` is violated there. In
`codexion_live` `MaxTime` lies past every deadline of a one-compile run (with two
compiles a deadline renewed late would lie beyond the bound and the monitor could not reach it: an effect
of the bound, not of the code). Times are milliseconds; durations of zero and one
exercise both sides of each comparison, and the single coder's starts put the only
dongle before, in and after its initial cooldown. `MaxWait` is the two-second cap of
a wait. In `launch` the widths are small (`MaxU32` 127, `MaxI64` 8191, `MaxU64` 16383,
`MaxTime` 81 for `INT64_MAX / 1000`) and the command lines are a valid one with one
word replaced by a word at, below or above each of these limits, by one that wraps to a
small number, by an empty one or by one with other characters in it; the times that are
written and read back are all those of up to three digits and those around the next
lengths, up to `MaxU64`. In `ring` `MaxTime` lies one millisecond past the first deadline,
so that coders give up, with and without a pair, and go on after each other's losses; in
`overtaking` it lies before it (`MaxTime < StartTime + time_to_burnout`).
Deadlock checking is off wherever the threads end by returning; that they get there
is what the liveness properties say.

**Fairness.** Only weak fairness, of the clock, of each thread and of the monitor: a
thread that stays able to run is eventually run. Spurious wakeups, failures, the
choice of the coder that burns out and a lock's order of service are left
unconstrained. In `WallClock` a coder whose timeout is out of reach is not assumed to
run, and in `SingleCoder` no wait's timeout is: there, broadcasts alone get the coder
home. `Launch` also assumes that a thread past the barrier eventually
returns, which is what `AllThreadsReturn` of `Codexion` establishes. A mutex is given
to whoever asks while it is free and nobody is promised a turn against competitors,
except through weak fairness.

## 4. What the runs found

* `orphaned_pair`: `scheduler_acquire_pair` tests the old deadline before `granted`
  (`src/sim/scheduler_pair.c:68`). A coder served just before its deadline by another
  thread, and waking just after it, gives up; its dongles stay unavailable although
  `src/sim/acquire.c:27` says a partial acquisition is released.
* `late_acquisition`: the deadline is tested with one reading of the clock and the
  acquisition recorded with a later one (`src/sim/scheduler_dispatch.c:50` and `:31`);
  README.md:127 says acquisition happens before the deadline.
* `cooldown_short`: `released_at` is read before `state_mutex` is taken
  (`src/sim/release.c:30`), so the cooldown starts before the dongle is back.
* `overtaking`: only a request whose two dongles are both available protects them
  (`src/sim/scheduler_ready.c:57`); README.md:97-98 says later requests cannot delay
  an earlier overlapping one repeatedly.

Observed while modelling, in nobody's way as far as the documents go: coders that
have finished are still watched for burnouts; between `finish_compile` and `set_stop`
the monitor may declare a burnout of a run in which all have finished; every dispatch
broadcasts, so two waiters wake each other in turn; a timed wait's limit is on the
wall clock and `now_ms` on the monotonic one, so that a wall clock set back makes a
coder sleep past its turn and burn out (everybody still returns, but
`NoSleeperMissesItsTurn` holds only without it); the length of that wait is measured
before the clock is read for its end, so that a thread held up in between oversleeps by
as long (`held_up`); requests whose deadline is past but
whose coder has not yet noticed still block overlapping ones; a coder's pair may be
logged as taken before its neighbour's "is debugging" line; `released_at = 0` makes
unused dongles cool from boot.

## 5. Proofs

Every safety invariant and every action property that a passing run checks is also a
theorem, for every value of the constants the assumptions allow; so are the
refinements. A run checks each on a small instance first.

**`CodexionProofs`** proves, for any number of coders from two on, any timing and both
policies, `Spec => []IInv` and from it type correctness, `PairExclusion`,
`StopIsJustified`, `NoSleeperAfterStop`, `NoReservationAfterStop`, `BurnoutIsReal` and
`CountedCompileIsFull`. Assumptions: `SchedulerArgs` and `SimulationArgs`, the
constraints of `arg.c` on the arguments and a run that starts at a positive time. The
invariant is stronger than the properties because

* `MutexInv` says which position holds `state_mutex`: two scans never interleave;
* `RequestInv` ties a waiting request to a coder inside `scheduler_acquire_pair`, and
  its deadline to the one the monitor goes by;
* `ScanInv` says a dispatcher runs before the stop only, and the request it has
  selected is still waiting when it is recorded, which exclusion needs;
* `BurnInv` covers the monitor's gap: no dispatcher holds the burned-out coder;
* `FinishInv` covers the gap before `set_stop`;
* `CompileInv` says how far a compile has come at each position.

Three more invariants stand on top of it:

* `SleepInv`: as long as the pair of a sleeper is reserved, some dispatcher is still on
  its way to the broadcast. Hence `ServedIsWoken`.
* `TimerInv`: the timer of a sleeper with both dongles back ends with their cooldown,
  or at most a millisecond from now, or later by as long as the coder was held up between
  the two readings of its wait. `LengthInv` says the same of the length at `"set_timer"`,
  and `AwakeInv` that nobody sleeps then, so that nobody can be missed. The timer was
  computed when the coder fell asleep; that it stays right while others reserve and
  release is `NoWakeupIsLost`, proved of `WaitHistory`'s specification, every behaviour of
  which is one of `Codexion` with `held_up` beside it.
* `DonglesGoInPairs` (`PairsStayWhole`): the dongles that are out are the whole pairs of
  distinct owners. An owner is a coder that holds a pair or one that has left the table
  with a pair reserved for it (`orphaned_pair`), so the owners cannot be read off the
  state and the invariant says that some exist. It does not say that no dongle is lost,
  which is false, but that a loss is always the whole pair of a coder that gave up. From
  it `ServiceInOrder`: with two or three
  coders, all pairs overlap, so a coder that is served finds no other pair out, every
  dongle back, and every waiting request a competitor it beats. From four coders on
  `ReservedInOrder` is false, which is what `overtaking` shows; the theorem therefore
  has `number_of_coders <= 3` as its hypothesis.

Each action is grouped with those that change the same variables (`outside`,
`dispatching`, `settling`); a frame lemma per group says what it leaves alone, and
each conjunct is carried through the groups it can be disturbed by.

**`TableProofs`** proves `Spec => T!Spec` under the mapping `place`: a reservation is
`Compile`, giving the dongles back is `Finish`, leaving the routine from wherever it
is `GetUp`, the stop is `Stop`, and everything else stutters.

**`LaunchProofs`** proves, for any number of coders, `Spec => []IInv` of `Launch`,
hence `TypeOK`, `CleanupIsExact`, `LocksOutliveThreads` and `NobodyRunsAlone`. `LiveInv` ties what
is initialised to the next step (the loop over dongles is the interesting case),
`ThreadInv` the threads that exist to `coders_started`, up while creating and down
while joining, and `BarrierInv` the open barrier to a complete set of threads. The
assumption is `LaunchArgs`: at least one coder.

**`MainProofs`** is about the numbers and about `main`.

* `ParsesNumbers`: for a word of any length and integers of any size `ft_parse_uint`
  returns the number the word stands for if it fits, and fails otherwise. A loop is a
  recursive function on `0 .. n`; what holds before each of its turns is shown by
  looking at the first turn before which it would not (`LeastNumber`, from the
  well-foundedness of `<`), and `Iteration` shows that the function exists. The same
  argument, over the numbers that `append_u64` takes pairs of digits off, gives the digits
  it writes, and both together `LinesReadBack`.
* `MainSpec => Spec`, for any command lines: a parse error is a first initialisation
  that fails, and everything proved of `Launch` holds of `main`.
* `StatusTellsTheRun` follows from `StatusInv`, which ties the status to the place of
  `main` and to the barrier, and from `Launch`'s invariant.
* `ParseInv` says what `parse_arguments` has found out of the command line; with
  `ParsesNumbers` it gives `StartsAsAskedFor` and `SumsFit`.

The assumptions are `WordSizes` (a `uint32_t` holds a digit and is smaller than a
`uint64_t`), `Clocks` (two times of at most `MaxTime` and a bit fit into an `int64_t`,
which is why the program divides `INT64_MAX` by 1000) and `CommandLines` (a command
line is a list of words, a word a list of characters).

**`LoggingProofs`** proves `TypeOK`, `TimesInOrder`, `GroupsAreWhole`, `BurnoutIsLast`
and `RoundsInOrder` for any number of coders and any schedule. `LockInv` says which
place holds which mutex; `TimesInv` that a stamp taken under `log_mutex` is not behind
the last line; `JobInv` and `GroupInv` what a thread has left to write, and that what
it has written of a group is at the end of the log; `RoundInv` how many lines of its
round a coder has at each place, written by itself or by whoever served it; `QuietInv`
that no coder is between its stop test and its line once the burnout is being
declared; `CountInv` that no coder counts a compile too many. Assumption:
`LoggingArgs`.

**`SingleCoderProofs`** proves `TypeOK`, `LeavesTheTableClean` and
`NobodySleepsOnADongle`, assuming `SingleArgs` (the bounds on the arguments). `CoderInv`
ties the dongle's mutex, the queue and the dongle itself to the coder's place; `MonitorInv` says
that once the monitor has woken the dongle, under its mutex, the coder is not between its test of
the flag and its wait, which is where the last wakeup could get lost.

**`RequestHeapProofs`** proves `TypeOK`, `HeapOrder` and `ImplementsQueue` for a heap of
any capacity, any deadlines and any sequence of callers (`HeapArgs`). `OrderInv` says
that while a loop runs only the request it carries may be out of order, and that those
below it are in order with the one above it; `DistinctInv` that no two requests have
the same number, so that there is one best. That the head is this one is shown with
the first index at which it is not. In the refinement a call takes effect in its first
step, and the turns of its loops stutter.

**`RingProofs`** proves `DispatchIsComplete` for a ring of any size (`SchedulerArgs`,
`RingArgs`), with `CallInv`, who has the mutex and where its scan is, and `PassInv`: as
long as a pass has reserved nothing, the coders it has looked at cannot be served; the
pass after which `scheduler_dispatch` returns is one that has reserved nothing at all.

**Model-checked only.** Liveness under fairness, which is beyond the prover:
`AllThreadsReturn`, `MainReturns`, `MutexesAreGivenBack`, `BurnsOutCleanly`. The four
runs that find a violation show one, and have nothing to prove.


## 6. Not modelled

The text of messages, usage and errors (a message is one character in `build_line`) and
the 64 bytes of its buffer; a partial or failing `write`. `ms_to_wait * 1000000` may
wrap, and a wall clock set forward ends waits too early: both are covered as spurious
wakeups. In `SingleCoder` the monitor's stop leaves out `log_mutex`, which nobody else
wants for long there, and its already-stopped branch, which the only coder cannot cause;
`Logging` has both. `pthread_create` that fails with a non-zero handle leads to a join
POSIX leaves undefined; it is taken to return. `wake_all_dongles` has no waiters with
two coders or more. `init_fail_heap` is never called.

## 7. Plan

Built so far, in this order: scheduler and simulation with their proofs, the abstract
table, start and end with their proofs, the log, the table of one, the heap, the
larger ring, the command line with its numbers and the exit status, the wall clock. To
come:

1. `Logging` under `Codexion`'s schedule (the composition of both on two coders), so
   that what the log shows is tied to reservations and not to any schedule;
2. order of service for tables of four and more: what `ReservedInOrder` becomes when
   only a request whose pair is ready protects its dongles, checked and then proved
   from the ledger;
3. the table of one beside `RequestHeap`: that `SingleCoder`'s queue is the heap at
   capacity one.
