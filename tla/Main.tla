-------------------------------- MODULE Main --------------------------------
(***************************************************************************)
(* The whole program as its caller sees it: parse_arguments before what    *)
(* Launch models, the exit status behind it.                               *)
(***************************************************************************)
EXTENDS Launch, Decimal

CONSTANTS
  Commands,  (* the words that main may find behind the program's name     *)
  MaxTime,   (* INT64_MAX / 1000                                           *)
  MaxI64,    (* INT64_MAX                                                  *)
  Uptimes,   (* the values now_ms() may have during a run                  *)
  Elapsed    (* the times that log lines may carry                         *)

ASSUME Clocks ==
  /\ MaxTime \in Nat /\ MaxI64 \in Nat
  /\ 2 * MaxTime + 10 <= MaxI64 /\ MaxI64 <= MaxU64
  /\ Uptimes \subseteq 0 .. MaxTime
  /\ Elapsed \subseteq 0 .. MaxU64

VARIABLES
  argv,    (* the words of this call                                       *)
  parsed,  (* parse_arguments has succeeded                                *)
  status   (* what main is going to return                                 *)

main_vars == <<vars, argv, parsed, status>>

-----------------------------------------------------------------------------
(* parse_arguments. *)

(* The fields of t_args in the order of the words, and how wide they are. *)
fields  == <<"number_of_coders", "time_to_burnout", "time_to_compile",
             "time_to_debug", "time_to_refactor",
             "number_of_compiles_required", "dongle_cooldown">>
Counts  == {"number_of_coders", "number_of_compiles_required"}
Times   == Range(fields) \ Counts

(* What a caller hands over: a list of words, which are lists of characters. *)
ASSUME CommandLines ==
  \A a \in Commands :
    /\ Len(a) \in Nat /\ DOMAIN a = 1 .. Len(a)
    /\ \A i \in DOMAIN a \cap DOMAIN fields : a[i] \in Seq(Range(a[i]))

word(field)  == argv[CHOOSE i \in DOMAIN fields : fields[i] = field]
args(field)  == ft_parse_uint(word(field), field \in Counts)

parse_values    == \A field \in Range(fields) : args(field) # int_err
parse_scheduler == argv[8] \in {"fifo", "edf"}

(* Mutant of checked_times: the last one is forgotten. *)
checked_times_but_cooldown == Times \ {"dongle_cooldown"}

checked_times == Times

validate_semantic_constraints ==
  /\ \A field \in Counts : args(field) # 0
  /\ \A field \in checked_times : args(field) <= MaxTime

(* argc counts the program's name, too. *)
accepts ==
  /\ Len(argv) + 1 = 9
  /\ parse_values
  /\ parse_scheduler
  /\ validate_semantic_constraints

parsing == main = "app" /\ ~parsed

parse_arguments ==
  /\ parsing
  /\ accepts
  /\ parsed' = TRUE
  /\ UNCHANGED <<vars, argv, status>>

(* Nothing is initialised yet, and nothing is undone. *)
parse_error ==
  /\ parsing
  /\ ~accepts
  /\ main' = "exit"
  /\ status' = 1
  /\ UNCHANGED <<init_vars, thread_vars, flag_vars, count_vars, argv, parsed>>

(* What parse_arguments hands on is this run's number_of_coders. *)
MainInit ==
  /\ Init
  /\ argv \in Commands
  /\ accepts => args("number_of_coders") = number_of_coders
  /\ parsed = FALSE
  /\ status = 0

(* Mutant of fails: the result of start_coders is dropped. *)
fails_early == init_fail \/ create_monitor_fails

fails == init_fail \/ create_monitor_fails \/ start_coder_fails

(* A step of Launch; main remembers a failure until it returns. *)
run(step) ==
  /\ ~parsing
  /\ step
  /\ status' = IF fails THEN 1 ELSE status
  /\ UNCHANGED <<argv, parsed>>

main_runs == parse_arguments \/ parse_error \/ run(main_step)

MainNext ==
  \/ main_runs
  \/ run(\E t \in Threads : thread_step(t))
  \/ run(\E t \in Threads : spurious_wakeup(t))

MainSpec ==
  /\ MainInit /\ [][MainNext]_main_vars
  /\ WF_main_vars(main_runs)
  /\ \A t \in Threads : WF_main_vars(run(thread_step(t)))

-----------------------------------------------------------------------------
(* Properties. *)

(* The number a word stands for, in unbounded arithmetic. *)
is_number(w) == w # <<>> /\ \A i \in DOMAIN w : w[i] \in Digits

numbers(w) ==
  LET n[i \in 0 .. Len(w)] == IF i = 0 THEN 0 ELSE n[i - 1] * 10 + w[i]
  IN  n

number(w) == numbers(w)[Len(w)]

asked_for(field, values) ==
  is_number(word(field)) /\ number(word(field)) \in values

(***************************************************************************)
(* A run starts exactly when its command line asks for one: two positive   *)
(* counts and five times that "must fit int64 milliseconds" (arg.c:116),   *)
(* and it is started with the numbers the words stand for, whichever of    *)
(* them overflows which width on the way.                                  *)
(***************************************************************************)
well_formed ==
  /\ Len(argv) = 8
  /\ \A field \in Counts : asked_for(field, 1 .. MaxU32)
  /\ \A field \in Times : asked_for(field, 0 .. MaxTime)
  /\ argv[8] \in {"fifo", "edf"}

StartsAsAskedFor ==
  /\ parsed => well_formed /\ \A f \in Range(fields) : args(f) = number(word(f))
  /\ ~parsed /\ ~parsing => ~well_formed

(***************************************************************************)
(* No deadline, cooldown or sleep of a run that was let start overflows    *)
(* int64_t, up to the longest time the clock may show: what Codexion's and *)
(* SingleCoder's unbounded times rest on.                                  *)
(***************************************************************************)
SumsFit ==
  parsed => \A field \in Times, now \in Uptimes : now + args(field) + 10 <= MaxI64

first_blank(line) == SelectInSeq(line, LAMBDA ch : ch = Blank)

reads_back(time, id) ==
  LET line == build_line(time, id, NewLine)
      gap  == first_blank(line)
  IN  /\ ft_parse_uint(SubSeq(line, 1, gap - 1), FALSE) = time
      /\ ft_parse_uint(SubSeq(line, gap + 1, Len(line) - 3), TRUE) = id
      /\ line[1] = 0 => time = 0
      /\ gap - 1 <= Len(append_u64[MaxU64])

(***************************************************************************)
(* The time and the id in a log line are read back by the program's own    *)
(* parser as what they were, they have no leading zeros and never need     *)
(* more room than the largest number.                                      *)
(***************************************************************************)
LinesReadBack ==
  parsing => \A time \in Elapsed : reads_back(time, time % (MaxU32 + 1))

(***************************************************************************)
(* main returns 0 for a simulation that was begun and has ended, and 1 for *)
(* one that nobody has begun: a start that fails half-way is not reported  *)
(* as a success after its threads were joined.                             *)
(***************************************************************************)
StatusTellsTheRun ==
  main = "exit" =>
    IF status = 0 THEN simulation_started /\ \A t \in Threads : thread[t] = "done"
    ELSE ~simulation_started /\ \A t \in Threads : thread[t] \in {"none", "done"}

=============================================================================
