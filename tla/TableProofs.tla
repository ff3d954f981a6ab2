---------------------------- MODULE TableProofs ----------------------------
(***************************************************************************)
(* Codexion implements Table: every behaviour of the threads, with their   *)
(* locks, sleeps and clock readings, is one of the abstract table.         *)
(***************************************************************************)
EXTENDS CodexionProofs

(* The mapping in four clauses instead of a CASE. *)
LEMMA PlaceOf ==
  ASSUME IInv, NEW c \in Coders
  PROVE  /\ place[c] = "gone" <=> pc[c] = "exit"
         /\ place[c] = "compiling" <=> holds(c)
         /\ place[c] = "asking" <=> waiting[c]
         /\ place[c] \in {"away", "asking", "compiling", "gone"}
<1>1. waiting[c] => ~holds(c) /\ pc[c] # "exit"
  BY DEF IInv, RequestInv, holds, InAcquire, Holding, Scanning
<1>2. holds(c) => pc[c] # "exit"
  BY DEF holds, InAcquire, Holding, Scanning
<1> QED
  BY <1>1, <1>2 DEF place

LEMMA NextPlaceOf ==
  ASSUME IInv', NEW c \in Coders
  PROVE  /\ place'[c] = "gone" <=> pc'[c] = "exit"
         /\ place'[c] = "compiling" <=> holds(c)'
         /\ place'[c] = "asking" <=> waiting'[c]
         /\ place'[c] \in {"away", "asking", "compiling", "gone"}
<1>1. waiting'[c] => ~holds(c)' /\ pc'[c] # "exit"
  BY DEF IInv, RequestInv, holds, InAcquire, Holding, Scanning
<1>2. holds(c)' => pc'[c] # "exit"
  BY DEF holds, InAcquire, Holding, Scanning
<1> QED
  BY <1>1, <1>2 DEF place

(* Steps of the table, told by what becomes of each coder. *)
LEMMA StutterStep ==
  ASSUME UNCHANGED simulation_stop,
         \A a \in Coders : place'[a] = place[a]
  PROVE  UNCHANGED T!table_vars
BY DEF T!table_vars, place

LEMMA MoveStep ==
  ASSUME UNCHANGED simulation_stop,
         NEW c \in Coders, NEW to, place'[c] = to,
         \A a \in Coders \ {c} : place'[a] = place[a]
  PROVE  place' = [place EXCEPT ![c] = to]
<1>1. /\ place = [a \in Coders |-> place[a]]
      /\ place' = [a \in Coders |-> place'[a]]
  BY DEF place
<1> QED
  BY <1>1

LEMMA GetUpStep ==
  ASSUME UNCHANGED simulation_stop,
         NEW c \in Coders, place[c] # "gone", place'[c] = "gone",
         \A a \in Coders \ {c} : place'[a] = place[a]
  PROVE  T!Next
BY MoveStep DEF T!Next, T!GetUp

(* A place stays what it is when nothing it is made of changes. *)
LEMMA SamePlace ==
  ASSUME IInv, IInv', NEW a \in Coders,
         pc'[a] = "exit" <=> pc[a] = "exit",
         holds(a)' <=> holds(a),
         waiting'[a] <=> waiting[a]
  PROVE  place'[a] = place[a]
BY PlaceOf, NextPlaceOf

LEMMA TableStep ==
  ASSUME IInv, [Next]_vars
  PROVE  [T!Next]_(T!table_vars)
<1> USE DEF goto
<1>1. IInv'
  BY InvarianceStep
<1>2. ThreadTypes /\ FlagTypes /\ ThreadTypes'
  BY <1>1, TypeParts, ThreadStep DEF IInv
<1> USE <1>1, <1>2 DEF ThreadTypes, FlagTypes
<1>3. CASE Tick
  <2>1. UNCHANGED <<pc, waiting, granted, simulation_stop>>
    BY <1>3 DEF Tick, grant_vars
  <2> QED
    BY <2>1, SamePlace, StutterStep DEF holds
<1>4. CASE monitor_step
  <2>1. UNCHANGED <<pc, waiting, granted>>
    BY <1>4, MonitorFrame DEF scheduler_vars, grant_vars
  <2>2. \A a \in Coders : place'[a] = place[a]
    BY <2>1, SamePlace DEF holds
  <2>3. place' = place
    BY <2>2 DEF place
  <2>4. simulation_stop' = simulation_stop \/ stop_for_burnout
    BY <1>4 DEF monitor_step, monitor_round, check_burnouts, burnout_not_due,
                burnout_found, scan_ends, burnout_too_late, monitor_relock
  <2>5. stop_for_burnout => T!Stop
    BY <2>3 DEF stop_for_burnout, T!Stop
  <2> QED
    BY <2>2, <2>4, <2>5, StutterStep DEF T!Next
<1>5. ASSUME NEW c \in Coders, outside(c)
      PROVE  [T!Next]_(T!table_vars)
  <2>1. /\ UNCHANGED <<waiting, granted>>
        /\ \A a \in Coders \ {c} : pc'[a] = pc[a]
        /\ pc[c] \notin InAcquire /\ pc'[c] \notin InAcquire
    BY <1>5, OutsideFrame DEF scheduler_vars, grant_vars
  <2>2. \A a \in Coders \ {c} : place'[a] = place[a]
    BY <2>1, SamePlace DEF holds
  <2>3. pc[c] # "exit" /\ (holds(c)' <=> holds(c))
    BY <1>5, <2>1
       DEF holds, outside, next_round, compile_sleep, compile_checked,
           finish_compile, set_stop, wake_all_dongles, debug_sleep,
           refactor_sleep
  <2>4. pc'[c] # "exit" => place'[c] = place[c]
    BY <2>1, <2>3, SamePlace
  <2>5. pc'[c] = "exit" => place[c] # "gone" /\ place'[c] = "gone"
    BY <2>3, PlaceOf, NextPlaceOf
  <2>6. CASE set_stop(c)
    <3>1. pc'[c] # "exit" /\ simulation_stop'
      BY <2>6 DEF set_stop
    <3>2. \A a \in Coders : place'[a] = place[a]
      BY <2>2, <2>4, <3>1
    <3>3. CASE simulation_stop
      BY <3>1, <3>2, <3>3, StutterStep, <1>2
    <3>4. CASE ~simulation_stop
      BY <2>6, <3>2, <3>4 DEF T!Next, T!Stop, set_stop, place
    <3> QED
      BY <3>3, <3>4
  <2>7. CASE ~set_stop(c)
    <3>1. UNCHANGED simulation_stop
      BY <1>5, <2>7 DEF outside, next_round, compile_sleep, compile_checked,
                        finish_compile, wake_all_dongles, debug_sleep,
                        refactor_sleep
    <3> QED
      BY <2>2, <2>4, <2>5, <3>1, StutterStep, GetUpStep
  <2> QED
    BY <2>6, <2>7
<1>6. ASSUME NEW c \in Coders, submit(c)
      PROVE  T!Next
  <2>1. \A a \in Coders \ {c} :
          /\ pc'[a] = pc[a]
          /\ waiting'[a] = waiting[a]
          /\ granted'[a] = granted[a]
    BY <1>6 DEF submit, register_request
  <2>2. \A a \in Coders \ {c} : place'[a] = place[a]
    BY <2>1, SamePlace DEF holds
  <2>3. place[c] = "away"
    <3>1. ~holds(c) /\ pc[c] # "exit" /\ ~waiting[c]
      BY <1>6 DEF submit, holds, IInv, RequestInv, InAcquire, Holding, Scanning
    <3> QED
      BY <3>1, PlaceOf
  <2>4. place'[c] = "asking"
    BY <1>6, NextPlaceOf DEF submit, register_request
  <2>5. UNCHANGED simulation_stop
    BY <1>6 DEF submit
  <2> QED
    BY <2>2, <2>3, <2>4, <2>5, MoveStep DEF T!Next, T!Ask, T!move
<1>7. ASSUME NEW c \in Coders, acquire_gives_up(c)
      PROVE  T!Next
  <2>1. \A a \in Coders \ {c} :
          /\ pc'[a] = pc[a]
          /\ waiting'[a] = waiting[a]
          /\ granted'[a] = granted[a]
    BY <1>7 DEF acquire_gives_up, withdraw_request
  <2>2. \A a \in Coders \ {c} : place'[a] = place[a]
    BY <2>1, SamePlace DEF holds
  <2>3. place[c] # "gone" /\ place'[c] = "gone"
    BY <1>7, PlaceOf, NextPlaceOf DEF acquire_gives_up
  <2>4. UNCHANGED simulation_stop
    BY <1>7 DEF acquire_gives_up
  <2> QED
    BY <2>2, <2>3, <2>4, GetUpStep
<1>8. ASSUME NEW c \in Coders, dispatching(c)
      PROVE  UNCHANGED T!table_vars
  <2>1. UNCHANGED <<waiting, granted, simulation_stop>>
    BY <1>8, DispatchingFrame DEF grant_vars
  <2>2. \A a \in Coders : pc'[a] = pc[a] \/ (pc[a] \in Holding /\ pc'[a] \in Holding)
    BY <1>8, DispatchingFrame DEF Holding, Scanning
  <2>3. \A a \in Coders : place'[a] = place[a]
    BY <2>1, <2>2, SamePlace DEF holds, InAcquire, Holding, Scanning
  <2> QED
    BY <2>1, <2>3, StutterStep
<1>9. ASSUME NEW c \in Coders, scan_reserve(c)
      PROVE  T!Next
  <2>1. PICK s \in Coders : s = scan_i
    BY <1>9 DEF IInv, ScanInv, scan_reserve
  <2>2. waiting[s] /\ ~simulation_stop /\ pc[s] \in InAcquire
    BY <1>9, <2>1 DEF IInv, ScanInv, RequestInv, Scanning, scan_reserve
  <2>3. /\ pc[c] = "reserve" /\ pc' = [pc EXCEPT ![c] = "scan"]
        /\ UNCHANGED simulation_stop
    BY <1>9 DEF scan_reserve, scan_frame
  <2>4. /\ granted'[s]
        /\ \A a \in Coders \ {s} :
             waiting'[a] = waiting[a] /\ granted'[a] = granted[a]
    BY <1>9, <2>1 DEF scan_reserve, dispatch_reserve, reserve_pair
  <2>5. \A a \in Coders \ {s} : place'[a] = place[a]
    BY <2>3, <2>4, SamePlace DEF holds, InAcquire, Holding, Scanning
  <2>6. place[s] = "asking"
    BY <2>2, PlaceOf
  <2>7. place'[s] = "compiling"
    <3>1. pc'[s] \in InAcquire
      BY <2>2, <2>3 DEF InAcquire, Holding, Scanning
    <3>2. holds(s)'
      BY <2>4, <3>1 DEF holds, InAcquire, Holding, Scanning
    <3> QED
      BY <3>2, NextPlaceOf
  <2>8. \A a \in Coders \ {s} :
          requests_overlap(s, a) => place[a] # "compiling"
    <3>1. \A d \in Pair(s) : available[d]
      BY <1>9, <2>1 DEF scan_reserve, dispatch_reserve, can_reserve,
                        scheduler_pair_ready, dongle_ready
    <3>2. \A a \in Coders : holds(a) => ~requests_overlap(s, a)
      BY <3>1 DEF IInv, PairExclusion, requests_overlap
    <3> QED
      BY <3>2, PlaceOf
  <2>9. T!Compile(s)
    BY <2>2, <2>3, <2>5, <2>6, <2>7, <2>8, MoveStep DEF T!Compile, T!move
  <2> QED
    BY <2>9 DEF T!Next
<1>10. ASSUME NEW c \in Coders, settling(c)
       PROVE  UNCHANGED T!table_vars
  <2>1. UNCHANGED <<waiting, granted, simulation_stop>>
    BY <1>10, SettlingFrame DEF scheduler_vars, grant_vars
  <2>2. \A a \in Coders :
          \/ pc'[a] = pc[a]
          \/ pc[a] \in InAcquire /\ pc'[a] \in InAcquire
          \/ pc[a] \in InAcquire /\ pc'[a] = "compile" /\ granted[a]
    BY <1>10, SettlingFrame DEF InAcquire, Holding, Scanning
  <2>3. \A a \in Coders : place'[a] = place[a]
    BY <2>1, <2>2, SamePlace DEF holds, InAcquire, Holding, Scanning
  <2> QED
    BY <2>1, <2>3, StutterStep
<1>11. ASSUME NEW c \in Coders, release_both_dongles(c)
       PROVE  T!Next
  <2>1. /\ UNCHANGED <<waiting, granted, simulation_stop>>
        /\ \A a \in Coders \ {c} : pc'[a] = pc[a]
        /\ pc[c] = "release" /\ pc'[c] = "check"
    BY <1>11 DEF release_both_dongles, grant_vars
  <2>2. \A a \in Coders \ {c} : place'[a] = place[a]
    BY <2>1, SamePlace DEF holds
  <2>3. place[c] = "compiling"
    BY <2>1, PlaceOf DEF holds
  <2>4. place'[c] = "away"
    <3>1. ~holds(c)' /\ pc'[c] # "exit" /\ ~waiting'[c]
      BY <2>1 DEF holds, IInv, RequestInv, InAcquire, Holding, Scanning
    <3> QED
      BY <3>1, NextPlaceOf
  <2> QED
    BY <2>1, <2>2, <2>3, <2>4, MoveStep DEF T!Next, T!Finish, T!move
<1>12. CASE UNCHANGED vars
  <2>1. UNCHANGED <<pc, waiting, granted, simulation_stop>>
    BY <1>12 DEF vars, scheduler_vars, grant_vars
  <2> QED
    BY <2>1, SamePlace, StutterStep DEF holds
<1> QED
  BY StepCases, <1>3, <1>4, <1>5, <1>6, <1>7, <1>8, <1>9, <1>10, <1>11, <1>12

(***************************************************************************)
(* The simulation implements the table, for any number of coders: nobody   *)
(* compiles beside a compiling neighbour or after the stop, every compile  *)
(* was asked for, and who has got up does not come back.                   *)
(***************************************************************************)
THEOREM Implementation == Spec => ImplementsTable
<1>1. Init => T!Init
  BY DEF Init, scheduler_init, coders_initialised, T!Init, place, holds,
         InAcquire, Holding, Scanning
<1>2. IInv /\ [Next]_vars => [T!Next]_(T!table_vars)
  BY TableStep
<1> QED
  BY <1>1, <1>2, Invariance, PTL DEF Spec, ImplementsTable, T!Spec

=============================================================================
