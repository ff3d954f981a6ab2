CONSTANTS
  number_of_coders = 2
  policy = "fifo"
  time_to_burnout = 4
  dongle_cooldown = 1
  time_to_compile = 1
  time_to_debug = 0
  time_to_refactor = 0
  number_of_compiles_required = 2
  StartTime = 1
  MaxTime = 8
  Free = Free
  Monitor = Monitor
SPECIFICATION Spec
CHECK_DEADLOCK FALSE
INVARIANT FailedAcquireHoldsNothing
