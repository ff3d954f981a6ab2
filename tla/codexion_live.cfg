CONSTANTS
  number_of_coders = 2
  policy = "fifo"
  time_to_burnout = 4
  dongle_cooldown = 2
  time_to_compile = 0
  time_to_debug = 0
  time_to_refactor = 0
  number_of_compiles_required = 1
  StartTime = 1
  MaxTime = 8
  Free = Free
  Monitor = Monitor
SPECIFICATION WSpec
CHECK_DEADLOCK FALSE
PROPERTY AllThreadsReturn
