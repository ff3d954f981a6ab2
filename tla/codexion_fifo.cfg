CONSTANTS
  number_of_coders = 3
  policy = "fifo"
  time_to_burnout = 4
  dongle_cooldown = 2
  time_to_compile = 1
  time_to_debug = 1
  time_to_refactor = 1
  number_of_compiles_required = 1
  StartTime = 2
  MaxTime = 6
  Free = Free
  Monitor = Monitor
SPECIFICATION HSpec
CHECK_DEADLOCK FALSE
INVARIANTS
  TypeOK
  PairExclusion
  ServedIsWoken
  NoSleeperMissesItsTurn
  DonglesGoInPairs
PROPERTIES
  ReservedInOrder
  ImplementsTable
