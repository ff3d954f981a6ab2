SPECIFICATION MainSpec
CONSTANTS
  number_of_coders = 3
  Monitor = Monitor
  Commands <- MCCommands
  MaxU64 = 16383
  MaxI64 = 8191
  MaxU32 = 127
  MaxTime = 81
  Uptimes = {0, 80, 81}
  Elapsed <- MCElapsed
  Blank = Blank
  NewLine = NewLine
CHECK_DEADLOCK FALSE
INVARIANTS
  TypeOK
  IInv
  CleanupIsExact
  LocksOutliveThreads
  NobodyRunsAlone
  StartsAsAskedFor
  SumsFit
  LinesReadBack
  StatusTellsTheRun
PROPERTIES
  MainReturns
