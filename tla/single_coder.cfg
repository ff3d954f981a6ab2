SPECIFICATION FairSpec
CONSTANTS
  time_to_burnout = 4
  dongle_cooldown = 7
  StartTimes = {1, 3, 6, 8}
  MaxTime = 24
  MaxWait = 2
  Free = Free
  Coder = Coder
  Monitor = Monitor
CHECK_DEADLOCK FALSE
INVARIANTS
  TypeOK
  LeavesTheTableClean
  NobodySleepsOnADongle
PROPERTIES
  BurnsOutCleanly
