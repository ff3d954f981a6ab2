SPECIFICATION FairSpec
CONSTANTS
  Coders = {c1, c2}
  Monitor = Monitor
  Free = Free
  number_of_compiles_required = 2
  MaxTime = 2
CHECK_DEADLOCK FALSE
INVARIANTS
  TypeOK
  BurnoutIsLast
  GroupsAreWhole
  TimesInOrder
PROPERTIES
  RoundsInOrder
  MutexesAreGivenBack
