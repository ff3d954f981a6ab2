SPECIFICATION Spec
CONSTANTS
  number_of_coders = 4
  policy = "fifo"
  time_to_burnout = 9
  dongle_cooldown = 1
  time_to_compile = 1
  StartTime = 1
  MaxTime = 8
  Nobody = Nobody
CHECK_DEADLOCK FALSE
INVARIANTS
  NotRepeatedlyOvertaken
