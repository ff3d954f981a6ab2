SPECIFICATION Spec
CONSTANTS
  number_of_coders = 4
  policy = "edf"
  time_to_burnout = 3
  dongle_cooldown = 1
  time_to_compile = 1
  StartTime = 1
  MaxTime = 5
  Nobody = Nobody
CHECK_DEADLOCK FALSE
PROPERTIES
  DispatchIsComplete
