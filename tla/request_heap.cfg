SPECIFICATION Spec
CONSTANTS
  Coders = {0, 1, 2, 3, 4, 5, 6}
  Deadlines = {1, 2}
  policy = "edf"
  capacity = 6
  requests = 8
  askers <- Askers
INVARIANTS
  TypeOK
  HeapOrder
PROPERTIES
  ImplementsQueue
