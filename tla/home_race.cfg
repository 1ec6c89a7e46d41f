\* One room and a user, packets as close as the network brings them.
CONSTANTS
  SensorTable <- RoomSensors
  ActuatorTable <- RoomActuators
  UnknownIds = {"nobody"}
  Place <- MCPlace
  Degrees <- HotDegrees
  Condition <- MCCondition
  Initial <- MCInitial
  Typed = {"OFF"}
  SendCap = 8
  UserLoad = 1
  MaxFaults = 0
  MaxLoad = 1
  Spaced = FALSE
  MayRestart = {}
  MayFail = {}
  Workers = {w1, w2}
  Lines <- RaceLines
  MaxPending = 1
SPECIFICATION Spec
INVARIANTS TypeOK DbValuesWereHeld
SYMMETRY WorkerSymmetry
CHECK_DEADLOCK FALSE
