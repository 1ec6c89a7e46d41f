\* One room and a user, packets spaced, fair threads; the sensor of the room rests.
CONSTANTS
  SensorTable <- RoomSensors
  ActuatorTable <- RoomActuators
  UnknownIds = {"nobody"}
  Place <- MCPlace
  Degrees <- HotDegrees
  Condition <- MCCondition
  Initial <- MCInitial
  Typed = {"ON", "new"}
  SendCap = 8
  UserLoad = 2
  MaxFaults = 0
  MaxLoad = 0
  Spaced = TRUE
  MayRestart = {}
  MayFail = {}
  Workers = {w1}
  Lines <- UserLines
  MaxPending = 2
SPECIFICATION FairSpec
PROPERTIES RepliesInOrder CommandsAnswered SetReachesDevice

