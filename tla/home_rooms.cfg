\* Two bedrooms, no user; send buffers that hold one message; one program is started again
\* or loses its connection.
CONSTANTS
  SensorTable <- BedroomSensors
  ActuatorTable <- BedroomActuators
  UnknownIds = {"nobody"}
  Place <- MCPlace
  Degrees <- MCDegrees
  Condition <- MCCondition
  Initial <- MCInitial
  Typed = {}
  SendCap = 1
  UserLoad = 2
  MaxFaults = 1
  MaxLoad = 2
  Spaced = TRUE
  MayRestart = {"senzorski_pi", "kontroler"}
  MayFail = {"senzorski_pi"}
  Workers = {w1}
  Lines <- NoLines
  MaxPending = 2
SPECIFICATION SensorSpec
INVARIANTS DbConverges AutomationConverges
PROPERTIES FailedSensorPiExits
CHECK_DEADLOCK FALSE
