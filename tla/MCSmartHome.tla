---------------------------- MODULE MCSmartHome ----------------------------
(***************************************************************************)
(* Small homes for TLC.  The ids, rooms and initial values are those of    *)
(* the programs' tables; the readings are one on each side of the          *)
(* thresholds.                                                             *)
(***************************************************************************)
EXTENDS SmartHome, TLC

\* Two bedrooms, each with a sensor and an actuator.
BedroomSensors   == <<"temp_sensor_bedroom_1", "temp_sensor_bedroom_2">>
BedroomActuators == <<"temp_aktuator_bedroom_1", "temp_aktuator_bedroom_2">>

\* One bedroom.
RoomSensors   == <<"temp_sensor_bedroom_1">>
RoomActuators == <<"temp_aktuator_bedroom_1">>

PlaceOf(d) ==
  CASE d \in {"temp_sensor_bedroom_1", "temp_aktuator_bedroom_1"} -> "home/bedroom11/temperature"
    [] d \in {"temp_sensor_bedroom_2", "temp_aktuator_bedroom_2"} -> "home/bedroom22/temperature"

MCPlace     == [d \in Devices |-> PlaceOf(d)]
MCDegrees   == "22lr" :> 22 @@ "27lr" :> 27
MCCondition == [d \in Devices |-> 25]
MCInitial   == [d \in Devices |->
                 [Value |-> IF d \in Sensors THEN "22lr" ELSE "OFF", Info |-> "about"]]

GetLine(f, d)    == [command |-> "Get_Dev", tokens |-> 2, mes |-> GetDev(f, d)]
SetLine(f, d, v) == [command |-> "Set_Dev", tokens |-> 3, mes |-> SetDev(f, d, v)]
BadLine          == [command |-> "Get_Dev", tokens |-> 1, mes |-> NoMessage]

\* A reading above the threshold only.
HotDegrees == "27lr" :> 27

\* Lines that ask and lines that set, about known, unknown and all devices.
UserLines == {GetLine("Value", "nobody"), GetLine("Value", "temp_aktuator_bedroom_1"),
              GetLine("Info", AllDevices), BadLine,
              SetLine("Value", "temp_aktuator_bedroom_1", "ON"),
              SetLine("Info", "temp_sensor_bedroom_1", "new")}
RaceLines == {GetLine("Value", "nobody"),
              SetLine("Value", "temp_aktuator_bedroom_1", "OFF")}
NoLines   == {}

\* The worker threads of a client are interchangeable.
WorkerSymmetry == Permutations(Workers)

=============================================================================
