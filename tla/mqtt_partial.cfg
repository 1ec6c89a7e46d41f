SPECIFICATION Spec
CONSTANTS
  NPids = 4
  NetCap = 1
  Partial = TRUE
  QueueCap = 3
  KeepAlive = 1
  Calls <- Qos2Publish
  OldLfsr = {0}
  MayReconnect = {FALSE}
  Threads = {}
  MaxCalls = 3
  MaxTicks = 1
  OutQos = {}
  BrokerPids = 1
  Refuses = FALSE
  MaxOut = 0
  MaxResends = 0
  Breaks = FALSE
CHECK_DEADLOCK FALSE
INVARIANT WholePackets
