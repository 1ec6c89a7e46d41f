SPECIFICATION Spec
CONSTANTS
  NPids = 3
  NetCap = 2
  Partial = FALSE
  QueueCap = 2
  KeepAlive = 2
  Calls <- Requests
  OldLfsr = {0}
  MayReconnect = {FALSE}
  Threads = {t1}
  MaxCalls = 1
  MaxTicks = 2
  OutQos = {0, 2}
  BrokerPids = 2
  Refuses = TRUE
  MaxOut = 3
  MaxResends = 1
  Breaks = FALSE
INVARIANTS PassedInOrder LostByReuse
