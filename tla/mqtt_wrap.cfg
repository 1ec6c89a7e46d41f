SPECIFICATION Spec
CONSTANTS
  NPids = 4
  NetCap = 1
  Partial = TRUE
  QueueCap = 3
  KeepAlive = 1
  Calls <- Exchanges
  OldLfsr = {0}
  MayReconnect = {FALSE}
  Threads = {}
  MaxCalls = 5
  MaxTicks = 0
  OutQos = {}
  BrokerPids = 1
  Refuses = FALSE
  MaxOut = 0
  MaxResends = 0
  Breaks = TRUE
INVARIANTS TypeOK PidsUnique AnswersAreKnown
