SPECIFICATION FairSpec
CONSTANTS
  NPids = 5
  NetCap = 2
  Partial = FALSE
  QueueCap = 2
  KeepAlive = 3
  Calls <- MixedPublish
  OldLfsr = {3}
  MayReconnect = {TRUE, FALSE}
  Threads = {}
  MaxCalls = 3
  MaxTicks = 2
  OutQos = {}
  BrokerPids = 1
  Refuses = FALSE
  MaxOut = 0
  MaxResends = 0
  Breaks = FALSE
INVARIANTS OneInflightQos2 OrderedAtBroker CompleteIsReceived HeldIsFinished
PROPERTIES PublishArrives Reconnected
