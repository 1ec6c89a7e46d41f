\* Two hosts that move between two networks, lose packets, fail, stop and start.
SPECIFICATION Spec
CONSTANTS
  Hosts = {"laptop", "pi"}
  Stranger = "printer"
  Addresses <- MCAddresses
  Net <- MCNet
  Loopback = "127.0.0.1"
  Configs <- MCConfigs
  IfCap = 2
  Timeout = 3
  MaxEvents = 2
INVARIANTS TypeOK NoneTwice NeverItself ShownIsCurrent
PROPERTY NeighborsConverge
