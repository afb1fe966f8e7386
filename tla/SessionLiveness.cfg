SPECIFICATION Spec
CONSTANTS
  MaxLinks = 1
  UdpPeers = {p1, p2}
  Timeout = 1
  Recording = TRUE
PROPERTIES SilentUserEnds DeadEngineerClosed DropsServed
