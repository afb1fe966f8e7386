SPECIFICATION Spec
CONSTANTS
  MaxLinks = 2
  UdpPeers = {p1, p2}
  Timeout = 1
  Recording = FALSE
SYMMETRY Symmetry
INVARIANTS TypeOK Accounting UserLink
PROPERTIES NewLinkServed HiddenOnlyByClose
