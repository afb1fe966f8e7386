SPECIFICATION Spec
CONSTANTS
  Links = 2
  Engineers = {"p1"}
  Pids = {1}
  MaxAge = 0
  OpenMayFail = TRUE
  MaxSnaps = 2
INVARIANTS TypeOK
PROPERTIES OneDropPerRequest MirrorConverges OrphansHidden
