SPECIFICATION Spec
CONSTANTS
  Links = 1
  Engineers = {"p1"}
  Pids = {1}
  MaxAge = 0
  OpenMayFail = FALSE
  MaxSnaps = 2
PROPERTIES DropServed
