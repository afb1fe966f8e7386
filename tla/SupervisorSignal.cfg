SPECIFICATION Spec
CONSTANTS
  Pairs = {"q1", "q2"}
  Port1s = {"a"}
  Pids = {1, 2}
  ReloadEvery = 1
  ForkMayFail = TRUE
PROPERTIES OnlyReplacedSignalled
