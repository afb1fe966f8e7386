SPECIFICATION Spec
CONSTANTS
  Pairs = {"q1"}
  Port1s = {"a", "b"}
  Pids = {1, 2, 3}
  ReloadEvery = 2
  ForkMayFail = FALSE
PROPERTIES Converges
