SPECIFICATION Spec
CONSTANTS
  Pairs = {"q1", "q2"}
  Port1s = {"a", "b"}
  Pids = {1, 2, 3}
  ReloadEvery = 1
  ForkMayFail = TRUE
INVARIANTS TypeOK OneChild PidsCurrent ListensAlone StaleChildSignalled
