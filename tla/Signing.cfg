SPECIFICATION Spec
CONSTANTS
  Port2s = {1, 2}
  Port1s = {1, 3}
  Secrets = {k1, zero}
  ZeroKey = zero
  Pair = 1
  Links = {l1}
  Buffer = 2
  Limit = 3
  Ahead = 1
  MaxNow = 2
  MaxSavers = 2
INVARIANTS TypeOK NoDrift KeysAsEdited HeardWithKey
PROPERTIES NoNewClash AdminStays
