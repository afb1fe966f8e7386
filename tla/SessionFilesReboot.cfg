SPECIFICATION Spec
CONSTANTS
  Wrap = 3
  Back = 1
  MaxDay = 1
  MaxChildren = 1
  MaxBoot = 2
  MaxUp = 2
  MaxN = 2
PROPERTY NewLogKept
CHECK_DEADLOCK FALSE
