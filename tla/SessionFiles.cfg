SPECIFICATION Spec
CONSTANTS
  Wrap = 3
  Back = 1
  MaxDay = 1
  MaxChildren = 2
  MaxBoot = 2
  MaxUp = 2
  MaxN = 2
INVARIANTS TypeOK Paired QuotaSparesActive
PROPERTIES OpensFresh OneBootPerFile RotatesOncePerBoot
CHECK_DEADLOCK FALSE
