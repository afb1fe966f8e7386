SPECIFICATION Spec
CONSTANTS
  Size = 7
  Request = 5
  Prefix = 2
  Misread = 3
  KeyEnd = 4
  Reply = 2
  Lengths = {2, 3, 7}
  MaxNet = 9
INVARIANTS TypeOK NothingLost AnsweredOnce
PROPERTIES KeepsServing
CHECK_DEADLOCK FALSE
