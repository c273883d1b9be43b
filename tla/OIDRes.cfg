SPECIFICATION FairSpec
CONSTANTS
  Client = {c1, c2}
  Deltas = {1, 2, 3}
  ChangeAt <- BeforeTheWrite
  IdSpace = 16
  MaxNext = 6
  MaxCrash = 1
  NoBody = NoBody
INVARIANTS TypeOK NoIdTwice WasteBounded
PROPERTIES NextEnds
CHECK_DEADLOCK FALSE
