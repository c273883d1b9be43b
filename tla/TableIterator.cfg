SPECIFICATION Spec
CONSTANTS
  NumHashes <- FourHashes
  MaxChange = 3
  MayFail = TRUE
INVARIANTS TypeOK ReturnedOnce FreedOnce
CHECK_DEADLOCK FALSE
