SPECIFICATION FairSpec
CONSTANTS
  Thread = {t1, t2}
  Kind = {"malloc", "free"}
  MaxCalls = 2
INVARIANTS TypeOK ServedOnce TracedOnce
PROPERTIES CallsReturn
CHECK_DEADLOCK FALSE
