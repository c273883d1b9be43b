SPECIFICATION FairSpec
CONSTANTS
  Limit <- SevenTables
  MaxFault = 2
INVARIANTS TypeOK Contiguous ComplaintsStop
PROPERTIES LossReported MovesUp
CHECK_DEADLOCK FALSE
