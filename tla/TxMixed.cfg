SPECIFICATION FairSpec
CONSTANTS
  Client = {c1, c2}
  Key = {1, 2}
  TxId = {t1, t2}
  Value = {0, 1, 2}
  NoTx = NoTx
  NoData = NoData
  NoBody = NoBody
  Scripts <- MixedOrTransfer
  InitialData <- HalfOrFull
  MayExpire = TRUE
  MaxCrash = 1
  MaxInterrupt = 1
INVARIANTS TypeOK VersionsAreSafe MasksHeld NothingLeftBehind
PROPERTIES AtomicUntilInterrupted OperationsEnd
