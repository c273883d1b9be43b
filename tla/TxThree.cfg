SPECIFICATION Spec
CONSTANTS
  Client = {c1, c2, c3}
  Key = {1, 2}
  TxId = {t1, t2, t3}
  Value = {0, 1, 2}
  NoTx = NoTx
  NoData = NoData
  NoBody = NoBody
  Scripts <- ThreeScripts
  InitialData <- Full
  MayExpire = TRUE
  MaxCrash = 1
  MaxInterrupt = 0
SYMMETRY Symmetry
PROPERTIES Atomic MasksAreKept
