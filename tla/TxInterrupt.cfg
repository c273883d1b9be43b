SPECIFICATION Spec
CONSTANTS
  Client = {c1, c2}
  Key = {1, 2}
  TxId = {t1, t2}
  Value = {0, 1, 2}
  NoTx = NoTx
  NoData = NoData
  NoBody = NoBody
  Scripts <- TransferScripts
  InitialData <- Full
  MayExpire = FALSE
  MaxCrash = 0
  MaxInterrupt = 1
SYMMETRY Symmetry
PROPERTIES CommitIsFinal
