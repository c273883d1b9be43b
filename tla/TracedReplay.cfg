SPECIFICATION TracedSpec
CONSTANTS
  r1 = r1
  r2 = r2
  k1 = k1
  k2 = k2
  k3 = k3
  a1 = a1
  a2 = a2
  a3 = a3
  p1 = p1
  b1 = b1
  q2 = q2
  q3 = q3
  cut = cut
  Record = {r1, r2}
  KeysOf <- TwoRecords
  Part <- CutFields
  Again <- EncodedAgain
  Escaped = {k3}
  CutKey = cut
  ValueSize <- Values
  CutSizes = {0, 2}
  MaxCalls = 3
  MaxSessions = 2
  Operations = 10
  Options <- SomeOptions
  Traces <- NoFile
  TraceKey <- TheKeys
  Prefix <- First127
  Leftovers <- OldStores
INVARIANTS
  TracedTypeOK
  RequestsRunOnce
  AccessesHit
  EachSizeReplaced
  OnlyMeasuredTimes
  ReplayFaithful
  KeysKnown
  WorkloadReplayed
