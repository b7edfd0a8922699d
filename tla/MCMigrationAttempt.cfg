SPECIFICATION FairSpec
CONSTANTS
  Window = 2
  MaxSamples = 6
  MaxFlawed = 2
  NoRecord = NoRecord
INVARIANTS
  NoActionWithoutWindow
  WindowsPartitionSamples
  RecordTellsTransaction
  TrainingSampleIsSound
  CommittedRecordIsValid
  RecordIsSealed
PROPERTY EveryRunEnds
CHECK_DEADLOCK FALSE
