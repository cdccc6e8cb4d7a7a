SPECIFICATION FairSpec
CONSTANTS
  c1 = c1
  Nothing = Nothing
  Collector = {c1}
  Post = {1, 2, 3}
  RecentLimit = 2
  PageSize = 1
  GapLimit = 2
  MaxQueue = 1
  MaxPts = 3
  Weight <- FaultWeight
  MaxWeight = 2
INVARIANTS CursorCovered DeletionsCovered NoFalseDeletion CursorBehindCheckpoint
PROPERTIES Converges
