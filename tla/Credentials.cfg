CONSTANTS
  Writers = {w1, w2}
  MaxKey = 2
  Moves = TRUE
SPECIFICATION FairSpec
INVARIANTS
  FilesLandAtHome
PROPERTIES
  DeniedPutLands
  RotationArrives
CHECK_DEADLOCK FALSE
