SPECIFICATION FairSpec
CONSTANTS
  Total <- MCTotal
  Deg = 4
  MAX_SRTM_TILES = 100
  Box <- MCBox
  Concurrency = 2
  MaxRetries = 2
  Sides = {2, 3}
  Ground <- MCGround
  Voids <- MCVoids
  Sizes <- MCSizes
  Srtm1 = 18
  Srtm3 = 8
  Absent = Absent
  Faults = {"http", "io", "panic"}
INVARIANTS TypeOK AnswerIsExact  CountIsExact TempsAreOwned 
PROPERTIES CallReturns ProgressNeverFalls
CHECK_DEADLOCK FALSE
