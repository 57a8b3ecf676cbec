SPECIFICATION FairSpec
CONSTANTS
  Survivals <- Either
  Presses <- Letters
  Sizes <- TwoSizes
  DefaultSize <- Default
  ReadMaximum = 2
  InputRoom = 1
  MaxActivations = 2
  MaxOutput = 3
  MaxPresses = 2
CHECK_DEADLOCK FALSE
INVARIANTS TypeOK KeysWholeOrReported SessionWatched IdsNameLiveSources ShutdownLeavesNoSource
PROPERTIES OutputRelayed OnlyFailurePartsSizes OutputPainted ExitNoticed
