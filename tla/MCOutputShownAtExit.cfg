SPECIFICATION Spec
CONSTANTS
  Survivals <- HungUp
  Presses <- NoKeys
  Sizes <- OneSize
  DefaultSize <- Default
  ReadMaximum = 2
  InputRoom = 1
  MaxActivations = 1
  MaxOutput = 3
  MaxPresses = 0
CHECK_DEADLOCK FALSE
INVARIANT OutputShownAtExit
