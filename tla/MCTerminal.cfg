SPECIFICATION TerminalSpec
CONSTANTS
  Bytes <- TerminalBytes
  MaxSequenceBytes = 1
  MaxParameterCount = 1
  IntMax = 9
  Wheel = 1
  Page = 2
  Codepoints <- None
  Counts <- None
  Renditions <- None
  ModeParameters <- None
  Titles <- None
  Sizes <- Shrinking
  Limits <- Zero
  MaximumScrollbackRows = 2
  MaximumTitleBytes = 2
  MarkBound = 2
INVARIANTS TypeOK ContinuationsEmpty
PROPERTY DamageCoversChanges

