SPECIFICATION Spec
CONSTANTS
  Codepoints <- LetterAndWide
  Counts <- One
  Renditions <- None
  ModeParameters <- None
  Titles <- None
  Sizes <- TwoByThree
  Limits <- One
  MaximumScrollbackRows = 2
  MaximumTitleBytes = 2
  MarkBound = 2
INVARIANT WideOccupiesTwoCells
