SPECIFICATION WindowSpec
CONSTANTS
  Wheel = 1
  Page = 2
  Codepoints <- LetterAndWide
  Counts <- One
  Renditions <- Normal
  ModeParameters <- UnknownMode
  Titles <- LongTitle
  Sizes <- LineSizes
  Limits <- ZeroTwo
  MaximumScrollbackRows = 2
  MaximumTitleBytes = 0
  MarkBound = 2
INVARIANTS TypeOK WrapOnlyAtMargin ScrollbackBounded ViewIsAPage
PROPERTIES PrintIsLocal ScrollbackIsHistory OnlyErasingStrandsView
