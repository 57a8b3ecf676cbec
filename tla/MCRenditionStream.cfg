SPECIFICATION RSpec
CONSTANTS
  Parameters <- MCParameters
  LengthBound = 6
  StartBound <- MCStarts
INVARIANT TypeOK
PROPERTY SequenceIsItsCommands
