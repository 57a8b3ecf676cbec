SPECIFICATION StreamSpec
CONSTANTS
  Bytes <- MCBytes
  MaxSequenceBytes = 3
  MaxParameterCount = 2
  IntMax = 20
INVARIANTS ParserTypeOK BuffersBounded BuffersHoldSequence DecoderIdleInSequence ArgumentsInRange
PROPERTIES StringsAreSilent TitleIsWhole
