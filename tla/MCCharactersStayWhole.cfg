SPECIFICATION StreamSpec
CONSTANTS
  Bytes <- DocBytes
  MaxSequenceBytes = 3
  MaxParameterCount = 2
  IntMax = 20
PROPERTY CharactersStayWhole
