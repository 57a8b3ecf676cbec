SPECIFICATION StreamSpec
CONSTANT Bytes <- MCBytes
INVARIANTS TypeOK DecodesAsUnicode
PROPERTY IncompleteIsReplaced
