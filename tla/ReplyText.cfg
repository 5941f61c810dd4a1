CONSTANTS
  Blank <- MCBlank
  Fragments <- MCFragments
  c1 = c1 c2 = c2 c3 = c3
  Commands = {c1, c2, c3}
  CommandLine <- MCCommandLine
  Parts <- MCParts
  None = None
  Aside <- MCAside
  MaxMessages = 2
  MaxLength = 4
SPECIFICATION Spec
INVARIANTS TypeOK MessageIsKnown NothingLostOrRepeated CurrentMessageIsShown CommandsInOrder
PROPERTIES OnlyCorrectionsTakeBack
CHECK_DEADLOCK FALSE
