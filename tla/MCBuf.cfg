SPECIFICATION BufSpec
CONSTANTS
  Elements = {"x", "y"}
  Strings <- MCStrings
  Junk = "junk"
  Zero = "zero"
  MinCap = 2
  ElemSize = 2
  HdrSize = 3
  SizeMax = 22
INVARIANTS BufTypeOK BlockHoldsElements
PROPERTIES ImplementsText GivesUpOnlyAtSizeMax
