SPECIFICATION Spec
CONSTANTS
  ArrayMax = 4
  ArrayValues = {1, 2, 3, 4, 5}
  ArrayUnset = 9
  ArrayRanges <- MCRanges
  AllocMayFail = TRUE
  Blanks <- MCBlanks
  BlankPoints <- MCBlankPoints
  Recasable <- MCRecasable
  Nul = 0
  TextMax = 2
  Texts <- MCTexts
  UpperOf <- MCUpper
  LowerOf <- MCLower
  Dollar = 4
  Backslash = 5
  NameUnits = {1, 2}
  MantissaDigits = 3
  MaxExponent = 9
  NarrowBits = 4
  FormatIncrement = 4
  TemporarySize = 5
  Environ <- MCOneVariable
PROPERTY ResolvesByName
CHECK_DEADLOCK FALSE
