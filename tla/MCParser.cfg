\* Words of five bits, so that numerals of three digits overflow in every way.
SPECIFICATION Spec
CONSTANTS
  W = 32
  Texts <- MCTexts
  Operators <- MCOperators
  Registers <- MCRegisters
  NumberCharacters = {"0", "1", "9", "f", "x", "-", " "}
  NumberLength = 4
  NameCharacters = {"r", "a", "x", "m", "o", "v"}
  NameLength = 4
INVARIANTS ConvertsNumerals ParsesAsWritten NamesResolve
CHECK_DEADLOCK FALSE
