SPECIFICATION Spec
CONSTANTS
  LowerNames = {"x", "y"}
  Alphabetical <- NameOrder
  UpperNames = {"T", "Vec"}
  Digits = {"0"}
  Strings = {"'a'"}
  Texts <- AllTexts
  Alphabet = {"x", "T", "0", "mut", "var", "return", ".", "&", "-", "?", "(", ")", "{", "}", "=", ";", ","}
  MaxTokens = 4
  DeclarationAlphabet = {"x", "T", ":", "<", ">", "&", "mut", "(", ")", ",", "pub", "0", "func", ".", "="}
  MaxInner = 3
INVARIANTS TreeKept WordsKept
CHECK_DEADLOCK FALSE
