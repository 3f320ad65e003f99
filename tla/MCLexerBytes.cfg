\* Bytes that are no ASCII characters.
CONSTANTS
  Keyword <- MCKeyword
  Setups <- MCSetups
SPECIFICATION Spec
INVARIANTS TokensAreKnown
