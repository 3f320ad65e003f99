\* Every text of four characters, and longer ones of words and comments.
CONSTANTS
  Keyword <- MCKeyword
  Setups <- MCSetups
SPECIFICATION FairSpec
INVARIANTS TypeOK TokensLocated StdinUntouched
PROPERTIES ImplementsTokenStream EofIsFinal GettokReturns
