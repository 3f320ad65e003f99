\* Every input of up to six tokens, and longer ones over fewer tokens.
CONSTANTS
  Ops = {"+", "*"}
  NumVals = {5, 305, 1005}
  Inputs <- MCInputs
SPECIFICATION FairSpec
INVARIANTS TypeOK GroupedByPrecedence ItemsAreMaximal ErrorsReject ItemsAdvance
PROPERTIES Terminates
