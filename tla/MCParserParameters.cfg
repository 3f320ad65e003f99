\* Prototypes whose parameters are not separated by commas.
CONSTANTS
  Ops = {"+", "*"}
  NumVals = {5, 505, 1005}
  Inputs <- MCInputs
SPECIFICATION Spec
INVARIANTS ParametersAreKept
