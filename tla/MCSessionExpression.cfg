\* Top-level expressions with -jit.
CONSTANTS
  Fns = {"f", "main"}
  UnaryOps = {"!"}
  BinaryOps = {"+", ">", "|"}
  MaxArity = 1
  MaxItems = 2
  MaxUses = 1
SPECIFICATION Spec
PROPERTIES ExpressionsAreEvaluated
