\* Calls and the definitions they are linked to.
CONSTANTS
  Fns = {"f", "main"}
  UnaryOps = {"!"}
  BinaryOps = {"+", ">", "|"}
  MaxArity = 2
  MaxItems = 3
  MaxUses = 1
SPECIFICATION Spec
INVARIANTS CallsMatchDefinitions
