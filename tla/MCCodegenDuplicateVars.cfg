\* var/in expressions that may name one variable twice.
CONSTANTS
  x = x
  y = y
  fn = fn
  ghost = ghost
  neg = neg
  bang = bang
  pipe = pipe
  gt = gt
  VarNames = {x, y}
  Callees = {}
  UnaryOps = {}
  UserOps = {}
  FunctionProtos <- MCProtos
  Kinds = {"Var"}
  MaxNodes = 2
  MaxParams = 1
  MaxArgs = 2
  MaxVars = 2
  DuplicateVars = TRUE
SPECIFICATION Spec
INVARIANTS LexicalScoping
