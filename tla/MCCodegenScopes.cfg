\* Scopes and errors: for, var/in, assignment and operators over two names.
CONSTANTS
  x = x
  y = y
  fn = fn
  ghost = ghost
  neg = neg
  bang = bang
  pipe = pipe
  gt = gt
  VarNames = {x, y}
  Callees = {}
  UnaryOps = {}
  UserOps = {}
  FunctionProtos <- MCProtos
  Kinds = {"For", "Var", "Assign", "Binary"}
  MaxNodes = 3
  MaxParams = 1
  MaxArgs = 2
  MaxVars = 2
  DuplicateVars = FALSE
SPECIFICATION Spec
INVARIANTS LexicalScoping NoStaleAlloca
