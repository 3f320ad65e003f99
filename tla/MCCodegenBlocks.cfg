\* Control flow: if, for, operators and calls, nested up to MaxNodes deep.
CONSTANTS
  x = x
  y = y
  fn = fn
  ghost = ghost
  neg = neg
  bang = bang
  pipe = pipe
  gt = gt
  VarNames = {x}
  Callees = {fn, ghost}
  UnaryOps = {neg, bang}
  UserOps = {pipe, gt}
  FunctionProtos <- MCProtos
  Kinds = {"If", "For", "Binary", "Unary", "Call"}
  MaxNodes = 3
  MaxParams = 0
  MaxArgs = 2
  MaxVars = 1
  DuplicateVars = FALSE
SPECIFICATION Spec
INVARIANTS TypeOK OneOpenBlock PhiMatchesPreds AcceptedComplete DefsDominateUses FailureNeverAccepted
