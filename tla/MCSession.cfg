\* Every session of up to three items.
CONSTANTS
  Fns = {"f", "main"}
  UnaryOps = {"!"}
  BinaryOps = {"+", ">", "|"}
  MaxArity = 2
  MaxItems = 3
  MaxUses = 2
SPECIFICATION Spec
INVARIANTS TypeOK NamesStayKnown OneBodyInModule InstalledOperatorsResolve
PROPERTIES ImplementsSymbolTable
