\* A 2-bit lastUniqueIdentifier wraps after three identifiers.
CONSTANTS
  m = m
  w1 = w1
  w2 = w2
  f = f
  NULL = NULL
  Contexts <- MCContexts
  Main <- m
  Foreign <- MCForeign
  IdBits = 2
  MaxIdentifier = 4
  RegenerateContexts <- MCContexts

SPECIFICATION Spec
\* Every worker ends destroyed and the main context idles: the process
\* may stop.
CHECK_DEADLOCK FALSE
INVARIANT IdentifierResolves
