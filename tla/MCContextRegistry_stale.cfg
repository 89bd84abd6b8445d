\* regenerateIdentifier leaves the old entry in the map.
CONSTANTS
  m = m
  w1 = w1
  w2 = w2
  f = f
  NULL = NULL
  Contexts <- MCContexts
  Main <- m
  Foreign <- MCForeign
  IdBits = 3
  MaxIdentifier = 7
  RegenerateContexts <- MCContexts

SPECIFICATION Spec
\* Every worker ends destroyed and the main context idles: the process
\* may stop.
CHECK_DEADLOCK FALSE
INVARIANT TasksReachLiveContexts
