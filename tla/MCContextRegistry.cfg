\* Workers come and go while every thread posts tasks by identifier;
\* the main context, which lives as long as the process, regenerates its
\* identifier (its old entry stays, still naming a live context).
CONSTANTS
  m = m
  w1 = w1
  w2 = w2
  f = f
  NULL = NULL
  Contexts <- MCContexts
  Main <- m
  Foreign <- MCForeign
  IdBits = 3
  MaxIdentifier = 7
  RegenerateContexts = {m}

SPECIFICATION Spec
\* Every worker ends destroyed and the main context idles: the process
\* may stop.
CHECK_DEADLOCK FALSE
INVARIANT TasksReachLiveContexts
INVARIANT IdentifierResolves
