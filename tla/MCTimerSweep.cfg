\* Sweeps start at tick 239, so the first one crosses both wheel
\* boundaries: short slot 239 -> 0 and long tick 15 -> 16.
CONSTANTS
  c1 = c1
  c2 = c2
  c3 = c3
  s1 = s1
  s2 = s2
  s3 = s3
  s4 = s4
  NULL = NULL
  Contexts <- MCContexts
  LateContexts <- MCLateCtx
  Sockets <- MCSocketsLate
  LateSockets <- MCLate
  Owner <- MCOwner
  CtxOrder <- MCCtxOrder
  SockOrder <- MCSockOrder
  StartTick = 239
  MaxDelay = 2
  \* Two sweeps: a timeout re-armed in a callback of the first fires in the
  \* second, and one armed two ticks ahead is passed over by the first.
  MaxSweeps = 2

SPECIFICATION Spec
INVARIANT TypeOK
INVARIANT WalkStaysInContext
INVARIANT NoMissedTimeout
INVARIANT SweepTimerMatchesSockets
INVARIANT NoDoubleFree
INVARIANT ClosedListsComplete
INVARIANT ContextListWellFormed
