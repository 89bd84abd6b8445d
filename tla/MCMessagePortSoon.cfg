CONSTANTS
  h1 = h1
  h2 = h2
  p1 = p1
  p2 = p2
  o1 = o1
  o2 = o2
  Handlers <- MCHandlers
  Ports <- MCPorts
  Observers <- MCObservers

SPECIFICATION Spec
\* Once every handler ran and no port callback is due the context idles;
\* a freed context does nothing more.
CHECK_DEADLOCK FALSE
INVARIANT HandlerCalledAtMostOnce
INVARIANT NoNotifyOfFreedObserver
INVARIANT NoDanglingObserver
PROPERTY EveryHandlerCalled
