CONSTANTS
  w1 = w1
  w2 = w2
  k1 = k1
  NULL = NULL
  Conns <- MCConns
  Cached <- MCCached

SPECIFICATION Spec
\* An idle loop blocks in poll-wait for good once every result is in.
CHECK_DEADLOCK FALSE
INVARIANT NoLostResult
INVARIANT ResolveAtMostOnce
INVARIANT PreCallbackSeesEarlierResults
INVARIANT ClosedConnectingFreed
PROPERTY ImplementsMailbox
