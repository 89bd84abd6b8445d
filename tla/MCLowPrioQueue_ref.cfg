\* Same instance as MCLowPrioQueue.cfg, checking the context references
\* taken by the low-priority path.
CONSTANTS
  s1 = s1
  s2 = s2
  s3 = s3
  Sockets <- MCSockets
  MaxLowPrio = 1
  HandshakeReads = 2

SPECIFICATION Spec
CHECK_DEADLOCK FALSE
INVARIANT ContextRefPerParked
