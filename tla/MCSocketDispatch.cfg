\* The dispatched poll is a TCP socket, an IPC socket, a listen socket or a UDP socket.
\* The loop reports 3 (other polls ready, the cap applies) or 25 (busy:
\* no repeated reads) ready polls.
CONSTANTS
  PollTypes = {"socket", "ipc", "listen", "udp"}
  ReadyCounts = {3, 25}
  RepeatCap = 10
  MaxBuf = 3

SPECIFICATION Spec
\* A closed poll is stopped: nothing is left to happen.
CHECK_DEADLOCK FALSE
INVARIANT NoCallbackAfterClose
INVARIANT EndAtMostOnce
INVARIANT UdpClosedOnce
PROPERTY DispatchReturns
