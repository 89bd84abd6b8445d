\* Only this socket and one other poll (the sweep timer, say) are ready.
CONSTANTS
  PollTypes = {"socket"}
  ReadyCounts = {2}
  RepeatCap = 10
  MaxBuf = 3

SPECIFICATION Spec
\* A closed socket's poll is stopped: nothing is left to happen.
CHECK_DEADLOCK FALSE
PROPERTY DispatchReturns
