\* The code's budget is 5; with three sockets a budget of 1 makes the cap
\* bind in every iteration that sees two handshaking sockets.
CONSTANTS
  s1 = s1
  s2 = s2
  s3 = s3
  Sockets <- MCSockets
  MaxLowPrio = 1
  HandshakeReads = 2

SPECIFICATION Spec
\* loop_run returns once no poll is left: with every socket closed the
\* model has no further step.
CHECK_DEADLOCK FALSE
INVARIANT TypeOK
INVARIANT SingleListMembership
INVARIANT BudgetBound
