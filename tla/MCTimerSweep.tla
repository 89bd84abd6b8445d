---------------------------- MODULE MCTimerSweep ----------------------------
(***************************************************************************)
(* Model-checking instance of TimerSweep: two contexts, three sockets (two *)
(* in the context at the head of the loop's list so that a callback can    *)
(* close the socket the walk stands on or its successor).  c3 is a        *)
(* context created after the start; MCSocketsLate adds s4, accepted into  *)
(* c3 once it exists.                                                      *)
(***************************************************************************)
EXTENDS TimerSweep

CONSTANTS c1, c2, c3, s1, s2, s3, s4

MCContexts == {c1, c2, c3}
MCLateCtx  == {c3}
MCSockets  == {s1, s2, s3}
MCSocketsLate == MCSockets \cup {s4}
MCLate     == {s4}
MCOwner    == [s \in MCSocketsLate |-> IF s = s3 THEN c2 ELSE IF s = s4 THEN c3 ELSE c1]
MCCtxOrder == << c1, c2 >>
MCSockOrder == [c \in MCContexts |-> IF c = c1 THEN << s1, s2 >> ELSE IF c = c2 THEN << s3 >> ELSE << >>]
=============================================================================
