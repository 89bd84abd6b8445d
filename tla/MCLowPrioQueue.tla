--------------------------- MODULE MCLowPrioQueue ---------------------------
(***************************************************************************)
(* Model-checking instance of LowPrioQueue: three TLS sockets and a budget *)
(* of one per iteration, so that parking, LIFO promotion, promoted sockets *)
(* that are read for free, and re-parking all occur.                       *)
(***************************************************************************)
EXTENDS LowPrioQueue

CONSTANTS s1, s2, s3

MCSockets == {s1, s2, s3}
=============================================================================
