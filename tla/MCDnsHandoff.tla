---------------------------- MODULE MCDnsHandoff ----------------------------
(***************************************************************************)
(* Model-checking instance of DnsHandoff: two worker-resolved connecting   *)
(* sockets that race for the mutex with each other and with the loop, and  *)
(* one resolved on the loop thread from a cached answer.                   *)
(***************************************************************************)
EXTENDS DnsHandoff

CONSTANTS w1, w2, k1

MCConns  == {w1, w2, k1}
MCCached == {k1}
=============================================================================
