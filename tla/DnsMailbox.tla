----------------------------- MODULE DnsMailbox -----------------------------
(***************************************************************************)
(* What the DNS hand-off of the loop promises (spec 4.5): a result that a  *)
(* resolver produces for a connecting socket is delivered to the loop      *)
(* thread (after_resolve) exactly once, eventually, in no particular       *)
(* order.                                                                  *)
(***************************************************************************)
CONSTANT Requests

VARIABLES produced, delivered

mbVars == << produced, delivered >>

Init ==
  /\ produced = {}
  /\ delivered = {}

\* A resolver hands over the result for c.
Produce(c) ==
  /\ c \notin produced
  /\ produced' = produced \cup {c}
  /\ UNCHANGED delivered

\* The loop thread runs after_resolve for c.
Deliver(c) ==
  /\ c \in produced \ delivered
  /\ delivered' = delivered \cup {c}
  /\ UNCHANGED produced

Next == \E c \in Requests : Produce(c) \/ Deliver(c)

Spec == Init /\ [][Next]_mbVars /\ \A c \in Requests : WF_mbVars(Deliver(c))
=============================================================================
