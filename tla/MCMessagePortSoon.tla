------------------------- MODULE MCMessagePortSoon -------------------------
(* Two completion handlers, two port addresses and two observers.         *)
EXTENDS MessagePortSoon

CONSTANTS h1, h2, p1, p2, o1, o2

MCHandlers == {h1, h2}
MCPorts == {p1, p2}
MCObservers == {o1, o2}
=============================================================================
