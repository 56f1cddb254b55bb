---------------------------- MODULE MCPortMapping ----------------------------
(* One port in arrays of one slot (full at once, used again and again), with *)
(* a router that speaks one of the two protocols.                            *)
EXTENDS PortMapping

MCItems == {[int |-> 1, ext |-> 2, tcp |-> TRUE]}
MCGateways == {{"upnp"}, {"natpmp"}}
=============================================================================
