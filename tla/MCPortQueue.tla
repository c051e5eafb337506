----------------------------- MODULE MCPortQueue -----------------------------
(* PortQueue with two ports: the second waits behind the first.            *)
EXTENDS PortQueue, TLC

CONSTANTS status, config

TwoPorts == <<status, config>>

=============================================================================
