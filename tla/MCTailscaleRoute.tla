-------------------------- MODULE MCTailscaleRoute --------------------------
(* A subnet router with two hosts behind it, and a second peer.            *)
EXTENDS TailscaleRoute

CONSTANTS router, h1, h2, pc

MCTargets == {[peer |-> router, host |-> h1], [peer |-> router, host |-> h2],
              [peer |-> pc, host |-> pc]}
=============================================================================
