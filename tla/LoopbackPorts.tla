--------------------------- MODULE LoopbackPorts ---------------------------
(* The GameStream ports of 127.0.0.1 (47989, 47984, 48010): a listener for *)
(* one peer takes all of them or none, and a second bind fails.            *)

CONSTANT None

VARIABLE loopback   \* who listens: None, "wireguard" or "netbird"

PortsTypeOK == loopback \in {None, "wireguard", "netbird"}

FreeFor(owner) == loopback \in {None, owner}
FreedBy(owner) == loopback' = IF loopback = owner THEN None ELSE loopback
BoundBy(owner) == FreeFor(owner) /\ loopback' = owner
=============================================================================
