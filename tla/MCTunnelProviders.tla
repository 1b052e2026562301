------------------------- MODULE MCTunnelProviders -------------------------
(* Two mesh addresses; the control plane gives one of them to another peer *)
(* while the client runs.                                                  *)
EXTENDS TunnelProviders

CONSTANTS a1, a2, i1, i2

MCLists == {{}, {[id |-> i1, address |-> a1], [id |-> i2, address |-> a2]},
            {[id |-> i2, address |-> a1]}}
=============================================================================
