------------------------- MODULE MCGameStreamRoutes -------------------------
(* GameStreamRoutes for TLC.  homePc is the "mac:" key of a PC reached on    *)
(* the LAN or through its tunnel peer; byAddress is the key of the same PC,  *)
(* saved before its MAC was known; office is another peer.                   *)
EXTENDS GameStreamRoutes, TLC

CONSTANTS homePc, byAddress, office, lan, homeTunnel, officeTunnel, home, work

MCConnectionAddresses ==
  [k \in HostKeys |-> IF k = office THEN <<officeTunnel>>
                      ELSE <<lan, homeTunnel>>]

MCPeerOf == (lan :> None) @@ (homeTunnel :> home) @@ (officeTunnel :> work)

MCMacKey == (lan :> homePc) @@ (homeTunnel :> homePc) @@ (officeTunnel :> None)

JobSymmetry == Permutations(Jobs)
=============================================================================
