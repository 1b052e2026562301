-------------------------- MODULE MCTailscaleCore --------------------------
(* Two peers in different regions: a first full netmap, a peer that moves  *)
(* to the other region while the second goes offline, one that leaves, a   *)
(* keep-alive and a netmap that is rejected.                               *)
EXTENDS TailscaleCore, TLC

CONSTANTS p1, p2

At(r) == [home |-> r, online |-> TRUE]
NoPeers == [p \in {} |-> 0]
Nothing == [full |-> FALSE, peers |-> NoPeers, removed |-> {}, online |-> NoPeers,
            address |-> FALSE, derp |-> None]

MCMessages ==
  {[Nothing EXCEPT !.full = TRUE, !.peers = (p1 :> At(1) @@ p2 :> At(2)),
                   !.address = TRUE, !.derp = {1, 2}],
   [Nothing EXCEPT !.peers = (p1 :> At(2)), !.online = (p2 :> FALSE)],
   [Nothing EXCEPT !.removed = {p1}],
   Nothing,
   [Nothing EXCEPT !.full = TRUE]}
=============================================================================
