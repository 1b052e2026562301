----------------------- MODULE MCTailscaleDirectPath -----------------------
(* The netmap knows no endpoint of the peer, or one.                       *)
EXTENDS TailscaleDirectPath

MCLists == {<<>>} \cup {<<e>> : e \in Endpoints}
Symmetry == Permutations(Nodes) \cup Permutations(Endpoints) \cup Permutations(TxIds)
=============================================================================
