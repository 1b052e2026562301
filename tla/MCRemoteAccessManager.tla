------------------------ MODULE MCRemoteAccessManager ------------------------
(* Instances of RemoteAccessManager for TLC.                               *)
EXTENDS RemoteAccessManager, TLC

CONSTANTS c1, c2, c3, o1, o2, wg, nb, ka, kb, kc

\* Two exclusive providers, as the three of the app are; ka and kb are two
\* hosts behind the first one.
TwoProviders == ka :> wg @@ kb :> wg @@ kc :> nb
OneProvider == ka :> wg @@ kb :> wg

Symmetry == Permutations(Clients)
=============================================================================
