--------------------------- MODULE RouteProvider ---------------------------
(* What RemoteAccessManager takes a provider with exclusive routes for: an *)
(* activation it answered true to has its proxy up, for that peer and for  *)
(* no other; a release of another peer leaves it alone; media relays run   *)
(* only to the peer that is served; a stopped provider serves nobody.      *)

CONSTANTS Peers, None

VARIABLES up,      \* the provider is started
          served,  \* the peer the loopback proxy leads to, or None
          media,   \* the peer the media relays lead to, or None
          last     \* the last call and its answer

providerVars == <<up, served, media, last>>

Answer(op, p, ok) == last' = [op |-> op, peer |-> p, ok |-> ok]
Serves(p) == served' = p /\ media' = IF served = p THEN media ELSE None
ServesNobody == served' = None /\ media' = None
Unchanged == UNCHANGED <<served, media>>

ProviderInit == /\ up = FALSE /\ served = None /\ media = None
                /\ last = [op |-> "stop", peer |-> None, ok |-> TRUE]

StartCall(ok) == ~up /\ up' = ok /\ ServesNobody /\ Answer("start", None, ok)
StopCall == up' = FALSE /\ ServesNobody /\ Answer("stop", None, TRUE)

ActivateCall(p, ok) ==
  /\ IF ok THEN up /\ Serves(p) ELSE Unchanged \/ ServesNobody
  /\ Answer("activate", p, ok) /\ UNCHANGED up

PrepareCall(p, ok) ==
  /\ IF ok THEN served = p /\ media' = p ELSE media' \in {media, None}
  /\ Answer("prepare", p, ok) /\ UNCHANGED <<up, served>>

DeactivateCall(p) ==
  /\ IF served = p THEN ServesNobody ELSE Unchanged
  /\ Answer("deactivate", p, TRUE) /\ UNCHANGED up

\* The tunnel or the proxy breaks down by itself.
Lost == up /\ ServesNobody /\ UNCHANGED <<up, last>>

ProviderNext ==
  \/ StopCall \/ Lost
  \/ \E ok \in BOOLEAN : StartCall(ok)
  \/ \E p \in Peers : DeactivateCall(p)
  \/ \E p \in Peers, ok \in BOOLEAN : ActivateCall(p, ok) \/ PrepareCall(p, ok)

ProviderSpec == ProviderInit /\ [][ProviderNext]_providerVars
=============================================================================
