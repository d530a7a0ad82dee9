--------------------------- MODULE MCListenServer ---------------------------
(* Instances of ListenServer for TLC.                                      *)
EXTENDS ListenServer, TLC

CONSTANTS b1, b2, c1, c2, p1, p2

OneBinder == {b1}
TwoBinders == {b1, b2}
OneClient == {c1}
TwoClients == {c1, c2}
OnePort == {p1}
TwoPorts == {p1, p2}
OneEndpoint == [b \in {b1} |-> p1]
TwoEndpoints == (b1 :> p1) @@ (b2 :> p2)

ClientsAlike == Permutations(TwoClients)
=============================================================================
