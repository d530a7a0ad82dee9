--------------------------- MODULE MCMessageStore ---------------------------
(* Instances of MessageStore for TLC.                                      *)
EXTENDS MessageStore, TLC

CONSTANTS d1, d2, r1, x

TwoDeliveries == {d1, d2}
OneReader == {r1}
Twins == [d \in {d1, d2} |-> x]

(* A subject with a '^' that only the random part keeps away from the end. *)
PlainPaths == {p \in Path : p.random = Plain}
=============================================================================
