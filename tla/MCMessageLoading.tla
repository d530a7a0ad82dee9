-------------------------- MODULE MCMessageLoading --------------------------
(* Instances of MessageLoading for TLC.                                    *)
EXTENDS MessageLoading

CONSTANTS d1, d2, r1, r2, x, r

TwoDeliveries == {d1, d2}
Readers == {r1, r2}
Twins == [d \in {d1, d2} |-> x]

(* Eight-bit hashes over three locks: one name has an ordinary hash, the   *)
(* other the smallest, which leaves the table.                             *)
Hashes == [p \in Path |-> IF p.random = Plain THEN -127 ELSE -128]
=============================================================================
