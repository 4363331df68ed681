--------------------------- MODULE MCIdempotency ----------------------------
(* Requests of one key: r1, r2 and r3 repeat one request, r4 sends another *)
(* payload under the same key.                                             *)
EXTENDS Idempotency, TLC

CONSTANTS r1, r2, r3, r4, f1, f2

MCFingerprint == [r \in Requests |-> IF r = r4 THEN f2 ELSE f1]

\* Requests with the same payload are interchangeable.
RequestSymmetry == Permutations(Requests \ {r4})

=============================================================================
