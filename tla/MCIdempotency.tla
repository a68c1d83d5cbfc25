--------------------------- MODULE MCIdempotency ---------------------------
(* A small instance of Idempotency in which handlers may be slow. MCServices *)
(* has the one in which they are not.                                       *)
EXTENDS Idempotency

CONSTANTS c1, c2, c3, q1, q2

ThreeCalls == {c1, c2, c3}
TwoRequests == {q1, q2}
============================================================================
