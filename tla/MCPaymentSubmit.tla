--------------------------- MODULE MCPaymentSubmit ---------------------------
(* Instances of PaymentSubmit for TLC. *)
EXTENDS PaymentSubmit, TLC

CONSTANTS p1, p2, r1

TwoPayments == {p1, p2}
OneReader == {r1}

Interchangeable == Permutations(Payments)
=============================================================================
