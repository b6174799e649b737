------------------------------- MODULE MCX402 -------------------------------
(* Instances of X402 for TLC. *)
EXTENDS X402, TLC

CONSTANTS c1, c2, c3, n1, n2

TwoCalls == {c1, c2}
ThreeCalls == {c1, c2, c3}
OneNonce == {n1}
TwoNonces == {n1, n2}

\* One challenge is there from the start, the other is issued later; both live
\* exactly as long as a nonce is kept.
Issued  == [n \in Nonces |-> IF n = n1 THEN 0 ELSE 1]
Expires == [n \in Nonces |-> Issued[n] + MAX_NONCE_TTL_MS]
\* The amount of one is written as Horizon writes it, that of the other is not.
Mixed == [n \in Nonces |-> IF n = n1 THEN 7 ELSE 2]

Interchangeable == Permutations(Calls)
=============================================================================
