-------------------------- MODULE MCContractEvents --------------------------
(* Instances of ContractEvents for TLC. *)
EXTENDS ContractEvents, TLC

CONSTANTS l1, l2

TwoListeners == {l1, l2}

\* Of three events the first two match: a page of two may hold two matching
\* events, so that onEvent can throw between them, or one of each kind.
FirstTwo == {e \in 1 .. MaxEvents : e < 3}
=============================================================================
