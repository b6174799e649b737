-------------------------- MODULE MCSpendingWindow --------------------------
(* Instances of SpendingWindow for TLC. *)
EXTENDS SpendingWindow

\* Amounts below, at and above the limit of the run, and one below zero, which
\* the guard sees before the tool's schema refuses it.
AnyAmount == {-1, 1, 2}
=============================================================================
