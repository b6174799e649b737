--------------------------- MODULE MCAgentDispatch ---------------------------
(* Instances of AgentDispatch for TLC. *)
EXTENDS AgentDispatch, TLC

NoSequence == <<>>

\* Two of the calls are those of one runSequence().
TwoInSequence == CHOOSE s \in [1 .. 2 -> Tasks] : s[1] # s[2]

Symmetry == Permutations(Tasks)
=============================================================================
