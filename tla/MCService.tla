------------------------------ MODULE MCService -----------------------------
(* Instances of Service for TLC. *)
EXTENDS Service, TLC

CONSTANTS t1, t2, a1, a2

\* Two sound environments, and those that differ from one of them in a field or
\* two.
Sound == [secretKey |-> "valid", arn |-> FALSE, publicKey |-> "derived", rest |-> TRUE,
          mainnet |-> TRUE, limit |-> MAINNET_CAP, webhook |-> TRUE]

Plain == [Sound EXCEPT !.publicKey = "none", !.mainnet = FALSE, !.limit = MAINNET_CAP + 1,
                       !.webhook = FALSE]

SomeEnvironments ==
  {Sound, Plain, [Sound EXCEPT !.limit = MAINNET_CAP + 1], [Sound EXCEPT !.rest = FALSE]}
    \cup {[Sound EXCEPT !.publicKey = p] : p \in {"other", "malformed"}}
    \cup {[Plain EXCEPT !.arn = TRUE, !.secretKey = k, !.publicKey = p] :
            k \in {"none", "valid", "invalid"}, p \in {"none", "other"}}
    \cup {[Plain EXCEPT !.secretKey = k] : k \in {"none", "invalid"}}

\* A challenge after a memo that does not parse.
SomeMemos == <<"malformed", "valid">>
=============================================================================
