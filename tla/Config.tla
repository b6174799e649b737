------------------------------- MODULE Config -------------------------------
(***************************************************************************)
(* What backend/config.ts makes of an environment.  A field of the         *)
(* environment is known by what the schema and the loader tell apart:      *)
(*   secretKey  "none", "valid", "invalid"                                 *)
(*   arn        is AGENT_SECRET_KEY_ARN set?                               *)
(*   publicKey  "none", "derived" (that of the secret key), "other" (of    *)
(*              another key), "malformed"                                  *)
(*   rest       do the other fields satisfy EnvSchema?                     *)
(*   mainnet, limit    STELLAR_NETWORK, AGENT_SPENDING_LIMIT               *)
(*   webhook    is WEBHOOK_URL set?                                        *)
(* An answer of the Secrets Manager is [form, key]: how the secret string  *)
(* is written, and the key in it.                                          *)
(***************************************************************************)
EXTENDS Naturals

CONSTANT MAINNET_CAP    \* 10,000

ASSUME ConfigAssumption == MAINNET_CAP \in Nat

\* What the process may find in its environment, and an answer may be.
Environment ==
  [secretKey : {"none", "valid", "invalid"}, arn : BOOLEAN,
   publicKey : {"none", "derived", "other", "malformed"}, rest : BOOLEAN,
   mainnet : BOOLEAN, limit : Nat, webhook : BOOLEAN]

Secret ==
  [form : {"unreachable", "empty", "plain", "named", "first", "other"}, key : {"valid", "invalid"}]

\* EnvSchema.safeParse(process.env), with key as AGENT_SECRET_KEY.
EnvSchema(e, key) == key = "valid" /\ e.publicKey # "malformed" /\ e.rest

\* Is there a configuration?  Otherwise the process exits with code 1.
parseConfigAndDerive(e, key) ==
  /\ EnvSchema(e, key)
  /\ e.publicKey \in {"none", "derived"}
  /\ e.mainnet => e.limit <= MAINNET_CAP

\* fetchSecretFromArn: an answer without a SecretString throws.
Fetched(answer) == answer.form \notin {"unreachable", "empty"}

\* loadConfig: the field AGENT_SECRET_KEY of a JSON object ("named"), else its
\* first string ("first"), else ("other") the text of the secret, which is the
\* key only if it is no JSON object ("plain").
ParsedSecret(answer) ==
  IF answer.form \in {"named", "first", "plain"} THEN answer.key ELSE "invalid"
=============================================================================
