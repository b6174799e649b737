SPECIFICATION ServiceSpec
CONSTANTS
  t1 = t1
  t2 = t2
  a1 = a1
  a2 = a2
  MAINNET_CAP = 2
  Environments <- SomeEnvironments
  Secrets <- Secret
  Tasks = {t1, t2}
  MaxAttempts = 2
  Memos <- SomeMemos
  Accounts = {a1, a2}
INVARIANTS ValidatedBeforeUse DeliveredOnce StreamGuarded
PROPERTIES HooksEnd ChallengeHandedOut
CHECK_DEADLOCK FALSE
