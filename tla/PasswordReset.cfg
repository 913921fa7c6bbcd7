SPECIFICATION FairSpec
CONSTANTS
  Users = {u1, u2}
  Tokens = {t1, t2, t3}
  Resets = {r1, r2}
  None = None
  TTL = 1
  Horizon = 1
INVARIANTS
  NoOlderKeySurvives
PROPERTIES
  ImplementsKeys
  EveryResetAnswers
CHECK_DEADLOCK FALSE
