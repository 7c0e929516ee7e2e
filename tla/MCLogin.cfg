CONSTANTS
  Requests = {q1, q2, q3}
  IPs = {a, b}
  MaxAttempts = 2
  Lockout = 2
SPECIFICATION FairLimiterSpec
INVARIANTS
  FailuresBounded
PROPERTIES
  LockoutEnds
