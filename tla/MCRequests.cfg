SPECIFICATION RequestsSpec
CONSTANTS
  q1 = q1
  q2 = q2
  q3 = q3
  A = A
  B = B
  Nil = Nil
  Request = {q1, q2, q3}
  Limiter <- MCLimiter
  LimitOf <- MCLimitOf
  Asked <- MCAsked
  Window = 2
  MaxTime = 2
INVARIANT CountIsExact
INVARIANT ExitZeroMeansServed
INVARIANT WindowRespected
PROPERTY ShutdownEnds
CHECK_DEADLOCK FALSE
