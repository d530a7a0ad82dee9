SPECIFICATION Spec
CONSTANTS
  b1 = b1
  b2 = b2
  c1 = c1
  c2 = c2
  p1 = p1
  p2 = p2
  NULL = NULL
  Exit = exit
  Binder <- TwoBinders
  Client <- OneClient
  Port <- TwoPorts
  Endpoint <- TwoEndpoints
  Exits = FALSE
  MaxAttempts = 2
CHECK_DEADLOCK FALSE
INVARIANTS AcceptsWhileActive

