SPECIFICATION Spec
CONSTANTS
  Requests = {r1, r2}
  Workers = {w1, w2}
  Capacity = 2
  MaxAttempts = 2
  BaseBackoff = 1
  MaxBackoff = 2
  IdleGrace = 1
  IdleTimeout = 2
PROPERTY AcceptedIsHandled
