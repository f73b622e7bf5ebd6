SPECIFICATION Spec
CONSTANTS
  MaxRetries = 1
  ConnectRetries = 2
  RetryOn429 = TRUE
  BackoffMin = 2
  BackoffMax = 4
  Alive = {200}
  Statuses = {200, 204, 404, 429, 500, 503}
  RetryAfters = {1, 5}
  DurationLimit = 8
  None = None
INVARIANTS
  RetryAfterReported
CHECK_DEADLOCK FALSE
