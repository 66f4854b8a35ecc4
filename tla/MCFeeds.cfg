SPECIFICATION Spec
CONSTANTS
  None = None
  Relays = {r1}
  MaxEvents = 3
  MAX_ATTEMPTS = 2
  RELAY_BATCH = 2
  MaxFaults = 1
  MaxTime = 2
  Entries = {e1, e2}
  e1 = e1
  e2 = e2
  Freeable = {c1, c2}
  c1 = c1
  c2 = c2
  Wants <- MCWants
  Workers = {w1}
  DECLINE_CAP = 2
  OFFER_TTL = 1
  People = {p1}
  HoldIds = {h1, h2}
  Desks = {d1}
  Lanes = {l1, l2}
  Visits = {v1, v2}
  v1 = v1
  v2 = v2
  Online = {v2}
  StartTimes = {1, 2}
  LADDER <- MCLadder
  Leads = {1}
  TOO_LATE = 1
  MaxMoves = 1
  Planners = {q1, q2}
  Senders = {s1, s2}
  s1 = s1
  s2 = s2
  DELIVERY_TRIES = 2
  DISPATCH_LEASE = 1
  RetryDelay <- MCRetryDelay
  HUB_WITHIN = 2
  Scenarios <- Queues
INVARIANTS
  PublishedWasHeard
  NeverOfferedAgain
  LeaseProtectsTheHolder
CHECK_DEADLOCK FALSE
