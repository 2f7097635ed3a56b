\* With directly managed keys every lease reservation is finalized.
SPECIFICATION LiveLeaseSpec
CONSTANTS
  n1 = n1
  n2 = n2
  c1 = c1
  c2 = c2
  lease = lease
  chat = chat
  root1 = root1
  None = None
  Nullifiers = {n1}
  ClientIds = {c1}
  Payloads = {lease, chat}
  Roots = {root1}
  ApiRequests <- OneLease
  Workers = {w1}
  Charges = {1}
  PolicyEnabled = FALSE
  RequestCap = 1
  PolicyCap = 1
  MaxRequestAge = 1
  MaxFutureSkew = 0
  MaxNow = 0
  MaxStates = 2
  MaxCrashes = 1
  Source = "openrouter"
  LeasePayload = lease
  Ttl = 1
  Grace = 1
  ExpirySlack = 0
  ExpirySafety = 0
  Overshoot = 1
  MaxKeys = 3
PROPERTIES
  ActiveLeaseSettles
  LeaseReservationResolves
