\* Finding: an interrupted OA issuance is not always resumable.
SPECIFICATION LiveLeaseSpec
CONSTANTS
  n1 = n1
  n2 = n2
  c1 = c1
  c2 = c2
  lease = lease
  chat = chat
  root1 = root1
  None = None
  Nullifiers = {n1}
  ClientIds = {c1}
  Payloads = {lease, chat}
  Roots = {root1}
  ApiRequests <- OneLease
  Workers = {w1}
  Charges = {1}
  PolicyEnabled = FALSE
  RequestCap = 1
  PolicyCap = 1
  MaxRequestAge = 1
  MaxFutureSkew = 0
  MaxNow = 0
  MaxStates = 2
  MaxCrashes = 1
  Source = "oa_org"
  LeasePayload = lease
  Ttl = 2
  Grace = 1
  ExpirySlack = 1
  ExpirySafety = 1
  Overshoot = 0
  MaxKeys = 2
PROPERTIES
  LeaseReservationResolves
