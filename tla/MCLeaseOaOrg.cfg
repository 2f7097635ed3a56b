\* Leases with keys of the OA org: re-issuance of the same key, receipts, a scan
\* over several due leases, and two requests under one client_request_id.
SPECIFICATION LeaseSpec
CONSTANTS
  n1 = n1
  n2 = n2
  c1 = c1
  c2 = c2
  lease = lease
  chat = chat
  root1 = root1
  None = None
  Nullifiers = {n1, n2}
  ClientIds = {c1, c2}
  Payloads = {lease, chat}
  Roots = {root1}
  ApiRequests <- FourLeases
  Workers = {w1}
  Charges = {1}
  PolicyEnabled = FALSE
  RequestCap = 0
  PolicyCap = 1
  MaxRequestAge = 1
  MaxFutureSkew = 0
  MaxNow = 0
  MaxStates = 2
  MaxCrashes = 0
  Source = "oa_org"
  LeasePayload = lease
  Ttl = 2
  Grace = 1
  ExpirySlack = 1
  ExpirySafety = 1
  Overshoot = 0
  MaxKeys = 2
INVARIANTS
  LeaseInv
PROPERTIES
  LeasesKeepPromise
