\* A client that repeats a reserved request gets its response, past crashes,
\* upstream failures and a root and clock that have moved on.  The caps are
\* inverted: a proof of PolicyCap is accepted and charged up to RequestCap.
SPECIFICATION LiveSpec
CONSTANTS
  n1 = n1
  n2 = n2
  c1 = c1
  c2 = c2
  p1 = p1
  p2 = p2
  root1 = root1
  root2 = root2
  None = None
  Nullifiers = {n1}
  ClientIds = {c1, c2}
  Payloads = {p1, p2}
  Roots = {root1, root2}
  Workers = {w1, w2}
  Charges = {2, 3}
  PolicyEnabled = TRUE
  RequestCap = 2
  PolicyCap = 1
  MaxRequestAge = 1
  MaxFutureSkew = 0
  MaxNow = 2
  MaxStates = 3
  MaxCrashes = 1
  ApiRequests <- LiveRequests
INVARIANTS
  IInv
PROPERTIES
  ReservedRequestIsAnswered
