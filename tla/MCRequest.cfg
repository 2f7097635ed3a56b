\* Two handlers, requests that compete for one note state, clearances, policy
\* charges, a moving root and clock, and a crash.
SPECIFICATION Spec
CONSTANTS
  n1 = n1
  n2 = n2
  c1 = c1
  c2 = c2
  p1 = p1
  p2 = p2
  root1 = root1
  root2 = root2
  None = None
  Nullifiers = {n1, n2}
  ClientIds = {c1, c2}
  Payloads = {p1, p2}
  Roots = {root1, root2}
  Workers = {w1, w2}
  Charges = {1, 3, 4}
  PolicyEnabled = TRUE
  RequestCap = 1
  PolicyCap = 3
  MaxRequestAge = 1
  MaxFutureSkew = 1
  MaxNow = 1
  MaxStates = 3
  MaxCrashes = 1
  ApiRequests <- PolicyRequests
INVARIANTS
  NoDoubleService
  CloseExcludesSpend
  OneNextState
  ChargeWithinProof
  SpentStateIsChallengeable
PROPERTIES
  StoreOnlyMovesForward
  KeepsPromise
SYMMETRY WorkerSymmetry
