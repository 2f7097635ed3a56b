\* A lost message, an upstream error or a failed write at any point of two calls: the
\* wallet keeps track of its spends, and a settled lease reaches it.
SPECIFICATION LiveClientSpec
CONSTANTS
  t1 = t1
  t2 = t2
  s1 = s1
  s2 = s2
  NoSession = NoSession
  NoDestination = NoDestination
  Tasks = {t1, t2}
  Sessions = {s1}
  Destinations = {"d1"}
  KeySource = "oa_org"
  MaxNotes = 1
  MaxState = 1
  MaxRequests = 2
  MaxFaults = 1
  MaxCrashes = 0
INVARIANTS
  ClientInv
  MutualPlanIsFinal
PROPERTIES
  FinalizedRequestIsInstalled
