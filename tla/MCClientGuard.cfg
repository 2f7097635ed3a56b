\* Finding: a request past the guard opens a lease under a prepared withdrawal.
SPECIFICATION LiveClientSpec
CONSTANTS
  t1 = t1
  t2 = t2
  s1 = s1
  s2 = s2
  NoSession = NoSession
  NoDestination = NoDestination
  Tasks = {t1, t2}
  Sessions = {s1}
  Destinations = {"d1"}
  KeySource = "oa_org"
  MaxNotes = 1
  MaxState = 1
  MaxRequests = 1
  MaxFaults = 0
  MaxCrashes = 0
PROPERTIES
  NoLeaseAfterPlan
