\* Two calls of two sessions, leases one after another on one note, and a restart.
SPECIFICATION ClientSpec
CONSTANTS
  t1 = t1
  t2 = t2
  s1 = s1
  s2 = s2
  NoSession = NoSession
  NoDestination = NoDestination
  Tasks = {t1, t2}
  Sessions = {s1, s2}
  Destinations = {"d1"}
  KeySource = "oa_org"
  MaxNotes = 1
  MaxState = 2
  MaxRequests = 2
  MaxFaults = 0
  MaxCrashes = 1
SYMMETRY TaskSymmetry
INVARIANTS
  ReservationIsJournalled
  RetirementExcludesUse
  KeyServesOneSession
