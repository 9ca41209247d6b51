SPECIFICATION Spec
CONSTANTS
  a = a
  b = b
  e = e
  c = c
  d = d
  u = u
  v = v
  p1 = p1
  p2 = p2
  JobIds = {a, b}
  Users = {u, v}
  Kind <- MCKind
  BatchJobs = {b}
  OwnerUID <- MCOwner
  Interval <- MCInterval
  CronNext <- MCCronNext
  MaxTime = 2
  Procs = {p1, p2}
  NoProc = NoProc
SYMMETRY Symmetry
INVARIANTS
  NoStaleSnapshot
  ClaimIsDurable
  StartedAtMostOnce
  SubmissionOutcomeHolds
