SPECIFICATION CliSpec
CONSTANTS
  a = a
  b = b
  e = e
  c = c
  d = d
  u = u
  p1 = p1
  p2 = p2
  JobIds = {a, e}
  Users = {u}
  Kind <- MCKind
  BatchJobs = {}
  OwnerUID <- MCOwner
  Interval <- MCInterval
  CronNext <- MCCronNext
  MaxTime = 2
  Procs = {p1, p2}
  NoProc = NoProc
  CliOps = {"disable"}
INVARIANT
  NoLostSubmission
