SPECIFICATION FairSpec
CONSTANTS
  NULL = NULL
  t1 = t1
  t2 = t2
  t3 = t3
  u1 = u1
  u2 = u2
  alice = alice
  bob = bob
  mail1 = mail1
  mail2 = mail2
  p1 = p1
  p2 = p2
  v1 = v1
  v2 = v2
  bad = bad
  h1 = h1
  Tasks = {t1, t2, t3}
  SubmissionIds = {0}
  UserIds = {u1, u2}
  Problems = {p1, p2}
  Handles = {alice, bob}
  Emails = {mail1, mail2}
  Contents = {v1, v2, bad}
  BadContents = {bad}
  Hashes = {h1}
  Attempts = {1}
  Calls <- BlockingCalls
  InitialDatabase <- InJudging
  MaxConnections = 2
  TicksPerMilli = 1
  MaxClock = 0
  MillisOf <- OneMilli
PROPERTIES CallsReturn LockIsReleased
