SPECIFICATION Spec
CONSTANTS
  NULL = NULL
  t1 = t1
  t2 = t2
  t3 = t3
  u1 = u1
  u2 = u2
  alice = alice
  bob = bob
  mail1 = mail1
  mail2 = mail2
  p1 = p1
  p2 = p2
  v1 = v1
  v2 = v2
  bad = bad
  h1 = h1
  Tasks = {t1, t2}
  SubmissionIds = {0, 1}
  UserIds = {u1}
  Problems = {p1, p2}
  Handles = {alice, bob}
  Emails = {mail1, mail2}
  Contents = {v1, v2, bad}
  BadContents = {bad}
  Hashes = {h1}
  Attempts = {1}
  Calls <- CompetingCalls
  InitialDatabase <- TwoProblems
  MaxConnections = 2
  TicksPerMilli = 1
  MaxClock = 1
  MillisOf <- OneMilli
SYMMETRY TaskSymmetry
INVARIANTS TypeOK OneWriter ProgressMatches OkIsKept OneFinishWins TimesTold References
PROPERTIES LegalHistory CatalogAllOrNothing MethodsAreAtomic
