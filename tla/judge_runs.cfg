SPECIFICATION Spec
CONSTANTS
  NULL = NULL
  u1 = u1
  p1 = p1
  v1 = v1
  alice = alice
  mail1 = mail1
  h1 = h1
  l1 = l1
  w1 = w1
  w2 = w2
  UserIds = {u1}
  Handles = {alice}
  Emails = {mail1}
  Problems = {p1}
  Contents = {v1}
  BadContents = {}
  Hashes = {h1}
  SubmissionIds = {0, 1}
  Attempts = {1, 2, 3}
  Calls <- JudgeCalls
  Learners = {l1}
  Workers = {w1, w2}
  User = u1
  Problem = p1
  Outcomes = {"AC", "SE"}
  InitialDatabase <- Seeded
  MaxFaults = 2
CHECK_DEADLOCK FALSE
INVARIANTS LogsOfRuns RetriesAreEarned VerdictIsOfLastRun
PROPERTY AllJudged
