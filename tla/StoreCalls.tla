----------------------------- MODULE StoreCalls -----------------------------
(***************************************************************************)
(* The methods of the Store trait (store.rs) that change the database, as  *)
(* the calls a client may make and the answers it may get.  Reads are      *)
(* operators on a database: under WAL a SELECT sees one committed state.   *)
(***************************************************************************)
EXTENDS Tables

CONSTANT Calls   \* the calls the clients of an instance make

NewSubmission == [user : UserIds, problem : Problems, hash : Hashes]

\* One row handed to replace_problems.
CatalogRow == [id : Problems, content : Contents]

AllCalls ==
       [op : {"create_user"}, account : UserRow]
  \cup [op : {"replace_problems"}, rows : Seq(CatalogRow)]
  \cup [op : {"create_submission"}, new : NewSubmission]
  \cup [op : {"set_submission_status"}, id : SubmissionIds, status : Statuses]
  \cup [op : {"finish_submission"}, id : SubmissionIds, verdict : Verdicts]
  \cup [op : {"record_run"}, run : RunRow]

\* The methods that open a write transaction; the others are one statement.
Transactional ==
  {"replace_problems", "set_submission_status", "finish_submission"}

\* StoreError, and Ok.  "Database" is an SQLite error passed through as it is,
\* "CorruptRow" a value that does not decode, or does not encode.
Broken == {"Database", "CorruptRow"}
Answers == {"Ok", "NotFound", "Conflict", "IllegalTransition"} \cup Broken

\* NULL is neither a call nor an answer.
ASSUME CallsAssumption == Calls \subseteq AllCalls /\ NULL \notin Calls /\ NULL \notin Answers

-----------------------------------------------------------------------------
(* The reads.                                                              *)

Submissions(d) == {s \in SubmissionIds : SubmissionExists(d, s)}

\* in_flight_submissions: the recovery scan.
InFlight(d) == {s \in Submissions(d) : d.submissions[s].status # "DONE"}

\* submissions_for_user with no limit: ORDER BY id DESC.
HistoryBefore(d, s, r) ==
  /\ s \in Submissions(d) /\ r \in Submissions(d)
  /\ d.submissions[s].user = d.submissions[r].user
  /\ s > r

\* latest_verdict_for_hash: the hit, or NULL.
LatestVerdictForHash(d, u, hash) ==
  LET hits == {s \in Submissions(d) : /\ d.submissions[s].user = u
                                      /\ d.submissions[s].hash = hash
                                      /\ d.submissions[s].verdict # NULL}
  IN  IF hits = {} THEN NULL
      ELSE CHOOSE s \in hits : \A r \in hits : r <= s

-----------------------------------------------------------------------------
(* What user_progress stands for.                                          *)

\* The submissions of u to p whose verdict moves the learner's progress.
Tallied(d, u, p) ==
  {s \in Submissions(d) : /\ d.submissions[s].user = u
                          /\ d.submissions[s].problem = p
                          /\ d.submissions[s].verdict # NULL
                          /\ Counts(d.submissions[s].verdict)}

\* What a progress row is when T are the tallied submissions: attempts counts
\* them, solved_at is the finished_at of the first acceptance.
IsTallyOf(d, T, row) ==
  LET solving == {s \in T : IsAccepted(d.submissions[s].verdict)}
  IN  IF T = {} THEN row = NULL
      ELSE /\ row # NULL
           /\ row.attempts = Cardinality(T)
           /\ IF solving = {} THEN row.solved_at = NULL
              ELSE \E s \in solving :
                     /\ row.solved_at = d.submissions[s].finished_at
                     /\ \A r \in solving :
                          row.solved_at <= d.submissions[r].finished_at

\* user_progress is exactly the tally of submissions.
ProgressIsTally(d) ==
  \A u \in UserIds, p \in Problems :
    IsTallyOf(d, Tallied(d, u, p), d.progress[u][p])

-----------------------------------------------------------------------------
(* When a database is sound.                                               *)

\* The times of a submission tell its story in order: it is created, then
\* started once it leaves QUEUED, then finished exactly when it has a verdict,
\* none of them after now.
InOrder(r, now) ==
  /\ r.created_at <= now
  /\ r.started_at = NULL <=> r.status = "QUEUED"
  /\ r.started_at # NULL => r.created_at <= r.started_at /\ r.started_at <= now
  /\ r.finished_at = NULL <=> r.verdict = NULL
  /\ r.finished_at # NULL =>
       r.status = "DONE" /\ r.started_at <= r.finished_at /\ r.finished_at <= now

TimesInOrder(d, now) == \A s \in Submissions(d) : InOrder(d.submissions[s], now)

\* Every foreign key leads to a row.
NothingDangles(d) ==
  /\ \A s \in Submissions(d) : /\ UserExists(d, d.submissions[s].user)
                               /\ ProblemExists(d, d.submissions[s].problem)
  /\ \A r \in d.runs : SubmissionExists(d, r.submission)
  /\ \A u \in UserIds, p \in Problems : d.progress[u][p] # NULL =>
       UserExists(d, u) /\ ProblemExists(d, p)

Sound(d, now) ==
  TimesInOrder(d, now) /\ NothingDangles(d) /\ ProgressIsTally(d)
=============================================================================
