------------------------------- MODULE MCStore -------------------------------
(***************************************************************************)
(* Small instances of SqliteStore for TLC: two learners' worth of rows at  *)
(* most, and the calls each run lets its clients make.                     *)
(***************************************************************************)
EXTENDS StoreProperties, TLC

CONSTANTS t1, t2, t3, u1, u2, alice, bob, mail1, mail2, p1, p2, v1, v2, bad, h1

\* A file with one account, one problem, and no submission.
Seeded ==
  [EmptyDatabase EXCEPT !.users[u1] = [handle |-> alice, email |-> mail1],
                        !.problems[p1] = v1]

\* A row of u1 for p1, as create_submission and set_submission_status left it.
Preparing(s) ==
  [user |-> u1, problem |-> p1, hash |-> h1, status |-> "PREPARING",
   verdict |-> NULL, created_at |-> 0, started_at |-> 0, finished_at |-> NULL]

\* The same file with one submission under way.
InJudging == [Seeded EXCEPT !.submissions[0] = Preparing(0)]

\* And a second problem in the catalog.
TwoProblems == [InJudging EXCEPT !.problems[p2] = v1]

New(p) == [op |-> "create_submission",
           new |-> [user |-> u1, problem |-> p, hash |-> h1]]
Move(s, status) == [op |-> "set_submission_status", id |-> s, status |-> status]
Finish(s, v) == [op |-> "finish_submission", id |-> s, verdict |-> v]
Run(s, a, v) == [op |-> "record_run",
                 run |-> [submission |-> s, attempt |-> a, verdict |-> v]]
Replace(rows) == [op |-> "replace_problems", rows |-> rows]
Account(h, e) == [op |-> "create_user", account |-> [handle |-> h, email |-> e]]
Row(p, c) == [id |-> p, content |-> c]

\* Every submission is minted in the same millisecond.
OneMilli == [s \in SubmissionIds |-> 0]

\* The life of a submission, from creation to either way into DONE.
LifeCalls ==
  {New(p1)} \cup {Finish(s, "AC") : s \in SubmissionIds}
  \cup {Move(s, st) : s \in SubmissionIds, st \in Underway \cup {"DONE"}}

\* One submission is judged and restarted by several workers while the same
\* learner makes another, and the catalog is replaced by one that drops its
\* problem and retitles the other, and by one a CHECK refuses.
CompetingCalls ==
  {New(p1), Move(0, "PREPARING"), Move(1, "PREPARING"),
   Finish(0, "AC"), Finish(0, "SE"), Finish(1, "AC"), Finish(1, "WA"),
   Replace(<<Row(p2, v2)>>), Replace(<<Row(p1, v2), Row(p2, bad)>>)}

\* Methods of each shape: INSERTs that meet their unique keys, a transaction
\* that commits once and rolls back afterwards.
BlockingCalls ==
  {Account(bob, mail2), Finish(0, "AC"), Run(0, 1, "AC")}

Creations == {New(p1)}

\* Tasks differ in nothing: sound for the runs without liveness.
TaskSymmetry == Permutations(Tasks)
=============================================================================
