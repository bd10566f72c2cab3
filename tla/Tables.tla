------------------------------- MODULE Tables -------------------------------
(***************************************************************************)
(* The database of satunera-store: its tables (migrations/0001_initial),   *)
(* the constraints SQLite enforces on them, and one operator per SQL       *)
(* statement that sqlite.rs issues.  A database is a plain value, so a     *)
(* transaction's private view is a database too; nothing here has state.   *)
(***************************************************************************)
EXTENDS Lifecycle, Integers, FiniteSets, Sequences

CONSTANTS
  UserIds,        \* the ULIDs that may name a user
  Handles,        \* handles; an account's e-mail is drawn from Emails
  Emails,
  Problems,       \* problem ids of the content repository
  Contents,       \* what a problems row holds besides its id
  BadContents,    \* ... the contents whose difficulty fails the CHECK
  Hashes,         \* dedupe keys (source_hash)
  SubmissionIds,  \* the ULIDs that may name a submission, ordered as numbers
  Attempts        \* attempt numbers of runs

-----------------------------------------------------------------------------
(* Rows and tables.  A table maps every possible key to a row, or to NULL. *)

UserRow == [handle : Handles, email : Emails]

\* A column that is NULL until it is set.
Optional(S) == S \cup {NULL}

SubmissionRow ==
  [user : UserIds, problem : Problems, hash : Hashes,
   status : Statuses, verdict : Optional(Verdicts),
   created_at : Nat, started_at : Optional(Nat), finished_at : Optional(Nat)]

RunRow == [submission : SubmissionIds, attempt : Attempts,
           verdict : Optional(Verdicts)]

ProgressRow == [solved_at : Optional(Nat), attempts : Nat]

Databases ==
  [users       : [UserIds -> Optional(UserRow)],
   problems    : [Problems -> Optional(Contents)],
   submissions : [SubmissionIds -> Optional(SubmissionRow)],
   runs        : SUBSET RunRow,
   progress    : [UserIds -> [Problems -> Optional(ProgressRow)]]]

\* What the up migration leaves in a fresh file.
EmptyDatabase ==
  [users       |-> [u \in UserIds |-> NULL],
   problems    |-> [p \in Problems |-> NULL],
   submissions |-> [s \in SubmissionIds |-> NULL],
   runs        |-> {},
   progress    |-> [u \in UserIds |-> [p \in Problems |-> NULL]]]

\* NULL is no value of any column and no row of any table; ids are finitely
\* many (a ULID has 128 bits) and ordered.
ASSUME TablesAssumption ==
  /\ BadContents \subseteq Contents
  /\ SubmissionIds \subseteq Nat /\ IsFiniteSet(SubmissionIds)
  /\ NULL \notin Nat \cup Verdicts \cup Contents \cup UserIds
  /\ NULL \notin UserRow /\ NULL \notin SubmissionRow /\ NULL \notin ProgressRow

-----------------------------------------------------------------------------
(* Statements.  Each Can... is what the schema demands of the statement:   *)
(* when it is FALSE SQLite refuses the statement and changes nothing.      *)

UserExists(d, u) == d.users[u] # NULL
ProblemExists(d, p) == d.problems[p] # NULL
SubmissionExists(d, s) == d.submissions[s] # NULL

\* users_handle_unique and users_email_unique.
CanInsertUser(d, row) ==
  \A u \in UserIds : UserExists(d, u) =>
    d.users[u].handle # row.handle /\ d.users[u].email # row.email

InsertUser(d, u, row) == [d EXCEPT !.users[u] = row]

\* CHECK (difficulty IN ...).
CanUpsertProblem(content) == content \notin BadContents

UpsertProblem(d, p, content) == [d EXCEPT !.problems[p] = content]

\* Mutant: foreign_keys is off.
CanDeleteUnchecked(d, p) == TRUE

\* Foreign keys into problems, checked when the DELETE runs.
CanDeleteProblem(d, p) ==
  /\ \A s \in SubmissionIds :
       SubmissionExists(d, s) => d.submissions[s].problem # p
  /\ \A u \in UserIds : d.progress[u][p] = NULL

DeleteProblem(d, p) == [d EXCEPT !.problems[p] = NULL]

CanInsertSubmission(d, new) ==
  UserExists(d, new.user) /\ ProblemExists(d, new.problem)

InsertSubmission(d, s, new, now) ==
  [d EXCEPT !.submissions[s] =
     [user |-> new.user, problem |-> new.problem, hash |-> new.hash,
      status |-> "QUEUED", verdict |-> NULL,
      created_at |-> now, started_at |-> NULL, finished_at |-> NULL]]

\* Mutant: started_at is stamped by every move.
MovedRestarts(r, status, now) ==
  [r EXCEPT !.status = status, !.started_at = now]

\* What set_submission_status makes of a row: started_at is stamped once.
Moved(r, status, now) ==
  [r EXCEPT !.status = status, !.started_at = IF @ = NULL THEN now ELSE @]

WriteStatus(d, s, status, now) ==
  [d EXCEPT !.submissions[s] = Moved(@, status, now)]

\* What finish_submission makes of a row.
Judged(r, verdict, now) ==
  [r EXCEPT !.status = "DONE", !.verdict = verdict, !.finished_at = now]

WriteVerdict(d, s, verdict, now) ==
  [d EXCEPT !.submissions[s] = Judged(@, verdict, now)]

\* solved_at of the upsert: the time of an acceptance, NULL otherwise.
SolvedAt(verdict, now) == IF IsAccepted(verdict) THEN now ELSE NULL

\* Mutant: the CASE is lost, and an acceptance stamps solved_at again.
BumpedRestamps(r, verdict, now) ==
  [r EXCEPT !.attempts = @ + 1,
            !.solved_at = IF IsAccepted(verdict) THEN now ELSE @]

\* What UPDATE user_progress makes of a row: solved_at is set once.
Bumped(r, verdict, now) ==
  [r EXCEPT !.attempts = @ + 1,
            !.solved_at = IF @ = NULL THEN SolvedAt(verdict, now) ELSE @]

UpdateProgress(d, u, p, verdict, now) ==
  [d EXCEPT !.progress[u][p] = Bumped(@, verdict, now)]

\* Mutant: two bindings of the INSERT are swapped.
FirstProgressSwapped(verdict, now) ==
  [solved_at |-> 1, attempts |-> SolvedAt(verdict, now)]

\* The row the first tallied verdict of a learner inserts.
FirstProgress(verdict, now) ==
  [solved_at |-> SolvedAt(verdict, now), attempts |-> 1]

InsertProgress(d, u, p, verdict, now) ==
  [d EXCEPT !.progress[u][p] = FirstProgress(verdict, now)]

CanReferToSubmission(d, run) == SubmissionExists(d, run.submission)

\* runs_attempt_unique.
AttemptTaken(d, run) ==
  \E r \in d.runs : r.submission = run.submission /\ r.attempt = run.attempt

InsertRun(d, run) == [d EXCEPT !.runs = @ \cup {run}]
=============================================================================
