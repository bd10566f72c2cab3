---------------------------- MODULE SqliteStore ----------------------------
(***************************************************************************)
(* SqliteStore (sqlite.rs): concurrent async calls of the Store trait over *)
(* one SQLite file in WAL mode.                                            *)
(*                                                                         *)
(* A task is one call in flight.  It takes a connection of the pool, then  *)
(* either runs its single INSERT, or opens a transaction with BEGIN        *)
(* IMMEDIATE, which takes the file's write lock, and runs its statements   *)
(* one by one on a private view of the database until COMMIT or ROLLBACK.  *)
(* Between any two statements the other tasks run, the caller may drop the *)
(* future, or the process may die.  A statement runs in the thread of its  *)
(* connection (sqlx), which does not notice that the caller has gone.      *)
(***************************************************************************)
EXTENDS StoreCalls

CONSTANTS
  Tasks,           \* concurrent calls
  MaxConnections,  \* SqlitePoolOptions::max_connections
  InitialDatabase, \* what the file holds when the store is opened
  MillisOf,        \* the millisecond a submission's ULID carries
  TicksPerMilli,   \* OffsetDateTime is finer than a ULID's millisecond
  MaxClock         \* bound: the clock stops here

\* The file is fresh, or one that the store left sound.
ASSUME StoreAssumption ==
  /\ NULL \notin Tasks
  /\ MaxConnections \in Nat \ {0}
  /\ InitialDatabase \in Databases /\ Sound(InitialDatabase, 0)
  /\ MillisOf \in [SubmissionIds -> Nat]
  /\ \A s, r \in SubmissionIds : s < r => MillisOf[s] <= MillisOf[r]
  /\ TicksPerMilli \in Nat \ {0} /\ MaxClock \in Nat

VARIABLES
  clock,   \* wall clock, in ticks
  db,      \* the committed database
  lock,    \* the task that holds SQLite's write lock, or NULL
  view,    \* view[t]: what t's open transaction sees
  stage,   \* stage[t]: where the call of t is
  call,    \* call[t]: the call of t, or NULL
  minted,  \* minted[t]: the id a create_* call generated, or NULL
  stamp,   \* stamp[t]: the now() the call of t writes
  row,     \* row[t]: rows replace_problems has upserted
  answer,  \* answer[t]: what the call of t is about to return, or NULL
  dropped  \* dropped[t]: nobody waits for t, but its statement was sent

vars == <<clock, db, lock, view, stage, call, minted, stamp, row, answer, dropped>>

-----------------------------------------------------------------------------
\* The statements of the transactions, and what ends one.
Transacting ==
  {"upsert", "delete", "select_status", "update_status", "select_finish",
   "update_done", "update_progress", "insert_progress", "commit", "rollback"}

Stages == {"idle", "acquire", "begin", "insert", "reply"} \cup Transacting

\* A task holds its connection from acquire until its call returns or is
\* dropped; a task waiting for the write lock holds one too.
Connected == {t \in Tasks : stage[t] \in Transacting \cup {"begin", "insert"}}

Init ==
  /\ clock = 0
  /\ db = InitialDatabase
  /\ lock = NULL
  /\ view = [t \in Tasks |-> NULL]
  /\ stage = [t \in Tasks |-> "idle"]
  /\ call = [t \in Tasks |-> NULL]
  /\ minted = [t \in Tasks |-> NULL]
  /\ stamp = [t \in Tasks |-> 0]
  /\ row = [t \in Tasks |-> 0]
  /\ answer = [t \in Tasks |-> NULL]
  /\ dropped = [t \in Tasks |-> FALSE]

\* Time passes.
Tick ==
  /\ clock < MaxClock
  /\ clock' = clock + 1
  /\ UNCHANGED <<db, lock, view, stage, call, minted, stamp, row, answer, dropped>>

-----------------------------------------------------------------------------
(* How a call starts, waits and ends.                                      *)

GoTo(t, next) == stage' = [stage EXCEPT ![t] = next]

\* Two generated ids are never equal.
Fresh(id) == \A t \in Tasks : minted[t] # id

\* SubmissionId::generate, UserId::generate: the milliseconds of now, then
\* randomness.  The other methods generate nothing the model tells apart.
Generated(c) ==
  CASE c.op = "create_submission" ->
         {s \in SubmissionIds : /\ MillisOf[s] = clock \div TicksPerMilli
                                /\ ~SubmissionExists(db, s) /\ Fresh(s)}
    [] c.op = "create_user" -> {u \in UserIds : ~UserExists(db, u) /\ Fresh(u)}
    [] OTHER -> {NULL}

\* The head of a method, up to its first await: create_submission has its id
\* and created_at from here on, long before its row is inserted.  (The other
\* created_at columns are not kept.)
Invoke(t, c) ==
  /\ stage[t] = "idle"
  /\ \E id \in Generated(c) : minted' = [minted EXCEPT ![t] = id]
  /\ call' = [call EXCEPT ![t] = c]
  /\ stamp' = [stamp EXCEPT ![t] = IF c.op = "create_submission" THEN clock ELSE 0]
  /\ GoTo(t, "acquire")
  /\ UNCHANGED <<clock, db, lock, view, row, answer, dropped>>

\* The call is about to return a; its connection is free again.
Finished(t, a) ==
  /\ GoTo(t, "reply")
  /\ answer' = [answer EXCEPT ![t] = a]

\* The transaction of t is dropped by an early return with error a.
Abort(t, a) ==
  /\ GoTo(t, "rollback")
  /\ answer' = [answer EXCEPT ![t] = a]

\* The pool has a connection to lend.
Acquire(t) ==
  /\ stage[t] = "acquire"
  /\ Cardinality(Connected) < MaxConnections
  /\ GoTo(t, IF call[t].op \in Transactional THEN "begin" ELSE "insert")
  /\ UNCHANGED <<clock, db, lock, view, call, minted, stamp, row, answer, dropped>>

\* The pool's acquire timeout.
PoolTimeout(t) ==
  /\ stage[t] = "acquire"
  /\ Cardinality(Connected) >= MaxConnections
  /\ Finished(t, "Database")
  /\ UNCHANGED <<clock, db, lock, view, call, minted, stamp, row, dropped>>

\* busy_timeout expires on BEGIN IMMEDIATE or on a single INSERT.
BusyTimeout(t) ==
  /\ stage[t] \in {"begin", "insert"}
  /\ lock # NULL
  /\ Finished(t, "Database")
  /\ UNCHANGED <<clock, db, lock, view, call, minted, stamp, row, dropped>>

\* The first statement of a transaction.
FirstStatement(op) ==
  CASE op = "replace_problems"      -> "upsert"
    [] op = "set_submission_status" -> "select_status"
    [] op = "finish_submission"     -> "select_finish"

\* Mutant: a deferred BEGIN, which reads without the write lock.
BeginDeferred(t) ==
  /\ stage[t] = "begin" /\ ~dropped[t]
  /\ view' = [view EXCEPT ![t] = db]
  /\ GoTo(t, FirstStatement(call[t].op))
  /\ UNCHANGED <<clock, db, lock, call, minted, stamp, row, answer, dropped>>

\* BEGIN IMMEDIATE takes the write lock.
Locked(t) ==
  /\ stage[t] = "begin"
  /\ lock = NULL
  /\ lock' = t
  /\ view' = [view EXCEPT ![t] = db]

\* begin_immediate.
Begin(t) ==
  /\ Locked(t) /\ ~dropped[t]
  /\ GoTo(t, FirstStatement(call[t].op))
  /\ UNCHANGED <<clock, db, call, minted, stamp, row, answer, dropped>>

\* A BEGIN whose caller has gone is rolled back where it ran.
BeginUnclaimed(t) ==
  /\ Locked(t) /\ dropped[t]
  /\ Abort(t, NULL)
  /\ UNCHANGED <<clock, db, call, minted, stamp, row, dropped>>

Release(t) ==
  /\ lock' = NULL
  /\ view' = [view EXCEPT ![t] = NULL]

\* Mutant: Ok is returned without tx.commit(), and the drop rolls back.
CommitForgotten(t) ==
  /\ stage[t] = "commit"
  /\ Release(t)
  /\ Finished(t, "Ok")
  /\ UNCHANGED <<clock, db, call, minted, stamp, row, dropped>>

\* tx.commit().
Commit(t) ==
  /\ stage[t] = "commit"
  /\ db' = view[t]
  /\ Release(t)
  /\ Finished(t, "Ok")
  /\ UNCHANGED <<clock, call, minted, stamp, row, dropped>>

\* Mutant: an early return leaves the transaction open on its connection.
RollbackForgotten(t) ==
  /\ stage[t] = "rollback"
  /\ Finished(t, answer[t])
  /\ UNCHANGED <<clock, db, lock, view, call, minted, stamp, row, dropped>>

\* A dropped Transaction queues ROLLBACK on its connection.
Rollback(t) ==
  /\ stage[t] = "rollback"
  /\ Release(t)
  /\ Finished(t, answer[t])
  /\ UNCHANGED <<clock, db, call, minted, stamp, row, dropped>>

\* Everything the task kept is dropped.
Clear(t) ==
  /\ GoTo(t, "idle")
  /\ call' = [call EXCEPT ![t] = NULL]
  /\ minted' = [minted EXCEPT ![t] = NULL]
  /\ stamp' = [stamp EXCEPT ![t] = 0]
  /\ row' = [row EXCEPT ![t] = 0]
  /\ answer' = [answer EXCEPT ![t] = NULL]
  /\ dropped' = [dropped EXCEPT ![t] = FALSE]

Return(t) ==
  /\ stage[t] = "reply"
  /\ Clear(t)
  /\ UNCHANGED <<clock, db, lock, view>>

\* The caller drops the future.  What was not yet sent to SQLite never runs,
\* and an open transaction is rolled back.  A statement that was sent runs on
\* in the connection's own thread all the same: an INSERT or a COMMIT takes
\* effect after its caller has gone.  (Of the other statements of a transaction
\* the rollback leaves nothing.)
Cancel(t) ==
  /\ ~dropped[t]
  /\ \/ /\ stage[t] \in {"acquire", "begin", "insert", "reply"}
        /\ Clear(t)
        /\ UNCHANGED <<clock, db, lock, view>>
     \/ /\ stage[t] \in Transacting \ {"rollback"}
        /\ Abort(t, NULL)
        /\ UNCHANGED <<clock, db, lock, view, call, minted, stamp, row, dropped>>
     \/ /\ stage[t] \in {"begin", "insert", "commit"}
        /\ dropped' = [dropped EXCEPT ![t] = TRUE]
        /\ UNCHANGED <<clock, db, lock, view, stage, call, minted, stamp, row, answer>>

\* SQLite fails a BEGIN, an INSERT, a statement of a transaction or its COMMIT,
\* and the ? after it returns early.
StatementFails(t) ==
  /\ \/ stage[t] \in {"begin", "insert"} /\ Finished(t, "Database")
     \/ stage[t] \in Transacting \ {"rollback"} /\ Abort(t, "Database")
  /\ UNCHANGED <<clock, db, lock, view, call, minted, stamp, row, dropped>>

\* The stored status does not parse, or an updated_at does not format.
CorruptRow(t) ==
  /\ \/ stage[t] = "upsert" /\ row[t] < Len(call[t].rows)
     \/ /\ stage[t] \in {"select_status", "select_finish"}
        /\ SubmissionExists(view[t], call[t].id)
  /\ Abort(t, "CorruptRow")
  /\ UNCHANGED <<clock, db, lock, view, call, minted, stamp, row, dropped>>

\* The process dies and the store is opened again: only the file survives.
Crash ==
  /\ \E t \in Tasks : stage[t] # "idle"
  /\ lock' = NULL
  /\ view' = [t \in Tasks |-> NULL]
  /\ stage' = [t \in Tasks |-> "idle"]
  /\ call' = [t \in Tasks |-> NULL]
  /\ minted' = [t \in Tasks |-> NULL]
  /\ stamp' = [t \in Tasks |-> 0]
  /\ row' = [t \in Tasks |-> 0]
  /\ answer' = [t \in Tasks |-> NULL]
  /\ dropped' = [t \in Tasks |-> FALSE]
  /\ UNCHANGED <<clock, db>>

-----------------------------------------------------------------------------
(* The methods that are one INSERT.                                        *)

\* The INSERT of t runs: it needs the write lock, for itself alone.
Inserting(t, op) == stage[t] = "insert" /\ lock = NULL /\ call[t].op = op

CreateUser(t) ==
  /\ Inserting(t, "create_user")
  /\ IF CanInsertUser(db, call[t].account)
       THEN /\ db' = InsertUser(db, minted[t], call[t].account)
            /\ Finished(t, "Ok")
       ELSE db' = db /\ Finished(t, "Conflict")
  /\ UNCHANGED <<clock, lock, view, call, minted, stamp, row, dropped>>

CreateSubmission(t) ==
  /\ Inserting(t, "create_submission")
  /\ IF CanInsertSubmission(db, call[t].new)
       THEN /\ db' = InsertSubmission(db, minted[t], call[t].new, stamp[t])
            /\ Finished(t, "Ok")
       ELSE db' = db /\ Finished(t, "Database")
  /\ UNCHANGED <<clock, lock, view, call, minted, stamp, row, dropped>>

RecordRun(t) ==
  /\ Inserting(t, "record_run")
  /\ \/ /\ AttemptTaken(db, call[t].run)
        /\ db' = db /\ Finished(t, "Conflict")
     \/ /\ ~CanReferToSubmission(db, call[t].run)
        /\ db' = db /\ Finished(t, "Database")
     \/ /\ ~AttemptTaken(db, call[t].run)
        /\ CanReferToSubmission(db, call[t].run)
        /\ db' = InsertRun(db, call[t].run) /\ Finished(t, "Ok")
  /\ UNCHANGED <<clock, lock, view, call, minted, stamp, row, dropped>>

-----------------------------------------------------------------------------
(* replace_problems: upsert every row in order, then delete, in any order, *)
(* what the catalog no longer names.                                       *)

\* Mutant: the upserts run on the pool, outside the transaction.
UpsertRowOnPool(t) ==
  /\ stage[t] = "upsert"
  /\ row[t] < Len(call[t].rows)
  /\ LET r == call[t].rows[row[t] + 1]
     IN  IF CanUpsertProblem(r.content)
           THEN /\ db' = UpsertProblem(db, r.id, r.content)
                /\ view' = [view EXCEPT ![t] = db']
                /\ row' = [row EXCEPT ![t] = @ + 1]
                /\ UNCHANGED <<stage, answer>>
           ELSE Abort(t, "Database") /\ UNCHANGED <<db, view, row>>
  /\ UNCHANGED <<clock, lock, call, minted, stamp, dropped>>

\* One turn of the upsert loop.
UpsertRow(t) ==
  /\ stage[t] = "upsert"
  /\ row[t] < Len(call[t].rows)
  /\ LET r == call[t].rows[row[t] + 1]
     IN  IF CanUpsertProblem(r.content)
           THEN /\ view' = [view EXCEPT ![t] = UpsertProblem(@, r.id, r.content)]
                /\ row' = [row EXCEPT ![t] = @ + 1]
                /\ UNCHANGED <<stage, answer>>
           ELSE Abort(t, "Database") /\ UNCHANGED <<view, row>>
  /\ UNCHANGED <<clock, db, lock, call, minted, stamp, dropped>>

\* The set `keep` is what the rows name; SELECT id finds what is there.
Dropped(t) ==
  {p \in Problems : /\ ProblemExists(view[t], p)
                    /\ \A i \in DOMAIN call[t].rows : call[t].rows[i].id # p}

SelectProblems(t) ==
  /\ stage[t] = "upsert"
  /\ row[t] = Len(call[t].rows)
  /\ GoTo(t, IF Dropped(t) = {} THEN "commit" ELSE "delete")
  /\ UNCHANGED <<clock, db, lock, view, call, minted, stamp, row, answer, dropped>>

DeleteRow(t) ==
  /\ stage[t] = "delete"
  /\ \E p \in Dropped(t) :
       IF CanDeleteProblem(view[t], p)
         THEN /\ view' = [view EXCEPT ![t] = DeleteProblem(@, p)]
              /\ GoTo(t, IF Dropped(t) = {p} THEN "commit" ELSE "delete")
              /\ UNCHANGED answer
         ELSE Abort(t, "Database") /\ UNCHANGED view
  /\ UNCHANGED <<clock, db, lock, call, minted, stamp, row, dropped>>

-----------------------------------------------------------------------------
(* set_submission_status and finish_submission: check, then write.         *)

\* Mutant: finish_submission does not ask can_transition_to.
SelectFinishUnchecked(t) ==
  /\ stage[t] = "select_finish"
  /\ IF SubmissionExists(view[t], call[t].id)
       THEN GoTo(t, "update_done") /\ UNCHANGED answer
       ELSE Abort(t, "NotFound")
  /\ UNCHANGED <<clock, db, lock, view, call, minted, stamp, row, dropped>>

\* The SELECT and the checks both methods begin with, for a move to `to`.
Check(t, to, next) ==
  /\ IF ~SubmissionExists(view[t], call[t].id) THEN Abort(t, "NotFound")
     ELSE IF ~CanTransitionTo(view[t].submissions[call[t].id].status, to)
       THEN Abort(t, "IllegalTransition")
     ELSE GoTo(t, next) /\ UNCHANGED answer
  /\ UNCHANGED <<clock, db, lock, view, call, minted, stamp, row, dropped>>

SelectStatus(t) ==
  stage[t] = "select_status" /\ Check(t, call[t].status, "update_status")

UpdateStatus(t) ==
  /\ stage[t] = "update_status"
  /\ stamp' = [stamp EXCEPT ![t] = clock]
  /\ view' = [view EXCEPT ![t] =
                WriteStatus(@, call[t].id, call[t].status, clock)]
  /\ GoTo(t, "commit")
  /\ UNCHANGED <<clock, db, lock, call, minted, row, answer, dropped>>

SelectFinish(t) ==
  stage[t] = "select_finish" /\ Check(t, "DONE", "update_done")

\* Mutant: user_progress is left to another transaction.
UpdateDoneAlone(t) ==
  /\ stage[t] = "update_done"
  /\ stamp' = [stamp EXCEPT ![t] = clock]
  /\ view' = [view EXCEPT ![t] =
                WriteVerdict(@, call[t].id, call[t].verdict, clock)]
  /\ GoTo(t, "commit")
  /\ UNCHANGED <<clock, db, lock, call, minted, row, answer, dropped>>

\* finished_at is read from the clock here, under the lock, and is kept for
\* solved_at.
UpdateDone(t) ==
  /\ stage[t] = "update_done"
  /\ stamp' = [stamp EXCEPT ![t] = clock]
  /\ view' = [view EXCEPT ![t] =
                WriteVerdict(@, call[t].id, call[t].verdict, clock)]
  /\ GoTo(t, IF Counts(call[t].verdict) THEN "update_progress" ELSE "commit")
  /\ UNCHANGED <<clock, db, lock, call, minted, row, answer, dropped>>

\* The user and the problem whose progress the call of t moves.
Learner(t) == view[t].submissions[call[t].id].user
Attempted(t) == view[t].submissions[call[t].id].problem

\* Mutant: this statement asks the pool for a connection of its own.
UpdateUserProgressOnPool(t) ==
  /\ stage[t] = "update_progress"
  /\ Cardinality(Connected) < MaxConnections
  /\ GoTo(t, "commit")
  /\ UNCHANGED <<clock, db, lock, view, call, minted, stamp, row, answer, dropped>>

\* UPDATE user_progress; rows_affected() = 0 leads to the INSERT.
UpdateUserProgress(t) ==
  /\ stage[t] = "update_progress"
  /\ IF view[t].progress[Learner(t)][Attempted(t)] = NULL
       THEN GoTo(t, "insert_progress") /\ UNCHANGED view
       ELSE /\ view' = [view EXCEPT ![t] =
                 UpdateProgress(@, Learner(t), Attempted(t),
                                call[t].verdict, stamp[t])]
            /\ GoTo(t, "commit")
  /\ UNCHANGED <<clock, db, lock, call, minted, stamp, row, answer, dropped>>

InsertUserProgress(t) ==
  /\ stage[t] = "insert_progress"
  /\ view' = [view EXCEPT ![t] =
        InsertProgress(@, Learner(t), Attempted(t), call[t].verdict, stamp[t])]
  /\ GoTo(t, "commit")
  /\ UNCHANGED <<clock, db, lock, call, minted, stamp, row, answer, dropped>>

-----------------------------------------------------------------------------
\* What a task does by itself once it is called.
Step(t) ==
  \/ Acquire(t) \/ PoolTimeout(t) \/ BusyTimeout(t)
  \/ Begin(t) \/ BeginUnclaimed(t)
  \/ CreateUser(t) \/ CreateSubmission(t) \/ RecordRun(t)
  \/ UpsertRow(t) \/ SelectProblems(t) \/ DeleteRow(t)
  \/ SelectStatus(t) \/ UpdateStatus(t)
  \/ SelectFinish(t) \/ UpdateDone(t)
  \/ UpdateUserProgress(t) \/ InsertUserProgress(t)
  \/ Commit(t) \/ Rollback(t) \/ Return(t)

Next ==
  \/ Tick
  \/ \E t \in Tasks : Step(t) \/ Cancel(t) \/ StatementFails(t) \/ CorruptRow(t)
  \/ \E t \in Tasks, c \in Calls : Invoke(t, c)
  \/ Crash

Spec == Init /\ [][Next]_vars

\* The runtime polls every task that can go on, and both timeouts expire.
Fairness == \A t \in Tasks : WF_vars(Step(t))

FairSpec == Spec /\ Fairness
=============================================================================
