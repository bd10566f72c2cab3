----------------------------- MODULE StoreSpec -----------------------------
(***************************************************************************)
(* What the Store trait (store.rs) promises, without SQLite: every call    *)
(* takes effect in one step between its start and its answer, or not at    *)
(* all.  There is no lock, no transaction and no statement here, and       *)
(* user_progress is no table of its own: what a learner's progress is      *)
(* follows from the submissions.                                           *)
(***************************************************************************)
EXTENDS StoreCalls

CONSTANTS Tasks, InitialDatabase

VARIABLES
  data,    \* the database
  request, \* request[t]: the call under way, waited for or not, or NULL
  reply    \* reply[t]: its answer, once it has one, or NULL

storeVars == <<data, request, reply>>

-----------------------------------------------------------------------------
(* What each method does to the database: After(d, c, e) when its answer   *)
(* is Ok, and the answer it gives when it changes nothing.                 *)

\* The content the last row for p carries, or NULL.
CatalogEntry(rows, p) ==
  IF \A i \in DOMAIN rows : rows[i].id # p THEN NULL
  ELSE LET last == CHOOSE i \in DOMAIN rows :
                     /\ rows[i].id = p
                     /\ \A j \in DOMAIN rows : j > i => rows[j].id # p
       IN  rows[last].content

Catalog(rows) == [p \in Problems |-> CatalogEntry(rows, p)]

UserCreated(d, c, e) ==
  \E u \in UserIds : ~UserExists(d, u) /\ e = InsertUser(d, u, c.account)

CatalogReplaced(d, c, e) == e = [d EXCEPT !.problems = Catalog(c.rows)]

\* The times a method stamps are any it likes: they are read back from e.
SubmissionCreated(d, c, e) ==
  \E s \in SubmissionIds :
    /\ ~SubmissionExists(d, s) /\ SubmissionExists(e, s)
    /\ e = InsertSubmission(d, s, c.new, e.submissions[s].created_at)

StatusSet(d, c, e) ==
  e = WriteStatus(d, c.id, c.status, e.submissions[c.id].started_at)

\* The terminal write: the submission's row changes as documented, and the
\* progress table is again the tally of submissions.
SubmissionFinished(d, c, e) ==
  /\ e.submissions = WriteVerdict(d, c.id, c.verdict,
                        e.submissions[c.id].finished_at).submissions
  /\ e = [d EXCEPT !.submissions = e.submissions, !.progress = e.progress]
  /\ ProgressIsTally(e)

RunRecorded(d, c, e) == e = InsertRun(d, c.run)

After(d, c, e) ==
  CASE c.op = "create_user"           -> UserCreated(d, c, e)
    [] c.op = "replace_problems"      -> CatalogReplaced(d, c, e)
    [] c.op = "create_submission"     -> SubmissionCreated(d, c, e)
    [] c.op = "set_submission_status" -> StatusSet(d, c, e)
    [] c.op = "finish_submission"     -> SubmissionFinished(d, c, e)
    [] c.op = "record_run"            -> RunRecorded(d, c, e)

\* The catalog c brings is valid and drops no problem that is referred to.
CanReplace(d, c) ==
  /\ \A i \in DOMAIN c.rows : CanUpsertProblem(c.rows[i].content)
  /\ \A p \in Problems : ProblemExists(d, p) /\ CatalogEntry(c.rows, p) = NULL
                           => CanDeleteProblem(d, p)

\* The answer of a move to status `to`.
MoveAnswer(d, c, to) ==
  IF ~SubmissionExists(d, c.id) THEN "NotFound"
  ELSE IF ~CanTransitionTo(d.submissions[c.id].status, to)
    THEN "IllegalTransition"
  ELSE "Ok"

Accepts(b, refusal) == IF b THEN "Ok" ELSE refusal

AnswerTo(d, c) ==
  CASE c.op = "create_user" -> Accepts(CanInsertUser(d, c.account), "Conflict")
    [] c.op = "replace_problems"      -> Accepts(CanReplace(d, c), "Database")
    [] c.op = "create_submission" ->
         Accepts(CanInsertSubmission(d, c.new), "Database")
    [] c.op = "set_submission_status" -> MoveAnswer(d, c, c.status)
    [] c.op = "finish_submission"     -> MoveAnswer(d, c, "DONE")
    [] c.op = "record_run" ->
         IF AttemptTaken(d, c.run) THEN "Conflict"
         ELSE Accepts(CanReferToSubmission(d, c.run), "Database")

-----------------------------------------------------------------------------
Init ==
  /\ data = InitialDatabase
  /\ request = [t \in Tasks |-> NULL]
  /\ reply = [t \in Tasks |-> NULL]

Request(t) ==
  /\ request[t] = NULL
  /\ \E c \in Calls : request' = [request EXCEPT ![t] = c]
  /\ UNCHANGED <<data, reply>>

\* The call takes effect, or is refused, and the answer says which.
Perform(t) ==
  /\ request[t] # NULL /\ reply[t] = NULL
  /\ reply' = [reply EXCEPT ![t] = AnswerTo(data, request[t])]
  /\ IF AnswerTo(data, request[t]) = "Ok" THEN After(data, request[t], data')
     ELSE data' = data
  /\ UNCHANGED request

\* SQLite gives up (busy, an I/O error), or a value does not decode: an error,
\* and no effect.
GiveUp(t) ==
  /\ request[t] # NULL /\ reply[t] = NULL
  /\ \E a \in Broken : reply' = [reply EXCEPT ![t] = a]
  /\ UNCHANGED <<data, request>>

\* The answer is delivered, or the caller no longer waits for one.  A call that
\* is dropped when it can no longer be stopped stays a request until it is over.
Forget(T) ==
  /\ request' = [t \in Tasks |-> IF t \in T THEN NULL ELSE request[t]]
  /\ reply' = [t \in Tasks |-> IF t \in T THEN NULL ELSE reply[t]]
  /\ UNCHANGED data

Next ==
  \/ \E t \in Tasks : Request(t) \/ Perform(t) \/ GiveUp(t) \/ Forget({t})
  \/ Forget(Tasks)

Spec == Init /\ [][Next]_storeVars
=============================================================================
