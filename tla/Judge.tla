------------------------------- MODULE Judge -------------------------------
(***************************************************************************)
(* The judge the two stores are written for: learners submit, workers run  *)
(* attempts, the process dies and scans for what it was holding.  The      *)
(* database is used through the calls of StoreSpec, which SqliteStore      *)
(* implements; the blob store puts and gets atomically, as BlobSpec says.  *)
(* Callers are not part of the repository: they do what the comments of    *)
(* store.rs, model.rs, blob.rs and verdict.rs say the calls are for.       *)
(***************************************************************************)
EXTENDS StoreCalls

CONSTANTS
  Learners, Workers,  \* the tasks: requests of one user, and runners
  User, Problem,      \* who submits, and to what
  Outcomes,           \* the verdicts an attempt may come to
  InitialDatabase,    \* one with that user and that problem
  MaxFaults           \* bound: crashes and failed store calls

MAX_AUTOMATIC_RETRIES == 2

\* The calls they make of the store.
JudgeCalls ==
  [op : {"create_submission"}, new : [user : {User}, problem : {Problem}, hash : Hashes]]
  \cup [op : {"set_submission_status"}, id : SubmissionIds, status : {"PREPARING", "RUNNING"}]
  \cup [op : {"record_run"}, run : [submission : SubmissionIds, attempt : Attempts,
                                    verdict : Outcomes]]
  \cup [op : {"finish_submission"}, id : SubmissionIds, verdict : Outcomes]

\* The judge starts on a catalog and its users, before anything is submitted.
ASSUME JudgeAssumption ==
  /\ Learners \cap Workers = {}
  /\ JudgeCalls \subseteq Calls /\ Outcomes \subseteq Verdicts
  /\ 1..(1 + MAX_AUTOMATIC_RETRIES) \subseteq Attempts /\ Attempts \subseteq Nat
  /\ InitialDatabase \in Databases /\ Sound(InitialDatabase, 0)
  /\ Submissions(InitialDatabase) = {}

VARIABLES
  data, request, reply, \* the store, as in StoreSpec
  logs,    \* logs[s, a]: the verdict of the attempt whose log was put, or NULL
  up,      \* the process is running and has scanned for its jobs
  queue,   \* in memory: the submissions that wait for a worker
  learner, \* learner[l]: [at, hash, id], id being what create_submission returned
  job,     \* job[w]: [at, id, attempt, verdict]
  faults   \* crashes and failed calls so far

Tasks == Learners \cup Workers
Store == INSTANCE StoreSpec

memory == <<up, queue, learner, job>>
vars == <<data, request, reply, logs, memory, faults>>

Asleep == [at |-> "idle", hash |-> NULL, id |-> NULL]
Free == [at |-> "idle", id |-> NULL, attempt |-> 0, verdict |-> NULL]

Init ==
  /\ Store!Init
  /\ logs = [k \in SubmissionIds \X Attempts |-> NULL]
  /\ up = TRUE /\ queue = << >> /\ faults = 0
  /\ learner = [l \in Learners |-> Asleep]
  /\ job = [w \in Workers |-> Free]

-----------------------------------------------------------------------------
(* The blob store's keys.                                                  *)

\* Mutant: logs are keyed by submission alone.
LogKeyShared(s, a) == <<s, 1>>

\* BlobKind::Log.
LogKey(s, a) == <<s, a>>

-----------------------------------------------------------------------------
(* The store.  Times are all 0 here: nothing below depends on them.        *)

\* Mutant: a first verdict leaves no progress row.
FinishedUncounted(d, s, verdict) == WriteVerdict(d, s, verdict, 0)

\* finish_submission's writes.
FinishedDatabase(d, s, verdict) ==
  LET row == d.submissions[s]
      done == WriteVerdict(d, s, verdict, 0)
  IN  IF ~Counts(verdict) THEN done
      ELSE IF d.progress[row.user][row.problem] = NULL
        THEN InsertProgress(done, row.user, row.problem, verdict, 0)
      ELSE UpdateProgress(done, row.user, row.problem, verdict, 0)

\* The call of t takes effect; create_submission returns the id it generated.
Perform(t) ==
  LET c == request[t] IN
  /\ up /\ c # NULL /\ reply[t] = NULL
  /\ reply' = [reply EXCEPT ![t] = Store!AnswerTo(data, c)]
  /\ IF Store!AnswerTo(data, c) # "Ok" THEN UNCHANGED <<data, learner>>
     ELSE \/ /\ c.op = "create_submission"
             /\ \E s \in SubmissionIds \ Submissions(data) :
                  /\ data' = InsertSubmission(data, s, c.new, 0)
                  /\ learner' = [learner EXCEPT ![t].id = s]
          \/ /\ c.op = "set_submission_status"
             /\ data' = WriteStatus(data, c.id, c.status, 0) /\ UNCHANGED learner
          \/ /\ c.op = "record_run"
             /\ data' = InsertRun(data, c.run) /\ UNCHANGED learner
          \/ /\ c.op = "finish_submission"
             /\ data' = FinishedDatabase(data, c.id, c.verdict) /\ UNCHANGED learner
  /\ UNCHANGED <<request, logs, up, queue, job, faults>>

\* The call of t fails and has no effect.  It is no CorruptRow: nobody edits the
\* rows here, and such rows decode (RowsReadBack).
Fail(t) ==
  /\ up /\ request[t] # NULL /\ reply[t] = NULL /\ faults < MaxFaults
  /\ reply' = [reply EXCEPT ![t] = "Database"]
  /\ faults' = faults + 1
  /\ UNCHANGED <<data, request, logs, memory>>

\* t makes call c, where at most one call of t is open.
Call(t, c) ==
  /\ up /\ request[t] = NULL
  /\ request' = [request EXCEPT ![t] = c]
  /\ UNCHANGED <<data, reply, logs, memory, faults>>

\* t takes the answer to its call.
Taken(t) ==
  /\ up /\ reply[t] # NULL
  /\ request' = [request EXCEPT ![t] = NULL]
  /\ reply' = [reply EXCEPT ![t] = NULL]

-----------------------------------------------------------------------------
(* A learner's request: look for a prior verdict, create the row, queue    *)
(* it.                                                                     *)

\* The answer is the prior verdict's, or there is something to judge.
Submit(l, h) ==
  /\ up /\ learner[l].at = "idle" /\ Submissions(data) # SubmissionIds
  /\ LatestVerdictForHash(data, User, h) = NULL
  /\ learner' = [learner EXCEPT ![l] = [at |-> "create", hash |-> h, id |-> NULL]]
  /\ UNCHANGED <<data, request, reply, logs, up, queue, job, faults>>

Create(l) ==
  /\ learner[l].at = "create"
  /\ Submissions(data) # SubmissionIds
  /\ Call(l, [op |-> "create_submission",
              new |-> [user |-> User, problem |-> Problem, hash |-> learner[l].hash]])

\* The row is there, and is queued; or the request has failed.
Created(l) ==
  /\ learner[l].at = "create" /\ Taken(l)
  /\ queue' = IF reply[l] = "Ok" THEN Append(queue, learner[l].id) ELSE queue
  /\ learner' = [learner EXCEPT ![l] = Asleep]
  /\ UNCHANGED <<data, logs, up, job, faults>>

-----------------------------------------------------------------------------
(* A worker: read the runs there are, then judge once more or finish.      *)

\* runs_for_submission; no two of them have the same attempt.
RunsForSubmission(d, s) == {r \in d.runs : r.submission = s}

\* The one that ORDER BY attempt puts last.
LastOf(runs) == CHOOSE r \in runs : \A q \in runs : q.attempt <= r.attempt

\* Mutant: the one it puts first.
FirstOf(runs) == CHOOSE r \in runs : \A q \in runs : q.attempt >= r.attempt

\* Mutant: every attempt is worth another.
RetriesAny(run) == run.attempt <= MAX_AUTOMATIC_RETRIES

\* is_retryable, within the automatic retries.
Retries(run) == IsInfrastructure(run.verdict) /\ run.attempt <= MAX_AUTOMATIC_RETRIES

Take(w) ==
  /\ up /\ job[w] = Free /\ queue # << >>
  /\ job' = [job EXCEPT ![w] = [at |-> "look", id |-> Head(queue), attempt |-> 0,
                               verdict |-> NULL]]
  /\ queue' = Tail(queue)
  /\ UNCHANGED <<data, request, reply, logs, up, learner, faults>>

\* Mutant: the verdict is that of the first run.
LookFirst(w) ==
  LET runs == RunsForSubmission(data, job[w].id) IN
  /\ up /\ job[w].at = "look"
  /\ job' = [job EXCEPT ![w] =
       IF runs # {} /\ ~Retries(LastOf(runs))
         THEN [@ EXCEPT !.at = "finish", !.verdict = FirstOf(runs).verdict]
         ELSE [at |-> "claim", id |-> job[w].id, attempt |-> Cardinality(runs) + 1,
               verdict |-> NULL]]
  /\ UNCHANGED <<data, request, reply, logs, up, queue, learner, faults>>

\* The last run decides: there is a verdict to finish with, or one attempt
\* more to make.
Look(w) ==
  LET runs == RunsForSubmission(data, job[w].id) IN
  /\ up /\ job[w].at = "look"
  /\ job' = [job EXCEPT ![w] =
       IF runs # {} /\ ~Retries(LastOf(runs))
         THEN [@ EXCEPT !.at = "finish", !.verdict = LastOf(runs).verdict]
         ELSE [at |-> "claim", id |-> job[w].id, attempt |-> Cardinality(runs) + 1,
               verdict |-> NULL]]
  /\ UNCHANGED <<data, request, reply, logs, up, queue, learner, faults>>

\* The call that each step of a job makes.
CallOf(j) ==
  CASE j.at = "claim"  -> [op |-> "set_submission_status", id |-> j.id, status |-> "PREPARING"]
    [] j.at = "start"  -> [op |-> "set_submission_status", id |-> j.id, status |-> "RUNNING"]
    [] j.at = "record" -> [op |-> "record_run", run |-> [submission |-> j.id,
                             attempt |-> j.attempt, verdict |-> j.verdict]]
    [] j.at = "finish" -> [op |-> "finish_submission", id |-> j.id, verdict |-> j.verdict]

\* What follows it.
NextStep(at) ==
  CASE at = "claim" -> "start" [] at = "start" -> "run" [] at = "record" -> "look"

Ask(w) ==
  /\ job[w].at \in {"claim", "start", "record", "finish"}
  /\ Call(w, CallOf(job[w]))

\* An answer of Ok leads on, a failed call is made again, a refused one ends
\* the job.
Answered(w) ==
  /\ Taken(w)
  /\ job' = [job EXCEPT ![w] =
       IF reply[w] = "Database" THEN @
       ELSE IF reply[w] = "Ok" /\ @.at # "finish" THEN [job[w] EXCEPT !.at = NextStep(@)]
       ELSE Free]
  /\ UNCHANGED <<data, logs, up, queue, learner, faults>>

\* The attempt comes to an end, and its log is put before it is recorded.
Run(w) ==
  /\ up /\ job[w].at = "run"
  /\ \E v \in Outcomes :
       /\ logs' = [logs EXCEPT ![LogKey(job[w].id, job[w].attempt)] = v]
       /\ job' = [job EXCEPT ![w].at = "record", ![w].verdict = v]
  /\ UNCHANGED <<data, request, reply, up, queue, learner, faults>>

-----------------------------------------------------------------------------
(* The process dies, and starts again with the recovery scan.              *)

Crash ==
  /\ up /\ faults < MaxFaults
  /\ up' = FALSE /\ faults' = faults + 1
  /\ request' = [t \in Tasks |-> NULL] /\ reply' = [t \in Tasks |-> NULL]
  /\ queue' = << >>
  /\ learner' = [l \in Learners |-> Asleep]
  /\ job' = [w \in Workers |-> Free]
  /\ UNCHANGED <<data, logs>>

\* in_flight_submissions, ORDER BY id.
Boot ==
  /\ ~up /\ up' = TRUE
  /\ LET found == InFlight(data)
     IN  \E q \in [1..Cardinality(found) -> found] :
           /\ \A i, j \in DOMAIN q : i < j => q[i] < q[j]
           /\ queue' = q
  /\ UNCHANGED <<data, request, reply, logs, learner, job, faults>>

Serve(l) == Create(l) \/ Created(l) \/ Perform(l)
Work(w) == Take(w) \/ Look(w) \/ Ask(w) \/ Answered(w) \/ Run(w) \/ Perform(w)

Next ==
  \/ \E l \in Learners, h \in Hashes : Submit(l, h)
  \/ \E l \in Learners : Serve(l)
  \/ \E w \in Workers : Work(w)
  \/ \E t \in Tasks : Fail(t)
  \/ Crash \/ Boot

\* A running process goes on, and a dead one is started again; nobody must
\* submit.
Fairness ==
  /\ \A l \in Learners : WF_vars(Serve(l))
  /\ \A w \in Workers : WF_vars(Work(w))
  /\ WF_vars(Boot)

Spec == Init /\ [][Next]_vars /\ Fairness

-----------------------------------------------------------------------------
(* Properties.                                                             *)

\* blob.rs:52-54: every recorded run has its log, and that log is the one of
\* the attempt it records, whatever retries and restarts came after it.
LogsOfRuns ==
  \A r \in data.runs : logs[LogKey(r.submission, r.attempt)] = r.verdict

\* model.rs:190, 206-207, verdict.rs:90-91: attempts are numbered from 1, a later one
\* exists only after an SE or an IE, and there are at most two retries.
RetriesAreEarned ==
  \A s \in SubmissionIds :
    LET runs == RunsForSubmission(data, s)
        n == Cardinality(runs)
    IN  /\ n <= 1 + MAX_AUTOMATIC_RETRIES
        /\ \A r \in runs : /\ r.attempt \in 1..n
                            /\ r.attempt < n => IsInfrastructure(r.verdict)

\* store.rs:63-64, 81: the verdict of a submission is that of its last run,
\* though the two are written by separate calls with a crash in between.
VerdictIsOfLastRun ==
  \A s \in Submissions(data) : data.submissions[s].verdict # NULL =>
    \E r \in data.runs :
      /\ r.submission = s /\ r.verdict = data.submissions[s].verdict
      /\ \A q \in data.runs : q.submission = s => q.attempt <= r.attempt

\* model.rs:93-96, store.rs:75-76: every submission is judged in the end,
\* wherever the process died holding it.
AllJudged ==
  \A s \in SubmissionIds :
    SubmissionExists(data, s) ~> SubmissionExists(data, s) /\ data.submissions[s].verdict # NULL
=============================================================================
