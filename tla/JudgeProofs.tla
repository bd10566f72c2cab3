---------------------------- MODULE JudgeProofs ----------------------------
(***************************************************************************)
(* Theorems about Judge, for any number of learners, workers, submissions  *)
(* and faults: what the two stores hold between them fits together.        *)
(*                                                                         *)
(* The argument is ownership.  A submission waits in the queue once, or    *)
(* one task has it, or nobody does and the next recovery scan finds it; so *)
(* nobody else makes an attempt of it, and its runs are numbered 1, 2, ... *)
(***************************************************************************)
EXTENDS Judge, DatabaseTheorems

\* The steps of a job.
JobSteps == {"idle", "look", "claim", "start", "run", "record", "finish"}

\* Types, and a sound database.
JudgeTypes ==
  /\ data \in Databases /\ Sound(data, 0)
  /\ request \in [Tasks -> Optional(Calls)] /\ reply \in [Tasks -> Optional(Answers)]
  /\ logs \in [SubmissionIds \X Attempts -> Optional(Outcomes)]
  /\ queue \in Seq(SubmissionIds)
  /\ learner \in [Learners -> [at : {"idle", "create"}, hash : Optional(Hashes),
                               id : Optional(SubmissionIds)]]
  /\ job \in [Workers -> [at : JobSteps, id : Optional(SubmissionIds), attempt : Nat,
                          verdict : Optional(Outcomes)]]

\* The submission that t has, or NULL.
HeldBy(t) == IF t \in Learners THEN learner[t].id ELSE job[t].id

\* Nobody else has it, and it is in the queue once.
Exclusive ==
  /\ \A t, u \in Tasks : t # u /\ HeldBy(t) # NULL => HeldBy(t) # HeldBy(u)
  /\ \A i, j \in DOMAIN queue : i # j => queue[i] # queue[j]
  /\ \A i \in DOMAIN queue, t \in Tasks : queue[i] # HeldBy(t)

\* s is there and has no verdict yet.
Waits(s) == s \in Submissions(data) /\ data.submissions[s].verdict = NULL

\* The runs of s are numbered from 1 without a gap.
Numbered(s) ==
  LET runs == RunsForSubmission(data, s)
      n == Cardinality(runs)
  IN  /\ IsFiniteSet(runs) /\ n <= 1 + MAX_AUTOMATIC_RETRIES
      /\ \A r, q \in runs : r.attempt = q.attempt => r = q
      /\ \A r \in runs : r.attempt \in 1..n /\ r.verdict \in Outcomes
      /\ \A a \in 1..n : \E r \in runs : r.attempt = a
      /\ \A r \in runs : r.attempt < n => IsInfrastructure(r.verdict)

\* What a learner has asked for, and has.
LearnerOK(l) ==
  LET c == learner[l] IN
  /\ c.at # "idle" => c.hash \in Hashes
  /\ c.at # "create" => c.id = NULL
  /\ c.id # NULL => Waits(c.id)
  /\ reply[l] = "Ok" => c.id # NULL
  /\ request[l] # NULL =>
       /\ c.at = "create"
       /\ request[l] = [op |-> "create_submission",
                        new |-> [user |-> User, problem |-> Problem, hash |-> c.hash]]

\* One attempt more of s is due, the one after all there are.
Due(s, attempt) ==
  LET runs == RunsForSubmission(data, s)
  IN  /\ attempt = Cardinality(runs) + 1 /\ attempt <= 1 + MAX_AUTOMATIC_RETRIES
      /\ \A r \in runs : IsInfrastructure(r.verdict)

\* v is the verdict of the last run of s.
LastVerdict(s, v) ==
  LET runs == RunsForSubmission(data, s)
  IN  \E r \in runs : r.attempt = Cardinality(runs) /\ r.verdict = v

\* What a job knows of its submission.
JobOK(w) ==
  LET j == job[w] IN
  /\ j.id = NULL <=> j.at = "idle"
  /\ j.id # NULL => Waits(j.id) \/ (j.at = "finish" /\ reply[w] = "Ok")
  /\ j.at \in {"claim", "start", "run"} => Due(j.id, j.attempt)
  /\ j.at = "record" /\ reply[w] # "Ok" => Due(j.id, j.attempt)
  /\ j.at = "record" => /\ j.attempt \in Attempts /\ j.verdict \in Outcomes
                        /\ logs[LogKey(j.id, j.attempt)] = j.verdict
  /\ j.at = "finish" => j.verdict \in Outcomes /\ LastVerdict(j.id, j.verdict)
  /\ request[w] # NULL => /\ j.at \in {"claim", "start", "record", "finish"}
                          /\ request[w] = CallOf(j)
  /\ reply[w] # NULL => request[w] # NULL

\* What the stores hold.
StoresOK ==
  /\ \A s \in SubmissionIds : Numbered(s)
  /\ LogsOfRuns
  /\ \A s \in Submissions(data) : data.submissions[s].verdict # NULL =>
       LastVerdict(s, data.submissions[s].verdict)

\* A process that is down has nothing.
DownOK == ~up => queue = << >> /\ \A t \in Tasks : HeldBy(t) = NULL

\* The inductive invariant.
JudgeInv ==
  /\ JudgeTypes /\ Exclusive /\ StoresOK /\ DownOK
  /\ \A i \in DOMAIN queue : Waits(queue[i])
  /\ \A l \in Learners : LearnerOK(l)
  /\ \A w \in Workers : JobOK(w)

-----------------------------------------------------------------------------
(* What the parts depend on.                                               *)

\* NULL names nothing.
LEMMA NullIsNothing ==
  /\ NULL \notin SubmissionIds /\ NULL \notin Outcomes /\ NULL \notin Calls
  /\ NULL \notin Answers /\ NULL # "Ok"
BY TablesAssumption, CallsAssumption, JudgeAssumption DEF Answers

\* The record of a task, and what it holds.
LEMMA Holders ==
  ASSUME JudgeTypes
  PROVE  /\ \A l \in Learners : l \in Tasks /\ HeldBy(l) = learner[l].id
         /\ \A w \in Workers : w \in Tasks /\ w \notin Learners /\ HeldBy(w) = job[w].id
         /\ \A t \in Tasks : HeldBy(t) \in Optional(SubmissionIds)
BY JudgeAssumption DEF JudgeTypes, Tasks, HeldBy

\* Who goes on as it was, or lets go of what it has, takes nothing from others.
LEMMA LettingGo ==
  ASSUME Exclusive, JudgeTypes, queue' = queue,
         \A t \in Tasks : HeldBy(t)' = HeldBy(t) \/ HeldBy(t)' = NULL
  PROVE  Exclusive'
<1>1. \A i \in DOMAIN queue : queue[i] # NULL
  BY NullIsNothing DEF JudgeTypes
<1> QED
  BY <1>1 DEF Exclusive

\* A learner that goes on as it was.
LEMMA LearnerStays ==
  ASSUME NEW l \in Learners, LearnerOK(l),
         UNCHANGED <<learner[l], request[l], reply[l]>>,
         learner[l].id # NULL => Waits(learner[l].id)'
  PROVE  LearnerOK(l)'
BY DEF LearnerOK

\* A job that goes on as it was, when others leave its submission alone.
LEMMA JobStays ==
  ASSUME NEW w \in Workers, JobOK(w), UNCHANGED <<job[w], request[w], reply[w]>>,
         job[w].id # NULL =>
           /\ RunsForSubmission(data', job[w].id) = RunsForSubmission(data, job[w].id)
           /\ Waits(job[w].id) => Waits(job[w].id)'
           /\ job[w].at = "record" =>
                logs'[LogKey(job[w].id, job[w].attempt)] = logs[LogKey(job[w].id, job[w].attempt)]
  PROVE  JobOK(w)'
<1>1. CASE job[w].id = NULL
  BY <1>1 DEF JobOK
<1>2. CASE job[w].id # NULL
  <2> DEFINE s == job[w].id
  <2>1. \A a : Due(s, a) => Due(s, a)'
    BY <1>2 DEF Due
  <2>2. \A v : LastVerdict(s, v) => LastVerdict(s, v)'
    BY <1>2 DEF LastVerdict
  <2>3. LogKey(s, job[w].attempt)' = LogKey(s, job[w].attempt)
    BY DEF LogKey
  <2>4. CallOf(job[w])' = CallOf(job[w])
    BY DEF CallOf
  <2> QED
    BY <1>2, <2>1, <2>2, <2>3, <2>4 DEF JobOK
<1> QED
  BY <1>1, <1>2

\* A step that leaves the database and the logs alone keeps the invariant when
\* those it moves are as they should be.
LEMMA QuietStep ==
  ASSUME JudgeInv, UNCHANGED <<data, logs>>,
         JudgeTypes', Exclusive', DownOK', \A i \in DOMAIN queue' : Waits(queue'[i]),
         \A l \in Learners : UNCHANGED <<learner[l], request[l], reply[l]>> \/ LearnerOK(l)',
         \A w \in Workers : UNCHANGED <<job[w], request[w], reply[w]>> \/ JobOK(w)'
  PROVE  JudgeInv'
<1>1. \A s : Waits(s)' <=> Waits(s)
  BY DEF Waits, Submissions, SubmissionExists
<1>2. StoresOK'
  BY DEF JudgeInv, StoresOK, Numbered, LogsOfRuns, LastVerdict, LogKey,
     RunsForSubmission, Submissions, SubmissionExists
<1>3. \A l \in Learners : LearnerOK(l)'
  BY <1>1, LearnerStays DEF JudgeInv, LearnerOK
<1>4. \A w \in Workers : JobOK(w)'
  BY <1>1, JobStays DEF JudgeInv, RunsForSubmission
<1> QED
  BY <1>1, <1>2, <1>3, <1>4 DEF JudgeInv

-----------------------------------------------------------------------------
(* Steps that leave the database and the logs alone.                       *)

\* At first there is nothing.
LEMMA InitJudge == Init => JudgeInv
<1> SUFFICES ASSUME Init PROVE JudgeInv
  OBVIOUS
<1> USE DEF Init, Store!Init, Asleep, Free
<1>1. JudgeTypes
  BY JudgeAssumption DEF JudgeTypes, Optional, JobSteps
<1>2. data.runs = {}
  <2>1. \A r \in data.runs : r \in RunRow /\ SubmissionExists(data, r.submission)
    BY JudgeAssumption DEF Sound, NothingDangles, Databases
  <2>2. \A r \in data.runs : r.submission \in Submissions(data)
    BY <2>1 DEF RunRow, Submissions
  <2> QED
    BY <2>2, JudgeAssumption
<1>3. \A s \in SubmissionIds : RunsForSubmission(data, s) = {}
  BY <1>2 DEF RunsForSubmission
<1>4. StoresOK
  <2>1. IsFiniteSet({}) /\ Cardinality({}) = 0
    BY FS_EmptySet
  <2>2. \A s \in SubmissionIds : Numbered(s)
    <3>1. \A a \in 1..0 : FALSE
      OBVIOUS
    <3> QED
      BY ONLY <1>3, <2>1, <3>1 DEF Numbered, MAX_AUTOMATIC_RETRIES
  <2>3. Submissions(data) = {}
    BY JudgeAssumption
  <2> QED
    BY <1>2, <2>2, <2>3 DEF StoresOK, LogsOfRuns
<1>5. \A t \in Tasks : HeldBy(t) = NULL
  BY DEF HeldBy, Tasks
<1>6. Exclusive /\ DownOK
  BY <1>5 DEF Exclusive, DownOK
<1>7. \A l \in Learners : LearnerOK(l)
  BY NullIsNothing DEF LearnerOK, Tasks
<1>8. \A w \in Workers : JobOK(w)
  BY DEF JobOK, Tasks
<1> QED
  BY <1>1, <1>4, <1>6, <1>7, <1>8 DEF JudgeInv

\* A learner asks for a verdict, or makes its call.
LEMMA AskingInv ==
  ASSUME JudgeInv, NEW l \in Learners,
         Create(l) \/ \E h \in Hashes : Submit(l, h)
  PROVE  JudgeInv'
<1> USE DEF JudgeTypes
<1>0. JudgeTypes /\ Exclusive /\ DownOK /\ LearnerOK(l) /\ l \in Tasks
  BY DEF JudgeInv, Tasks
<1>1. /\ UNCHANGED <<data, logs, reply, up, queue, job>>
      /\ \A k \in Learners \ {l} : learner'[k] = learner[k] /\ request'[k] = request[k]
      /\ \A w \in Workers : request'[w] = request[w]
      /\ learner'[l].id = learner[l].id
      /\ \A k \in Learners : learner'[k].id = learner[k].id
  <2> \A w \in Workers : w # l
    BY JudgeAssumption
  <2>1. ASSUME NEW h \in Hashes, Submit(l, h) PROVE <1>1!:
    BY <1>0, <2>1 DEF Submit, LearnerOK
  <2>2. CASE Create(l)
    BY <1>0, <2>2 DEF Create, Call, memory
  <2> QED
    BY <2>1, <2>2
<1>2. JudgeTypes'
  <2>1. ASSUME NEW h \in Hashes, Submit(l, h) PROVE JudgeTypes'
    <3>1. /\ learner' = [learner EXCEPT ![l] = [at |-> "create", hash |-> h, id |-> NULL]]
          /\ UNCHANGED <<data, request, reply, logs, queue, job>>
      BY <2>1 DEF Submit
    <3> QED
      BY <1>0, <3>1 DEF Optional
  <2>2. CASE Create(l)
    <3> DEFINE c == [op |-> "create_submission",
                     new |-> [user |-> User, problem |-> Problem, hash |-> learner[l].hash]]
    <3>1. c \in Calls
      BY <1>0, <2>2, JudgeAssumption DEF Create, LearnerOK, JudgeCalls
    <3>2. request' = [request EXCEPT ![l] = c] /\ UNCHANGED <<data, reply, logs, queue, learner, job>>
      BY <2>2 DEF Create, Call, memory
    <3> HIDE DEF c
    <3> QED
      BY <1>0, <3>1, <3>2 DEF Optional
  <2> QED
    BY <2>1, <2>2
<1>3. LearnerOK(l)'
  <2>1. \A s : Waits(s)' <=> Waits(s)
    BY <1>1 DEF Waits, Submissions, SubmissionExists
  <2>2. ASSUME NEW h \in Hashes, Submit(l, h) PROVE LearnerOK(l)'
    BY <1>0, <2>1, <2>2 DEF Submit, LearnerOK
  <2>3. CASE Create(l)
    BY <1>0, <2>1, <2>3 DEF Create, Call, LearnerOK, memory
  <2> QED
    BY <2>2, <2>3
<1>4. \A t \in Tasks : HeldBy(t)' = HeldBy(t)
  BY <1>1 DEF HeldBy
<1>5. Exclusive' /\ DownOK'
  BY <1>0, <1>1, <1>4, LettingGo DEF DownOK
<1>6. \A i \in DOMAIN queue' : Waits(queue'[i])
  BY <1>1 DEF JudgeInv
<1>7. /\ \A k \in Learners : UNCHANGED <<learner[k], request[k], reply[k]>> \/ LearnerOK(k)'
      /\ \A w \in Workers : UNCHANGED <<job[w], request[w], reply[w]>>
  BY <1>1, <1>3
<1>8. UNCHANGED <<data, logs>>
  BY <1>1
<1> HIDE DEF JudgeTypes
<1> QED
  BY <1>2, <1>5, <1>6, <1>7, <1>8, QuietStep

\* The row a learner made is queued.
LEMMA CreatedInv ==
  ASSUME JudgeInv, NEW l \in Learners, Created(l)
  PROVE  JudgeInv'
<1> USE DEF JudgeTypes
<1> DEFINE s == learner[l].id
<1>0. JudgeTypes /\ Exclusive /\ DownOK /\ LearnerOK(l) /\ l \in Tasks
  BY DEF JudgeInv, Tasks
<1>1. /\ up /\ UNCHANGED <<data, logs, up, job>>
      /\ learner' = [learner EXCEPT ![l] = Asleep]
      /\ request' = [request EXCEPT ![l] = NULL] /\ reply' = [reply EXCEPT ![l] = NULL]
      /\ queue' = IF reply[l] = "Ok" THEN Append(queue, s) ELSE queue
  BY DEF Created, Taken
<1>2. reply[l] = "Ok" => s \in SubmissionIds /\ s # NULL /\ Waits(s)
  BY <1>0 DEF LearnerOK, Waits, Submissions
<1>3. JudgeTypes'
  BY <1>0, <1>1, <1>2 DEF Optional, Asleep
<1>4. /\ LearnerOK(l)'
      /\ \A k \in Learners \ {l} : UNCHANGED <<learner[k], request[k], reply[k]>>
      /\ \A w \in Workers : UNCHANGED <<job[w], request[w], reply[w]>>
  <2>1. LearnerOK(l)'
    BY <1>0, <1>1, NullIsNothing DEF LearnerOK, Asleep
  <2> QED
    BY <1>0, <1>1, <2>1, JudgeAssumption DEF Tasks
<1>5. HeldBy(l)' = NULL /\ HeldBy(l) = s /\ \A t \in Tasks \ {l} : HeldBy(t)' = HeldBy(t)
  BY <1>0, <1>1 DEF HeldBy, Asleep
<1>6. CASE reply[l] # "Ok"
  <2>1. Exclusive'
    BY <1>0, <1>1, <1>5, <1>6, LettingGo
  <2>2. \A i \in DOMAIN queue' : Waits(queue'[i])
    BY <1>1, <1>6 DEF JudgeInv
  <2> QED
    BY <1>1, <1>3, <1>4, <2>1, <2>2, QuietStep DEF DownOK
<1>7. CASE reply[l] = "Ok"
  <2>1. /\ DOMAIN queue' = DOMAIN queue \cup {Len(queue) + 1}
        /\ Len(queue) + 1 \notin DOMAIN queue
        /\ queue'[Len(queue) + 1] = s
        /\ \A i \in DOMAIN queue : queue'[i] = queue[i]
    BY <1>0, <1>1, <1>2, <1>7
  <2>2. Exclusive'
    <3>1. \A i \in DOMAIN queue : queue[i] # s /\ queue[i] # NULL
      BY <1>0, <1>5, NullIsNothing DEF Exclusive
    <3>2. \A t \in Tasks \ {l} : HeldBy(t) # s
      BY <1>0, <1>2, <1>5, <1>7 DEF Exclusive
    <3>3. ASSUME NEW t \in Tasks, NEW u \in Tasks, t # u, HeldBy(t)' # NULL
          PROVE  HeldBy(t)' # HeldBy(u)'
      BY <1>0, <1>5, <3>3 DEF Exclusive
    <3>4. \A i, j \in DOMAIN queue' : i # j => queue'[i] # queue'[j]
      BY <1>0, <2>1, <3>1 DEF Exclusive
    <3>5. \A i \in DOMAIN queue', t \in Tasks : queue'[i] # HeldBy(t)'
      BY <1>0, <1>2, <1>5, <1>7, <2>1, <3>1, <3>2 DEF Exclusive
    <3> QED
      BY <3>3, <3>4, <3>5 DEF Exclusive
  <2>3. \A i \in DOMAIN queue' : Waits(queue'[i])
    BY <1>2, <1>7, <2>1 DEF JudgeInv
  <2> QED
    BY <1>1, <1>3, <1>4, <2>2, <2>3, QuietStep DEF DownOK
<1> QED
  BY <1>6, <1>7

\* A worker takes what is first in the queue.
LEMMA TakeInv ==
  ASSUME JudgeInv, NEW w \in Workers, Take(w)
  PROVE  JudgeInv'
<1> PICK s : s = Head(queue)
  OBVIOUS
<1>0. JudgeTypes /\ Exclusive /\ JobOK(w) /\ w \in Tasks /\ w \notin Learners
  BY JudgeAssumption DEF JudgeInv, Tasks
<1>1. /\ up /\ job[w] = Free /\ queue # << >>
      /\ job' = [job EXCEPT ![w] = [at |-> "look", id |-> s, attempt |-> 0, verdict |-> NULL]]
      /\ queue' = Tail(queue)
      /\ UNCHANGED <<data, request, reply, logs, up, learner>>
  BY DEF Take
<1>2. /\ s \in SubmissionIds /\ s # NULL /\ 1 \in DOMAIN queue /\ s = queue[1]
      /\ DOMAIN queue' = 1..(Len(queue) - 1)
      /\ \A i \in DOMAIN queue' : i + 1 \in DOMAIN queue /\ queue'[i] = queue[i + 1]
      /\ queue' \in Seq(SubmissionIds)
  BY <1>0, <1>1, NullIsNothing DEF JudgeTypes
<1>3. /\ job'[w].at = "look" /\ job'[w].id = s
      /\ job'[w] \in [at : JobSteps, id : Optional(SubmissionIds), attempt : Nat,
                      verdict : Optional(Outcomes)]
      /\ \A x \in Workers \ {w} : job'[x] = job[x]
  BY <1>0, <1>1, <1>2 DEF JudgeTypes, JobSteps, Optional
<1>4. JudgeTypes'
  BY <1>0, <1>1, <1>2, <1>3 DEF JudgeTypes
<1>5. HeldBy(w)' = s /\ HeldBy(w) = NULL /\ \A t \in Tasks \ {w} : HeldBy(t)' = HeldBy(t)
  BY <1>0, <1>1, <1>3 DEF HeldBy, Free, Tasks
<1>6. Exclusive'
  <2>1. \A t \in Tasks : HeldBy(t) # s
    BY <1>0, <1>2 DEF Exclusive
  <2>2. \A i \in DOMAIN queue' : queue'[i] # s
    BY <1>0, <1>2 DEF Exclusive, JudgeTypes
  <2>3. ASSUME NEW t \in Tasks, NEW u \in Tasks, t # u, HeldBy(t)' # NULL
        PROVE  HeldBy(t)' # HeldBy(u)'
    BY <1>0, <1>2, <1>5, <2>1, <2>3 DEF Exclusive
  <2>4. \A i, j \in DOMAIN queue' : i # j => queue'[i] # queue'[j]
    BY <1>0, <1>2 DEF Exclusive, JudgeTypes
  <2>5. \A i \in DOMAIN queue', t \in Tasks : queue'[i] # HeldBy(t)'
    BY <1>0, <1>2, <1>5, <2>2 DEF Exclusive
  <2> QED
    BY <2>3, <2>4, <2>5 DEF Exclusive
<1>7. \A i \in DOMAIN queue' : Waits(queue'[i])
  BY <1>2 DEF JudgeInv
<1>8. JobOK(w)'
  <2>1. Waits(s)'
    BY <1>1, <1>2 DEF JudgeInv, Waits, Submissions, SubmissionExists
  <2>2. request[w] = NULL /\ reply[w] = NULL
    BY <1>0, <1>1 DEF JobOK, Free
  <2> QED
    BY <1>1, <1>2, <1>3, <2>1, <2>2 DEF JobOK
<1>9. /\ \A k \in Learners : UNCHANGED <<learner[k], request[k], reply[k]>>
      /\ \A x \in Workers : UNCHANGED <<job[x], request[x], reply[x]>> \/ JobOK(x)'
      /\ UNCHANGED <<data, logs>> /\ DownOK'
  BY <1>1, <1>3, <1>8 DEF DownOK
<1> QED
  BY <1>4, <1>6, <1>7, <1>9, QuietStep

\* A step in which a worker keeps its submission or lets it go, and that is
\* right for the worker, is right for all.
LEMMA JobStep ==
  ASSUME JudgeInv, NEW w \in Workers, UNCHANGED <<data, logs, up, queue, learner>>,
         \A t \in Tasks \ {w} : UNCHANGED <<request[t], reply[t]>>,
         \A x \in Workers \ {w} : job'[x] = job[x],
         JudgeTypes', job'[w].id \in {job[w].id, NULL}, JobOK(w)'
  PROVE  JudgeInv'
<1>1. \A t \in Tasks : HeldBy(t)' = HeldBy(t) \/ HeldBy(t)' = NULL
  BY DEF HeldBy, Tasks
<1>2. Exclusive' /\ DownOK'
  BY <1>1, LettingGo DEF JudgeInv, DownOK
<1>3. \A i \in DOMAIN queue' : Waits(queue'[i])
  BY DEF JudgeInv
<1>4. /\ \A k \in Learners : UNCHANGED <<learner[k], request[k], reply[k]>>
      /\ \A x \in Workers : UNCHANGED <<job[x], request[x], reply[x]>> \/ JobOK(x)'
      /\ UNCHANGED <<data, logs>>
  BY JudgeAssumption DEF Tasks
<1> QED
  BY <1>2, <1>3, <1>4, QuietStep

\* The run with the highest attempt is there and is the last of a numbering.
LEMMA LastRun ==
  ASSUME NEW s \in SubmissionIds, Numbered(s), RunsForSubmission(data, s) # {}
  PROVE  LET runs == RunsForSubmission(data, s)
         IN  /\ Cardinality(runs) \in Nat \ {0}
             /\ LastOf(runs) \in runs /\ LastOf(runs).attempt = Cardinality(runs)
<1> DEFINE runs == RunsForSubmission(data, s)
           n == Cardinality(runs)
<1>1. /\ IsFiniteSet(runs) /\ n \in Nat /\ n # 0
  BY FS_CardinalityType, FS_EmptySet DEF Numbered
<1>2. /\ \A r \in runs : r.attempt \in 1..n
      /\ \E r \in runs : r.attempt = n
  BY <1>1 DEF Numbered
<1>3. \E r \in runs : \A q \in runs : q.attempt <= r.attempt
  BY <1>1, <1>2
<1>4. LastOf(runs) \in runs /\ \A q \in runs : q.attempt <= LastOf(runs).attempt
  BY <1>3 DEF LastOf
<1>5. LastOf(runs).attempt = n
  BY <1>1, <1>2, <1>4
<1> QED
  BY <1>1, <1>4, <1>5

\* The worker reads the runs: it has a verdict, or one attempt more to make.
LEMMA LookInv ==
  ASSUME JudgeInv, NEW w \in Workers, Look(w)
  PROVE  JudgeInv'
<1> PICK s, runs, n, last :
      /\ s = job[w].id /\ runs = RunsForSubmission(data, s)
      /\ n = Cardinality(runs) /\ last = LastOf(runs)
  OBVIOUS
<1>0. JudgeTypes /\ JobOK(w)
  BY DEF JudgeInv
<1>1. /\ job[w].at = "look"
      /\ UNCHANGED <<data, request, reply, logs, up, queue, learner>>
      /\ job' = [job EXCEPT ![w] =
           IF runs # {} /\ ~Retries(last)
             THEN [@ EXCEPT !.at = "finish", !.verdict = last.verdict]
             ELSE [at |-> "claim", id |-> s, attempt |-> n + 1, verdict |-> NULL]]
  BY DEF Look
<1>2. s \in SubmissionIds /\ s # NULL /\ Waits(s) /\ request[w] = NULL /\ reply[w] = NULL
  BY <1>0, <1>1 DEF JobOK, JudgeTypes, Optional
<1>3. Numbered(s) /\ IsFiniteSet(runs) /\ n \in Nat
  BY <1>2, FS_CardinalityType DEF JudgeInv, StoresOK, Numbered
<1>4. Waits(s)' /\ RunsForSubmission(data', s) = runs
  BY <1>1, <1>2 DEF Waits, Submissions, SubmissionExists, RunsForSubmission
<1>5. CASE runs # {} /\ ~Retries(last)
  <2>1. last \in runs /\ last.attempt = n /\ last.verdict \in Outcomes
    BY <1>2, <1>3, <1>5, LastRun DEF Numbered
  <2>2. job'[w] = [job[w] EXCEPT !.at = "finish", !.verdict = last.verdict]
    BY <1>0, <1>1, <1>5 DEF JudgeTypes
  <2>3. /\ job'[w].at = "finish" /\ job'[w].id = s /\ job'[w].verdict = last.verdict
        /\ job'[w] \in [at : JobSteps, id : Optional(SubmissionIds), attempt : Nat,
                        verdict : Optional(Outcomes)]
    BY <1>0, <2>1, <2>2 DEF JudgeTypes, JobSteps, Optional
  <2>4. \A x \in Workers \ {w} : job'[x] = job[x]
    BY <1>0, <1>1 DEF JudgeTypes
  <2>5. JudgeTypes'
    BY <1>0, <1>1, <2>3, <2>4 DEF JudgeTypes
  <2>6. LastVerdict(s, last.verdict)'
    BY <1>4, <2>1 DEF LastVerdict
  <2>7. JobOK(w)'
    BY <1>1, <1>2, <1>4, <2>1, <2>3, <2>6 DEF JobOK
  <2> QED
    BY <1>1, <2>3, <2>4, <2>5, <2>7, JobStep
<1>6. CASE ~(runs # {} /\ ~Retries(last))
  <2>1. n + 1 <= 1 + MAX_AUTOMATIC_RETRIES /\ \A r \in runs : IsInfrastructure(r.verdict)
    <3>1. CASE runs = {}
      BY <3>1, FS_EmptySet DEF MAX_AUTOMATIC_RETRIES
    <3>2. CASE runs # {}
      <4>1. last \in runs /\ last.attempt = n /\ Retries(last)
        BY <1>2, <1>3, <1>6, <3>2, LastRun
      <4>2. \A r \in runs : r = last \/ r.attempt < n
        BY <1>3, <4>1 DEF Numbered
      <4> QED
        BY <1>3, <4>1, <4>2 DEF Numbered, Retries, MAX_AUTOMATIC_RETRIES
    <3> QED
      BY <3>1, <3>2
  <2>2. job'[w] = [at |-> "claim", id |-> s, attempt |-> n + 1, verdict |-> NULL]
    BY <1>0, <1>1, <1>6 DEF JudgeTypes
  <2>3. /\ job'[w].at = "claim" /\ job'[w].id = s /\ job'[w].attempt = n + 1
        /\ job'[w] \in [at : JobSteps, id : Optional(SubmissionIds), attempt : Nat,
                        verdict : Optional(Outcomes)]
    BY <1>2, <1>3, <2>2 DEF JobSteps, Optional
  <2>4. \A x \in Workers \ {w} : job'[x] = job[x]
    BY <1>0, <1>1 DEF JudgeTypes
  <2>5. JudgeTypes'
    BY <1>0, <1>1, <2>3, <2>4 DEF JudgeTypes
  <2>6. Due(s, n + 1)'
    BY <1>4, <2>1 DEF Due
  <2>7. JobOK(w)'
    BY <1>1, <1>2, <1>4, <2>3, <2>6 DEF JobOK
  <2> QED
    BY <1>1, <2>3, <2>4, <2>5, <2>7, JobStep
<1> QED
  BY <1>5, <1>6

\* What a worker asks for is a call it may make.
LEMMA CallsOfJobs ==
  ASSUME JudgeTypes, NEW w \in Workers, JobOK(w),
         job[w].at \in {"claim", "start", "record", "finish"}
  PROVE  CallOf(job[w]) \in Calls
<1> PICK j : j = job[w]
  OBVIOUS
<1>1. /\ j.id \in SubmissionIds
      /\ j.at = "record" => j.attempt \in Attempts /\ j.verdict \in Outcomes
      /\ j.at = "finish" => j.verdict \in Outcomes
  BY DEF JobOK, JudgeTypes, Optional
<1>2. CASE j.at = "claim" \/ j.at = "start"
  <2>1. \/ CallOf(j) = [op |-> "set_submission_status", id |-> j.id, status |-> "PREPARING"]
        \/ CallOf(j) = [op |-> "set_submission_status", id |-> j.id, status |-> "RUNNING"]
    BY <1>2 DEF CallOf
  <2> QED
    BY <1>1, <2>1, JudgeAssumption DEF JudgeCalls
<1>3. CASE j.at = "record"
  <2>1. CallOf(j) = [op |-> "record_run", run |-> [submission |-> j.id,
                       attempt |-> j.attempt, verdict |-> j.verdict]]
    BY <1>3 DEF CallOf
  <2> QED
    BY <1>1, <1>3, <2>1, JudgeAssumption DEF JudgeCalls
<1>4. CASE j.at = "finish"
  <2>1. CallOf(j) = [op |-> "finish_submission", id |-> j.id, verdict |-> j.verdict]
    BY <1>4 DEF CallOf
  <2> QED
    BY <1>1, <1>4, <2>1, JudgeAssumption DEF JudgeCalls
<1> QED
  BY <1>2, <1>3, <1>4

\* A worker makes its call.
LEMMA AskInv ==
  ASSUME JudgeInv, NEW w \in Workers, Ask(w)
  PROVE  JudgeInv'
<1>0. JudgeTypes /\ JobOK(w) /\ w \in Tasks
  BY DEF JudgeInv, Tasks
<1>1. /\ job[w].at \in {"claim", "start", "record", "finish"}
      /\ request' = [request EXCEPT ![w] = CallOf(job[w])]
      /\ UNCHANGED <<data, reply, logs, up, queue, learner, job>>
  BY DEF Ask, Call, memory
<1>2. CallOf(job[w]) \in Calls
  BY <1>0, <1>1, CallsOfJobs
<1>3. JudgeTypes'
  BY <1>0, <1>1, <1>2 DEF JudgeTypes, Optional
<1>4. \A t \in Tasks \ {w} : UNCHANGED <<request[t], reply[t]>>
  BY <1>0, <1>1 DEF JudgeTypes
<1>5. JobOK(w)'
  <2>1. request'[w] = CallOf(job[w]) /\ CallOf(job[w])' = CallOf(job[w])
    BY <1>0, <1>1 DEF JudgeTypes, CallOf
  <2> QED
    BY <1>0, <1>1, <2>1 DEF JobOK, Waits, Submissions, SubmissionExists, Due, LastVerdict,
       RunsForSubmission, LogKey
<1> QED
  BY <1>1, <1>3, <1>4, <1>5, JobStep

\* A worker takes the answer: it goes on, asks again, or gives up.
LEMMA AnsweredInv ==
  ASSUME JudgeInv, NEW w \in Workers, Answered(w)
  PROVE  JudgeInv'
<1> PICK j : j = job[w]
  OBVIOUS
<1>0. JudgeTypes /\ JobOK(w) /\ w \in Tasks
  BY DEF JudgeInv, Tasks
<1>1. /\ request' = [request EXCEPT ![w] = NULL] /\ reply' = [reply EXCEPT ![w] = NULL]
      /\ UNCHANGED <<data, logs, up, queue, learner>>
      /\ job' = [job EXCEPT ![w] =
           IF reply[w] = "Database" THEN j
           ELSE IF reply[w] = "Ok" /\ j.at # "finish" THEN [j EXCEPT !.at = NextStep(j.at)]
           ELSE Free]
  BY DEF Answered, Taken
<1>2. /\ request'[w] = NULL /\ reply'[w] = NULL
      /\ \A t \in Tasks \ {w} : UNCHANGED <<request[t], reply[t]>>
      /\ \A x \in Workers \ {w} : job'[x] = job[x]
  BY <1>0, <1>1 DEF JudgeTypes
<1>3. \A s : /\ Waits(s) => Waits(s)'
             /\ RunsForSubmission(data', s) = RunsForSubmission(data, s)
             /\ \A a : Due(s, a) => Due(s, a)'
             /\ \A v : LastVerdict(s, v) => LastVerdict(s, v)'
  BY <1>1 DEF Waits, Submissions, SubmissionExists, RunsForSubmission, Due, LastVerdict
<1>4. CASE reply[w] = "Database"
  <2>1. job'[w] = job[w]
    BY <1>0, <1>1, <1>4 DEF JudgeTypes
  <2>2. JudgeTypes'
    BY <1>0, <1>1, <1>2, <2>1 DEF JudgeTypes, Optional
  <2>3. JobOK(w)'
    BY <1>0, <1>1, <1>2, <1>3, <1>4, <2>1 DEF JobOK, LogKey
  <2> QED
    BY <1>1, <1>2, <2>1, <2>2, <2>3, JobStep
<1>5. CASE reply[w] = "Ok" /\ j.at # "finish"
  <2>1. j.at \in {"claim", "start", "record"}
    BY <1>0, <1>5, NullIsNothing DEF JobOK
  <2>2. NextStep(j.at) = IF j.at = "claim" THEN "start"
                         ELSE IF j.at = "start" THEN "run" ELSE "look"
    BY <2>1 DEF NextStep
  <2>3. job'[w] = [j EXCEPT !.at = NextStep(j.at)]
    BY <1>0, <1>1, <1>5 DEF JudgeTypes
  <2>4. /\ job'[w].at = NextStep(j.at) /\ job'[w].id = j.id /\ job'[w].attempt = j.attempt
        /\ job'[w] \in [at : JobSteps, id : Optional(SubmissionIds), attempt : Nat,
                        verdict : Optional(Outcomes)]
    BY <1>0, <2>2, <2>3 DEF JudgeTypes, JobSteps
  <2>5. JudgeTypes'
    BY <1>0, <1>1, <1>2, <2>4 DEF JudgeTypes, Optional
  <2>6. JobOK(w)'
    BY <1>0, <1>2, <1>3, <2>1, <2>2, <2>4 DEF JobOK
  <2> QED
    BY <1>1, <1>2, <2>4, <2>5, <2>6, JobStep
<1>6. CASE reply[w] # "Database" /\ ~(reply[w] = "Ok" /\ j.at # "finish")
  <2>1. job'[w] = Free
    BY <1>0, <1>1, <1>6 DEF JudgeTypes
  <2>2. JudgeTypes'
    BY <1>0, <1>1, <1>2, <2>1 DEF JudgeTypes, Optional, Free, JobSteps
  <2>3. JobOK(w)'
    BY <1>2, <2>1 DEF JobOK, Free
  <2> QED
    BY <1>1, <1>2, <2>1, <2>2, <2>3, JobStep DEF Free
<1> QED
  BY <1>4, <1>5, <1>6

\* A call is refused, or fails: the task still has what it had.
LEMMA RefusedInv ==
  ASSUME JudgeInv, NEW t \in Tasks, request[t] # NULL, reply[t] = NULL,
         NEW a \in Answers \ {"Ok"}, reply' = [reply EXCEPT ![t] = a],
         UNCHANGED <<data, request, logs, up, queue, learner, job>>
  PROVE  JudgeInv'
<1>0. /\ JudgeTypes /\ Exclusive /\ DownOK
      /\ \A l \in Learners : LearnerOK(l)
      /\ \A w \in Workers : JobOK(w)
  BY DEF JudgeInv
<1>1. /\ request[t] # NULL /\ reply[t] = NULL
      /\ reply' = [reply EXCEPT ![t] = a]
      /\ UNCHANGED <<data, request, logs, up, queue, learner, job>>
  OBVIOUS
<1>2. reply'[t] = a /\ \A u \in Tasks \ {t} : reply'[u] = reply[u]
  BY <1>0, <1>1 DEF JudgeTypes
<1>3. JudgeTypes'
  BY <1>0, <1>1 DEF JudgeTypes, Optional
<1>4. Exclusive' /\ DownOK'
  <2>1. \A u \in Tasks : HeldBy(u)' = HeldBy(u)
    BY <1>1 DEF HeldBy
  <2> QED
    BY <1>0, <1>1, <2>1, LettingGo DEF DownOK
<1>5. \A i \in DOMAIN queue' : Waits(queue'[i])
  BY <1>1 DEF JudgeInv
<1>6. \A s : /\ Waits(s)' <=> Waits(s)
             /\ \A n : Due(s, n)' <=> Due(s, n)
             /\ \A v : LastVerdict(s, v)' <=> LastVerdict(s, v)
  BY <1>1 DEF Waits, Submissions, SubmissionExists, RunsForSubmission, Due, LastVerdict
<1>7. ASSUME NEW l \in Learners, l = t PROVE LearnerOK(l)'
  BY <1>0, <1>1, <1>2, <1>6, <1>7 DEF LearnerOK
<1>8. ASSUME NEW w \in Workers, w = t PROVE JobOK(w)'
  <2>1. CallOf(job[w])' = CallOf(job[w]) /\ reply[w] # "Ok" /\ reply'[w] # "Ok"
    BY <1>1, <1>2, <1>8, NullIsNothing DEF CallOf
  <2>2. LogKey(job[w].id, job[w].attempt)' = LogKey(job[w].id, job[w].attempt)
    BY <1>1 DEF LogKey
  <2> QED
    BY <1>0, <1>1, <1>6, <1>8, <2>1, <2>2 DEF JobOK
<1>9. /\ \A l \in Learners : UNCHANGED <<learner[l], request[l], reply[l]>> \/ LearnerOK(l)'
      /\ \A w \in Workers : UNCHANGED <<job[w], request[w], reply[w]>> \/ JobOK(w)'
      /\ UNCHANGED <<data, logs>>
  BY <1>1, <1>2, <1>7, <1>8 DEF Tasks
<1> QED
  BY <1>3, <1>4, <1>5, <1>9, QuietStep

\* A call that fails.
LEMMA FailInv ==
  ASSUME JudgeInv, NEW t \in Tasks, Fail(t)
  PROVE  JudgeInv'
<1>1. "Database" \in Answers \ {"Ok"}
  BY DEF Answers, Broken
<1> QED
  BY <1>1, RefusedInv DEF Fail, memory

\* The process dies: everybody lets go of everything.
LEMMA CrashInv ==
  ASSUME JudgeInv, Crash
  PROVE  JudgeInv'
<1>1. /\ request' = [t \in Tasks |-> NULL] /\ reply' = [t \in Tasks |-> NULL]
      /\ queue' = << >>
      /\ learner' = [l \in Learners |-> Asleep] /\ job' = [w \in Workers |-> Free]
      /\ UNCHANGED <<data, logs>>
  BY DEF Crash
<1>2. JudgeTypes'
  BY <1>1 DEF JudgeInv, JudgeTypes, Optional, Asleep, Free, JobSteps
<1>3. \A t \in Tasks : HeldBy(t)' = NULL
  BY <1>1 DEF HeldBy, Tasks, Asleep, Free
<1>4. Exclusive' /\ DownOK' /\ DOMAIN queue' = {}
  BY <1>1, <1>3 DEF Exclusive, DownOK
<1>5. \A l \in Learners : LearnerOK(l)'
  BY <1>1, NullIsNothing DEF LearnerOK, Asleep, Tasks
<1>6. \A w \in Workers : JobOK(w)'
  BY <1>1 DEF JobOK, Free, Tasks
<1>7. \A i \in DOMAIN queue' : Waits(queue'[i])
  BY <1>4
<1>8. UNCHANGED <<data, logs>>
  BY <1>1
<1> QED
  BY <1>2, <1>4, <1>5, <1>6, <1>7, <1>8, QuietStep

\* A submission that is in flight has no verdict yet.
LEMMA InFlightWaits ==
  ASSUME JudgeTypes
  PROVE  /\ \A s \in InFlight(data) : s \in SubmissionIds /\ Waits(s)
         /\ Cardinality(InFlight(data)) \in Nat
<1>1. ASSUME NEW s \in InFlight(data) PROVE s \in SubmissionIds /\ Waits(s)
  <2>1. s \in Submissions(data) /\ s \in SubmissionIds /\ data.submissions[s].status # "DONE"
    BY DEF InFlight, Submissions
  <2>2. InOrder(data.submissions[s], 0)
    BY <2>1 DEF JudgeTypes, Sound, TimesInOrder
  <2> QED
    BY <2>1, <2>2 DEF InOrder, Waits
<1>2. InFlight(data) \subseteq SubmissionIds
  BY <1>1
<1> QED
  BY <1>1, <1>2, FS_Subset, FS_CardinalityType, TablesAssumption

\* The recovery scan: what nobody has, once each.
LEMMA BootInv ==
  ASSUME JudgeInv, Boot
  PROVE  JudgeInv'
<1>0. JudgeTypes /\ DownOK /\ ~up
  BY DEF JudgeInv, Boot
<1> PICK found, n : found = InFlight(data) /\ n = Cardinality(found)
  OBVIOUS
<1>1. n \in Nat /\ found \subseteq SubmissionIds /\ \A s \in found : Waits(s)
  BY <1>0, InFlightWaits
<1>2. /\ up' = TRUE
      /\ UNCHANGED <<data, request, reply, logs, learner, job>>
      /\ queue' \in [1..n -> found]
      /\ \A i, j \in DOMAIN queue' : i < j => queue'[i] < queue'[j]
  BY DEF Boot
<1>3. queue' \in Seq(SubmissionIds)
  BY <1>1, <1>2
<1>4. JudgeTypes'
  BY <1>0, <1>2, <1>3 DEF JudgeTypes
<1>5. \A t \in Tasks : HeldBy(t)' = NULL
  BY <1>0, <1>2 DEF DownOK, HeldBy
<1>6. \A i \in DOMAIN queue' : i \in Nat /\ queue'[i] \in SubmissionIds /\ Waits(queue'[i])
  BY <1>1, <1>2
<1>7. Exclusive'
  <2>1. ASSUME NEW i \in DOMAIN queue', NEW j \in DOMAIN queue', i # j
        PROVE  queue'[i] # queue'[j]
    <3>1. queue'[i] \in Nat /\ queue'[j] \in Nat /\ i \in Nat /\ j \in Nat
      BY <1>6, TablesAssumption
    <3>2. i < j \/ j < i
      BY <2>1, <3>1
    <3> QED
      BY <1>2, <3>1, <3>2
  <2> QED
    BY <1>5, <1>6, <2>1, NullIsNothing DEF Exclusive
<1>8. /\ \A l \in Learners : UNCHANGED <<learner[l], request[l], reply[l]>>
      /\ \A w \in Workers : UNCHANGED <<job[w], request[w], reply[w]>>
      /\ UNCHANGED <<data, logs>> /\ DownOK'
  BY <1>2 DEF DownOK
<1> QED
  BY <1>4, <1>6, <1>7, <1>8, QuietStep

\* An attempt comes to an end: its log is put where no recorded run has its own.
LEMMA RunInv ==
  ASSUME JudgeInv, NEW w \in Workers, Run(w)
  PROVE  JudgeInv'
<1> PICK s, a : s = job[w].id /\ a = job[w].attempt
  OBVIOUS
<1>0. /\ JudgeTypes /\ Exclusive /\ DownOK /\ StoresOK /\ JobOK(w) /\ w \in Tasks
      /\ \A x \in Workers : JobOK(x)
  BY DEF JudgeInv, Tasks
<1>1. PICK v \in Outcomes :
        /\ logs' = [logs EXCEPT ![LogKey(s, a)] = v]
        /\ job' = [job EXCEPT ![w].at = "record", ![w].verdict = v]
  BY DEF Run
<1>2. job[w].at = "run" /\ UNCHANGED <<data, request, reply, up, queue, learner>>
  BY DEF Run
<1>3. /\ s \in SubmissionIds /\ s # NULL /\ Waits(s) /\ Due(s, a)
      /\ request[w] = NULL /\ reply[w] = NULL
  BY <1>0, <1>2 DEF JobOK, JudgeTypes, Optional
<1>4. /\ Cardinality(RunsForSubmission(data, s)) \in Nat
      /\ a = Cardinality(RunsForSubmission(data, s)) + 1 /\ a \in 1..(1 + MAX_AUTOMATIC_RETRIES)
  BY <1>0, <1>3, FS_CardinalityType DEF Due, StoresOK, Numbered, MAX_AUTOMATIC_RETRIES
<1>5. a \in Attempts /\ LogKey(s, a) \in SubmissionIds \X Attempts
  BY <1>3, <1>4, JudgeAssumption DEF LogKey
<1>6. /\ logs'[LogKey(s, a)] = v
      /\ \A k \in SubmissionIds \X Attempts : k # LogKey(s, a) => logs'[k] = logs[k]
      /\ logs' \in [SubmissionIds \X Attempts -> Optional(Outcomes)]
  BY <1>0, <1>1, <1>5 DEF JudgeTypes, Optional
<1>7. /\ job'[w].at = "record" /\ job'[w].id = s /\ job'[w].attempt = a /\ job'[w].verdict = v
      /\ \A x \in Workers \ {w} : job'[x] = job[x]
      /\ job' \in [Workers -> [at : JobSteps, id : Optional(SubmissionIds), attempt : Nat,
                               verdict : Optional(Outcomes)]]
  <2> DEFINE j == [job[w] EXCEPT !.at = "record", !.verdict = v]
  <2>1. job' = [job EXCEPT ![w] = j]
    BY <1>0, <1>1 DEF JudgeTypes
  <2>2. /\ j.at = "record" /\ j.id = s /\ j.attempt = a /\ j.verdict = v
        /\ j \in [at : JobSteps, id : Optional(SubmissionIds), attempt : Nat,
                  verdict : Optional(Outcomes)]
    BY <1>0 DEF JudgeTypes, JobSteps, Optional
  <2> HIDE DEF j
  <2> QED
    BY <1>0, <2>1, <2>2 DEF JudgeTypes
<1>8. JudgeTypes'
  BY <1>0, <1>2, <1>6, <1>7 DEF JudgeTypes
<1>9. \A t \in Tasks : HeldBy(t)' = HeldBy(t)
  BY <1>2, <1>7 DEF HeldBy, Tasks
<1>10. Exclusive' /\ DownOK'
  BY <1>0, <1>2, <1>9, LettingGo DEF DownOK
<1>11. LogsOfRuns'
  <2> SUFFICES ASSUME NEW r \in data.runs
               PROVE  logs'[LogKey(r.submission, r.attempt)] = r.verdict
    BY <1>2 DEF LogsOfRuns, LogKey
  <2>1. r \in RunRow /\ logs[LogKey(r.submission, r.attempt)] = r.verdict
    BY <1>0 DEF StoresOK, LogsOfRuns, JudgeTypes, Databases
  <2>2. r.submission # s \/ r.attempt # a
    <3>1. CASE r.submission = s
      <4>1. r \in RunsForSubmission(data, s)
        BY <3>1 DEF RunsForSubmission
      <4>2. r.attempt \in 1..Cardinality(RunsForSubmission(data, s))
        BY <1>0, <1>3, <4>1 DEF StoresOK, Numbered
      <4> QED
        BY <1>4, <4>2
    <3> QED
      BY <3>1
  <2> QED
    BY <1>6, <2>1, <2>2 DEF LogKey, RunRow
<1>12. StoresOK'
  BY <1>0, <1>2, <1>11 DEF StoresOK, Numbered, LastVerdict, RunsForSubmission,
     Submissions, SubmissionExists
<1>13. \A q : Waits(q)' <=> Waits(q)
  BY <1>2 DEF Waits, Submissions, SubmissionExists
<1>14. JobOK(w)'
  <2>1. Due(s, a)'
    BY <1>2, <1>3 DEF Due, RunsForSubmission
  <2>2. LogKey(s, a)' = LogKey(s, a)
    BY DEF LogKey
  <2> QED
    BY <1>2, <1>3, <1>5, <1>6, <1>7, <1>13, <2>1, <2>2 DEF JobOK
<1>15. ASSUME NEW x \in Workers, x # w PROVE JobOK(x)'
  <2>1. job[x].id # NULL => job[x].id # s
    BY <1>0, <1>3, <1>15, Holders DEF Exclusive
  <2>2. job[x].at = "record" => logs'[LogKey(job[x].id, job[x].attempt)]
                                  = logs[LogKey(job[x].id, job[x].attempt)]
    BY <1>0, <1>6, <2>1 DEF JobOK, LogKey, JudgeTypes, Optional
  <2> QED
    BY <1>0, <1>2, <1>7, <1>13, <1>15, <2>2, JobStays DEF RunsForSubmission
<1>16. \A l \in Learners : LearnerOK(l)'
  BY <1>2, <1>13, LearnerStays DEF JudgeInv, LearnerOK
<1>17. (\A i \in DOMAIN queue : Waits(queue[i]))'
  BY <1>2, <1>13 DEF JudgeInv
<1> QED
  BY <1>8, <1>10, <1>12, <1>14, <1>15, <1>16, <1>17 DEF JudgeInv

-----------------------------------------------------------------------------
(* Calls that take effect.                                                 *)

\* What the store answers, call by call.
LEMMA AnswersOfTheStore ==
  ASSUME NEW d, NEW c
  PROVE  /\ c.op = "create_submission" =>
              Store!AnswerTo(d, c) = IF CanInsertSubmission(d, c.new) THEN "Ok" ELSE "Database"
         /\ c.op = "record_run" =>
              Store!AnswerTo(d, c) = IF AttemptTaken(d, c.run) THEN "Conflict"
                                     ELSE IF CanReferToSubmission(d, c.run) THEN "Ok"
                                     ELSE "Database"
         /\ c.op = "set_submission_status" =>
              Store!AnswerTo(d, c) =
                IF ~SubmissionExists(d, c.id) THEN "NotFound"
                ELSE IF ~CanTransitionTo(d.submissions[c.id].status, c.status)
                  THEN "IllegalTransition" ELSE "Ok"
         /\ c.op = "finish_submission" =>
              Store!AnswerTo(d, c) =
                IF ~SubmissionExists(d, c.id) THEN "NotFound"
                ELSE IF ~CanTransitionTo(d.submissions[c.id].status, "DONE")
                  THEN "IllegalTransition" ELSE "Ok"
<1>1. c.op = "create_submission" =>
        Store!AnswerTo(d, c) = IF CanInsertSubmission(d, c.new) THEN "Ok" ELSE "Database"
  BY DEF Store!AnswerTo, Store!Accepts, Store!CanInsertSubmission, CanInsertSubmission,
     Store!UserExists, UserExists, Store!ProblemExists, ProblemExists
<1>2. c.op = "record_run" =>
        Store!AnswerTo(d, c) = IF AttemptTaken(d, c.run) THEN "Conflict"
                               ELSE IF CanReferToSubmission(d, c.run) THEN "Ok"
                               ELSE "Database"
  <2>1. /\ Store!AttemptTaken(d, c.run) <=> AttemptTaken(d, c.run)
        /\ Store!CanReferToSubmission(d, c.run) <=> CanReferToSubmission(d, c.run)
    BY DEF Store!AttemptTaken, AttemptTaken, Store!CanReferToSubmission, CanReferToSubmission,
       Store!SubmissionExists, SubmissionExists
  <2> QED
    BY <2>1 DEF Store!AnswerTo, Store!Accepts
<1>3. /\ c.op = "set_submission_status" => Store!AnswerTo(d, c) = Store!MoveAnswer(d, c, c.status)
      /\ c.op = "finish_submission" => Store!AnswerTo(d, c) = Store!MoveAnswer(d, c, "DONE")
  BY DEF Store!AnswerTo
<1>4. ASSUME NEW to
      PROVE  Store!MoveAnswer(d, c, to) =
               IF ~SubmissionExists(d, c.id) THEN "NotFound"
               ELSE IF ~CanTransitionTo(d.submissions[c.id].status, to)
                 THEN "IllegalTransition" ELSE "Ok"
  BY DEF Store!MoveAnswer, Store!SubmissionExists, SubmissionExists, Store!CanTransitionTo,
     CanTransitionTo, Store!Underway, Underway
<1> QED
  BY <1>1, <1>2, <1>3, <1>4

\* A call of a worker that takes effect touches its submission alone.
LEMMA EffectInv ==
  ASSUME JudgeInv, NEW w \in Workers, NEW s \in SubmissionIds, s = job[w].id,
         UNCHANGED <<request, logs, up, queue, learner, job>>,
         request[w] # NULL, reply' = [reply EXCEPT ![w] = "Ok"],
         data' \in Databases, Sound(data', 0), Submissions(data') = Submissions(data),
         \A q \in SubmissionIds \ {s} :
           /\ data'.submissions[q] = data.submissions[q]
           /\ RunsForSubmission(data', q) = RunsForSubmission(data, q),
         data'.submissions[s].hash = data.submissions[s].hash,
         Numbered(s)', LogsOfRuns', JobOK(w)',
         (data.submissions[s].verdict # NULL => LastVerdict(s, data.submissions[s].verdict))'
  PROVE  JudgeInv'
<1>0. /\ JudgeTypes /\ Exclusive /\ DownOK /\ StoresOK /\ w \in Tasks /\ s # NULL
      /\ \A x \in Workers : JobOK(x) /\ x \in Tasks
  BY NullIsNothing DEF JudgeInv, Tasks
<1>1. reply'[w] = "Ok" /\ \A u \in Tasks \ {w} : reply'[u] = reply[u]
  BY <1>0 DEF JudgeTypes
<1>2. JudgeTypes'
  BY <1>0 DEF JudgeTypes, Optional, Answers
<1>3. \A t \in Tasks : HeldBy(t)' = HeldBy(t)
  BY DEF HeldBy
<1>4. Exclusive' /\ DownOK'
  BY <1>0, <1>3, LettingGo DEF DownOK
<1>5. \A q \in SubmissionIds \ {s} :
        /\ Waits(q)' <=> Waits(q)
        /\ Numbered(q)' <=> Numbered(q)
        /\ \A v : LastVerdict(q, v)' <=> LastVerdict(q, v)
  BY DEF Waits, Numbered, LastVerdict
<1>6. StoresOK'
  <2>1. \A q \in SubmissionIds : Numbered(q)'
    BY <1>0, <1>5 DEF StoresOK
  <2>2. (\A q \in Submissions(data) : data.submissions[q].verdict # NULL =>
           LastVerdict(q, data.submissions[q].verdict))'
    <3> SUFFICES ASSUME NEW q \in Submissions(data)', q # s
                 PROVE  (data.submissions[q].verdict # NULL =>
                           LastVerdict(q, data.submissions[q].verdict))'
      OBVIOUS
    <3>1. q \in Submissions(data) /\ q \in SubmissionIds \ {s}
      BY DEF Submissions
    <3>2. data'.submissions[q].verdict = data.submissions[q].verdict
      BY <3>1
    <3> QED
      BY <1>0, <1>5, <3>1, <3>2 DEF StoresOK
  <2> QED
    BY <2>1, <2>2 DEF StoresOK
<1>7. \A t \in Tasks \ {w} : HeldBy(t) # s
  BY <1>0, Holders DEF Exclusive
<1>8. \A x \in Workers : JobOK(x)'
  <2> SUFFICES ASSUME NEW x \in Workers, x # w PROVE JobOK(x)'
    OBVIOUS
  <2>1. job[x].id # s /\ job[x].id \in Optional(SubmissionIds)
    BY <1>0, <1>7, Holders
  <2>2. job[x].id # NULL => job[x].id \in SubmissionIds \ {s}
    BY <2>1 DEF Optional
  <2> QED
    BY <1>0, <1>1, <1>5, <2>2, JobStays
<1>9. \A l \in Learners : LearnerOK(l)'
  <2> SUFFICES ASSUME NEW l \in Learners PROVE LearnerOK(l)'
    OBVIOUS
  <2>1. l \in Tasks /\ l # w /\ learner[l].id # s /\ learner[l].id \in Optional(SubmissionIds)
    BY <1>0, <1>7, Holders
  <2>2. learner[l].id # NULL => learner[l].id \in SubmissionIds \ {s}
    BY <2>1 DEF Optional
  <2>3. LearnerOK(l)
    BY DEF JudgeInv
  <2>4. learner[l].id # NULL => Waits(learner[l].id)'
    BY <1>5, <2>2, <2>3 DEF LearnerOK
  <2> QED
    BY <1>1, <2>1, <2>3, <2>4, LearnerStays
<1>10. (\A i \in DOMAIN queue : Waits(queue[i]))'
  <2> SUFFICES ASSUME NEW i \in DOMAIN queue PROVE Waits(queue[i])'
    OBVIOUS
  <2>1. queue[i] # HeldBy(w) /\ queue[i] \in SubmissionIds /\ Waits(queue[i])
    BY <1>0 DEF Exclusive, JudgeInv, JudgeTypes
  <2>2. HeldBy(w) = s
    BY <1>0, Holders
  <2> QED
    BY <1>5, <2>1, <2>2
<1> QED
  BY <1>2, <1>4, <1>6, <1>8, <1>9, <1>10 DEF JudgeInv

\* A move of a job's submission keeps everything else that is known of it.
LEMMA StatusEffect ==
  ASSUME JudgeInv, NEW w \in Workers, job[w].at \in {"claim", "start"},
         NEW s, s = job[w].id, NEW st \in Statuses,
         UNCHANGED <<request, logs, up, queue, learner, job>>,
         request[w] # NULL, reply[w] = NULL, reply' = [reply EXCEPT ![w] = "Ok"],
         CanTransitionTo(data.submissions[s].status, st), data' = WriteStatus(data, s, st, 0)
  PROVE  JudgeInv'
<1>0. JudgeTypes /\ StoresOK /\ JobOK(w) /\ w \in Tasks
  BY DEF JudgeInv, Tasks
<1>1. s \in SubmissionIds /\ Waits(s) /\ Due(s, job[w].attempt) /\ s # NULL
  BY <1>0 DEF JobOK, JudgeTypes, Optional
<1>2. SubmissionExists(data, s) /\ s \in Submissions(data) /\ data.submissions[s].verdict = NULL
  BY <1>1 DEF Waits, Submissions
<1> PICK r : r = Moved(data.submissions[s], st, 0)
  OBVIOUS
<1>3. r \in SubmissionRow /\ data' = WithRow(data, s, r)
  BY <1>0, <1>1, <1>2, SubmissionTyped, RowsTyped DEF WriteStatus, WithRow, Verdicts, JudgeTypes
<1>4. r.verdict = NULL /\ r.hash = data.submissions[s].hash
  BY <1>0, <1>1, <1>2, SubmissionTyped DEF Moved, SubmissionRow, JudgeTypes
<1>5. /\ data'.runs = data.runs /\ data'.submissions[s] = r
      /\ \A q \in SubmissionIds \ {s} : data'.submissions[q] = data.submissions[q]
      /\ Submissions(data') = Submissions(data) \cup {s}
  BY <1>0, <1>1, <1>3, RowWritten DEF JudgeTypes
<1>6. data' \in Databases /\ Sound(data', 0) /\ Submissions(data') = Submissions(data)
  BY <1>0, <1>1, <1>2, <1>5, WriteStatusTyped, WriteStatusSound DEF JudgeTypes
<1>7. \A q : RunsForSubmission(data', q) = RunsForSubmission(data, q)
  BY <1>5 DEF RunsForSubmission
<1>8. Waits(s)' /\ Numbered(s)' /\ LogsOfRuns' /\ Due(s, job[w].attempt)'
  <2>1. Waits(s)'
    BY <1>2, <1>4, <1>5, <1>6 DEF Waits
  <2>2. Numbered(s)' /\ Due(s, job[w].attempt)'
    BY <1>0, <1>1, <1>7 DEF StoresOK, Numbered, Due
  <2>3. LogsOfRuns'
    BY <1>0, <1>5 DEF StoresOK, LogsOfRuns, LogKey
  <2> QED
    BY <2>1, <2>2, <2>3
<1>9. JobOK(w)'
  <2>1. CallOf(job[w])' = CallOf(job[w])
    BY DEF CallOf
  <2> QED
    BY <1>0, <1>1, <1>8, <2>1 DEF JobOK
<1> QED
  BY <1>1, <1>4, <1>5, <1>6, <1>7, <1>8, <1>9, EffectInv

\* A run more, with the next attempt: the runs of the submission stay numbered.
LEMMA RunAdded ==
  ASSUME JudgeTypes, NEW s \in SubmissionIds, Numbered(s), NEW r, r.submission = s,
         NEW a, Due(s, a), r.attempt = a, r.verdict \in Outcomes,
         data'.runs = data.runs \cup {r}
  PROVE  Numbered(s)'
<1> PICK runs, n : runs = RunsForSubmission(data, s) /\ n = Cardinality(runs)
  OBVIOUS
<1>1. RunsForSubmission(data', s) = runs \cup {r}
  BY DEF RunsForSubmission
<1>2. /\ IsFiniteSet(runs) /\ n \in Nat /\ n <= 1 + MAX_AUTOMATIC_RETRIES
      /\ \A q, x \in runs : q.attempt = x.attempt => q = x
      /\ \A q \in runs : q.attempt \in 1..n /\ q.verdict \in Outcomes
      /\ \A b \in 1..n : \E q \in runs : q.attempt = b
  BY FS_CardinalityType DEF Numbered
<1>3. r.attempt = n + 1 /\ n + 1 <= 1 + MAX_AUTOMATIC_RETRIES
      /\ \A q \in runs : IsInfrastructure(q.verdict)
  BY DEF Due
<1>4. r \notin runs
  BY <1>2, <1>3
<1>5. IsFiniteSet(runs \cup {r}) /\ Cardinality(runs \cup {r}) = n + 1
  BY <1>2, <1>4, FS_AddElement
<1>6. \A q, x \in runs \cup {r} : q.attempt = x.attempt => q = x
  BY <1>2, <1>3
<1>7. \A q \in runs \cup {r} : q.attempt \in 1..(n + 1) /\ q.verdict \in Outcomes
  BY <1>2, <1>3
<1>8. \A b \in 1..(n + 1) : \E q \in runs \cup {r} : q.attempt = b
  <2> SUFFICES ASSUME NEW b \in 1..(n + 1) PROVE \E q \in runs \cup {r} : q.attempt = b
    OBVIOUS
  <2>1. b \in 1..n \/ b = n + 1
    BY <1>2
  <2> QED
    BY <1>2, <1>3, <2>1
<1>9. \A q \in runs \cup {r} : q.attempt < n + 1 => IsInfrastructure(q.verdict)
  BY <1>2, <1>3
<1> PICK all, m : all = runs \cup {r} /\ m = n + 1
  OBVIOUS
<1>10. /\ IsFiniteSet(all) /\ Cardinality(all) = m /\ m <= 1 + MAX_AUTOMATIC_RETRIES
       /\ \A q, x \in all : q.attempt = x.attempt => q = x
       /\ \A q \in all : q.attempt \in 1..m /\ q.verdict \in Outcomes
       /\ \A b \in 1..m : \E q \in all : q.attempt = b
       /\ \A q \in all : q.attempt < m => IsInfrastructure(q.verdict)
  BY <1>3, <1>5, <1>6, <1>7, <1>8, <1>9
<1>11. RunsForSubmission(data', s) = all
  BY <1>1
<1> QED
  BY ONLY <1>10, <1>11 DEF Numbered

\* The attempt a job has made is recorded.
LEMMA RecordEffect ==
  ASSUME JudgeInv, NEW w \in Workers, job[w].at = "record", NEW s, s = job[w].id,
         UNCHANGED <<request, logs, up, queue, learner, job>>,
         request[w] # NULL, reply[w] = NULL, reply' = [reply EXCEPT ![w] = "Ok"],
         NEW r, r = [submission |-> s, attempt |-> job[w].attempt, verdict |-> job[w].verdict],
         data' = InsertRun(data, r)
  PROVE  JudgeInv'
<1>0. JudgeTypes /\ StoresOK /\ JobOK(w) /\ w \in Tasks
  BY DEF JudgeInv, Tasks
<1>1. /\ s \in SubmissionIds /\ Waits(s) /\ Due(s, job[w].attempt) /\ s # NULL
      /\ job[w].attempt \in Attempts /\ job[w].verdict \in Outcomes
      /\ logs[LogKey(s, job[w].attempt)] = job[w].verdict
  BY <1>0, NullIsNothing DEF JobOK, JudgeTypes, Optional
<1>2. r \in RunRow /\ CanReferToSubmission(data, r)
  BY <1>1, JudgeAssumption DEF RunRow, Optional, CanReferToSubmission, Waits, Submissions
<1>3. /\ data'.runs = data.runs \cup {r} /\ data'.submissions = data.submissions
      /\ Submissions(data') = Submissions(data)
  BY <1>0, StatementsKeepSubmissions DEF JudgeTypes, InsertRun, Databases
<1>4. data' \in Databases /\ Sound(data', 0)
  BY <1>0, <1>2, InsertRunTyped, InsertRunSound DEF JudgeTypes
<1>5. \A q \in SubmissionIds \ {s} : RunsForSubmission(data', q) = RunsForSubmission(data, q)
  BY <1>3 DEF RunsForSubmission
<1>6. Numbered(s)'
  BY <1>0, <1>1, <1>3, RunAdded DEF StoresOK
<1>7. LogsOfRuns'
  <2>1. logs[LogKey(r.submission, r.attempt)] = r.verdict
    BY <1>1
  <2> QED
    BY <1>0, <1>3, <2>1 DEF StoresOK, LogsOfRuns, LogKey
<1>8. Waits(s)' /\ data'.submissions[s].verdict = NULL
  BY <1>1, <1>3 DEF Waits
<1>9. JobOK(w)'
  <2>1. CallOf(job[w])' = CallOf(job[w]) /\ reply'[w] = "Ok"
    BY <1>0 DEF CallOf, JudgeTypes
  <2>2. LogKey(s, job[w].attempt)' = LogKey(s, job[w].attempt)
    BY DEF LogKey
  <2> QED
    BY <1>0, <1>1, <1>8, <2>1, <2>2 DEF JobOK
<1> QED
  BY <1>1, <1>3, <1>4, <1>5, <1>6, <1>7, <1>8, <1>9, EffectInv

\* All that finish_submission writes: a sound database, in which one row of
\* submissions is judged.
LEMMA FinishedFacts ==
  ASSUME NEW d \in Databases, NEW s \in SubmissionIds, SubmissionExists(d, s),
         NEW v \in Verdicts, Sound(d, 0), CanTransitionTo(d.submissions[s].status, "DONE"),
         NEW e, e = FinishedDatabase(d, s, v)
  PROVE  /\ e \in Databases /\ Sound(e, 0)
         /\ e.submissions = WriteVerdict(d, s, v, 0).submissions
         /\ e.runs = d.runs /\ e.users = d.users /\ e.problems = d.problems
         /\ e.submissions[s] = Judged(d.submissions[s], v, 0)
         /\ \A q \in SubmissionIds \ {s} : e.submissions[q] = d.submissions[q]
         /\ Submissions(e) = Submissions(d)
<1> PICK done, row, u, p :
      /\ done = WriteVerdict(d, s, v, 0) /\ row = d.submissions[s]
      /\ u = row.user /\ p = row.problem
  OBVIOUS
<1>1. row \in SubmissionRow /\ u \in UserIds /\ p \in Problems /\ s \in Submissions(d)
  BY SubmissionTyped DEF SubmissionRow, Submissions
<1>2. /\ done \in Databases
      /\ IF Counts(v) THEN Almost(done, s, v, 0) ELSE Sound(done, 0)
      /\ Submissions(done) = Submissions(d)
  <2>1. done \in Databases
    BY <1>1, WriteVerdictTyped
  <2>2. IF Counts(v) THEN Almost(done, s, v, 0) ELSE Sound(done, 0)
    BY <1>1, WriteVerdictSound
  <2>3. "DONE" \in Statuses
    BY DEF Statuses
  <2>4. Submissions(done) = Submissions(d)
    BY <1>1, <2>3, StatementsKeepSubmissions
  <2> QED
    BY <2>1, <2>2, <2>4
<1>3. /\ done.submissions[s] = Judged(row, v, 0)
      /\ \A q \in SubmissionIds \ {s} : done.submissions[q] = d.submissions[q]
  BY WriteVerdictRows
<1>4. /\ done.runs = d.runs /\ done.users = d.users /\ done.problems = d.problems
      /\ done.progress = d.progress
  BY DEF WriteVerdict, Databases
<1>5. done.submissions[s].user = u /\ done.submissions[s].problem = p
  BY <1>1, <1>3 DEF Judged, SubmissionRow
<1>6. CASE ~Counts(v)
  <2>1. e = done
    BY <1>6 DEF FinishedDatabase
  <2> QED
    BY <1>2, <1>3, <1>4, <1>6, <2>1
<1>7. CASE Counts(v) /\ d.progress[u][p] = NULL
  <2>1. e = InsertProgress(done, u, p, v, 0)
    BY <1>7 DEF FinishedDatabase
  <2>2. e \in Databases /\ Sound(e, 0)
    BY <1>1, <1>2, <1>4, <1>5, <1>7, <2>1, InsertProgressTyped, InsertProgressSound
  <2>3. /\ e.submissions = done.submissions /\ e.runs = done.runs
        /\ e.users = done.users /\ e.problems = done.problems
    BY <1>2, <2>1 DEF InsertProgress, Databases
  <2>4. Submissions(e) = Submissions(done)
    BY <1>1, <1>2, <2>1, StatementsKeepSubmissions
  <2> QED
    BY <1>2, <1>3, <1>4, <2>2, <2>3, <2>4
<1>8. CASE Counts(v) /\ d.progress[u][p] # NULL
  <2>1. e = UpdateProgress(done, u, p, v, 0)
    BY <1>8 DEF FinishedDatabase
  <2>2. e \in Databases /\ Sound(e, 0)
    BY <1>1, <1>2, <1>4, <1>5, <1>8, <2>1, UpdateProgressTyped, UpdateProgressSound
  <2>3. /\ e.submissions = done.submissions /\ e.runs = done.runs
        /\ e.users = done.users /\ e.problems = done.problems
    BY <1>2, <2>1 DEF UpdateProgress, Databases
  <2>4. Submissions(e) = Submissions(done)
    BY <1>1, <1>2, <2>1, StatementsKeepSubmissions
  <2> QED
    BY <1>2, <1>3, <1>4, <2>2, <2>3, <2>4
<1> QED
  BY <1>6, <1>7, <1>8

\* A job is finished with the verdict of the last run.
LEMMA FinishEffect ==
  ASSUME JudgeInv, NEW w \in Workers, job[w].at = "finish", NEW s, s = job[w].id,
         UNCHANGED <<request, logs, up, queue, learner, job>>,
         request[w] # NULL, reply[w] = NULL, reply' = [reply EXCEPT ![w] = "Ok"],
         CanTransitionTo(data.submissions[s].status, "DONE"),
         data' = FinishedDatabase(data, s, job[w].verdict)
  PROVE  JudgeInv'
<1> PICK v : v = job[w].verdict
  OBVIOUS
<1>0. JudgeTypes /\ StoresOK /\ JobOK(w) /\ w \in Tasks
  BY DEF JudgeInv, Tasks
<1>1. /\ s \in SubmissionIds /\ Waits(s) /\ s # NULL /\ v \in Outcomes /\ v \in Verdicts
      /\ LastVerdict(s, v)
  BY <1>0, NullIsNothing, JudgeAssumption DEF JobOK, JudgeTypes, Optional
<1>2. SubmissionExists(data, s)
  BY <1>1 DEF Waits, Submissions
<1>3. /\ data' \in Databases /\ Sound(data', 0) /\ data'.runs = data.runs
      /\ data'.submissions[s] = Judged(data.submissions[s], v, 0)
      /\ \A q \in SubmissionIds \ {s} : data'.submissions[q] = data.submissions[q]
      /\ Submissions(data') = Submissions(data)
  BY <1>0, <1>1, <1>2, FinishedFacts DEF JudgeTypes
<1>4. data'.submissions[s].verdict = v /\ data'.submissions[s].hash = data.submissions[s].hash
  BY <1>0, <1>1, <1>2, <1>3, SubmissionTyped DEF Judged, SubmissionRow, JudgeTypes
<1>5. \A q : RunsForSubmission(data', q) = RunsForSubmission(data, q)
  BY <1>3 DEF RunsForSubmission
<1>6. Numbered(s)' /\ LogsOfRuns' /\ LastVerdict(s, v)'
  <2>1. Numbered(s)' /\ LastVerdict(s, v)'
    BY <1>0, <1>1, <1>5 DEF StoresOK, Numbered, LastVerdict
  <2>2. LogsOfRuns'
    BY <1>0, <1>3 DEF StoresOK, LogsOfRuns, LogKey
  <2> QED
    BY <2>1, <2>2
<1>7. JobOK(w)'
  <2>1. CallOf(job[w])' = CallOf(job[w]) /\ reply'[w] = "Ok"
    BY <1>0 DEF CallOf, JudgeTypes
  <2> QED
    BY <1>0, <1>1, <1>6, <2>1 DEF JobOK
<1>8. (data.submissions[s].verdict # NULL => LastVerdict(s, data.submissions[s].verdict))'
  BY <1>4, <1>6
<1> QED
  BY <1>1, <1>3, <1>4, <1>5, <1>6, <1>7, <1>8, EffectInv

\* A row that has just been made is nobody else's.
LEMMA HeldIsThere ==
  ASSUME JudgeInv
  PROVE  /\ \A t \in Tasks : HeldBy(t) # NULL => HeldBy(t) \in Submissions(data)
         /\ \A i \in DOMAIN queue : queue[i] \in Submissions(data)
<1>1. ASSUME NEW l \in Learners, learner[l].id # NULL PROVE learner[l].id \in Submissions(data)
  BY <1>1 DEF JudgeInv, LearnerOK, Waits
<1>2. ASSUME NEW w \in Workers, job[w].id # NULL PROVE job[w].id \in Submissions(data)
  <2>1. Waits(job[w].id) \/ LastVerdict(job[w].id, job[w].verdict)
    BY <1>2 DEF JudgeInv, JobOK
  <2>2. CASE LastVerdict(job[w].id, job[w].verdict)
    <3>1. PICK r \in data.runs : r.submission = job[w].id
      BY <2>2 DEF LastVerdict, RunsForSubmission
    <3>2. SubmissionExists(data, r.submission) /\ r \in RunRow
      BY DEF JudgeInv, JudgeTypes, Sound, NothingDangles, Databases
    <3> QED
      BY <3>1, <3>2 DEF RunRow, Submissions
  <2> QED
    BY <2>1, <2>2 DEF Waits
<1>3. \A i \in DOMAIN queue : queue[i] \in Submissions(data)
  BY DEF JudgeInv, Waits
<1> QED
  BY <1>1, <1>2, <1>3 DEF HeldBy, Tasks

\* create_submission: the learner has a row more.
LEMMA CreateEffect ==
  ASSUME JudgeInv, NEW l \in Learners, up,
         UNCHANGED <<request, logs, up, queue, job>>,
         request[l] # NULL, reply[l] = NULL, reply' = [reply EXCEPT ![l] = "Ok"],
         CanInsertSubmission(data, request[l].new),
         NEW s \in SubmissionIds \ Submissions(data),
         data' = InsertSubmission(data, s, request[l].new, 0),
         learner' = [learner EXCEPT ![l].id = s]
  PROVE  JudgeInv'
<1> PICK n : n = request[l].new
  OBVIOUS
<1>0. /\ JudgeTypes /\ Exclusive /\ DownOK /\ StoresOK /\ LearnerOK(l) /\ l \in Tasks
      /\ s # NULL /\ l \notin Workers
  BY NullIsNothing, JudgeAssumption DEF JudgeInv, Tasks
<1>1. /\ learner[l].at = "create"
      /\ request[l] = [op |-> "create_submission",
                       new |-> [user |-> User, problem |-> Problem, hash |-> learner[l].hash]]
  BY <1>0 DEF LearnerOK
<1>2. n \in NewSubmission /\ n.hash = learner[l].hash
  <2>1. request[l] \in Calls /\ request[l] \in AllCalls /\ request[l].op = "create_submission"
    BY <1>0, <1>1, CallsAssumption DEF JudgeTypes, Optional
  <2>2. request[l].new \in NewSubmission
    BY <2>1 DEF AllCalls
  <2> QED
    BY <1>1, <2>2
<1>3. ~SubmissionExists(data, s)
  BY DEF Submissions
<1> PICK r : r = [user |-> n.user, problem |-> n.problem, hash |-> n.hash,
                  status |-> "QUEUED", verdict |-> NULL,
                  created_at |-> 0, started_at |-> NULL, finished_at |-> NULL]
  OBVIOUS
<1>4. r \in SubmissionRow /\ data' = WithRow(data, s, r)
      /\ r.verdict = NULL /\ r.hash = learner[l].hash
  BY <1>2 DEF InsertSubmission, WithRow, SubmissionRow, NewSubmission, Statuses, Optional
<1>5. /\ data'.runs = data.runs /\ data'.submissions[s] = r
      /\ \A q \in SubmissionIds \ {s} : data'.submissions[q] = data.submissions[q]
      /\ Submissions(data') = Submissions(data) \cup {s}
  BY <1>0, <1>4, RowWritten DEF JudgeTypes
<1>6. data' \in Databases /\ Sound(data', 0)
  <2>1. data' = InsertSubmission(data, s, n, 0) /\ CanInsertSubmission(data, n)
    OBVIOUS
  <2>2. InsertSubmission(data, s, n, 0) \in Databases
    BY <1>0, <1>2, InsertSubmissionTyped DEF JudgeTypes
  <2>3. Sound(InsertSubmission(data, s, n, 0), 0)
    <3>1. data \in Databases /\ Sound(data, 0)
      BY <1>0 DEF JudgeTypes
    <3>2. \A z \in Nat : z <= z /\ (Sound(data, z) => Sound(InsertSubmission(data, s, n, z), z))
      BY <1>2, <1>3, <2>1, <3>1, InsertSubmissionSound
    <3> QED
      BY <3>1, <3>2
  <2> QED
    BY <2>1, <2>2, <2>3
<1>7. /\ learner'[l].id = s /\ learner'[l].at = "create" /\ learner'[l].hash = learner[l].hash
      /\ \A k \in Learners \ {l} : learner'[k] = learner[k]
      /\ learner' \in [Learners -> [at : {"idle", "create"}, hash : Optional(Hashes),
                                    id : Optional(SubmissionIds)]]
  <2> PICK c : c = [learner[l] EXCEPT !.id = s]
    OBVIOUS
  <2>1. learner' = [learner EXCEPT ![l] = c]
    BY <1>0 DEF JudgeTypes
  <2>2. c.id = s /\ c.at = "create" /\ c.hash = learner[l].hash
        /\ c \in [at : {"idle", "create"}, hash : Optional(Hashes),
                 id : Optional(SubmissionIds)]
    BY <1>0, <1>1 DEF JudgeTypes, Optional
  <2> QED
    BY <1>0, <2>1, <2>2 DEF JudgeTypes
<1>8. JudgeTypes'
  BY <1>0, <1>6, <1>7 DEF JudgeTypes, Optional, Answers
<1>9. reply'[l] = "Ok" /\ \A u \in Tasks \ {l} : reply'[u] = reply[u]
  BY <1>0 DEF JudgeTypes
<1>10. HeldBy(l)' = s /\ \A t \in Tasks \ {l} : HeldBy(t)' = HeldBy(t)
  BY <1>7 DEF HeldBy, Tasks
<1>11. /\ \A t \in Tasks : HeldBy(t) # s
       /\ \A i \in DOMAIN queue : queue[i] # s
  BY <1>0, HeldIsThere
<1>12. Exclusive' /\ DownOK'
  <2>1. ASSUME NEW t \in Tasks, NEW u \in Tasks, t # u, HeldBy(t)' # NULL
        PROVE  HeldBy(t)' # HeldBy(u)'
    BY <1>0, <1>10, <1>11, <2>1 DEF Exclusive
  <2>2. \A i \in DOMAIN queue, t \in Tasks : queue[i] # HeldBy(t)'
    BY <1>0, <1>10, <1>11 DEF Exclusive
  <2>3. Exclusive'
    BY <1>0, <2>1, <2>2 DEF Exclusive
  <2> QED
    BY <2>3 DEF DownOK
<1>13. \A q : RunsForSubmission(data', q) = RunsForSubmission(data, q)
  BY <1>5 DEF RunsForSubmission
<1>14. \A q : Waits(q) => Waits(q)'
  BY <1>3, <1>5 DEF Waits, Submissions
<1>15. StoresOK'
  <2>1. \A q \in SubmissionIds : Numbered(q)'
    BY <1>0, <1>13 DEF StoresOK, Numbered
  <2>2. LogsOfRuns'
    BY <1>0, <1>5 DEF StoresOK, LogsOfRuns, LogKey
  <2>3. (\A q \in Submissions(data) : data.submissions[q].verdict # NULL =>
           LastVerdict(q, data.submissions[q].verdict))'
    <3> SUFFICES ASSUME NEW q \in Submissions(data), q # s
                 PROVE  (data.submissions[q].verdict # NULL =>
                           LastVerdict(q, data.submissions[q].verdict))'
      BY <1>4, <1>5
    <3>1. data'.submissions[q] = data.submissions[q]
      BY <1>5 DEF Submissions
    <3>2. \A v : LastVerdict(q, v) => LastVerdict(q, v)'
      BY <1>13 DEF LastVerdict
    <3> QED
      BY <1>0, <3>1, <3>2 DEF StoresOK
  <2> QED
    BY <2>1, <2>2, <2>3 DEF StoresOK
<1>16. LearnerOK(l)'
  <2>1. Waits(s)'
    BY <1>4, <1>5 DEF Waits
  <2> QED
    BY <1>0, <1>1, <1>7, <2>1 DEF LearnerOK
<1>17. ASSUME NEW k \in Learners, k # l PROVE LearnerOK(k)'
  <2>1. LearnerOK(k)
    BY DEF JudgeInv
  <2>2. UNCHANGED <<learner[k], request[k], reply[k]>>
    BY <1>7, <1>9, <1>17 DEF Tasks
  <2>3. learner[k].id # NULL => Waits(learner[k].id)
    BY <2>1 DEF LearnerOK
  <2>4. learner[k].id # NULL => Waits(learner[k].id)'
    BY <1>14, <2>2, <2>3
  <2> QED
    BY <2>1, <2>2, <2>4, LearnerStays
<1>18. ASSUME NEW w \in Workers PROVE JobOK(w)'
  <2>1. UNCHANGED <<job[w], request[w], reply[w]>>
    BY <1>0, <1>9 DEF Tasks
  <2> QED
    BY <1>13, <1>14, <2>1, JobStays DEF JudgeInv
<1>19. (\A i \in DOMAIN queue : Waits(queue[i]))'
  BY <1>14 DEF JudgeInv
<1> QED
  BY <1>8, <1>12, <1>15, <1>16, <1>17, <1>18, <1>19 DEF JudgeInv

\* A call takes effect, or is refused.
LEMMA PerformInv ==
  ASSUME JudgeInv, NEW t \in Tasks, Perform(t)
  PROVE  JudgeInv'
<1> PICK c, a : c = request[t] /\ a = Store!AnswerTo(data, c)
  OBVIOUS
<1>0. JudgeTypes /\ t \in Learners \cup Workers
  BY DEF JudgeInv, Tasks
<1>1. /\ up /\ c # NULL /\ reply[t] = NULL /\ reply' = [reply EXCEPT ![t] = a]
      /\ UNCHANGED <<request, logs, up, queue, job>>
  BY DEF Perform
<1>2. IF a # "Ok" THEN UNCHANGED <<data, learner>>
      ELSE \/ /\ c.op = "create_submission"
              /\ \E s \in SubmissionIds \ Submissions(data) :
                   /\ data' = InsertSubmission(data, s, c.new, 0)
                   /\ learner' = [learner EXCEPT ![t].id = s]
           \/ /\ c.op = "set_submission_status"
              /\ data' = WriteStatus(data, c.id, c.status, 0) /\ UNCHANGED learner
           \/ /\ c.op = "record_run"
              /\ data' = InsertRun(data, c.run) /\ UNCHANGED learner
           \/ /\ c.op = "finish_submission"
              /\ data' = FinishedDatabase(data, c.id, c.verdict) /\ UNCHANGED learner
  BY DEF Perform
<1>3. /\ t \in Learners => c = [op |-> "create_submission",
                                new |-> [user |-> User, problem |-> Problem,
                                         hash |-> learner[t].hash]]
      /\ t \in Workers => /\ job[t].at \in {"claim", "start", "record", "finish"}
                          /\ c = CallOf(job[t])
  BY <1>1 DEF JudgeInv, LearnerOK, JobOK
<1>4. CASE a # "Ok"
  <2>1. a \in Answers
    <3>1. c.op \in {"create_submission", "set_submission_status", "record_run",
                    "finish_submission"}
      BY <1>0, <1>3 DEF CallOf
    <3> QED
      BY <3>1, AnswersOfTheStore DEF Answers, Broken
  <2> QED
    BY <1>1, <1>2, <1>4, <2>1, RefusedInv
<1>5. CASE a = "Ok" /\ t \in Learners
  <2>1. c.op = "create_submission"
    BY <1>3, <1>5
  <2>2. CanInsertSubmission(data, c.new)
    BY <1>5, <2>1, AnswersOfTheStore
  <2>3. PICK s \in SubmissionIds \ Submissions(data) :
          /\ data' = InsertSubmission(data, s, c.new, 0)
          /\ learner' = [learner EXCEPT ![t].id = s]
    BY <1>2, <1>5, <2>1
  <2> QED
    BY <1>1, <1>5, <2>2, <2>3, CreateEffect
<1>6. CASE a = "Ok" /\ t \in Workers
  <2>1. CASE job[t].at \in {"claim", "start"}
    <3>1. PICK st \in {"PREPARING", "RUNNING"} :
            c = [op |-> "set_submission_status", id |-> job[t].id, status |-> st]
      BY <1>3, <1>6, <2>1 DEF CallOf
    <3>2. /\ CanTransitionTo(data.submissions[job[t].id].status, st)
          /\ data' = WriteStatus(data, job[t].id, st, 0) /\ UNCHANGED learner
      <4>1. c.op = "set_submission_status" /\ c.id = job[t].id /\ c.status = st
        BY <3>1
      <4>2. CanTransitionTo(data.submissions[c.id].status, c.status)
        BY <1>6, <4>1, AnswersOfTheStore
      <4> QED
        BY <1>2, <1>6, <4>1, <4>2
    <3>3. st \in Statuses
      BY DEF Statuses
    <3> QED
      BY <1>1, <1>6, <2>1, <3>2, <3>3, StatusEffect
  <2>2. CASE job[t].at = "record"
    <3>1. c = [op |-> "record_run", run |-> [submission |-> job[t].id,
                 attempt |-> job[t].attempt, verdict |-> job[t].verdict]]
      BY <1>3, <1>6, <2>2 DEF CallOf
    <3>2. data' = InsertRun(data, c.run) /\ UNCHANGED learner
      BY <1>2, <1>6, <3>1
    <3> PICK r : r = [submission |-> job[t].id, attempt |-> job[t].attempt,
                      verdict |-> job[t].verdict]
      OBVIOUS
    <3>3. data' = InsertRun(data, r)
      BY <3>1, <3>2
    <3> QED
      BY <1>1, <1>6, <2>2, <3>2, <3>3, RecordEffect
  <2>3. CASE job[t].at = "finish"
    <3>1. c = [op |-> "finish_submission", id |-> job[t].id, verdict |-> job[t].verdict]
      BY <1>3, <1>6, <2>3 DEF CallOf
    <3>2. /\ CanTransitionTo(data.submissions[job[t].id].status, "DONE")
          /\ data' = FinishedDatabase(data, job[t].id, job[t].verdict) /\ UNCHANGED learner
      <4>1. c.op = "finish_submission" /\ c.id = job[t].id /\ c.verdict = job[t].verdict
        BY <3>1
      <4>2. CanTransitionTo(data.submissions[c.id].status, "DONE")
        BY <1>6, <4>1, AnswersOfTheStore
      <4> QED
        BY <1>2, <1>6, <4>1, <4>2
    <3> QED
      BY <1>1, <1>6, <2>3, <3>2, FinishEffect
  <2> QED
    BY <1>3, <1>6, <2>1, <2>2, <2>3
<1> QED
  BY <1>0, <1>4, <1>5, <1>6

-----------------------------------------------------------------------------
(* The theorems.                                                           *)

\* Every step keeps the invariant.
LEMMA StepJudge == JudgeInv /\ [Next]_vars => JudgeInv'
<1> SUFFICES ASSUME JudgeInv, [Next]_vars PROVE JudgeInv'
  OBVIOUS
<1>1. CASE UNCHANGED vars
  <2>1. UNCHANGED <<data, request, reply, logs, up, queue, learner, job>>
    BY <1>1 DEF vars, memory
  <2>2. JudgeTypes'
    BY <2>1 DEF JudgeInv, JudgeTypes
  <2>3. Exclusive' /\ DownOK'
    BY <2>1 DEF JudgeInv, Exclusive, DownOK, HeldBy
  <2>4. \A i \in DOMAIN queue' : Waits(queue'[i])
    BY <2>1 DEF JudgeInv
  <2> QED
    BY <2>1, <2>2, <2>3, <2>4, QuietStep
<1>2. ASSUME NEW l \in Learners, NEW h \in Hashes, Submit(l, h) PROVE JudgeInv'
  BY <1>2, AskingInv
<1>3. ASSUME NEW l \in Learners, Serve(l) PROVE JudgeInv'
  BY <1>3, AskingInv, CreatedInv, PerformInv DEF Serve, Tasks
<1>4. ASSUME NEW w \in Workers, Work(w) PROVE JudgeInv'
  BY <1>4, TakeInv, LookInv, AskInv, AnsweredInv, RunInv, PerformInv DEF Work, Tasks
<1>5. ASSUME NEW t \in Tasks, Fail(t) PROVE JudgeInv'
  BY <1>5, FailInv
<1> QED
  BY <1>1, <1>2, <1>3, <1>4, <1>5, CrashInv, BootInv DEF Next

\* A submission is had by one task at most or queued once, its runs are
\* numbered without a gap, and what a task knows of it is still so.
THEOREM JudgeInvariant == Spec => []JudgeInv
BY InitJudge, StepJudge, PTL DEF Spec

\* Every recorded run has the log of its own attempt.
THEOREM EveryRunHasItsLog == Spec => []LogsOfRuns
<1>1. JudgeInv => LogsOfRuns
  BY DEF JudgeInv, StoresOK
<1> QED
  BY <1>1, JudgeInvariant, PTL

\* Attempts are numbered from 1, and each but the first follows an SE or an IE.
THEOREM RetriesFollowFailures == Spec => []RetriesAreEarned
<1>1. JudgeInv => RetriesAreEarned
  BY DEF JudgeInv, StoresOK, Numbered, RetriesAreEarned
<1> QED
  BY <1>1, JudgeInvariant, PTL

\* The verdict of a submission is that of its last run.
THEOREM LastRunDecides == Spec => []VerdictIsOfLastRun
<1>1. JudgeInv => VerdictIsOfLastRun
  <2> SUFFICES ASSUME JudgeInv, NEW s \in Submissions(data), data.submissions[s].verdict # NULL
               PROVE  \E r \in data.runs :
                        /\ r.submission = s /\ r.verdict = data.submissions[s].verdict
                        /\ \A q \in data.runs : q.submission = s => q.attempt <= r.attempt
    BY DEF VerdictIsOfLastRun
  <2> PICK runs : runs = RunsForSubmission(data, s)
    OBVIOUS
  <2>1. PICK r \in runs : r.attempt = Cardinality(runs) /\ r.verdict = data.submissions[s].verdict
    BY DEF JudgeInv, StoresOK, LastVerdict
  <2>2. \A q \in runs : q.attempt \in 1..Cardinality(runs)
    BY DEF JudgeInv, StoresOK, Numbered, Submissions
  <2> QED
    BY <2>1, <2>2 DEF RunsForSubmission
<1> QED
  BY <1>1, JudgeInvariant, PTL

=============================================================================
