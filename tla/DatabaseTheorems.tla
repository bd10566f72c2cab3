-------------------------- MODULE DatabaseTheorems --------------------------
(***************************************************************************)
(* What the statements of Tables do to a database, for every value of the  *)
(* constants.  Each keeps the schema's types, and each keeps a database    *)
(* sound: its times in order, no reference dangling, and user_progress the *)
(* tally of the submissions.  finish_submission is the exception: between  *)
(* its UPDATE of the submission and its write of user_progress the tally   *)
(* is one verdict behind (Almost), which is why the two share a            *)
(* transaction.                                                            *)
(***************************************************************************)
EXTENDS StoreCalls, FiniteSetTheorems, TLAPS

-----------------------------------------------------------------------------
(* Types.                                                                  *)

\* An existing row of the submissions table is a submission.
LEMMA SubmissionTyped ==
  ASSUME NEW d \in Databases, NEW s \in SubmissionIds, SubmissionExists(d, s)
  PROVE  d.submissions[s] \in SubmissionRow
BY DEF Databases, SubmissionExists, Optional

\* INSERT INTO users keeps the schema's types.
LEMMA InsertUserTyped ==
  ASSUME NEW d \in Databases, NEW u \in UserIds, NEW r \in UserRow
  PROVE  InsertUser(d, u, r) \in Databases
BY DEF Databases, InsertUser, Optional

\* The upsert of a catalog row keeps the schema's types.
LEMMA UpsertProblemTyped ==
  ASSUME NEW d \in Databases, NEW p \in Problems, NEW c \in Contents
  PROVE  UpsertProblem(d, p, c) \in Databases
BY DEF Databases, UpsertProblem, Optional

\* DELETE FROM problems keeps the schema's types.
LEMMA DeleteProblemTyped ==
  ASSUME NEW d \in Databases, NEW p \in Problems
  PROVE  DeleteProblem(d, p) \in Databases
BY DEF Databases, DeleteProblem, Optional

\* INSERT INTO submissions keeps the schema's types.
LEMMA InsertSubmissionTyped ==
  ASSUME NEW d \in Databases, NEW s \in SubmissionIds, NEW n \in NewSubmission,
         NEW now \in Nat
  PROVE  InsertSubmission(d, s, n, now) \in Databases
BY DEF Databases, InsertSubmission, Optional, NewSubmission, SubmissionRow, Statuses

\* INSERT INTO runs keeps the schema's types.
LEMMA InsertRunTyped ==
  ASSUME NEW d \in Databases, NEW r \in RunRow
  PROVE  InsertRun(d, r) \in Databases
BY DEF Databases, InsertRun

\* The rows the UPDATEs write are rows of their tables.
LEMMA RowsTyped ==
  ASSUME NEW now \in Nat, NEW v \in Verdicts
  PROVE  /\ \A r \in SubmissionRow, st \in Statuses : Moved(r, st, now) \in SubmissionRow
         /\ \A r \in SubmissionRow : Judged(r, v, now) \in SubmissionRow
         /\ \A r \in ProgressRow : Bumped(r, v, now) \in ProgressRow
         /\ FirstProgress(v, now) \in ProgressRow
<1>1. ASSUME NEW r \in SubmissionRow, NEW st \in Statuses
      PROVE  Moved(r, st, now) \in SubmissionRow
  BY DEF SubmissionRow, Moved, Optional
<1>2. ASSUME NEW r \in SubmissionRow PROVE Judged(r, v, now) \in SubmissionRow
  BY DEF SubmissionRow, Judged, Optional, Statuses
<1>3. ASSUME NEW r \in ProgressRow PROVE Bumped(r, v, now) \in ProgressRow
  <2>1. SolvedAt(v, now) \in Optional(Nat)
    BY DEF SolvedAt, Optional
  <2>2. r.attempts + 1 \in Nat /\ r.solved_at \in Optional(Nat)
    BY DEF ProgressRow
  <2> QED
    BY <2>1, <2>2 DEF ProgressRow, Bumped
<1>4. FirstProgress(v, now) \in ProgressRow
  BY DEF ProgressRow, FirstProgress, Optional, SolvedAt
<1> QED
  BY <1>1, <1>2, <1>3, <1>4

\* The UPDATE of a submission's status keeps the schema's types.
LEMMA WriteStatusTyped ==
  ASSUME NEW d \in Databases, NEW s \in SubmissionIds, SubmissionExists(d, s),
         NEW st \in Statuses, NEW now \in Nat
  PROVE  WriteStatus(d, s, st, now) \in Databases
<1>1. d.submissions[s] \in SubmissionRow
  BY SubmissionTyped
<1>2. Moved(d.submissions[s], st, now) \in SubmissionRow
  BY <1>1 DEF SubmissionRow, Moved, Optional
<1> QED
  BY <1>2 DEF Databases, WriteStatus, Optional

\* The terminal UPDATE of a submission keeps the schema's types.
LEMMA WriteVerdictTyped ==
  ASSUME NEW d \in Databases, NEW s \in SubmissionIds, SubmissionExists(d, s),
         NEW v \in Verdicts, NEW now \in Nat
  PROVE  WriteVerdict(d, s, v, now) \in Databases
<1>1. Judged(d.submissions[s], v, now) \in SubmissionRow
  BY SubmissionTyped, RowsTyped
<1> QED
  BY <1>1 DEF Databases, WriteVerdict, Optional

\* The row judged is what it should be, and the others are as they were.
LEMMA WriteVerdictRows ==
  ASSUME NEW d \in Databases, NEW s \in SubmissionIds, SubmissionExists(d, s),
         NEW v \in Verdicts, NEW now \in Nat
  PROVE  LET e == WriteVerdict(d, s, v, now)
         IN  /\ SubmissionExists(e, s)
             /\ e.submissions[s] = Judged(d.submissions[s], v, now)
             /\ \A r \in SubmissionIds \ {s} : e.submissions[r] = d.submissions[r]
<1>1. Judged(d.submissions[s], v, now) # NULL
  BY SubmissionTyped, RowsTyped, TablesAssumption
<1> QED
  BY <1>1 DEF WriteVerdict, SubmissionExists, Databases

\* UPDATE user_progress keeps the schema's types.
LEMMA UpdateProgressTyped ==
  ASSUME NEW d \in Databases, NEW u \in UserIds, NEW p \in Problems,
         d.progress[u][p] # NULL, NEW v \in Verdicts, NEW now \in Nat
  PROVE  UpdateProgress(d, u, p, v, now) \in Databases
<1>1. d.progress[u][p] \in ProgressRow
  BY DEF Databases, Optional
<1>2. Bumped(d.progress[u][p], v, now) \in ProgressRow
  BY <1>1, RowsTyped
<1> QED
  BY <1>2 DEF Databases, UpdateProgress, Optional

\* INSERT INTO user_progress keeps the schema's types.
LEMMA InsertProgressTyped ==
  ASSUME NEW d \in Databases, NEW u \in UserIds, NEW p \in Problems,
         NEW v \in Verdicts, NEW now \in Nat
  PROVE  InsertProgress(d, u, p, v, now) \in Databases
<1>1. FirstProgress(v, now) \in ProgressRow
  BY RowsTyped
<1> QED
  BY <1>1 DEF Databases, InsertProgress, Optional

-----------------------------------------------------------------------------
(* Soundness.                                                              *)

\* What holds between the two writes: the verdict v of s, given at now, is in
\* its row but not yet in user_progress.
Almost(d, s, v, now) ==
  /\ TimesInOrder(d, now) /\ NothingDangles(d)
  /\ SubmissionExists(d, s) /\ Counts(v)
  /\ d.submissions[s].verdict = v /\ d.submissions[s].finished_at = now
  /\ \A u \in UserIds, p \in Problems :
       IsTallyOf(d, Tallied(d, u, p) \ {s}, d.progress[u][p])

-----------------------------------------------------------------------------
(* Times.                                                                  *)

\* What was in order stays so while the clock goes on.
LEMMA TimesLater ==
  ASSUME NEW d \in Databases, NEW now \in Nat, NEW later \in Nat, now <= later,
         TimesInOrder(d, now)
  PROVE  TimesInOrder(d, later)
<1> SUFFICES ASSUME NEW s \in Submissions(d)
             PROVE  InOrder(d.submissions[s], later)
  BY DEF TimesInOrder
<1>1. d.submissions[s] \in SubmissionRow
  BY SubmissionTyped DEF Submissions
<1>2. InOrder(d.submissions[s], now)
  BY DEF TimesInOrder
<1> QED
  BY <1>1, <1>2, TablesAssumption DEF InOrder, SubmissionRow, Optional

\* A sound database stays sound while the clock goes on.
LEMMA SoundLater ==
  ASSUME NEW d \in Databases, NEW now \in Nat, NEW later \in Nat, now <= later,
         Sound(d, now)
  PROVE  Sound(d, later)
BY TimesLater DEF Sound

\* A move that can_transition_to allows keeps the times of its row in order,
\* and tells that the row had no verdict.
LEMMA MovedInOrder ==
  ASSUME NEW r \in SubmissionRow, NEW st \in Statuses, NEW now \in Nat,
         InOrder(r, now), CanTransitionTo(r.status, st)
  PROVE  InOrder(Moved(r, st, now), now) /\ r.verdict = NULL
<1>1. r.status # "DONE" /\ st # "QUEUED"
  BY DEF CanTransitionTo, Underway
<1>2. r.finished_at = NULL /\ r.verdict = NULL
  BY <1>1 DEF InOrder
<1> DEFINE m == Moved(r, st, now)
<1>3. /\ m.status = st /\ m.created_at = r.created_at
      /\ m.finished_at = NULL /\ m.verdict = NULL
      /\ m.started_at = IF r.started_at = NULL THEN now ELSE r.started_at
  BY <1>2 DEF Moved, SubmissionRow
<1>4. now # NULL /\ r.created_at \in Nat
  BY TablesAssumption DEF SubmissionRow
<1> HIDE DEF m
<1> QED
  BY <1>1, <1>2, <1>3, <1>4 DEF InOrder, m

\* So does the terminal write.
LEMMA JudgedInOrder ==
  ASSUME NEW r \in SubmissionRow, NEW v \in Verdicts, NEW now \in Nat,
         InOrder(r, now), CanTransitionTo(r.status, "DONE")
  PROVE  InOrder(Judged(r, v, now), now) /\ r.verdict = NULL
<1>1. r.status # "DONE" /\ r.status # "QUEUED"
  BY DEF CanTransitionTo, Underway
<1>2. r.verdict = NULL /\ r.started_at # NULL
  BY <1>1 DEF InOrder
<1> DEFINE j == Judged(r, v, now)
<1>3. /\ j.status = "DONE" /\ j.created_at = r.created_at
      /\ j.started_at = r.started_at /\ j.finished_at = now /\ j.verdict = v
  BY DEF Judged, SubmissionRow
<1>4. now # NULL /\ v # NULL
  BY TablesAssumption
<1> HIDE DEF j
<1> QED
  BY <1>2, <1>3, <1>4 DEF InOrder, j

-----------------------------------------------------------------------------
(* The tally.                                                              *)

\* A tally depends on the verdicts and the times of what it counts.
LEMMA TallySame ==
  ASSUME NEW d, NEW e, NEW T, NEW r,
         \A s \in T : /\ e.submissions[s].verdict = d.submissions[s].verdict
                      /\ e.submissions[s].finished_at = d.submissions[s].finished_at
  PROVE  IsTallyOf(e, T, r) <=> IsTallyOf(d, T, r)
<1> DEFINE SD == {s \in T : IsAccepted(d.submissions[s].verdict)}
           SE == {s \in T : IsAccepted(e.submissions[s].verdict)}
<1>1. SD = SE /\ SD \subseteq T
  BY DEF IsAccepted
<1>2. \A s \in SD : e.submissions[s].finished_at = d.submissions[s].finished_at
  BY <1>1
<1>3. IsTallyOf(d, T, r) <=>
        IF T = {} THEN r = NULL
        ELSE /\ r # NULL
             /\ r.attempts = Cardinality(T)
             /\ IF SD = {} THEN r.solved_at = NULL
                ELSE \E s \in SD : /\ r.solved_at = d.submissions[s].finished_at
                                   /\ \A q \in SD : r.solved_at <= d.submissions[q].finished_at
  BY DEF IsTallyOf
<1>4. IsTallyOf(e, T, r) <=>
        IF T = {} THEN r = NULL
        ELSE /\ r # NULL
             /\ r.attempts = Cardinality(T)
             /\ IF SE = {} THEN r.solved_at = NULL
                ELSE \E s \in SE : /\ r.solved_at = e.submissions[s].finished_at
                                   /\ \A q \in SE : r.solved_at <= e.submissions[q].finished_at
  BY DEF IsTallyOf
<1> HIDE DEF SD, SE
<1> QED
  BY <1>1, <1>2, <1>3, <1>4

\* A statement that leaves user_progress alone, and the submissions the
\* tallies count, leaves every tally right.
LEMMA TalliesSame ==
  ASSUME NEW d, NEW e, e.progress = d.progress, ProgressIsTally(d),
         \A u \in UserIds, p \in Problems : Tallied(e, u, p) = Tallied(d, u, p),
         \A u \in UserIds, p \in Problems : \A s \in Tallied(d, u, p) :
           /\ e.submissions[s].verdict = d.submissions[s].verdict
           /\ e.submissions[s].finished_at = d.submissions[s].finished_at
  PROVE  ProgressIsTally(e)
<1> SUFFICES ASSUME NEW u \in UserIds, NEW p \in Problems
             PROVE  IsTallyOf(e, Tallied(e, u, p), e.progress[u][p])
  BY DEF ProgressIsTally
<1>1. IsTallyOf(d, Tallied(d, u, p), d.progress[u][p])
  BY DEF ProgressIsTally
<1> QED
  BY <1>1, TallySame

-----------------------------------------------------------------------------
(* Statements on submissions.                                              *)

\* The database d with the row r for the submission s.
WithRow(d, s, r) == [d EXCEPT !.submissions[s] = r]

\* What writing one row of submissions changes, and what it does not.
LEMMA RowWritten ==
  ASSUME NEW d \in Databases, NEW s \in SubmissionIds, NEW r \in SubmissionRow,
         NEW e, e = WithRow(d, s, r)
  PROVE  /\ e.users = d.users /\ e.problems = d.problems
         /\ e.runs = d.runs /\ e.progress = d.progress
         /\ e.submissions[s] = r
         /\ \A q \in SubmissionIds \ {s} : e.submissions[q] = d.submissions[q]
         /\ Submissions(e) = Submissions(d) \cup {s}
<1>1. r # NULL
  BY TablesAssumption
<1>2. /\ e.users = d.users /\ e.problems = d.problems
      /\ e.runs = d.runs /\ e.progress = d.progress
      /\ e.submissions[s] = r
      /\ \A q \in SubmissionIds \ {s} : e.submissions[q] = d.submissions[q]
  BY DEF Databases, WithRow
<1>3. Submissions(e) = Submissions(d) \cup {s}
  BY <1>1, <1>2 DEF Submissions, SubmissionExists
<1> QED
  BY <1>2, <1>3

\* A row in order, that refers to rows that are there, keeps the times of the
\* table in order and its references good.
LEMMA RowWrittenSound ==
  ASSUME NEW d \in Databases, NEW s \in SubmissionIds, NEW r \in SubmissionRow,
         NEW e, e = WithRow(d, s, r), NEW now,
         TimesInOrder(d, now), NothingDangles(d), InOrder(r, now),
         UserExists(d, r.user), ProblemExists(d, r.problem)
  PROVE  TimesInOrder(e, now) /\ NothingDangles(e)
<1>1. /\ e.users = d.users /\ e.problems = d.problems
      /\ e.runs = d.runs /\ e.progress = d.progress
      /\ e.submissions[s] = r
      /\ \A q \in SubmissionIds \ {s} : e.submissions[q] = d.submissions[q]
      /\ Submissions(e) = Submissions(d) \cup {s}
  BY RowWritten
<1>2. TimesInOrder(e, now)
  BY <1>1 DEF TimesInOrder, Submissions
<1>3. NothingDangles(e)
  <2>1. \A q \in Submissions(e) : /\ UserExists(e, e.submissions[q].user)
                                  /\ ProblemExists(e, e.submissions[q].problem)
    BY <1>1 DEF NothingDangles, UserExists, ProblemExists, Submissions
  <2>2. \A q \in SubmissionIds : SubmissionExists(d, q) => SubmissionExists(e, q)
    BY <1>1 DEF Submissions
  <2>3. \A q \in e.runs : SubmissionExists(e, q.submission)
    BY <1>1, <2>2 DEF NothingDangles, Databases, RunRow
  <2> QED
    BY <1>1, <2>1, <2>3 DEF NothingDangles, UserExists, ProblemExists
<1> QED
  BY <1>2, <1>3

\* A row without a tallied verdict, in place of one without a verdict or of
\* none, moves no tally.
LEMMA RowWrittenUntallied ==
  ASSUME NEW d \in Databases, NEW s \in SubmissionIds, NEW r \in SubmissionRow,
         NEW e, e = WithRow(d, s, r),
         ~SubmissionExists(d, s) \/ d.submissions[s].verdict = NULL,
         r.verdict = NULL \/ ~Counts(r.verdict),
         ProgressIsTally(d)
  PROVE  ProgressIsTally(e)
<1>1. /\ e.progress = d.progress
      /\ e.submissions[s] = r
      /\ \A q \in SubmissionIds \ {s} : e.submissions[q] = d.submissions[q]
      /\ Submissions(e) = Submissions(d) \cup {s}
  BY RowWritten
<1>2. ASSUME NEW u \in UserIds, NEW p \in Problems
      PROVE  /\ s \notin Tallied(d, u, p) /\ s \notin Tallied(e, u, p)
             /\ Tallied(e, u, p) = Tallied(d, u, p)
  BY <1>1 DEF Tallied, Submissions
<1>3. ASSUME NEW u \in UserIds, NEW p \in Problems, NEW q \in Tallied(d, u, p)
      PROVE  e.submissions[q] = d.submissions[q]
  <2>1. q \in SubmissionIds \ {s}
    BY <1>2 DEF Tallied, Submissions
  <2> QED
    BY <1>1, <2>1
<1> QED
  BY <1>1, <1>2, <1>3, TalliesSame

\* INSERT INTO submissions, at any time since its id was generated.
LEMMA InsertSubmissionSound ==
  ASSUME NEW d \in Databases, NEW s \in SubmissionIds, NEW n \in NewSubmission,
         NEW minted \in Nat, NEW now \in Nat, minted <= now,
         Sound(d, now), ~SubmissionExists(d, s), CanInsertSubmission(d, n)
  PROVE  Sound(InsertSubmission(d, s, n, minted), now)
<1> DEFINE r == [user |-> n.user, problem |-> n.problem, hash |-> n.hash,
                 status |-> "QUEUED", verdict |-> NULL,
                 created_at |-> minted, started_at |-> NULL, finished_at |-> NULL]
           e == InsertSubmission(d, s, n, minted)
<1>1. r \in SubmissionRow
  BY DEF NewSubmission, SubmissionRow, Statuses, Optional
<1>2. e = WithRow(d, s, r)
  BY DEF InsertSubmission, WithRow
<1>3. /\ r.user = n.user /\ r.problem = n.problem /\ r.verdict = NULL
      /\ r.status = "QUEUED" /\ r.created_at = minted
      /\ r.started_at = NULL /\ r.finished_at = NULL
  OBVIOUS
<1> HIDE DEF r, e
<1>4. InOrder(r, now)
  BY <1>3 DEF InOrder
<1>5. TimesInOrder(e, now) /\ NothingDangles(e)
  BY <1>1, <1>2, <1>3, <1>4, RowWrittenSound DEF Sound, CanInsertSubmission
<1>6. ProgressIsTally(e)
  BY <1>1, <1>2, <1>3, RowWrittenUntallied DEF Sound
<1> QED
  BY <1>5, <1>6 DEF Sound, e

\* set_submission_status: the UPDATE after its check.
LEMMA WriteStatusSound ==
  ASSUME NEW d \in Databases, NEW s \in SubmissionIds, SubmissionExists(d, s),
         NEW st \in Statuses, NEW now \in Nat, Sound(d, now),
         CanTransitionTo(d.submissions[s].status, st)
  PROVE  Sound(WriteStatus(d, s, st, now), now)
<1> DEFINE o == d.submissions[s]
           r == Moved(o, st, now)
           e == WriteStatus(d, s, st, now)
<1>1. o \in SubmissionRow /\ InOrder(o, now) /\ s \in Submissions(d)
  BY SubmissionTyped DEF Sound, TimesInOrder, Submissions
<1>2. r \in SubmissionRow /\ InOrder(r, now) /\ o.verdict = NULL
  BY <1>1, RowsTyped, MovedInOrder DEF Verdicts
<1>3. e = WithRow(d, s, r)
  BY DEF WriteStatus, WithRow
<1>4. r.user = o.user /\ r.problem = o.problem /\ r.verdict = NULL
  BY <1>1, <1>2 DEF Moved, SubmissionRow
<1>5. UserExists(d, r.user) /\ ProblemExists(d, r.problem)
  BY <1>1, <1>4 DEF Sound, NothingDangles
<1> HIDE DEF o, r, e
<1>6. TimesInOrder(e, now) /\ NothingDangles(e)
  BY <1>2, <1>3, <1>5, RowWrittenSound DEF Sound
<1>7. ProgressIsTally(e)
  BY <1>2, <1>3, <1>4, RowWrittenUntallied DEF Sound, o
<1> QED
  BY <1>6, <1>7 DEF Sound, e

\* finish_submission: its first UPDATE leaves a sound database when the verdict
\* does not count, and one whose tally is a verdict behind when it does.
LEMMA WriteVerdictSound ==
  ASSUME NEW d \in Databases, NEW s \in SubmissionIds, SubmissionExists(d, s),
         NEW v \in Verdicts, NEW now \in Nat, Sound(d, now),
         CanTransitionTo(d.submissions[s].status, "DONE")
  PROVE  LET e == WriteVerdict(d, s, v, now)
         IN  IF Counts(v) THEN Almost(e, s, v, now) ELSE Sound(e, now)
<1> DEFINE o == d.submissions[s]
           r == Judged(o, v, now)
           e == WriteVerdict(d, s, v, now)
<1>1. o \in SubmissionRow /\ InOrder(o, now) /\ s \in Submissions(d)
  BY SubmissionTyped DEF Sound, TimesInOrder, Submissions
<1>2. r \in SubmissionRow /\ InOrder(r, now) /\ o.verdict = NULL
  BY <1>1, RowsTyped, JudgedInOrder
<1>3. e = WithRow(d, s, r)
  BY DEF WriteVerdict, WithRow
<1>4. /\ r.user = o.user /\ r.problem = o.problem
      /\ r.verdict = v /\ r.finished_at = now
  BY <1>1 DEF Judged, SubmissionRow
<1>5. UserExists(d, r.user) /\ ProblemExists(d, r.problem)
  BY <1>1, <1>4 DEF Sound, NothingDangles
<1> HIDE DEF r, e
<1>6. TimesInOrder(e, now) /\ NothingDangles(e)
  BY <1>2, <1>3, <1>5, RowWrittenSound DEF Sound
<1>7. CASE ~Counts(v)
  <2>1. ProgressIsTally(e)
    BY <1>2, <1>3, <1>4, <1>7, RowWrittenUntallied DEF Sound
  <2> QED
    BY <1>6, <1>7, <2>1 DEF Sound, e
<1>8. CASE Counts(v)
  <2>1. /\ e.progress = d.progress
        /\ e.submissions[s] = r
        /\ \A q \in SubmissionIds \ {s} : e.submissions[q] = d.submissions[q]
        /\ Submissions(e) = Submissions(d) \cup {s}
    BY <1>2, <1>3, RowWritten
  <2>2. ASSUME NEW u \in UserIds, NEW p \in Problems
        PROVE  IsTallyOf(e, Tallied(e, u, p) \ {s}, e.progress[u][p])
    <3>1. Tallied(e, u, p) \ {s} = Tallied(d, u, p)
      BY <1>2, <2>1 DEF Tallied, Submissions
    <3>2. \A q \in Tallied(d, u, p) : e.submissions[q] = d.submissions[q]
      BY <2>1, <3>1 DEF Tallied, Submissions
    <3>3. IsTallyOf(d, Tallied(d, u, p), d.progress[u][p])
      BY DEF Sound, ProgressIsTally
    <3> QED
      BY <2>1, <3>1, <3>2, <3>3, TallySame
  <2>3. SubmissionExists(e, s)
    BY <1>2, <2>1, TablesAssumption DEF SubmissionExists
  <2>4. Almost(e, s, v, now)
    BY <1>4, <1>6, <1>8, <2>1, <2>2, <2>3 DEF Almost
  <2> QED
    BY <1>8, <2>4 DEF e
<1> QED
  BY <1>7, <1>8

-----------------------------------------------------------------------------
(* Statements on user_progress.                                            *)

\* What makes a row the tally of some submissions.
LEMMA TallyMade ==
  ASSUME NEW d, NEW T, T # {}, NEW r \in ProgressRow, r.attempts = Cardinality(T),
         \/ /\ \A q \in T : ~IsAccepted(d.submissions[q].verdict)
            /\ r.solved_at = NULL
         \/ \E q \in T :
              /\ IsAccepted(d.submissions[q].verdict)
              /\ r.solved_at = d.submissions[q].finished_at
              /\ \A w \in T : IsAccepted(d.submissions[w].verdict) =>
                              r.solved_at <= d.submissions[w].finished_at
  PROVE  IsTallyOf(d, T, r)
BY TablesAssumption DEF IsTallyOf

\* One more tallied verdict: the tally of T and s, from the tally of T, when s
\* was judged after all of T.
LEMMA TallyGrows ==
  ASSUME NEW d \in Databases, NEW T \in SUBSET SubmissionIds, NEW s \in SubmissionIds \ T,
         NEW row \in Optional(ProgressRow), IsTallyOf(d, T, row),
         d.submissions[s].verdict \in Verdicts,
         NEW now \in Nat, d.submissions[s].finished_at = now,
         \A q \in T : /\ d.submissions[q].finished_at \in Nat
                      /\ d.submissions[q].finished_at <= now
  PROVE  LET v == d.submissions[s].verdict
         IN  /\ row # NULL => IsTallyOf(d, T \cup {s}, Bumped(row, v, now))
             /\ row = NULL => IsTallyOf(d, T \cup {s}, FirstProgress(v, now))
<1> DEFINE v == d.submissions[s].verdict
           S == T \cup {s}
           fin(q) == d.submissions[q].finished_at
           acc(q) == IsAccepted(d.submissions[q].verdict)
<1>1. /\ IsFiniteSet(T) /\ Cardinality(T) \in Nat
      /\ Cardinality(S) = Cardinality(T) + 1
  BY FS_Subset, FS_AddElement, FS_CardinalityType, TablesAssumption
<1>2. Cardinality({}) = 0
  BY FS_EmptySet
<1>3. NULL \notin Nat
  BY TablesAssumption
<1>4. CASE row # NULL
  <2> DEFINE r == Bumped(row, v, now)
  <2>1. row \in ProgressRow
    BY <1>4 DEF Optional
  <2>2. /\ row.attempts = Cardinality(T)
        /\ \/ (\A q \in T : ~acc(q)) /\ row.solved_at = NULL
           \/ \E q \in T : /\ acc(q) /\ row.solved_at = fin(q)
                          /\ \A w \in T : acc(w) => row.solved_at <= fin(w)
    BY <1>4 DEF IsTallyOf
  <2>3. /\ r \in ProgressRow /\ r.attempts = Cardinality(S)
        /\ row.solved_at = NULL => r.solved_at = SolvedAt(v, now)
        /\ row.solved_at # NULL => r.solved_at = row.solved_at
    <3>1. r \in ProgressRow
      BY <2>1, RowsTyped
    <3> QED
      BY <1>1, <2>1, <2>2, <3>1 DEF Bumped, ProgressRow
  <2> HIDE DEF r
  <2>4. \/ (\A q \in S : ~acc(q)) /\ r.solved_at = NULL
        \/ \E q \in S : /\ acc(q) /\ r.solved_at = fin(q)
                       /\ \A w \in S : acc(w) => r.solved_at <= fin(w)
    <3>1. CASE (\A q \in T : ~acc(q)) /\ row.solved_at = NULL
      BY <2>3, <3>1 DEF SolvedAt
    <3>2. ASSUME NEW q \in T, acc(q), row.solved_at = fin(q),
                 \A w \in T : acc(w) => row.solved_at <= fin(w)
          PROVE  /\ q \in S /\ acc(q) /\ r.solved_at = fin(q)
                 /\ \A w \in S : acc(w) => r.solved_at <= fin(w)
      BY <1>3, <2>3, <3>2
    <3> QED
      BY <2>2, <3>1, <3>2
  <2>5. IsTallyOf(d, S, r)
    BY <2>3, <2>4, TallyMade
  <2> QED
    BY <1>4, <2>5 DEF r
<1>5. CASE row = NULL
  <2> DEFINE r == FirstProgress(v, now)
  <2>1. T = {}
    BY <1>5 DEF IsTallyOf
  <2>2. /\ r \in ProgressRow /\ r.attempts = Cardinality(S)
        /\ r.solved_at = SolvedAt(v, now)
    BY <1>1, <1>2, <2>1, RowsTyped DEF FirstProgress
  <2> HIDE DEF r
  <2>3. \/ (\A q \in S : ~acc(q)) /\ r.solved_at = NULL
        \/ \E q \in S : /\ acc(q) /\ r.solved_at = fin(q)
                       /\ \A w \in S : acc(w) => r.solved_at <= fin(w)
    BY <2>1, <2>2 DEF SolvedAt
  <2>4. IsTallyOf(d, S, r)
    BY <2>2, <2>3, TallyMade
  <2> QED
    BY <1>5, <2>4 DEF r
<1> QED
  BY <1>4, <1>5

\* The database d with the row r for the progress of u on p.
WithProgress(d, u, p, r) == [d EXCEPT !.progress[u][p] = r]

\* What writing one row of user_progress changes, and what it does not.
LEMMA ProgressWritten ==
  ASSUME NEW d \in Databases, NEW u \in UserIds, NEW p \in Problems, NEW r,
         NEW e, e = WithProgress(d, u, p, r)
  PROVE  /\ e.users = d.users /\ e.problems = d.problems
         /\ e.runs = d.runs /\ e.submissions = d.submissions
         /\ e.progress[u][p] = r
         /\ \A w \in UserIds, q \in Problems :
              w # u \/ q # p => e.progress[w][q] = d.progress[w][q]
BY DEF Databases, WithProgress

\* What is left to write once the verdict of s is in its row: the progress of
\* its learner, and a database that is sound again.
LEMMA ProgressCatchesUp ==
  ASSUME NEW d \in Databases, NEW s \in SubmissionIds, NEW v \in Verdicts,
         NEW now \in Nat, Almost(d, s, v, now),
         NEW r \in ProgressRow,
         LET old == d.progress[d.submissions[s].user][d.submissions[s].problem]
         IN  IF old = NULL THEN r = FirstProgress(v, now) ELSE r = Bumped(old, v, now)
  PROVE  Sound(WithProgress(d, d.submissions[s].user, d.submissions[s].problem, r), now)
<1> DEFINE u == d.submissions[s].user
           p == d.submissions[s].problem
           e == WithProgress(d, u, p, r)
<1>1. d.submissions[s] \in SubmissionRow /\ s \in Submissions(d)
  BY SubmissionTyped DEF Almost, Submissions
<1>2. u \in UserIds /\ p \in Problems /\ UserExists(d, u) /\ ProblemExists(d, p)
  BY <1>1 DEF Almost, NothingDangles, SubmissionRow
<1>3. v # NULL /\ d.submissions[s].verdict = v /\ d.submissions[s].finished_at = now
  BY TablesAssumption DEF Almost
<1> DEFINE T == Tallied(d, u, p) \ {s}
<1>4. /\ s \in Tallied(d, u, p) /\ T \cup {s} = Tallied(d, u, p)
      /\ T \in SUBSET SubmissionIds
  BY <1>1, <1>3 DEF Tallied, Submissions, Almost
<1>5. \A q \in T : /\ d.submissions[q].finished_at \in Nat
                   /\ d.submissions[q].finished_at <= now
  BY <1>4, SubmissionTyped DEF Tallied, Submissions, Almost, TimesInOrder, InOrder,
     SubmissionRow, Optional
<1>6. d.progress[u][p] \in Optional(ProgressRow)
  BY <1>2 DEF Databases
<1>7. IsTallyOf(d, T, d.progress[u][p])
  BY <1>2 DEF Almost
<1>8. IsTallyOf(d, Tallied(d, u, p), r)
  <2>1. s \in SubmissionIds \ T
    OBVIOUS
  <2> HIDE DEF T, u, p
  <2>2. /\ d.progress[u][p] # NULL => IsTallyOf(d, T \cup {s}, Bumped(d.progress[u][p], v, now))
        /\ d.progress[u][p] = NULL => IsTallyOf(d, T \cup {s}, FirstProgress(v, now))
    BY <1>3, <1>4, <1>5, <1>6, <1>7, <2>1, TallyGrows
  <2> QED
    BY <1>4, <2>2 DEF u, p
<1>0. e = WithProgress(d, u, p, r)
  OBVIOUS
<1> HIDE DEF e, u, p, T
<1>9. /\ e.users = d.users /\ e.problems = d.problems
      /\ e.runs = d.runs /\ e.submissions = d.submissions
      /\ e.progress[u][p] = r
      /\ \A w \in UserIds, q \in Problems :
           w # u \/ q # p => e.progress[w][q] = d.progress[w][q]
  BY <1>0, <1>2, ProgressWritten
<1>10. \A w \in UserIds, q \in Problems : Tallied(e, w, q) = Tallied(d, w, q)
  BY <1>9 DEF Tallied, Submissions, SubmissionExists
<1>11. TimesInOrder(e, now)
  BY <1>9 DEF Almost, TimesInOrder, Submissions, SubmissionExists
<1>12. NothingDangles(e)
  BY <1>2, <1>9 DEF Almost, NothingDangles, UserExists, ProblemExists, Submissions,
     SubmissionExists
<1>13. ASSUME NEW w \in UserIds, NEW q \in Problems
       PROVE  IsTallyOf(e, Tallied(e, w, q), e.progress[w][q])
  <2>1. IsTallyOf(d, Tallied(d, w, q), e.progress[w][q])
    <3>1. CASE w = u /\ q = p
      BY <1>8, <1>9, <3>1
    <3>2. CASE w # u \/ q # p
      <4>1. s \notin Tallied(d, w, q)
        BY <3>2 DEF Tallied, u, p
      <4>2. Tallied(d, w, q) \ {s} = Tallied(d, w, q)
        BY <4>1
      <4> QED
        BY <1>9, <3>2, <4>2 DEF Almost
    <3> QED
      BY <3>1, <3>2
  <2> QED
    BY <1>9, <1>10, <2>1, TallySame
<1> QED
  BY <1>11, <1>12, <1>13 DEF Sound, ProgressIsTally, e, u, p

\* finish_submission: UPDATE user_progress.
LEMMA UpdateProgressSound ==
  ASSUME NEW d \in Databases, NEW s \in SubmissionIds, NEW v \in Verdicts,
         NEW now \in Nat, Almost(d, s, v, now),
         d.progress[d.submissions[s].user][d.submissions[s].problem] # NULL
  PROVE  Sound(UpdateProgress(d, d.submissions[s].user, d.submissions[s].problem, v, now), now)
<1> DEFINE u == d.submissions[s].user
           p == d.submissions[s].problem
<1>1. u \in UserIds /\ p \in Problems
  BY SubmissionTyped DEF Almost, SubmissionRow
<1>2. Bumped(d.progress[u][p], v, now) \in ProgressRow
  BY <1>1, RowsTyped DEF Databases, Optional
<1>3. UpdateProgress(d, u, p, v, now) = WithProgress(d, u, p, Bumped(d.progress[u][p], v, now))
  BY DEF UpdateProgress, WithProgress
<1> QED
  BY <1>2, <1>3, ProgressCatchesUp

\* finish_submission: INSERT INTO user_progress.
LEMMA InsertProgressSound ==
  ASSUME NEW d \in Databases, NEW s \in SubmissionIds, NEW v \in Verdicts,
         NEW now \in Nat, Almost(d, s, v, now),
         d.progress[d.submissions[s].user][d.submissions[s].problem] = NULL
  PROVE  Sound(InsertProgress(d, d.submissions[s].user, d.submissions[s].problem, v, now), now)
<1>1. FirstProgress(v, now) \in ProgressRow
  BY RowsTyped
<1> QED
  BY <1>1, ProgressCatchesUp DEF InsertProgress, WithProgress

-----------------------------------------------------------------------------
(* Statements on users, problems and runs: submissions and user_progress   *)
(* are not touched.                                                        *)

\* Times and tallies are about submissions and user_progress alone.
LEMMA OtherTables ==
  ASSUME NEW d, NEW e, NEW now, e.submissions = d.submissions, e.progress = d.progress,
         TimesInOrder(d, now), ProgressIsTally(d)
  PROVE  /\ Submissions(e) = Submissions(d)
         /\ TimesInOrder(e, now) /\ ProgressIsTally(e)
<1>1. Submissions(e) = Submissions(d)
  BY DEF Submissions, SubmissionExists
<1>2. TimesInOrder(e, now)
  BY <1>1 DEF TimesInOrder
<1>3. \A u \in UserIds, p \in Problems : Tallied(e, u, p) = Tallied(d, u, p)
  BY <1>1 DEF Tallied
<1>4. ProgressIsTally(e)
  BY <1>3, TalliesSame
<1> QED
  BY <1>1, <1>2, <1>4

\* create_user.
LEMMA InsertUserSound ==
  ASSUME NEW d \in Databases, NEW u \in UserIds, NEW r \in UserRow, NEW now,
         Sound(d, now)
  PROVE  Sound(InsertUser(d, u, r), now)
<1> DEFINE e == InsertUser(d, u, r)
<1>1. /\ e.submissions = d.submissions /\ e.progress = d.progress
      /\ e.problems = d.problems /\ e.runs = d.runs
      /\ \A w \in UserIds : UserExists(d, w) => UserExists(e, w)
  BY TablesAssumption DEF InsertUser, Databases, UserExists
<1> HIDE DEF e
<1>2. Submissions(e) = Submissions(d) /\ TimesInOrder(e, now) /\ ProgressIsTally(e)
  BY <1>1, OtherTables DEF Sound
<1>3. \A s \in Submissions(d) : d.submissions[s].user \in UserIds
  BY SubmissionTyped DEF Submissions, SubmissionRow
<1>4. NothingDangles(e)
  BY <1>1, <1>2, <1>3 DEF Sound, NothingDangles, ProblemExists, SubmissionExists
<1> QED
  BY <1>2, <1>4 DEF Sound, e

\* replace_problems: the upsert of a row.
LEMMA UpsertProblemSound ==
  ASSUME NEW d \in Databases, NEW p \in Problems, NEW c \in Contents, NEW now,
         Sound(d, now)
  PROVE  Sound(UpsertProblem(d, p, c), now)
<1> DEFINE e == UpsertProblem(d, p, c)
<1>1. /\ e.submissions = d.submissions /\ e.progress = d.progress
      /\ e.users = d.users /\ e.runs = d.runs
      /\ \A q \in Problems : ProblemExists(d, q) => ProblemExists(e, q)
  BY TablesAssumption DEF UpsertProblem, Databases, ProblemExists
<1> HIDE DEF e
<1>2. Submissions(e) = Submissions(d) /\ TimesInOrder(e, now) /\ ProgressIsTally(e)
  BY <1>1, OtherTables DEF Sound
<1>3. \A s \in Submissions(d) : d.submissions[s].problem \in Problems
  BY SubmissionTyped DEF Submissions, SubmissionRow
<1>4. NothingDangles(e)
  BY <1>1, <1>2, <1>3 DEF Sound, NothingDangles, UserExists, SubmissionExists
<1> QED
  BY <1>2, <1>4 DEF Sound, e

\* replace_problems: the DELETE of a row that its foreign keys let go.
LEMMA DeleteProblemSound ==
  ASSUME NEW d \in Databases, NEW p \in Problems, NEW now,
         Sound(d, now), CanDeleteProblem(d, p)
  PROVE  Sound(DeleteProblem(d, p), now)
<1> DEFINE e == DeleteProblem(d, p)
<1>1. /\ e.submissions = d.submissions /\ e.progress = d.progress
      /\ e.users = d.users /\ e.runs = d.runs
      /\ \A q \in Problems \ {p} : ProblemExists(d, q) => ProblemExists(e, q)
  BY DEF DeleteProblem, Databases, ProblemExists
<1> HIDE DEF e
<1>2. Submissions(e) = Submissions(d) /\ TimesInOrder(e, now) /\ ProgressIsTally(e)
  BY <1>1, OtherTables DEF Sound
<1>3. \A s \in Submissions(d) : d.submissions[s].problem \in Problems \ {p}
  BY SubmissionTyped DEF Submissions, SubmissionRow, CanDeleteProblem
<1>4. \A u \in UserIds, q \in Problems : d.progress[u][q] # NULL => q # p
  BY DEF CanDeleteProblem
<1>5. NothingDangles(e)
  BY <1>1, <1>2, <1>3, <1>4 DEF Sound, NothingDangles, UserExists, SubmissionExists
<1> QED
  BY <1>2, <1>5 DEF Sound, e

\* record_run.
LEMMA InsertRunSound ==
  ASSUME NEW d \in Databases, NEW r \in RunRow, NEW now,
         Sound(d, now), CanReferToSubmission(d, r)
  PROVE  Sound(InsertRun(d, r), now)
<1> DEFINE e == InsertRun(d, r)
<1>1. /\ e.submissions = d.submissions /\ e.progress = d.progress
      /\ e.users = d.users /\ e.problems = d.problems
      /\ e.runs = d.runs \cup {r}
  BY DEF InsertRun, Databases
<1> HIDE DEF e
<1>2. Submissions(e) = Submissions(d) /\ TimesInOrder(e, now) /\ ProgressIsTally(e)
  BY <1>1, OtherTables DEF Sound
<1>3. NothingDangles(e)
  BY <1>1, <1>2 DEF Sound, NothingDangles, UserExists, ProblemExists, SubmissionExists,
     CanReferToSubmission
<1> QED
  BY <1>2, <1>3 DEF Sound, e

-----------------------------------------------------------------------------
\* No statement but an INSERT makes a submission exist or vanish.
LEMMA StatementsKeepSubmissions ==
  ASSUME NEW d \in Databases
  PROVE  /\ \A u \in UserIds : \A r : Submissions(InsertUser(d, u, r)) = Submissions(d)
         /\ \A p \in Problems : \A c : Submissions(UpsertProblem(d, p, c)) = Submissions(d)
         /\ \A p \in Problems : Submissions(DeleteProblem(d, p)) = Submissions(d)
         /\ \A r : Submissions(InsertRun(d, r)) = Submissions(d)
         /\ \A u \in UserIds, p \in Problems : \A v, now :
              /\ Submissions(UpdateProgress(d, u, p, v, now)) = Submissions(d)
              /\ Submissions(InsertProgress(d, u, p, v, now)) = Submissions(d)
         /\ \A s \in Submissions(d), st \in Statuses, v \in Verdicts, now \in Nat :
              /\ Submissions(WriteStatus(d, s, st, now)) = Submissions(d)
              /\ Submissions(WriteVerdict(d, s, v, now)) = Submissions(d)
<1>1. /\ \A u \in UserIds : \A r : Submissions(InsertUser(d, u, r)) = Submissions(d)
      /\ \A p \in Problems : \A c : Submissions(UpsertProblem(d, p, c)) = Submissions(d)
      /\ \A p \in Problems : Submissions(DeleteProblem(d, p)) = Submissions(d)
      /\ \A r : Submissions(InsertRun(d, r)) = Submissions(d)
  BY DEF Submissions, SubmissionExists, InsertUser, UpsertProblem, DeleteProblem, InsertRun,
     Databases
<1>2. \A u \in UserIds, p \in Problems : \A v, now :
        /\ Submissions(UpdateProgress(d, u, p, v, now)) = Submissions(d)
        /\ Submissions(InsertProgress(d, u, p, v, now)) = Submissions(d)
  BY DEF Submissions, SubmissionExists, UpdateProgress, InsertProgress, Databases
<1>3. ASSUME NEW s \in Submissions(d), NEW st \in Statuses, NEW v \in Verdicts, NEW now \in Nat
      PROVE  /\ Submissions(WriteStatus(d, s, st, now)) = Submissions(d)
             /\ Submissions(WriteVerdict(d, s, v, now)) = Submissions(d)
  <2>1. s \in SubmissionIds /\ d.submissions[s] \in SubmissionRow
    BY SubmissionTyped DEF Submissions
  <2>2. /\ Moved(d.submissions[s], st, now) \in SubmissionRow
        /\ Judged(d.submissions[s], v, now) \in SubmissionRow
    BY <2>1, RowsTyped
  <2>3. /\ WriteStatus(d, s, st, now) = WithRow(d, s, Moved(d.submissions[s], st, now))
        /\ WriteVerdict(d, s, v, now) = WithRow(d, s, Judged(d.submissions[s], v, now))
    BY DEF WriteStatus, WriteVerdict, WithRow
  <2>4. Submissions(d) \cup {s} = Submissions(d)
    OBVIOUS
  <2> QED
    BY <2>1, <2>2, <2>3, <2>4, RowWritten
<1> QED
  BY <1>1, <1>2, <1>3
=============================================================================
