----------------------------- MODULE StoreProofs -----------------------------
(***************************************************************************)
(* SqliteStore keeps its types, its write lock and its database sound, for *)
(* every value of the constants: any number of tasks, submissions and      *)
(* connections, any calls, and any timeout, failure, dropped call or crash *)
(* between two statements.  And it implements StoreSpec: each method takes *)
(* effect at one step, or not at all, and its answer tells which.  On the  *)
(* way: what is committed is never taken back, an answer of Ok is never    *)
(* untrue, and one finish wins.                                            *)
(***************************************************************************)
EXTENDS StoreProperties, DatabaseTheorems

-----------------------------------------------------------------------------
(* Types, and the exclusion of writers by BEGIN IMMEDIATE.                 *)

\* What a task at each stage has at hand: its call and the id it minted, and
\* in a transaction a database to work on.
TaskOK(t) ==
  /\ stage[t] # "idle" => call[t] \in Calls
  /\ stage[t] # "idle" /\ call[t].op = "create_submission" => minted[t] \in SubmissionIds
  /\ stage[t] # "idle" /\ call[t].op = "create_user" => minted[t] \in UserIds
  /\ stage[t] = "begin" => call[t].op \in Transactional
  /\ stage[t] \in Transacting => view[t] \in Databases
  /\ stage[t] \in {"upsert", "delete"} => call[t].op = "replace_problems"
  /\ stage[t] \in {"select_status", "update_status"} =>
       call[t].op = "set_submission_status"
  /\ stage[t] \in {"select_finish", "update_done", "update_progress", "insert_progress"} =>
       call[t].op = "finish_submission"
  /\ stage[t] \in {"update_status", "update_done", "update_progress", "insert_progress"} =>
       SubmissionExists(view[t], call[t].id)

\* The inductive invariant behind TypeOK and OneWriter.
TypeInv ==
  /\ TypeOK
  /\ \A t \in Tasks : TaskOK(t)
  /\ OneWriter

-----------------------------------------------------------------------------
\* The fields of a call, by its method.
LEMMA CallTyped ==
  ASSUME NEW c \in Calls
  PROVE  /\ c # NULL
         /\ c.op \in {"create_user", "replace_problems", "create_submission",
                      "set_submission_status", "finish_submission", "record_run"}
         /\ c.op = "create_user" => c.account \in UserRow
         /\ c.op = "replace_problems" => c.rows \in Seq(CatalogRow)
         /\ c.op = "create_submission" => c.new \in NewSubmission
         /\ c.op = "set_submission_status" =>
              c.id \in SubmissionIds /\ c.status \in Statuses
         /\ c.op = "finish_submission" =>
              c.id \in SubmissionIds /\ c.verdict \in Verdicts
         /\ c.op = "record_run" => c.run \in RunRow
BY CallsAssumption, SMTT(30) DEF AllCalls

\* The ids a method may mint.
LEMMA GeneratedTyped ==
  ASSUME NEW c \in Calls, NEW id \in Generated(c)
  PROVE  /\ id \in Optional(SubmissionIds \cup UserIds)
         /\ c.op = "create_submission" => id \in SubmissionIds
         /\ c.op = "create_user" => id \in UserIds
BY CallTyped DEF Generated, Optional

-----------------------------------------------------------------------------
\* A store that was just opened satisfies the invariant.
LEMMA TypeInit == Init => TypeInv
<1> SUFFICES ASSUME Init PROVE TypeInv
  OBVIOUS
<1>1. TypeOK
  BY StoreAssumption DEF Init, TypeOK, Optional, Stages
<1>2. \A t \in Tasks : TaskOK(t)
  BY DEF Init, TaskOK, Transacting
<1>3. OneWriter
  BY StoreAssumption DEF Init, OneWriter, Transacting
<1> QED
  BY <1>1, <1>2, <1>3 DEF TypeInv

\* The first statement of a transaction is one of its method's.
LEMMA FirstStatementTyped ==
  ASSUME NEW op \in Transactional
  PROVE  /\ op = "replace_problems" => FirstStatement(op) = "upsert"
         /\ op = "set_submission_status" => FirstStatement(op) = "select_status"
         /\ op = "finish_submission" => FirstStatement(op) = "select_finish"
BY DEF FirstStatement, Transactional

-----------------------------------------------------------------------------
\* Every step of a task keeps TypeInv.
LEMMA TypeStep ==
  ASSUME TypeInv, NEW t \in Tasks,
         Step(t) \/ Cancel(t) \/ StatementFails(t) \/ CorruptRow(t)
  PROVE  TypeInv'
<1> USE StoreAssumption DEF TypeInv, TypeOK, Optional, GoTo
<1>0. stage[t] # "idle" => call[t] \in Calls
  BY DEF TaskOK
<1>1. CASE Acquire(t)
  <2>1. TypeOK'
    BY <1>1 DEF Acquire, Finished, Abort, Release, Clear, Stages, Transacting, Answers, Broken, TaskOK
  <2>2. \A o \in Tasks : TaskOK(o)'
    BY <1>1 DEF Acquire, Finished, Abort, Release, Clear, Stages, Transacting, TaskOK
  <2>3. OneWriter'
    BY <1>1 DEF Acquire, Finished, Abort, Release, Clear, Stages, Transacting, OneWriter
  <2> QED
    BY <2>1, <2>2, <2>3
<1>2. CASE PoolTimeout(t)
  <2>1. TypeOK'
    BY <1>2 DEF PoolTimeout, Finished, Abort, Release, Clear, Stages, Transacting, Answers, Broken, TaskOK
  <2>2. \A o \in Tasks : TaskOK(o)'
    BY <1>2 DEF PoolTimeout, Finished, Abort, Release, Clear, Stages, Transacting, TaskOK
  <2>3. OneWriter'
    BY <1>2 DEF PoolTimeout, Finished, Abort, Release, Clear, Stages, Transacting, OneWriter
  <2> QED
    BY <2>1, <2>2, <2>3
<1>3. CASE BusyTimeout(t)
  <2>1. TypeOK'
    BY <1>3 DEF BusyTimeout, Finished, Abort, Release, Clear, Stages, Transacting, Answers, Broken, TaskOK
  <2>2. \A o \in Tasks : TaskOK(o)'
    BY <1>3 DEF BusyTimeout, Finished, Abort, Release, Clear, Stages, Transacting, TaskOK
  <2>3. OneWriter'
    BY <1>3 DEF BusyTimeout, Finished, Abort, Release, Clear, Stages, Transacting, OneWriter
  <2> QED
    BY <2>1, <2>2, <2>3
<1>4. CASE Begin(t)
  <2>1. (call[t].op = "replace_problems" /\ FirstStatement(call[t].op) = "upsert")
           \/ (call[t].op = "set_submission_status" /\ FirstStatement(call[t].op) = "select_status")
           \/ (call[t].op = "finish_submission" /\ FirstStatement(call[t].op) = "select_finish")
    BY <1>4, FirstStatementTyped DEF Begin, Locked, TaskOK, Transactional
  <2>2. TypeOK'
    BY <1>4, <2>1 DEF Begin, Locked, Finished, Abort, Release, Clear, Stages, Transacting, Answers, Broken, TaskOK
  <2>3. \A o \in Tasks : TaskOK(o)'
    BY <1>4, <2>1 DEF Begin, Locked, Finished, Abort, Release, Clear, Stages, Transacting, TaskOK
  <2>4. OneWriter'
    BY <1>4, <2>1 DEF Begin, Locked, Finished, Abort, Release, Clear, Stages, Transacting, OneWriter
  <2> QED
    BY <2>2, <2>3, <2>4
<1>5. CASE CreateUser(t)
  <2>1. InsertUser(db, minted[t], call[t].account) \in Databases
    BY <1>5, <1>0, CallTyped, InsertUserTyped DEF CreateUser, Inserting, TaskOK
  <2>2. TypeOK'
    BY <1>5, <2>1 DEF CreateUser, Finished, Abort, Release, Clear, Stages, Transacting, Answers, Broken, TaskOK, Inserting
  <2>3. \A o \in Tasks : TaskOK(o)'
    BY <1>5, <2>1 DEF CreateUser, Finished, Abort, Release, Clear, Stages, Transacting, TaskOK, Inserting
  <2>4. OneWriter'
    BY <1>5 DEF CreateUser, Finished, Abort, Release, Clear, Stages, Transacting, OneWriter, Inserting
  <2> QED
    BY <2>2, <2>3, <2>4
<1>6. CASE CreateSubmission(t)
  <2>1. InsertSubmission(db, minted[t], call[t].new, stamp[t]) \in Databases
    BY <1>6, <1>0, CallTyped, InsertSubmissionTyped DEF CreateSubmission, Inserting, TaskOK
  <2>2. TypeOK'
    BY <1>6, <2>1 DEF CreateSubmission, Finished, Abort, Release, Clear, Stages, Transacting, Answers, Broken, TaskOK, Inserting
  <2>3. \A o \in Tasks : TaskOK(o)'
    BY <1>6, <2>1 DEF CreateSubmission, Finished, Abort, Release, Clear, Stages, Transacting, TaskOK, Inserting
  <2>4. OneWriter'
    BY <1>6 DEF CreateSubmission, Finished, Abort, Release, Clear, Stages, Transacting, OneWriter, Inserting
  <2> QED
    BY <2>2, <2>3, <2>4
<1>7. CASE RecordRun(t)
  <2>1. InsertRun(db, call[t].run) \in Databases
    BY <1>7, <1>0, CallTyped, InsertRunTyped DEF RecordRun, Inserting, TaskOK
  <2>2. TypeOK'
    BY <1>7, <2>1 DEF RecordRun, Finished, Abort, Release, Clear, Stages, Transacting, Answers, Broken, TaskOK, Inserting
  <2>3. \A o \in Tasks : TaskOK(o)'
    BY <1>7, <2>1 DEF RecordRun, Finished, Abort, Release, Clear, Stages, Transacting, TaskOK, Inserting
  <2>4. OneWriter'
    BY <1>7 DEF RecordRun, Finished, Abort, Release, Clear, Stages, Transacting, OneWriter, Inserting
  <2> QED
    BY <2>2, <2>3, <2>4
<1>8. CASE UpsertRow(t)
  <2>1. call[t].rows \in Seq(CatalogRow) /\ view[t] \in Databases
    BY <1>8, <1>0, CallTyped DEF UpsertRow, TaskOK, Transacting
  <2>2. call[t].rows[row[t] + 1] \in CatalogRow
    BY <1>8, <2>1 DEF UpsertRow
  <2>3. UpsertProblem(view[t], call[t].rows[row[t] + 1].id, call[t].rows[row[t] + 1].content) \in Databases
    BY <1>8, <2>1, <2>2, UpsertProblemTyped DEF CatalogRow
  <2>4. CASE CanUpsertProblem(call[t].rows[row[t] + 1].content)
    <3>1. /\ view' = [view EXCEPT ![t] = UpsertProblem(view[t], call[t].rows[row[t] + 1].id,
                                                      call[t].rows[row[t] + 1].content)]
          /\ row' = [row EXCEPT ![t] = row[t] + 1]
          /\ UNCHANGED <<stage, answer, clock, db, lock, call, minted, stamp, dropped>>
      BY <1>8, <2>4 DEF UpsertRow
    <3>2. stage[t] = "upsert" /\ row[t] + 1 \in Nat
      BY <1>8 DEF UpsertRow
    <3>3. TypeOK'
      BY <2>3, <3>1, <3>2
    <3>4. \A o \in Tasks : TaskOK(o)'
      BY <2>3, <3>1, <3>2 DEF TaskOK, Transacting
    <3>5. OneWriter'
      BY <3>1 DEF OneWriter
    <3> QED
      BY <3>3, <3>4, <3>5
  <2>5. CASE ~CanUpsertProblem(call[t].rows[row[t] + 1].content)
    <3>1. /\ stage[t] = "upsert" /\ Abort(t, "Database")
          /\ UNCHANGED <<view, row, clock, db, lock, call, minted, stamp, dropped>>
      BY <1>8, <2>5 DEF UpsertRow
    <3>2. TypeOK'
      BY <3>1 DEF Abort, Stages, Transacting, Answers, Broken
    <3>3. \A o \in Tasks : TaskOK(o)'
      BY <3>1 DEF Abort, Stages, Transacting, TaskOK
    <3>4. OneWriter'
      BY <3>1 DEF Abort, Stages, Transacting, OneWriter
    <3> QED
      BY <3>2, <3>3, <3>4
  <2> QED
    BY <2>4, <2>5
<1>9. CASE SelectProblems(t)
  <2>1. TypeOK'
    BY <1>9 DEF SelectProblems, Finished, Abort, Release, Clear, Stages, Transacting, Answers, Broken, TaskOK
  <2>2. \A o \in Tasks : TaskOK(o)'
    BY <1>9 DEF SelectProblems, Finished, Abort, Release, Clear, Stages, Transacting, TaskOK
  <2>3. OneWriter'
    BY <1>9 DEF SelectProblems, Finished, Abort, Release, Clear, Stages, Transacting, OneWriter
  <2> QED
    BY <2>1, <2>2, <2>3
<1>10. CASE DeleteRow(t)
  <2>1. view[t] \in Databases
    BY <1>10 DEF DeleteRow, TaskOK, Transacting
  <2>2. \A p \in Problems : DeleteProblem(view[t], p) \in Databases
    BY <1>10, <2>1, DeleteProblemTyped
  <2>3. TypeOK'
    BY <1>10, <2>1, <2>2 DEF DeleteRow, Finished, Abort, Release, Clear, Stages, Transacting, Answers, Broken, TaskOK, Dropped
  <2>4. \A o \in Tasks : TaskOK(o)'
    BY <1>10, <2>1, <2>2 DEF DeleteRow, Finished, Abort, Release, Clear, Stages, Transacting, TaskOK, Dropped
  <2>5. OneWriter'
    BY <1>10 DEF DeleteRow, Finished, Abort, Release, Clear, Stages, Transacting, OneWriter, Dropped
  <2> QED
    BY <2>3, <2>4, <2>5
<1>11. CASE SelectStatus(t)
  <2>1. TypeOK'
    BY <1>11 DEF SelectStatus, Finished, Abort, Release, Clear, Stages, Transacting, Answers, Broken, TaskOK, Check
  <2>2. \A o \in Tasks : TaskOK(o)'
    BY <1>11 DEF SelectStatus, Finished, Abort, Release, Clear, Stages, Transacting, TaskOK, Check
  <2>3. OneWriter'
    BY <1>11 DEF SelectStatus, Finished, Abort, Release, Clear, Stages, Transacting, OneWriter, Check
  <2> QED
    BY <2>1, <2>2, <2>3
<1>12. CASE UpdateStatus(t)
  <2>1. WriteStatus(view[t], call[t].id, call[t].status, clock) \in Databases
    BY <1>12, <1>0, CallTyped, WriteStatusTyped DEF UpdateStatus, TaskOK, Transacting
  <2>2. TypeOK'
    BY <1>12, <2>1 DEF UpdateStatus, Finished, Abort, Release, Clear, Stages, Transacting, Answers, Broken, TaskOK
  <2>3. \A o \in Tasks : TaskOK(o)'
    BY <1>12, <2>1 DEF UpdateStatus, Finished, Abort, Release, Clear, Stages, Transacting, TaskOK
  <2>4. OneWriter'
    BY <1>12 DEF UpdateStatus, Finished, Abort, Release, Clear, Stages, Transacting, OneWriter
  <2> QED
    BY <2>2, <2>3, <2>4
<1>13. CASE SelectFinish(t)
  <2>1. TypeOK'
    BY <1>13 DEF SelectFinish, Finished, Abort, Release, Clear, Stages, Transacting, Answers, Broken, TaskOK, Check
  <2>2. \A o \in Tasks : TaskOK(o)'
    BY <1>13 DEF SelectFinish, Finished, Abort, Release, Clear, Stages, Transacting, TaskOK, Check
  <2>3. OneWriter'
    BY <1>13 DEF SelectFinish, Finished, Abort, Release, Clear, Stages, Transacting, OneWriter, Check
  <2> QED
    BY <2>1, <2>2, <2>3
<1>14. CASE UpdateDone(t)
  <2>1. WriteVerdict(view[t], call[t].id, call[t].verdict, clock) \in Databases
    BY <1>14, <1>0, CallTyped, WriteVerdictTyped DEF UpdateDone, TaskOK, Transacting
  <2>2. SubmissionExists(WriteVerdict(view[t], call[t].id, call[t].verdict, clock), call[t].id)
    BY <1>14, <1>0, CallTyped, WriteVerdictRows DEF UpdateDone, TaskOK, Transacting
  <2>3. TypeOK'
    BY <1>14, <2>1, <2>2 DEF UpdateDone, Finished, Abort, Release, Clear, Stages, Transacting, Answers, Broken, TaskOK
  <2>4. \A o \in Tasks : TaskOK(o)'
    BY <1>14, <2>1, <2>2 DEF UpdateDone, Finished, Abort, Release, Clear, Stages, Transacting, TaskOK
  <2>5. OneWriter'
    BY <1>14 DEF UpdateDone, Finished, Abort, Release, Clear, Stages, Transacting, OneWriter
  <2> QED
    BY <2>3, <2>4, <2>5
<1>15. CASE UpdateUserProgress(t)
  <2>1. Learner(t) \in UserIds /\ Attempted(t) \in Problems /\ view[t] \in Databases
           /\ call[t].verdict \in Verdicts
    BY <1>15, <1>0, CallTyped, SubmissionTyped DEF UpdateUserProgress, TaskOK, Transacting, Learner, Attempted, SubmissionRow
  <2>2. view[t].progress[Learner(t)][Attempted(t)] # NULL =>
           UpdateProgress(view[t], Learner(t), Attempted(t), call[t].verdict, stamp[t]) \in Databases
    BY <1>15, <2>1, UpdateProgressTyped
  <2>3. TypeOK'
    BY <1>15, <2>1, <2>2 DEF UpdateUserProgress, Finished, Abort, Release, Clear, Stages, Transacting, Answers, Broken, TaskOK
  <2>4. \A o \in Tasks : TaskOK(o)'
    BY <1>15, <2>1, <2>2 DEF UpdateUserProgress, Finished, Abort, Release, Clear, Stages, Transacting, TaskOK
  <2>5. OneWriter'
    BY <1>15 DEF UpdateUserProgress, Finished, Abort, Release, Clear, Stages, Transacting, OneWriter
  <2> QED
    BY <2>3, <2>4, <2>5
<1>16. CASE InsertUserProgress(t)
  <2>1. Learner(t) \in UserIds /\ Attempted(t) \in Problems /\ view[t] \in Databases
           /\ call[t].verdict \in Verdicts
    BY <1>16, <1>0, CallTyped, SubmissionTyped DEF InsertUserProgress, TaskOK, Transacting, Learner, Attempted, SubmissionRow
  <2>2. InsertProgress(view[t], Learner(t), Attempted(t), call[t].verdict, stamp[t]) \in Databases
    BY <1>16, <2>1, InsertProgressTyped
  <2>3. TypeOK'
    BY <1>16, <2>1, <2>2 DEF InsertUserProgress, Finished, Abort, Release, Clear, Stages, Transacting, Answers, Broken, TaskOK
  <2>4. \A o \in Tasks : TaskOK(o)'
    BY <1>16, <2>1, <2>2 DEF InsertUserProgress, Finished, Abort, Release, Clear, Stages, Transacting, TaskOK
  <2>5. OneWriter'
    BY <1>16 DEF InsertUserProgress, Finished, Abort, Release, Clear, Stages, Transacting, OneWriter
  <2> QED
    BY <2>3, <2>4, <2>5
<1>17. CASE Commit(t)
  <2>1. TypeOK'
    BY <1>17 DEF Commit, Finished, Abort, Release, Clear, Stages, Transacting, Answers, Broken, TaskOK
  <2>2. \A o \in Tasks : TaskOK(o)'
    BY <1>17 DEF Commit, Finished, Abort, Release, Clear, Stages, Transacting, TaskOK
  <2>3. OneWriter'
    BY <1>17 DEF Commit, Finished, Abort, Release, Clear, Stages, Transacting, OneWriter
  <2> QED
    BY <2>1, <2>2, <2>3
<1>18. CASE Rollback(t)
  <2>1. TypeOK'
    BY <1>18 DEF Rollback, Finished, Abort, Release, Clear, Stages, Transacting, Answers, Broken, TaskOK
  <2>2. \A o \in Tasks : TaskOK(o)'
    BY <1>18 DEF Rollback, Finished, Abort, Release, Clear, Stages, Transacting, TaskOK
  <2>3. OneWriter'
    BY <1>18 DEF Rollback, Finished, Abort, Release, Clear, Stages, Transacting, OneWriter
  <2> QED
    BY <2>1, <2>2, <2>3
<1>19. CASE Return(t)
  <2>1. TypeOK'
    BY <1>19 DEF Return, Finished, Abort, Release, Clear, Stages, Transacting, Answers, Broken, TaskOK
  <2>2. \A o \in Tasks : TaskOK(o)'
    BY <1>19 DEF Return, Finished, Abort, Release, Clear, Stages, Transacting, TaskOK
  <2>3. OneWriter'
    BY <1>19 DEF Return, Finished, Abort, Release, Clear, Stages, Transacting, OneWriter
  <2> QED
    BY <2>1, <2>2, <2>3
<1>20. CASE Cancel(t)
  <2>1. CASE UNCHANGED <<clock, db, lock, view, stage, call, minted, stamp, row, answer>>
    <3>1. dropped' = [dropped EXCEPT ![t] = dropped'[t]] /\ dropped'[t] \in BOOLEAN
      BY <1>20, <2>1 DEF Cancel, Clear, Abort
    <3>2. TypeOK'
      BY <2>1, <3>1
    <3>3. (\A o \in Tasks : TaskOK(o)') /\ OneWriter'
      BY <2>1 DEF TaskOK, OneWriter
    <3> QED
      BY <3>2, <3>3
  <2>2. CASE Clear(t) /\ UNCHANGED <<clock, db, lock, view>> /\ stage[t] \notin Transacting
    <3>1. TypeOK'
      BY <2>2 DEF Clear, Stages
    <3>2. (\A o \in Tasks : TaskOK(o)') /\ OneWriter'
      BY <2>2 DEF Clear, TaskOK, OneWriter, Transacting
    <3> QED
      BY <3>1, <3>2
  <2>3. CASE /\ stage[t] \in Transacting /\ Abort(t, NULL)
             /\ UNCHANGED <<clock, db, lock, view, call, minted, stamp, row, dropped>>
    <3>1. TypeOK'
      BY <2>3 DEF Abort, Stages, Transacting
    <3>2. (\A o \in Tasks : TaskOK(o)') /\ OneWriter'
      BY <2>3 DEF Abort, TaskOK, OneWriter, Transacting
    <3> QED
      BY <3>1, <3>2
  <2> QED
    BY <1>20, <2>1, <2>2, <2>3 DEF Cancel, Transacting
<1>21. CASE StatementFails(t)
  <2>1. TypeOK'
    BY <1>21 DEF StatementFails, Finished, Abort, Release, Clear, Stages, Transacting, Answers, Broken, TaskOK
  <2>2. \A o \in Tasks : TaskOK(o)'
    BY <1>21 DEF StatementFails, Finished, Abort, Release, Clear, Stages, Transacting, TaskOK
  <2>3. OneWriter'
    BY <1>21 DEF StatementFails, Finished, Abort, Release, Clear, Stages, Transacting, OneWriter
  <2> QED
    BY <2>1, <2>2, <2>3
<1>22. CASE BeginUnclaimed(t)
  <2>1. TypeOK'
    BY <1>22 DEF BeginUnclaimed, Locked, Finished, Abort, Release, Clear, Stages, Transacting, Answers, Broken, TaskOK
  <2>2. \A o \in Tasks : TaskOK(o)'
    BY <1>22 DEF BeginUnclaimed, Locked, Finished, Abort, Release, Clear, Stages, Transacting, TaskOK
  <2>3. OneWriter'
    BY <1>22 DEF BeginUnclaimed, Locked, Finished, Abort, Release, Clear, Stages, Transacting, OneWriter
  <2> QED
    BY <2>1, <2>2, <2>3
<1>23. CASE CorruptRow(t)
  <2>1. TypeOK'
    BY <1>23 DEF CorruptRow, Finished, Abort, Release, Clear, Stages, Transacting, Answers, Broken, TaskOK
  <2>2. \A o \in Tasks : TaskOK(o)'
    BY <1>23 DEF CorruptRow, Finished, Abort, Release, Clear, Stages, Transacting, TaskOK
  <2>3. OneWriter'
    BY <1>23 DEF CorruptRow, Finished, Abort, Release, Clear, Stages, Transacting, OneWriter
  <2> QED
    BY <2>1, <2>2, <2>3
<1> QED
  BY <1>1, <1>2, <1>3, <1>4, <1>5, <1>6, <1>7, <1>8, <1>9, <1>10, <1>11, <1>12, <1>13, <1>14, <1>15, <1>16, <1>17, <1>18, <1>19, <1>20, <1>21, <1>22, <1>23 DEF Step

\* A call starts.
LEMMA TypeInvoke ==
  ASSUME TypeInv, NEW t \in Tasks, NEW c \in Calls, Invoke(t, c)
  PROVE  TypeInv'
<1> USE StoreAssumption DEF TypeInv, TypeOK, Optional, GoTo
<1>1. PICK id \in Generated(c) : minted' = [minted EXCEPT ![t] = id]
  BY DEF Invoke
<1>2. /\ id \in SubmissionIds \cup UserIds \cup {NULL}
      /\ c.op = "create_submission" => id \in SubmissionIds
      /\ c.op = "create_user" => id \in UserIds
  BY GeneratedTyped
<1>3. TypeOK'
  BY <1>1, <1>2 DEF Invoke, Stages
<1>4. \A o \in Tasks : TaskOK(o)'
  BY <1>1, <1>2 DEF Invoke, Stages, Transacting, TaskOK
<1>5. OneWriter'
  BY DEF Invoke, Transacting, OneWriter
<1> QED
  BY <1>3, <1>4, <1>5

\* The process dies.
LEMMA TypeCrash == TypeInv /\ Crash => TypeInv'
<1> SUFFICES ASSUME TypeInv, Crash PROVE TypeInv'
  OBVIOUS
<1> USE StoreAssumption DEF TypeInv, TypeOK, Optional
<1>1. TypeOK'
  BY DEF Crash, Stages
<1>2. \A t \in Tasks : TaskOK(t)'
  BY DEF Crash, Transacting, TaskOK
<1>3. OneWriter'
  BY DEF Crash, Transacting, OneWriter
<1> QED
  BY <1>1, <1>2, <1>3

\* Every step keeps TypeInv.
LEMMA TypeNext == TypeInv /\ [Next]_vars => TypeInv'
<1> SUFFICES ASSUME TypeInv, [Next]_vars PROVE TypeInv'
  OBVIOUS
<1>1. CASE Tick
  <2>0. clock' \in Nat
    BY <1>1 DEF Tick, TypeInv, TypeOK
  <2>1. TypeOK'
    BY <1>1, <2>0 DEF Tick, TypeInv, TypeOK
  <2>2. \A t \in Tasks : TaskOK(t)'
    BY <1>1 DEF Tick, TypeInv, TaskOK
  <2>3. OneWriter'
    BY <1>1 DEF Tick, TypeInv, OneWriter
  <2> QED
    BY <2>1, <2>2, <2>3 DEF TypeInv
<1>2. ASSUME NEW t \in Tasks, Step(t) \/ Cancel(t) \/ StatementFails(t) \/ CorruptRow(t)
      PROVE  TypeInv'
  BY <1>2, TypeStep
<1>3. ASSUME NEW t \in Tasks, NEW c \in Calls, Invoke(t, c)
      PROVE  TypeInv'
  BY <1>3, TypeInvoke
<1>4. CASE Crash
  BY <1>4, TypeCrash
<1>5. CASE UNCHANGED vars
  BY <1>5 DEF vars, TypeInv, TypeOK, TaskOK, OneWriter
<1> QED
  BY <1>1, <1>2, <1>3, <1>4, <1>5 DEF Next

\* TypeInv is inductive.
THEOREM TypeInvariant == Spec => []TypeInv
BY TypeInit, TypeNext, PTL DEF Spec

\* Every variable has its type, whatever the calls, crashes and timeouts.
THEOREM TypeCorrect == Spec => []TypeOK
<1>1. TypeInv => TypeOK
  BY DEF TypeInv
<1> QED
  BY <1>1, TypeInvariant, PTL

\* At most one transaction is open at a time: BEGIN IMMEDIATE excludes every
\* other writer until COMMIT or ROLLBACK.
THEOREM WritersExclude == Spec => []OneWriter
<1>1. TypeInv => OneWriter
  BY DEF TypeInv
<1> QED
  BY <1>1, TypeInvariant, PTL

-----------------------------------------------------------------------------
(* The database.  Soundness of what is committed is not inductive: COMMIT  *)
(* makes it what the view of a transaction is, so the views must be sound  *)
(* too, at every stage from which COMMIT can follow.                       *)

\* The stages whose statement leaves user_progress one verdict behind.
Behind == {"update_progress", "insert_progress"}

\* What a task has seen under the write lock is still so when it acts on it.
Held(t) ==
  /\ stamp[t] <= clock
  /\ stage[t] \in {"acquire", "insert"} /\ call[t].op = "create_submission" =>
       ~SubmissionExists(db, minted[t])
  /\ stage[t] \in Transacting => Submissions(view[t]) = Submissions(db)
  /\ stage[t] \in Transacting \ (Behind \cup {"rollback"}) => Sound(view[t], clock)
  /\ stage[t] = "update_status" =>
       CanTransitionTo(view[t].submissions[call[t].id].status, call[t].status)
  /\ stage[t] = "update_done" =>
       CanTransitionTo(view[t].submissions[call[t].id].status, "DONE")
  /\ stage[t] \in Behind => Almost(view[t], call[t].id, call[t].verdict, stamp[t])
  /\ stage[t] = "insert_progress" => view[t].progress[Learner(t)][Attempted(t)] = NULL

\* No two calls have the same generated id.
MintedOnce == \A t, o \in Tasks : t # o /\ minted[t] # NULL => minted[t] # minted[o]

\* The inductive invariant behind ProgressMatches, References and TimesTold.
SafeInv ==
  /\ TypeInv
  /\ Sound(db, clock)
  /\ \A t \in Tasks : Held(t)
  /\ MintedOnce

-----------------------------------------------------------------------------
\* A store that was just opened satisfies the invariant.
LEMMA SafeInit == Init => SafeInv
<1> SUFFICES ASSUME Init PROVE SafeInv
  OBVIOUS
<1>1. TypeInv
  BY TypeInit
<1>2. Sound(db, clock)
  BY StoreAssumption DEF Init
<1>3. ASSUME NEW t \in Tasks PROVE Held(t)
  BY DEF Init, Held, Transacting, Behind
<1>4. MintedOnce
  BY DEF Init, MintedOnce
<1> QED
  BY <1>1, <1>2, <1>3, <1>4 DEF SafeInv

\* Only t moves, and the clock stands still.
Alone(t) ==
  /\ clock' = clock
  /\ \A o \in Tasks \ {t} : /\ stage'[o] = stage[o] /\ call'[o] = call[o]
                            /\ minted'[o] = minted[o] /\ stamp'[o] = stamp[o]
                            /\ view'[o] = view[o]

\* What the other tasks hold does not depend on t, as long as no submission
\* comes or goes.
LEMMA OthersHold ==
  ASSUME SafeInv, NEW t \in Tasks, Alone(t), Submissions(db') = Submissions(db)
  PROVE  \A o \in Tasks \ {t} : Held(o)'
<1> SUFFICES ASSUME NEW o \in Tasks \ {t} PROVE Held(o)'
  OBVIOUS
<1>1. /\ clock' = clock /\ stage'[o] = stage[o] /\ call'[o] = call[o]
      /\ minted'[o] = minted[o] /\ stamp'[o] = stamp[o] /\ view'[o] = view[o]
  BY DEF Alone
<1>2. Held(o)
  BY DEF SafeInv
<1>3. stage[o] \in {"acquire", "insert"} /\ call[o].op = "create_submission" =>
        ~SubmissionExists(db', minted[o])
  <2>1. stage[o] \in {"acquire", "insert"} /\ call[o].op = "create_submission" =>
          minted[o] \in SubmissionIds /\ minted[o] \notin Submissions(db)
    BY <1>2 DEF SafeInv, TypeInv, TaskOK, Held, Submissions
  <2> QED
    BY <2>1 DEF Submissions
<1> QED
  BY <1>1, <1>2, <1>3 DEF Held, Learner, Attempted

\* A step of t that leaves the file alone is safe when t holds what it should.
LEMMA LocalStep ==
  ASSUME SafeInv, TypeInv', NEW t \in Tasks, Alone(t), db' = db,
         minted'[t] \in {minted[t], NULL}, Held(t)'
  PROVE  SafeInv'
<1>1. Sound(db, clock)'
  BY DEF SafeInv, Alone
<1>2. \A o \in Tasks : Held(o)'
  BY OthersHold
<1>3. MintedOnce'
  BY DEF SafeInv, MintedOnce, Alone
<1> QED
  BY <1>1, <1>2, <1>3 DEF SafeInv

\* A step of t that waits, gives up, is dropped or returns is safe.
LEMMA QuietStep ==
  ASSUME SafeInv, TypeInv', NEW t \in Tasks, Alone(t), db' = db,
         minted'[t] \in {minted[t], NULL}, stamp'[t] \in {stamp[t], 0},
         \/ stage'[t] \in {"begin", "reply", "idle"}
         \/ /\ stage'[t] = "insert" /\ stage[t] = "acquire"
            /\ call'[t] = call[t] /\ minted'[t] = minted[t]
         \/ /\ stage'[t] = "rollback" /\ stage[t] \in Transacting
            /\ view'[t] = view[t]
  PROVE  SafeInv'
<1>1. Held(t) /\ clock \in Nat
  BY DEF SafeInv, TypeInv, TypeOK
<1>2. Held(t)'
  BY <1>1 DEF Held, Transacting, Behind, Alone
<1> QED
  BY <1>2, LocalStep

-----------------------------------------------------------------------------
(* The steps of a task.                                                    *)

\* Waiting, giving up, failing, being dropped, rolling back and returning.
LEMMA SafeQuietly ==
  ASSUME SafeInv, TypeInv', NEW t \in Tasks,
         \/ Acquire(t) \/ PoolTimeout(t) \/ BusyTimeout(t) \/ Rollback(t)
         \/ BeginUnclaimed(t) \/ Return(t) \/ Cancel(t) \/ StatementFails(t) \/ CorruptRow(t)
  PROVE  SafeInv'
<1> USE DEF SafeInv, TypeInv, TypeOK, GoTo, Alone
<1>1. CASE Acquire(t)
  <2>1. stage'[t] \in {"begin", "insert"}
    BY <1>1 DEF Acquire
  <2> QED
    BY <1>1, <2>1, QuietStep DEF Acquire
<1>2. CASE PoolTimeout(t)
  BY <1>2, QuietStep DEF PoolTimeout, Finished
<1>3. CASE BusyTimeout(t)
  BY <1>3, QuietStep DEF BusyTimeout, Finished
<1>4. CASE Rollback(t)
  BY <1>4, QuietStep DEF Rollback, Release, Finished
<1>5. CASE Return(t)
  BY <1>5, QuietStep DEF Return, Clear
<1>6. CASE Cancel(t)
  <2>1. CASE Clear(t) /\ UNCHANGED <<clock, db, lock, view>>
    BY <2>1, QuietStep DEF Clear
  <2>2. CASE /\ stage[t] \in Transacting /\ Abort(t, NULL)
             /\ UNCHANGED <<clock, db, lock, view, call, minted, stamp, row>>
    BY <2>2, QuietStep DEF Abort
  <2>3. CASE UNCHANGED <<clock, db, lock, view, stage, call, minted, stamp, row, answer>>
    <3>1. Held(t)'
      BY <2>3 DEF Held, Learner, Attempted
    <3> QED
      BY <2>3, <3>1, LocalStep
  <2> QED
    BY <1>6, <2>1, <2>2, <2>3 DEF Cancel
<1>7. CASE StatementFails(t)
  <2>1. CASE Finished(t, "Database")
    BY <1>7, <2>1, QuietStep DEF StatementFails, Finished
  <2>2. CASE stage[t] \in Transacting /\ Abort(t, "Database")
    BY <1>7, <2>2, QuietStep DEF StatementFails, Abort
  <2> QED
    BY <1>7, <2>1, <2>2 DEF StatementFails
<1>8. CASE CorruptRow(t)
  BY <1>8, QuietStep DEF CorruptRow, Abort, Transacting
<1>9. CASE BeginUnclaimed(t)
  <2>1. /\ Alone(t) /\ db' = db /\ minted'[t] = minted[t] /\ stamp'[t] = stamp[t]
        /\ view'[t] = db /\ stage'[t] = "rollback"
    BY <1>9 DEF BeginUnclaimed, Locked, Abort
  <2>2. Held(t)'
    BY <2>1 DEF Held, Transacting, Behind
  <2> QED
    BY <2>1, <2>2, LocalStep
<1> QED
  BY <1>1, <1>2, <1>3, <1>4, <1>5, <1>6, <1>7, <1>8, <1>9

\* BEGIN IMMEDIATE: the view is the database, which is sound.
LEMMA SafeBegin ==
  ASSUME SafeInv, TypeInv', NEW t \in Tasks, Begin(t)
  PROVE  SafeInv'
<1> USE DEF SafeInv, TypeInv, TypeOK, GoTo, Alone
<1>1. /\ Alone(t) /\ db' = db /\ minted'[t] = minted[t] /\ stamp'[t] = stamp[t]
      /\ view'[t] = db
  BY DEF Begin, Locked
<1>2. stage'[t] \in {"upsert", "select_status", "select_finish"}
  BY FirstStatementTyped DEF Begin, Locked, TaskOK, Transactional
<1>3. Held(t)'
  BY <1>1, <1>2 DEF Held, Transacting, Behind
<1> QED
  BY <1>1, <1>3, LocalStep

\* The INSERTs of create_user and record_run.
LEMMA SafeInserts ==
  ASSUME SafeInv, TypeInv', NEW t \in Tasks, CreateUser(t) \/ RecordRun(t)
  PROVE  SafeInv'
<1> USE DEF SafeInv, TypeInv, TypeOK, GoTo
<1>1. /\ stage[t] = "insert" /\ stage'[t] = "reply"
      /\ Alone(t) /\ UNCHANGED <<minted, stamp, clock>>
  BY DEF CreateUser, RecordRun, Inserting, Finished, Alone
<1>2. call[t] \in Calls /\ (call[t].op = "create_user" => minted[t] \in UserIds)
  BY <1>1 DEF TaskOK
<1>3. Sound(db', clock) /\ Submissions(db') = Submissions(db)
  <2>1. CASE db' = db
    BY <2>1
  <2>2. CASE CreateUser(t) /\ db' = InsertUser(db, minted[t], call[t].account)
    BY <1>2, <2>2, CallTyped, InsertUserSound, StatementsKeepSubmissions
       DEF CreateUser, Inserting
  <2>3. CASE /\ RecordRun(t) /\ db' = InsertRun(db, call[t].run)
             /\ CanReferToSubmission(db, call[t].run)
    BY <1>2, <2>3, CallTyped, InsertRunSound, StatementsKeepSubmissions
       DEF RecordRun, Inserting
  <2> QED
    BY <2>1, <2>2, <2>3 DEF CreateUser, RecordRun
<1>4. Held(t)'
  BY <1>1 DEF Held, Transacting, Behind
<1>5. \A o \in Tasks : Held(o)'
  BY <1>1, <1>3, <1>4, OthersHold
<1>6. MintedOnce'
  BY <1>1 DEF MintedOnce
<1> QED
  BY <1>1, <1>3, <1>5, <1>6

\* The INSERT of create_submission: its id is new to the table and is nobody
\* else's, and no transaction is open.
LEMMA SafeCreateSubmission ==
  ASSUME SafeInv, TypeInv', NEW t \in Tasks, CreateSubmission(t)
  PROVE  SafeInv'
<1> USE DEF SafeInv, TypeInv, TypeOK, GoTo
<1>1. /\ stage[t] = "insert" /\ stage'[t] = "reply" /\ lock = NULL
      /\ call[t].op = "create_submission"
      /\ Alone(t) /\ UNCHANGED <<minted, stamp, clock>>
  BY DEF CreateSubmission, Inserting, Finished, Alone
<1>2. /\ call[t] \in Calls /\ minted[t] \in SubmissionIds
      /\ minted[t] \notin Submissions(db) /\ stamp[t] <= clock
  BY <1>1 DEF TaskOK, Held, Submissions
<1>3. CASE db' = db
  BY <1>1, <1>3, QuietStep
<1>4. CASE /\ CanInsertSubmission(db, call[t].new)
           /\ db' = InsertSubmission(db, minted[t], call[t].new, stamp[t])
  <2>1. call[t].new \in NewSubmission /\ clock \in Nat /\ stamp[t] \in Nat
    BY <1>1, <1>2, CallTyped
  <2>2. Sound(db', clock)
    BY <1>2, <1>4, <2>1, InsertSubmissionSound DEF Submissions
  <2>3. \A s \in SubmissionIds \ {minted[t]} :
          SubmissionExists(db', s) => SubmissionExists(db, s)
    BY <1>2, <1>4 DEF InsertSubmission, Databases, SubmissionExists
  <2>4. ASSUME NEW o \in Tasks \ {t} PROVE Held(o)'
    <3>1. stage[o] \notin Transacting
      BY <1>1, StoreAssumption DEF OneWriter
    <3>2. stage[o] \in {"acquire", "insert"} /\ call[o].op = "create_submission" =>
            ~SubmissionExists(db', minted[o])
      <4>1. minted[o] # minted[t]
        BY <1>2, TablesAssumption DEF MintedOnce
      <4> QED
        BY <2>3, <4>1 DEF TaskOK, Held
    <3> QED
      BY <1>1, <3>1, <3>2 DEF Held, Alone, Transacting, Behind
  <2>5. Held(t)'
    BY <1>1, <1>2 DEF Held, Transacting, Behind
  <2>6. MintedOnce'
    BY <1>1 DEF MintedOnce
  <2> QED
    BY <1>1, <2>2, <2>4, <2>5, <2>6
<1> QED
  BY <1>3, <1>4 DEF CreateSubmission

\* A statement of a transaction that leaves its view sound is safe, when the
\* next stage is one that assumes no more.
LEMMA ViewStep ==
  ASSUME SafeInv, TypeInv', NEW t \in Tasks, Alone(t), db' = db,
         minted'[t] = minted[t], stamp'[t] <= clock,
         stage[t] \in Transacting,
         stage'[t] \in {"upsert", "delete", "commit"},
         Sound(view'[t], clock), Submissions(view'[t]) = Submissions(view[t])
  PROVE  SafeInv'
<1>1. Held(t)'
  BY DEF SafeInv, Held, Alone, Transacting, Behind
<1> QED
  BY <1>1, LocalStep

\* The statements of replace_problems.
LEMMA SafeCatalog ==
  ASSUME SafeInv, TypeInv', NEW t \in Tasks,
         UpsertRow(t) \/ SelectProblems(t) \/ DeleteRow(t)
  PROVE  SafeInv'
<1> USE DEF SafeInv, TypeInv, TypeOK, GoTo, Alone
<1>1. /\ stage[t] \in {"upsert", "delete"} /\ call[t] \in Calls
      /\ call[t].op = "replace_problems" /\ call[t].rows \in Seq(CatalogRow)
      /\ view[t] \in Databases
  <2>1. stage[t] \in {"upsert", "delete"}
    BY DEF UpsertRow, SelectProblems, DeleteRow
  <2> QED
    BY <2>1, CallTyped DEF TaskOK, Transacting
<1>2. /\ Sound(view[t], clock) /\ stamp[t] <= clock /\ stage[t] \in Transacting
  BY <1>1 DEF Held, Transacting, Behind
<1>3. ASSUME Abort(t, "Database"),
             UNCHANGED <<clock, db, lock, view, call, minted, stamp, row>>
      PROVE  SafeInv'
  BY <1>2, <1>3, QuietStep DEF Abort
<1>4. CASE UpsertRow(t)
  <2> DEFINE r == call[t].rows[row[t] + 1]
             v == UpsertProblem(view[t], r.id, r.content)
  <2>1. r \in CatalogRow
    BY <1>1, <1>4 DEF UpsertRow
  <2>2. Sound(v, clock) /\ Submissions(v) = Submissions(view[t])
    BY <1>1, <1>2, <2>1, UpsertProblemSound, StatementsKeepSubmissions DEF CatalogRow
  <2>3. CASE CanUpsertProblem(r.content)
    <3>1. /\ view' = [view EXCEPT ![t] = v] /\ stage[t] = "upsert"
          /\ UNCHANGED <<clock, db, stage, call, minted, stamp>>
      BY <1>4, <2>3 DEF UpsertRow
    <3> HIDE DEF r, v
    <3> QED
      BY <1>2, <2>2, <3>1, ViewStep
  <2>4. CASE ~CanUpsertProblem(r.content)
    BY <1>3, <1>4, <2>4 DEF UpsertRow
  <2> QED
    BY <2>3, <2>4
<1>5. CASE SelectProblems(t)
  <2>1. /\ stage'[t] \in {"commit", "delete"}
        /\ UNCHANGED <<clock, db, view, call, minted, stamp>>
    BY <1>5 DEF SelectProblems
  <2>2. Alone(t)
    BY <1>5 DEF SelectProblems
  <2> QED
    BY <1>2, <2>1, <2>2, ViewStep
<1>6. CASE DeleteRow(t)
  <2>1. PICK p \in Dropped(t) :
          IF CanDeleteProblem(view[t], p)
            THEN /\ view' = [view EXCEPT ![t] = DeleteProblem(@, p)]
                 /\ GoTo(t, IF Dropped(t) = {p} THEN "commit" ELSE "delete")
            ELSE Abort(t, "Database") /\ UNCHANGED view
    BY <1>6 DEF DeleteRow
  <2>2. UNCHANGED <<clock, db, lock, call, minted, stamp, row>> /\ p \in Problems
    BY <1>6 DEF DeleteRow, Dropped
  <2>3. CASE CanDeleteProblem(view[t], p)
    <3>1. /\ Sound(DeleteProblem(view[t], p), clock)
          /\ Submissions(DeleteProblem(view[t], p)) = Submissions(view[t])
      BY <1>1, <1>2, <2>2, <2>3, DeleteProblemSound, StatementsKeepSubmissions
    <3>2. /\ view'[t] = DeleteProblem(view[t], p) /\ stage'[t] \in {"commit", "delete"}
          /\ Alone(t)
      BY <2>1, <2>2, <2>3
    <3> QED
      BY <1>2, <2>2, <3>1, <3>2, ViewStep
  <2>4. CASE ~CanDeleteProblem(view[t], p)
    BY <1>3, <2>1, <2>2, <2>4
  <2> QED
    BY <2>3, <2>4
<1> QED
  BY <1>4, <1>5, <1>6

\* The SELECTs of set_submission_status and finish_submission: what they find
\* is held until the UPDATE.
LEMMA SafeChecks ==
  ASSUME SafeInv, TypeInv', NEW t \in Tasks, SelectStatus(t) \/ SelectFinish(t)
  PROVE  SafeInv'
<1> USE DEF SafeInv, TypeInv, TypeOK, GoTo, Alone
<1>1. stage[t] \in {"select_status", "select_finish"}
  BY DEF SelectStatus, SelectFinish
<1>2. /\ Sound(view[t], clock) /\ Submissions(view[t]) = Submissions(db)
      /\ stamp[t] <= clock /\ stage[t] \in Transacting
  BY <1>1 DEF Held, Transacting, Behind
<1>3. ASSUME NEW to, NEW next, Check(t, to, next),
             \/ next = "update_status" /\ to = call[t].status
             \/ next = "update_done" /\ to = "DONE"
      PROVE  SafeInv'
  <2>1. Alone(t) /\ UNCHANGED <<clock, db, view, call, minted, stamp>>
    BY <1>3 DEF Check, Abort
  <2>2. CASE stage'[t] = "rollback"
    BY <1>2, <2>1, <2>2, QuietStep
  <2>3. CASE /\ stage'[t] = next
             /\ CanTransitionTo(view[t].submissions[call[t].id].status, to)
    <3>1. Held(t)'
      BY <1>2, <1>3, <2>1, <2>3 DEF Held, Transacting, Behind
    <3> QED
      BY <2>1, <3>1, LocalStep
  <2> QED
    BY <1>3, <2>2, <2>3 DEF Check, Abort
<1> QED
  BY <1>3 DEF SelectStatus, SelectFinish

\* The UPDATE of set_submission_status.
LEMMA SafeUpdateStatus ==
  ASSUME SafeInv, TypeInv', NEW t \in Tasks, UpdateStatus(t)
  PROVE  SafeInv'
<1> USE DEF SafeInv, TypeInv, TypeOK, GoTo, Alone
<1>1. stage[t] = "update_status" /\ stage[t] \in Transacting
  BY DEF UpdateStatus, Transacting
<1>2. /\ call[t] \in Calls /\ call[t].op = "set_submission_status"
      /\ view[t] \in Databases /\ SubmissionExists(view[t], call[t].id)
  BY <1>1 DEF TaskOK
<1>3. call[t].id \in SubmissionIds /\ call[t].status \in Statuses
  BY <1>2, CallTyped
<1>4. /\ Sound(view[t], clock)
      /\ CanTransitionTo(view[t].submissions[call[t].id].status, call[t].status)
  BY <1>1 DEF Held, Behind
<1> DEFINE v == WriteStatus(view[t], call[t].id, call[t].status, clock)
<1>5. Sound(v, clock)
  BY <1>2, <1>3, <1>4, WriteStatusSound
<1>6. Submissions(v) = Submissions(view[t])
  BY <1>2, <1>3, StatementsKeepSubmissions DEF Submissions, Verdicts
<1>7. /\ view'[t] = v /\ stage'[t] = "commit" /\ stamp'[t] = clock
      /\ Alone(t) /\ db' = db /\ minted' = minted
  BY DEF UpdateStatus
<1> HIDE DEF v
<1>8. minted'[t] = minted[t] /\ stamp'[t] <= clock
  BY <1>7
<1> QED
  BY <1>1, <1>5, <1>6, <1>7, <1>8, ViewStep

\* The first UPDATE of finish_submission.
LEMMA SafeUpdateDone ==
  ASSUME SafeInv, TypeInv', NEW t \in Tasks, UpdateDone(t)
  PROVE  SafeInv'
<1> USE DEF SafeInv, TypeInv, TypeOK, GoTo, Alone
<1>1. stage[t] = "update_done" /\ stage[t] \in Transacting
  BY DEF UpdateDone, Transacting
<1>2. /\ call[t] \in Calls /\ call[t].op = "finish_submission"
      /\ view[t] \in Databases /\ SubmissionExists(view[t], call[t].id)
  BY <1>1 DEF TaskOK
<1>3. call[t].id \in SubmissionIds /\ call[t].verdict \in Verdicts
  BY <1>2, CallTyped
<1>4. /\ Sound(view[t], clock) /\ Submissions(view[t]) = Submissions(db)
      /\ CanTransitionTo(view[t].submissions[call[t].id].status, "DONE")
  BY <1>1 DEF Held, Behind
<1> DEFINE v == WriteVerdict(view[t], call[t].id, call[t].verdict, clock)
<1>5. IF Counts(call[t].verdict) THEN Almost(v, call[t].id, call[t].verdict, clock)
      ELSE Sound(v, clock)
  BY <1>2, <1>3, <1>4, WriteVerdictSound
<1>6. Submissions(v) = Submissions(view[t])
  BY <1>2, <1>3, StatementsKeepSubmissions DEF Submissions, Statuses
<1>7. /\ view'[t] = v /\ stamp'[t] = clock /\ call' = call
      /\ stage'[t] = IF Counts(call[t].verdict) THEN "update_progress" ELSE "commit"
      /\ Alone(t) /\ db' = db /\ minted' = minted /\ clock' = clock
  BY DEF UpdateDone
<1> HIDE DEF v
<1>8. CASE Counts(call[t].verdict)
  <2>1. Held(t)'
    BY <1>4, <1>5, <1>6, <1>7, <1>8 DEF Held, Transacting, Behind
  <2> QED
    BY <1>7, <2>1, LocalStep
<1>9. CASE ~Counts(call[t].verdict)
  <2>1. minted'[t] = minted[t] /\ stamp'[t] <= clock /\ stage'[t] = "commit"
    BY <1>7, <1>9
  <2> QED
    BY <1>1, <1>5, <1>6, <1>7, <1>9, <2>1, ViewStep
<1> QED
  BY <1>8, <1>9

\* The UPDATE of user_progress, or the INSERT when there is no row yet: the
\* tally catches up.
LEMMA SafeProgress ==
  ASSUME SafeInv, TypeInv', NEW t \in Tasks,
         UpdateUserProgress(t) \/ InsertUserProgress(t)
  PROVE  SafeInv'
<1> USE DEF SafeInv, TypeInv, TypeOK, GoTo, Alone
<1>1. stage[t] \in Behind /\ stage[t] \in Transacting
  BY DEF UpdateUserProgress, InsertUserProgress, Behind, Transacting
<1>2. /\ call[t] \in Calls /\ call[t].op = "finish_submission"
      /\ view[t] \in Databases /\ SubmissionExists(view[t], call[t].id)
  BY <1>1 DEF TaskOK, Behind
<1>3. call[t].id \in SubmissionIds /\ call[t].verdict \in Verdicts
  BY <1>2, CallTyped
<1>4. /\ Almost(view[t], call[t].id, call[t].verdict, stamp[t])
      /\ Submissions(view[t]) = Submissions(db)
      /\ stamp[t] <= clock /\ stamp[t] \in Nat /\ clock \in Nat
  BY <1>1 DEF Held
<1>5. Learner(t) \in UserIds /\ Attempted(t) \in Problems
  BY <1>2, <1>3, SubmissionTyped DEF Learner, Attempted, SubmissionRow
<1>6. /\ Alone(t) /\ UNCHANGED <<clock, db, call, minted, stamp>>
  BY DEF UpdateUserProgress, InsertUserProgress
<1>7. ASSUME NEW v \in Databases, Sound(v, stamp[t]),
             Submissions(v) = Submissions(view[t]),
             view'[t] = v, stage'[t] = "commit"
      PROVE  SafeInv'
  <2>1. Sound(v, clock)
    BY <1>4, <1>7, SoundLater
  <2> QED
    BY <1>1, <1>4, <1>6, <1>7, <2>1, ViewStep
<1>8. CASE UpdateUserProgress(t)
  <2>1. CASE view[t].progress[Learner(t)][Attempted(t)] = NULL
    <3>1. stage'[t] = "insert_progress" /\ view' = view
      BY <1>8, <2>1 DEF UpdateUserProgress
    <3>2. Held(t)'
      BY <1>4, <1>6, <2>1, <3>1 DEF Held, Transacting, Behind, Learner, Attempted
    <3> QED
      BY <1>6, <3>2, LocalStep
  <2>2. CASE view[t].progress[Learner(t)][Attempted(t)] # NULL
    <3> DEFINE v == UpdateProgress(view[t], Learner(t), Attempted(t),
                                   call[t].verdict, stamp[t])
    <3>1. v \in Databases
      BY <1>2, <1>3, <1>4, <1>5, <2>2, UpdateProgressTyped
    <3>2. Sound(v, stamp[t])
      BY <1>2, <1>3, <1>4, <2>2, UpdateProgressSound DEF Learner, Attempted
    <3>3. Submissions(v) = Submissions(view[t])
      BY <1>2, <1>5, StatementsKeepSubmissions
    <3>4. view'[t] = v /\ stage'[t] = "commit"
      BY <1>8, <2>2 DEF UpdateUserProgress
    <3> HIDE DEF v
    <3> QED
      BY <1>7, <3>1, <3>2, <3>3, <3>4
  <2> QED
    BY <2>1, <2>2
<1>9. CASE InsertUserProgress(t)
  <2> DEFINE v == InsertProgress(view[t], Learner(t), Attempted(t),
                                 call[t].verdict, stamp[t])
  <2>1. v \in Databases
    BY <1>2, <1>3, <1>4, <1>5, InsertProgressTyped
  <2>2. view[t].progress[Learner(t)][Attempted(t)] = NULL
    BY <1>9 DEF InsertUserProgress, Held
  <2>3. Sound(v, stamp[t])
    BY <1>2, <1>3, <1>4, <2>2, InsertProgressSound DEF Learner, Attempted
  <2>4. Submissions(v) = Submissions(view[t])
    BY <1>2, <1>5, StatementsKeepSubmissions
  <2>5. view'[t] = v /\ stage'[t] = "commit"
    BY <1>9 DEF InsertUserProgress
  <2> HIDE DEF v
  <2> QED
    BY <1>7, <2>1, <2>3, <2>4, <2>5
<1> QED
  BY <1>8, <1>9

\* COMMIT: the view, which is sound and has the submissions of the file,
\* becomes the file.
LEMMA SafeCommit ==
  ASSUME SafeInv, TypeInv', NEW t \in Tasks, Commit(t)
  PROVE  SafeInv'
<1> USE DEF SafeInv, TypeInv, TypeOK, GoTo, Alone
<1>1. /\ stage[t] = "commit" /\ stage'[t] = "reply" /\ db' = view[t]
      /\ Alone(t) /\ UNCHANGED <<clock, minted, stamp>>
  BY DEF Commit, Release, Finished
<1>2. Sound(view[t], clock) /\ Submissions(view[t]) = Submissions(db)
  BY <1>1 DEF Held, Transacting, Behind
<1>3. Held(t)'
  BY <1>1 DEF Held, Transacting, Behind
<1>4. \A o \in Tasks : Held(o)'
  BY <1>1, <1>2, <1>3, OthersHold
<1>5. MintedOnce'
  BY <1>1 DEF MintedOnce
<1> QED
  BY <1>1, <1>2, <1>4, <1>5

-----------------------------------------------------------------------------
(* What is not a step of a called task.                                    *)

\* A generated id is new to the table and is nobody else's.
LEMMA GeneratedFresh ==
  ASSUME NEW c \in Calls, NEW id \in Generated(c)
  PROVE  /\ c.op = "create_submission" => ~SubmissionExists(db, id)
         /\ id # NULL => Fresh(id)
BY CallTyped DEF Generated

\* A call starts.
LEMMA SafeInvoke ==
  ASSUME SafeInv, TypeInv', NEW t \in Tasks, NEW c \in Calls, Invoke(t, c)
  PROVE  SafeInv'
<1> USE DEF SafeInv, TypeInv, TypeOK, GoTo, Alone
<1>1. PICK id \in Generated(c) : minted' = [minted EXCEPT ![t] = id]
  BY DEF Invoke
<1>2. /\ c.op = "create_submission" => ~SubmissionExists(db, id)
      /\ id # NULL => Fresh(id)
  BY GeneratedFresh
<1>3. /\ stage'[t] = "acquire" /\ call'[t] = c /\ minted'[t] = id
      /\ stamp'[t] \in {clock, 0} /\ clock \in Nat
      /\ Alone(t) /\ UNCHANGED <<clock, db>>
  BY <1>1 DEF Invoke
<1>4. Held(t)'
  BY <1>2, <1>3 DEF Held, Transacting, Behind
<1>5. \A o \in Tasks : Held(o)'
  BY <1>3, <1>4, OthersHold
<1>6. MintedOnce'
  BY <1>1, <1>2 DEF MintedOnce, Fresh
<1> QED
  BY <1>3, <1>5, <1>6

\* Time passes: what was in the past stays there.
LEMMA SafeTick == SafeInv /\ TypeInv' /\ Tick => SafeInv'
<1> SUFFICES ASSUME SafeInv, TypeInv', Tick PROVE SafeInv'
  OBVIOUS
<1> USE DEF SafeInv, TypeInv, TypeOK
<1>1. /\ clock \in Nat /\ clock' \in Nat /\ clock <= clock'
      /\ UNCHANGED <<db, lock, view, stage, call, minted, stamp>>
  BY DEF Tick
<1>2. Sound(db, clock)'
  BY <1>1, SoundLater
<1>3. ASSUME NEW t \in Tasks PROVE Held(t)'
  <2>1. stamp[t] <= clock'
    BY <1>1 DEF Held
  <2>2. stage[t] \in Transacting \ (Behind \cup {"rollback"}) => Sound(view[t], clock')
    <3> SUFFICES ASSUME stage[t] \in Transacting \ (Behind \cup {"rollback"})
                 PROVE  Sound(view[t], clock')
      OBVIOUS
    <3>1. Sound(view[t], clock) /\ view[t] \in Databases
      BY DEF Held, TaskOK
    <3> QED
      BY <1>1, <3>1, SoundLater
  <2> QED
    BY <1>1, <2>1, <2>2 DEF Held, Learner, Attempted
<1>4. MintedOnce'
  BY <1>1 DEF MintedOnce
<1> QED
  BY <1>2, <1>3, <1>4

\* The process dies: no call is left, and the file is as sound as it was.
LEMMA SafeCrash == SafeInv /\ TypeInv' /\ Crash => SafeInv'
<1> SUFFICES ASSUME SafeInv, TypeInv', Crash PROVE SafeInv'
  OBVIOUS
<1>1. clock \in Nat /\ UNCHANGED <<clock, db>>
  BY DEF SafeInv, TypeInv, TypeOK, Crash
<1>2. ASSUME NEW t \in Tasks PROVE Held(t)'
  BY <1>1 DEF Crash, Held, Transacting, Behind
<1>3. MintedOnce'
  BY DEF Crash, MintedOnce
<1> QED
  BY <1>1, <1>2, <1>3 DEF SafeInv

\* Every step keeps SafeInv.
LEMMA SafeNext == SafeInv /\ [Next]_vars => SafeInv'
<1> SUFFICES ASSUME SafeInv, [Next]_vars PROVE SafeInv'
  OBVIOUS
<1>0. TypeInv'
  BY TypeNext DEF SafeInv
<1>1. CASE Tick
  BY <1>0, <1>1, SafeTick
<1>2. ASSUME NEW t \in Tasks, Step(t) \/ Cancel(t) \/ StatementFails(t) \/ CorruptRow(t)
      PROVE  SafeInv'
  BY <1>0, <1>2, SafeQuietly, SafeBegin, SafeInserts, SafeCreateSubmission, SafeCatalog,
     SafeChecks, SafeUpdateStatus, SafeUpdateDone, SafeProgress, SafeCommit DEF Step
<1>3. ASSUME NEW t \in Tasks, NEW c \in Calls, Invoke(t, c)
      PROVE  SafeInv'
  BY <1>0, <1>3, SafeInvoke
<1>4. CASE Crash
  BY <1>0, <1>4, SafeCrash
<1>5. CASE UNCHANGED vars
  <2>1. UNCHANGED <<clock, db, view, stage, call, minted, stamp>>
    BY <1>5 DEF vars
  <2>2. ASSUME NEW t \in Tasks PROVE Held(t)'
    BY <2>1 DEF SafeInv, Held, Learner, Attempted
  <2> QED
    BY <1>0, <2>1, <2>2 DEF SafeInv, MintedOnce
<1> QED
  BY <1>1, <1>2, <1>3, <1>4, <1>5 DEF Next

-----------------------------------------------------------------------------
\* SafeInv is inductive.
THEOREM SafeInvariant == Spec => []SafeInv
BY SafeInit, SafeNext, PTL DEF Spec

\* user_progress is the tally of the submissions in every committed state:
\* the UPDATE of the submission and the write of user_progress commit together
\* or not at all (sqlite.rs:498-560).
THEOREM ProgressIsExact == Spec => []ProgressMatches
<1>1. SafeInv => ProgressMatches
  BY DEF SafeInv, Sound, ProgressMatches
<1> QED
  BY <1>1, SafeInvariant, PTL

\* No committed row refers to a row that is not there, whatever replaces the
\* catalog while submissions and runs come in (sqlite.rs:252-298).
THEOREM NothingEverDangles == Spec => []References
<1>1. SafeInv => References
  BY DEF SafeInv, Sound, References
<1> QED
  BY <1>1, SafeInvariant, PTL

\* The times of every committed submission are in order and in the past,
\* through retries and restarts (sqlite.rs:464-467, 512-514).
THEOREM TimesStayInOrder == Spec => []TimesTold
<1>1. SafeInv => TimesTold
  BY DEF SafeInv, Sound, TimesTold
<1> QED
  BY <1>1, SafeInvariant, PTL

-----------------------------------------------------------------------------
(* The refinement of StoreSpec.  COMMIT is the step at which a transaction *)
(* takes effect, so the argument is about what its view is by then: nobody *)
(* else has written since BEGIN, and each statement has added its part to  *)
(* what BEGIN saw (Work).                                                  *)

\* Row i is the last of the first n rows that is about p.
LastAbout(rows, n, p, i) ==
  /\ i \in 1..n /\ rows[i].id = p
  /\ \A j \in 1..n : j > i => rows[j].id # p

\* None of the first n rows is about p.
NoneAbout(rows, n, p) == \A j \in 1..n : rows[j].id # p

\* What replace_problems has made of p: the last row about p that it has
\* upserted, or else what BEGIN saw, or nothing when p could be deleted.
Catalogued(t, p) ==
  LET rows == call[t].rows
      now == view[t].problems[p]
  IN  \/ \E i \in 1..row[t] : LastAbout(rows, row[t], p, i) /\ now = rows[i].content
      \/ /\ NoneAbout(rows, row[t], p)
         /\ \/ now = db.problems[p] /\ (stage[t] = "commit" => now = NULL)
            \/ now = NULL /\ stage[t] # "upsert" /\ CanDeleteProblem(db, p)

\* replace_problems, from its BEGIN to its COMMIT.
Cataloguing(t) ==
  /\ view[t] = [db EXCEPT !.problems = view[t].problems]
  /\ row[t] <= Len(call[t].rows)
  /\ stage[t] # "upsert" => row[t] = Len(call[t].rows)
  /\ \A i \in 1..row[t] : CanUpsertProblem(call[t].rows[i].content)
  /\ \A p \in Problems : Catalogued(t, p)

\* The move of t to status `to` is one that the database of its BEGIN allows.
Allowed(t, to) ==
  /\ SubmissionExists(db, call[t].id)
  /\ CanTransitionTo(db.submissions[call[t].id].status, to)

\* set_submission_status, before its COMMIT.
Moving(t) ==
  /\ Allowed(t, call[t].status)
  /\ view[t] = WriteStatus(db, call[t].id, call[t].status, stamp[t])

\* finish_submission, once its first UPDATE has run.
Finishing(t) ==
  /\ Allowed(t, "DONE")
  /\ view[t] = [WriteVerdict(db, call[t].id, call[t].verdict, stamp[t])
                  EXCEPT !.progress = view[t].progress]

\* What t has done so far to the database it saw at BEGIN, which nobody has
\* written to since; and what it has found when it gives up.
Work(t) ==
  /\ stage[t] = "idle" => call[t] = NULL
  /\ stage[t] \in {"idle", "acquire", "begin"} => row[t] = 0
  /\ stage[t] = "insert" => call[t].op \notin Transactional
  /\ stage[t] \in Transacting => call[t].op \in Transactional
  /\ stage[t] \in {"acquire", "insert"} /\ call[t].op = "create_user" =>
       ~UserExists(db, minted[t])
  /\ stage[t] \in {"upsert", "delete", "commit"} /\ call[t].op = "replace_problems" =>
       Cataloguing(t)
  /\ stage[t] \in {"select_status", "update_status", "select_finish", "update_done"} =>
       view[t] = db
  /\ stage[t] = "commit" /\ call[t].op = "set_submission_status" => Moving(t)
  /\ stage[t] \in Behind \cup {"commit"} /\ call[t].op = "finish_submission" =>
       Finishing(t)
  /\ stage[t] = "rollback" =>
       \/ answer[t] \in {NULL} \cup Broken
       \/ answer[t] # "Ok" /\ answer[t] = Abstract!AnswerTo(db, call[t])

\* The inductive invariant behind the refinement.
WorkInv == SafeInv /\ \A t \in Tasks : Work(t)

-----------------------------------------------------------------------------
\* At first there are no calls.
LEMMA WorkInit == Init => WorkInv
<1> SUFFICES ASSUME Init PROVE WorkInv
  OBVIOUS
<1>1. SafeInv
  BY SafeInit
<1>2. ASSUME NEW t \in Tasks PROVE Work(t)
  BY DEF Init, Work, Transacting, Behind
<1> QED
  BY <1>1, <1>2 DEF WorkInv

\* Nobody but t does anything.
OnlyOf(t) ==
  /\ Alone(t)
  /\ \A o \in Tasks \ {t} : row'[o] = row[o] /\ answer'[o] = answer[o]

\* What the others have done stays done while the file stays as it is.
LEMMA OthersWork ==
  ASSUME WorkInv, NEW t \in Tasks, OnlyOf(t), db' = db
  PROVE  \A o \in Tasks \ {t} : Work(o)'
<1> SUFFICES ASSUME NEW o \in Tasks \ {t} PROVE Work(o)'
  OBVIOUS
<1>1. /\ stage'[o] = stage[o] /\ call'[o] = call[o] /\ minted'[o] = minted[o]
      /\ stamp'[o] = stamp[o] /\ view'[o] = view[o]
      /\ row'[o] = row[o] /\ answer'[o] = answer[o]
  BY DEF OnlyOf, Alone
<1>2. Work(o)
  BY DEF WorkInv
<1>3. Cataloguing(o) => Cataloguing(o)'
  <2>1. \A p \in Problems : Catalogued(o, p) => Catalogued(o, p)'
    BY <1>1 DEF Catalogued
  <2> QED
    BY <1>1, <2>1 DEF Cataloguing
<1>4. (Moving(o) => Moving(o)') /\ (Finishing(o) => Finishing(o)')
  BY <1>1 DEF Moving, Finishing, Allowed
<1>5. Abstract!AnswerTo(db', call'[o]) = Abstract!AnswerTo(db, call[o])
  BY <1>1
<1> QED
  BY <1>1, <1>2, <1>3, <1>4, <1>5 DEF Work

\* A step of t that leaves the file alone.
LEMMA OwnWork ==
  ASSUME WorkInv, SafeInv', NEW t \in Tasks, OnlyOf(t), db' = db, Work(t)'
  PROVE  WorkInv'
BY OthersWork DEF WorkInv

\* Facts of the invariants about one task, gathered.
LEMMA WorkTyped ==
  ASSUME WorkInv, NEW t \in Tasks, stage[t] \in Transacting
  PROVE  /\ call[t] \in Calls /\ call[t].op \in Transactional
         /\ view[t] \in Databases /\ db \in Databases /\ lock = t
         /\ row[t] \in Nat /\ stamp[t] \in Nat /\ clock \in Nat
BY DEF WorkInv, Work, SafeInv, TypeInv, TypeOK, TaskOK, OneWriter, Transacting

-----------------------------------------------------------------------------
(* The steps of a task keep the invariant.                                 *)

\* Waiting, giving up, failing, being dropped, rolling back and returning.
LEMMA WorkQuietly ==
  ASSUME WorkInv, SafeInv', NEW t \in Tasks,
         \/ Acquire(t) \/ PoolTimeout(t) \/ BusyTimeout(t) \/ Rollback(t)
         \/ BeginUnclaimed(t) \/ Return(t) \/ Cancel(t) \/ StatementFails(t) \/ CorruptRow(t)
  PROVE  WorkInv'
<1> USE DEF SafeInv, TypeInv, TypeOK, GoTo, Alone, OnlyOf
<1>0. Work(t) /\ SafeInv
  BY DEF WorkInv
<1>1. ASSUME OnlyOf(t), db' = db, call'[t] = call[t], minted'[t] = minted[t],
             row'[t] = row[t],
             \/ stage'[t] = "reply"
             \/ stage[t] = "acquire" /\ stage'[t] = "begin"
             \/ /\ stage[t] = "acquire" /\ stage'[t] = "insert"
                /\ call[t].op \notin Transactional
             \/ /\ stage[t] \in Transacting /\ stage'[t] = "rollback"
                /\ answer'[t] \in {NULL} \cup Broken
      PROVE  WorkInv'
  <2>1. Work(t)'
    BY <1>0, <1>1 DEF Work, Transacting, Behind
  <2> QED
    BY <1>1, <2>1, OwnWork
<1>2. ASSUME OnlyOf(t), db' = db, stage'[t] = "idle", call'[t] = NULL, row'[t] = 0
      PROVE  WorkInv'
  <2>1. Work(t)'
    BY <1>2 DEF Work, Transacting, Behind
  <2> QED
    BY <1>2, <2>1, OwnWork
<1>3. CASE Acquire(t)
  BY <1>0, <1>1, <1>3 DEF Acquire
<1>4. CASE PoolTimeout(t)
  BY <1>0, <1>1, <1>4 DEF PoolTimeout, Finished
<1>5. CASE BusyTimeout(t)
  BY <1>0, <1>1, <1>5 DEF BusyTimeout, Finished
<1>6. CASE Rollback(t)
  BY <1>0, <1>1, <1>6 DEF Rollback, Release, Finished
<1>7. CASE Return(t)
  BY <1>0, <1>2, <1>7 DEF Return, Clear
<1>8. CASE Cancel(t)
  <2>1. CASE Clear(t) /\ UNCHANGED <<clock, db, lock, view>>
    BY <1>0, <1>2, <2>1 DEF Clear
  <2>2. CASE /\ stage[t] \in Transacting /\ Abort(t, NULL)
             /\ UNCHANGED <<clock, db, lock, view, call, minted, stamp, row>>
    BY <1>0, <1>1, <2>2 DEF Abort
  <2>3. CASE UNCHANGED <<clock, db, lock, view, stage, call, minted, stamp, row, answer>>
    <3>1. \A o \in Tasks : Work(o)'
      BY <1>0, <2>3 DEF WorkInv, Work, Cataloguing, Catalogued, Moving, Finishing, Allowed,
         NoneAbout
    <3> QED
      BY <3>1 DEF WorkInv
  <2> QED
    BY <1>8, <2>1, <2>2, <2>3 DEF Cancel
<1>9. CASE StatementFails(t)
  <2>1. CASE Finished(t, "Database")
    BY <1>0, <1>1, <1>9, <2>1 DEF StatementFails, Finished
  <2>2. CASE stage[t] \in Transacting /\ Abort(t, "Database")
    BY <1>0, <1>1, <1>9, <2>2 DEF StatementFails, Abort, Broken
  <2> QED
    BY <1>9, <2>1, <2>2 DEF StatementFails
<1>10. CASE CorruptRow(t)
  BY <1>0, <1>1, <1>10 DEF CorruptRow, Abort, Transacting, Broken
<1>11. CASE BeginUnclaimed(t)
  <2>1. /\ OnlyOf(t) /\ db' = db /\ call'[t] = call[t] /\ row'[t] = row[t]
        /\ stage'[t] = "rollback" /\ answer'[t] = NULL /\ call[t].op \in Transactional
    BY <1>0, <1>11 DEF BeginUnclaimed, Locked, Abort, TaskOK
  <2>2. Work(t)'
    BY <2>1 DEF Work, Transacting, Behind
  <2> QED
    BY <2>1, <2>2, OwnWork
<1> QED
  BY <1>3, <1>4, <1>5, <1>6, <1>7, <1>8, <1>9, <1>10, <1>11

\* BEGIN IMMEDIATE: the view is the file.
LEMMA WorkBegin ==
  ASSUME WorkInv, SafeInv', NEW t \in Tasks, Begin(t)
  PROVE  WorkInv'
<1> USE DEF SafeInv, TypeInv, TypeOK, GoTo, Alone, OnlyOf
<1>0. SafeInv
  BY DEF WorkInv
<1>1. /\ stage[t] = "begin" /\ call[t].op \in Transactional /\ db \in Databases
  BY <1>0 DEF Begin, Locked, TaskOK
<1>2. /\ OnlyOf(t) /\ db' = db /\ call' = call /\ view'[t] = db /\ row'[t] = 0
      /\ stage'[t] = FirstStatement(call[t].op)
  BY <1>0 DEF Begin, Locked, WorkInv, Work
<1>3. CASE call[t].op = "replace_problems"
  <2>1. stage'[t] = "upsert"
    BY <1>1, <1>2, <1>3, FirstStatementTyped
  <2>2. call[t].rows \in Seq(CatalogRow)
    BY <1>0, <1>1, <1>3, CallTyped DEF TaskOK
  <2>3. Cataloguing(t)'
    <3>1. view'[t] = [db' EXCEPT !.problems = view'[t].problems]
      BY <1>1, <1>2 DEF Databases
    <3>2. ASSUME NEW p \in Problems PROVE Catalogued(t, p)'
      BY <1>2, <2>1 DEF Catalogued, NoneAbout
    <3> QED
      BY <1>2, <2>1, <2>2, <3>1, <3>2 DEF Cataloguing
  <2>4. Work(t)'
    BY <1>1, <1>2, <1>3, <2>1, <2>3 DEF Work, Behind, Transacting
  <2> QED
    BY <1>2, <2>4, OwnWork
<1>4. CASE call[t].op # "replace_problems"
  <2>1. stage'[t] \in {"select_status", "select_finish"}
    BY <1>1, <1>2, <1>4, FirstStatementTyped DEF Transactional
  <2>2. Work(t)'
    BY <1>1, <1>2, <2>1 DEF Work, Behind, Transacting
  <2> QED
    BY <1>2, <2>2, OwnWork
<1> QED
  BY <1>3, <1>4

\* A call that writes to the file and is about to answer.
LEMMA WriterWork ==
  ASSUME WorkInv, SafeInv', NEW t \in Tasks, OnlyOf(t), stage'[t] = "reply",
         \A o \in Tasks \ {t} : stage[o] \notin Transacting,
         \A u \in UserIds : UserExists(db', u) =>
           UserExists(db, u) \/ (u = minted[t] /\ minted[t] # NULL)
  PROVE  WorkInv'
<1>1. Work(t)'
  BY DEF Work, Transacting, Behind
<1>2. ASSUME NEW o \in Tasks \ {t} PROVE Work(o)'
  <2>1. /\ stage'[o] = stage[o] /\ call'[o] = call[o] /\ minted'[o] = minted[o]
        /\ row'[o] = row[o] /\ stage[o] \notin Transacting
    BY DEF OnlyOf, Alone
  <2>2. Work(o) /\ (minted[t] # NULL => minted[t] # minted[o])
    BY DEF WorkInv, SafeInv, MintedOnce
  <2>3. stage[o] \in {"acquire", "insert"} /\ call[o].op = "create_user" =>
          minted[o] \in UserIds
    BY DEF WorkInv, SafeInv, TypeInv, TaskOK
  <2>4. stage[o] \in {"acquire", "insert"} /\ call[o].op = "create_user" =>
          ~UserExists(db', minted[o])
    BY <2>2, <2>3 DEF Work
  <2> QED
    BY <2>1, <2>2, <2>4 DEF Work, Transacting, Behind
<1> QED
  BY <1>1, <1>2 DEF WorkInv

\* The single INSERTs: no transaction is open.
LEMMA WorkInserts ==
  ASSUME WorkInv, SafeInv', NEW t \in Tasks,
         CreateUser(t) \/ CreateSubmission(t) \/ RecordRun(t)
  PROVE  WorkInv'
<1> USE DEF SafeInv, TypeInv, TypeOK, GoTo, Alone, OnlyOf
<1>0. SafeInv
  BY DEF WorkInv
<1>1. /\ stage[t] = "insert" /\ lock = NULL /\ OnlyOf(t) /\ stage'[t] = "reply"
  BY <1>0 DEF CreateUser, CreateSubmission, RecordRun, Inserting, Finished
<1>2. \A o \in Tasks : stage[o] \notin Transacting
  BY <1>0, <1>1, StoreAssumption DEF OneWriter
<1>3. ASSUME NEW u \in UserIds, UserExists(db', u)
      PROVE  UserExists(db, u) \/ (u = minted[t] /\ minted[t] # NULL)
  <2>1. CASE CreateUser(t)
    <3>1. minted[t] \in UserIds /\ db \in Databases
      BY <1>0, <2>1 DEF CreateUser, Inserting, TaskOK
    <3>2. db' = db \/ db' = InsertUser(db, minted[t], call[t].account)
      BY <2>1 DEF CreateUser
    <3> QED
      BY <1>3, <3>1, <3>2, TablesAssumption DEF InsertUser, UserExists, Databases
  <2>2. CASE CreateSubmission(t) \/ RecordRun(t)
    <3>1. db'.users = db.users
      BY <1>0, <2>2 DEF CreateSubmission, RecordRun, InsertSubmission, InsertRun, Databases
    <3> QED
      BY <1>3, <3>1 DEF UserExists
  <2> QED
    BY <2>1, <2>2
<1> QED
  BY <1>1, <1>2, <1>3, WriterWork

\* One more row of a catalog.
LEMMA RowTaken ==
  ASSUME NEW rows \in Seq(CatalogRow), NEW n \in Nat, n < Len(rows), NEW p
  PROVE  /\ rows[n + 1].id = p => LastAbout(rows, n + 1, p, n + 1)
         /\ rows[n + 1].id # p =>
              /\ \A i \in 1..n : LastAbout(rows, n, p, i) => LastAbout(rows, n + 1, p, i)
              /\ NoneAbout(rows, n, p) => NoneAbout(rows, n + 1, p)
<1>1. /\ n + 1 \in 1..(n + 1) /\ \A j \in 1..(n + 1) : j \in 1..n \/ j = n + 1
      /\ \A j \in 1..n : j \in 1..(n + 1) /\ j < n + 1
      /\ \A j \in 1..(n + 1) : ~(j > n + 1)
  OBVIOUS
<1> QED
  BY <1>1 DEF LastAbout, NoneAbout

\* A transaction that ends without its COMMIT, on an error.
LEMMA WorkAborts ==
  ASSUME WorkInv, SafeInv', NEW t \in Tasks, OnlyOf(t), db' = db,
         call'[t] = call[t], stage[t] \in Transacting, stage'[t] = "rollback",
         \/ answer'[t] = "Database"
         \/ answer'[t] # "Ok" /\ answer'[t] = Abstract!AnswerTo(db, call[t])
  PROVE  WorkInv'
<1>1. Work(t)
  BY DEF WorkInv
<1>2. Abstract!AnswerTo(db', call'[t]) = Abstract!AnswerTo(db, call[t])
  OBVIOUS
<1>3. Work(t)'
  BY <1>1, <1>2 DEF Work, Transacting, Behind, Broken
<1> QED
  BY <1>3, OwnWork

\* One turn of the upsert loop.
LEMMA WorkUpsertRow ==
  ASSUME WorkInv, SafeInv', NEW t \in Tasks, UpsertRow(t)
  PROVE  WorkInv'
<1> USE DEF SafeInv, TypeInv, TypeOK, GoTo, Alone, OnlyOf
<1> DEFINE r == call[t].rows[row[t] + 1]
<1>0. SafeInv /\ Work(t)
  BY DEF WorkInv
<1>1. /\ stage[t] = "upsert" /\ row[t] < Len(call[t].rows) /\ row[t] \in Nat
      /\ stage[t] \in Transacting
  BY <1>0 DEF UpsertRow, Transacting
<1>2. /\ call[t].op = "replace_problems" /\ call[t].rows \in Seq(CatalogRow)
      /\ view[t] \in Databases /\ db \in Databases
  BY <1>0, <1>1, CallTyped DEF TaskOK
<1>3. CASE ~CanUpsertProblem(r.content)
  <2>1. Abort(t, "Database") /\ UNCHANGED <<view, row, clock, db, lock, call, minted, stamp>>
    BY <1>3 DEF UpsertRow
  <2> QED
    BY <1>0, <1>1, <2>1, WorkAborts DEF Abort
<1>4. CASE CanUpsertProblem(r.content)
  <2>1. /\ view'[t] = UpsertProblem(view[t], r.id, r.content) /\ row'[t] = row[t] + 1
        /\ stage'[t] = "upsert" /\ OnlyOf(t) /\ db' = db /\ call' = call
    BY <1>0, <1>1, <1>4 DEF UpsertRow
  <2>2. Cataloguing(t)
    BY <1>0, <1>1, <1>2 DEF Work
  <2>3. r \in CatalogRow
    BY <1>1, <1>2
  <2>4. /\ view'[t] = [db EXCEPT !.problems = view'[t].problems]
        /\ view'[t].problems = [view[t].problems EXCEPT ![r.id] = r.content]
        /\ DOMAIN view[t].problems = Problems
    <3>1. view'[t] = [view[t] EXCEPT !.problems = [@ EXCEPT ![r.id] = r.content]]
      BY <2>1 DEF UpsertProblem
    <3>2. view[t] = [db EXCEPT !.problems = view[t].problems]
      BY <2>2 DEF Cataloguing
    <3> HIDE DEF r
    <3> QED
      BY <1>2, <3>1, <3>2 DEF Databases
  <2>5. row[t] + 1 <= Len(call[t].rows)
    BY <1>1, <1>2
  <2>6. \A i \in 1..(row[t] + 1) : CanUpsertProblem(call[t].rows[i].content)
    BY <1>1, <1>4, <2>2 DEF Cataloguing
  <2>7. ASSUME NEW p \in Problems PROVE Catalogued(t, p)'
    <3>1. Catalogued(t, p)
      BY <2>2 DEF Cataloguing
    <3>2. CASE r.id = p
      <4>1. LastAbout(call[t].rows, row[t] + 1, p, row[t] + 1)
        BY <1>1, <1>2, <3>2, RowTaken
      <4>2. view'[t].problems[p] = r.content
        BY <2>4, <3>2
      <4>3. row[t] + 1 \in 1..(row[t] + 1)
        BY <1>1
      <4> QED
        BY <2>1, <4>1, <4>2, <4>3 DEF Catalogued
    <3>3. CASE r.id # p
      <4>1. /\ \A i \in 1..row[t] : LastAbout(call[t].rows, row[t], p, i) =>
                                       LastAbout(call[t].rows, row[t] + 1, p, i)
            /\ NoneAbout(call[t].rows, row[t], p) => NoneAbout(call[t].rows, row[t] + 1, p)
        BY <1>1, <1>2, <3>3, RowTaken
      <4>2. view'[t].problems[p] = view[t].problems[p]
        BY <2>4, <3>3
      <4>3. \A i \in 1..row[t] : i \in 1..(row[t] + 1)
        BY <1>1
      <4> QED
        BY <1>1, <2>1, <3>1, <4>1, <4>2, <4>3 DEF Catalogued
    <3> QED
      BY <3>2, <3>3
  <2> HIDE DEF r
  <2>8. Cataloguing(t)'
    BY <2>1, <2>4, <2>5, <2>6, <2>7 DEF Cataloguing
  <2>9. Work(t)'
    BY <1>2, <2>1, <2>8 DEF Work, Transacting, Behind, Transactional
  <2> QED
    BY <2>1, <2>9, OwnWork
<1> QED
  BY <1>3, <1>4

\* What replace_problems holds when its upserts are done, and what its own
\* view and the file have in common.
LEMMA CatalogUpserted ==
  ASSUME WorkInv, NEW t \in Tasks,
         stage[t] = "delete" \/ (stage[t] = "upsert" /\ row[t] = Len(call[t].rows))
  PROVE  /\ call[t].op = "replace_problems" /\ call[t].rows \in Seq(CatalogRow)
         /\ row[t] = Len(call[t].rows) /\ DOMAIN call[t].rows = 1..row[t]
         /\ Cataloguing(t) /\ view[t] \in Databases
         /\ \A p \in Problems : CanDeleteProblem(view[t], p) <=> CanDeleteProblem(db, p)
<1>1. stage[t] \in {"upsert", "delete"} /\ stage[t] \in Transacting
  BY DEF Transacting
<1>2. /\ call[t].op = "replace_problems" /\ call[t].rows \in Seq(CatalogRow)
      /\ view[t] \in Databases /\ db \in Databases
  BY <1>1, CallTyped DEF WorkInv, SafeInv, TypeInv, TypeOK, TaskOK
<1>3. Cataloguing(t)
  BY <1>1, <1>2 DEF WorkInv, Work
<1>4. row[t] = Len(call[t].rows)
  BY <1>3 DEF Cataloguing
<1>5. view[t].submissions = db.submissions /\ view[t].progress = db.progress
  BY <1>2, <1>3 DEF Cataloguing, Databases
<1>6. \A p \in Problems : CanDeleteProblem(view[t], p) <=> CanDeleteProblem(db, p)
  BY <1>5 DEF CanDeleteProblem, SubmissionExists
<1> QED
  BY <1>2, <1>3, <1>4, <1>6

\* SELECT id: what there is to delete.
LEMMA WorkSelectProblems ==
  ASSUME WorkInv, SafeInv', NEW t \in Tasks, SelectProblems(t)
  PROVE  WorkInv'
<1> USE DEF SafeInv, TypeInv, TypeOK, GoTo, Alone, OnlyOf
<1>0. SafeInv /\ Work(t)
  BY DEF WorkInv
<1>1. /\ stage[t] = "upsert" /\ row[t] = Len(call[t].rows)
      /\ OnlyOf(t) /\ UNCHANGED <<db, view, call, row>>
      /\ stage'[t] \in {"commit", "delete"}
      /\ stage'[t] = "commit" => Dropped(t) = {}
  BY <1>0 DEF SelectProblems
<1>2. /\ call[t].op = "replace_problems" /\ DOMAIN call[t].rows = 1..row[t]
      /\ Cataloguing(t)
  BY <1>1, CatalogUpserted
<1>3. ASSUME NEW p \in Problems PROVE Catalogued(t, p)'
  <2>1. Catalogued(t, p)
    BY <1>2 DEF Cataloguing
  <2>2. NoneAbout(call[t].rows, row[t], p) /\ stage'[t] = "commit" =>
          view[t].problems[p] = NULL
    BY <1>1, <1>2 DEF NoneAbout, Dropped, ProblemExists
  <2> QED
    BY <1>1, <2>1, <2>2 DEF Catalogued
<1>4. Cataloguing(t)'
  BY <1>1, <1>2, <1>3 DEF Cataloguing
<1>5. Work(t)'
  BY <1>1, <1>2, <1>4 DEF Work, Transacting, Behind, Transactional
<1> QED
  BY <1>1, <1>5, OwnWork

\* One DELETE: the row goes when no foreign key leads to it.
LEMMA WorkDeleteRow ==
  ASSUME WorkInv, SafeInv', NEW t \in Tasks, DeleteRow(t)
  PROVE  WorkInv'
<1> USE DEF SafeInv, TypeInv, TypeOK, GoTo, Alone, OnlyOf
<1>0. SafeInv /\ Work(t)
  BY DEF WorkInv
<1>1. PICK p \in Dropped(t) :
        IF CanDeleteProblem(view[t], p)
          THEN /\ view' = [view EXCEPT ![t] = DeleteProblem(@, p)]
               /\ GoTo(t, IF Dropped(t) = {p} THEN "commit" ELSE "delete")
               /\ UNCHANGED answer
          ELSE Abort(t, "Database") /\ UNCHANGED view
  BY DEF DeleteRow
<1>2. stage[t] = "delete" /\ UNCHANGED <<clock, db, lock, call, minted, stamp, row>>
  BY DEF DeleteRow
<1>3. /\ call[t].op = "replace_problems" /\ DOMAIN call[t].rows = 1..row[t]
      /\ row[t] = Len(call[t].rows) /\ Cataloguing(t) /\ view[t] \in Databases
      /\ CanDeleteProblem(view[t], p) => CanDeleteProblem(db, p)
      /\ p \in Problems
  BY <1>2, CatalogUpserted DEF Dropped
<1>4. CASE ~CanDeleteProblem(view[t], p)
  BY <1>0, <1>1, <1>2, <1>4, WorkAborts DEF Abort, Transacting
<1>5. CASE CanDeleteProblem(view[t], p)
  <2>1. /\ view'[t] = DeleteProblem(view[t], p) /\ OnlyOf(t)
        /\ stage'[t] \in {"commit", "delete"}
        /\ stage'[t] = "commit" => Dropped(t) = {p}
    BY <1>0, <1>1, <1>2, <1>5
  <2>2. /\ view'[t] = [db EXCEPT !.problems = view'[t].problems]
        /\ view'[t].problems = [view[t].problems EXCEPT ![p] = NULL]
        /\ DOMAIN view[t].problems = Problems
    <3>1. view'[t] = [view[t] EXCEPT !.problems = [@ EXCEPT ![p] = NULL]]
      BY <2>1 DEF DeleteProblem
    <3>2. view[t] = [db EXCEPT !.problems = view[t].problems]
      BY <1>3 DEF Cataloguing
    <3>3. db \in Databases
      BY <1>0
    <3> QED
      BY <1>3, <3>1, <3>2, <3>3 DEF Databases
  <2>3. ASSUME NEW q \in Problems PROVE Catalogued(t, q)'
    <3>1. Catalogued(t, q)
      BY <1>3 DEF Cataloguing
    <3>2. CASE q = p
      <4>1. NoneAbout(call[t].rows, row[t], p) /\ view'[t].problems[p] = NULL
        BY <1>3, <2>2 DEF NoneAbout, Dropped
      <4> QED
        BY <1>2, <1>3, <1>5, <2>1, <3>2, <4>1 DEF Catalogued
    <3>3. CASE q # p
      <4>1. view'[t].problems[q] = view[t].problems[q]
        BY <2>2, <3>3
      <4>2. NoneAbout(call[t].rows, row[t], q) /\ stage'[t] = "commit" =>
              view[t].problems[q] = NULL
        <5>1. stage'[t] = "commit" => q \notin Dropped(t)
          BY <2>1, <3>3
        <5>2. NoneAbout(call[t].rows, row[t], q) /\ q \notin Dropped(t) =>
                view[t].problems[q] = NULL
          BY <1>3 DEF NoneAbout, Dropped, ProblemExists
        <5> QED
          BY <5>1, <5>2
      <4> QED
        BY <1>2, <2>1, <3>1, <4>1, <4>2 DEF Catalogued
    <3> QED
      BY <3>2, <3>3
  <2>4. Cataloguing(t)'
    BY <1>2, <1>3, <2>2, <2>3 DEF Cataloguing
  <2>5. Work(t)'
    BY <1>2, <1>3, <2>1, <2>4 DEF Work, Transacting, Behind, Transactional
  <2> QED
    BY <1>2, <2>1, <2>5, OwnWork
<1> QED
  BY <1>4, <1>5

\* What the specification answers to a move of a submission's status.
LEMMA AnswerToMove ==
  ASSUME NEW d, NEW c, NEW to,
         \/ c.op = "set_submission_status" /\ to = c.status
         \/ c.op = "finish_submission" /\ to = "DONE"
  PROVE  Abstract!AnswerTo(d, c) = Abstract!MoveAnswer(d, c, to)
BY DEF Abstract!AnswerTo

\* The SELECTs: what is refused is what the specification refuses.
LEMMA WorkChecks ==
  ASSUME WorkInv, SafeInv', NEW t \in Tasks, SelectStatus(t) \/ SelectFinish(t)
  PROVE  WorkInv'
<1> USE DEF SafeInv, TypeInv, TypeOK, GoTo, Alone, OnlyOf
<1>0. SafeInv /\ Work(t)
  BY DEF WorkInv
<1>1. /\ stage[t] \in {"select_status", "select_finish"} /\ stage[t] \in Transacting
      /\ view[t] = db
  BY <1>0 DEF SelectStatus, SelectFinish, Work, Transacting
<1>2. ASSUME NEW to, NEW next, Check(t, to, next),
             \/ /\ next = "update_status" /\ to = call[t].status
                /\ call[t].op = "set_submission_status"
             \/ /\ next = "update_done" /\ to = "DONE"
                /\ call[t].op = "finish_submission"
      PROVE  WorkInv'
  <2>1. OnlyOf(t) /\ db' = db /\ call'[t] = call[t] /\ view'[t] = db /\ row'[t] = row[t]
    BY <1>0, <1>1, <1>2 DEF Check, Abort
  <2>2. Abstract!AnswerTo(db, call[t]) = Abstract!MoveAnswer(db, call[t], to)
    BY <1>2, AnswerToMove
  <2>3. CASE stage'[t] = next
    <3>1. Work(t)'
      BY <1>2, <2>1, <2>3 DEF Work, Transacting, Behind, Transactional
    <3> QED
      BY <2>1, <3>1, OwnWork
  <2>4. CASE ~SubmissionExists(db, call[t].id)
    <3>1. stage'[t] = "rollback" /\ answer'[t] = "NotFound"
      BY <1>0, <1>1, <1>2, <2>4 DEF Check, Abort
    <3>2. Abstract!AnswerTo(db, call[t]) = "NotFound"
      BY <2>2, <2>4 DEF Abstract!MoveAnswer, SubmissionExists, Abstract!SubmissionExists
    <3> QED
      BY <1>1, <2>1, <3>1, <3>2, WorkAborts
  <2>5. CASE /\ SubmissionExists(db, call[t].id)
             /\ ~CanTransitionTo(db.submissions[call[t].id].status, to)
    <3>1. stage'[t] = "rollback" /\ answer'[t] = "IllegalTransition"
      BY <1>0, <1>1, <1>2, <2>5 DEF Check, Abort
    <3>2. Abstract!AnswerTo(db, call[t]) = "IllegalTransition"
      BY <2>2, <2>5 DEF Abstract!MoveAnswer, SubmissionExists, Abstract!SubmissionExists,
         CanTransitionTo, Abstract!CanTransitionTo, Underway, Abstract!Underway
    <3> QED
      BY <1>1, <2>1, <3>1, <3>2, WorkAborts
  <2> QED
    BY <1>0, <1>1, <1>2, <2>3, <2>4, <2>5 DEF Check
<1>3. CASE SelectStatus(t)
  <2>1. call[t].op = "set_submission_status"
    BY <1>0, <1>3 DEF SelectStatus, TaskOK
  <2> QED
    BY <1>2, <1>3, <2>1 DEF SelectStatus
<1>4. CASE SelectFinish(t)
  <2>1. call[t].op = "finish_submission"
    BY <1>0, <1>4 DEF SelectFinish, TaskOK
  <2> QED
    BY <1>2, <1>4, <2>1 DEF SelectFinish
<1> QED
  BY <1>3, <1>4

\* The UPDATE of set_submission_status.
LEMMA WorkUpdateStatus ==
  ASSUME WorkInv, SafeInv', NEW t \in Tasks, UpdateStatus(t)
  PROVE  WorkInv'
<1> USE DEF SafeInv, TypeInv, TypeOK, GoTo, Alone, OnlyOf
<1>0. SafeInv /\ Work(t) /\ Held(t) /\ TaskOK(t)
  BY DEF WorkInv
<1>1. stage[t] = "update_status" /\ stage[t] \in Transacting /\ view[t] = db
  BY <1>0 DEF UpdateStatus, Work, Transacting
<1>2. /\ call[t].op = "set_submission_status" /\ SubmissionExists(db, call[t].id)
      /\ CanTransitionTo(db.submissions[call[t].id].status, call[t].status)
  BY <1>0, <1>1 DEF TaskOK, Held
<1>3. /\ OnlyOf(t) /\ UNCHANGED <<db, call, row>> /\ stage'[t] = "commit"
      /\ stamp'[t] = clock
      /\ view'[t] = WriteStatus(db, call[t].id, call[t].status, stamp'[t])
  BY <1>0, <1>1 DEF UpdateStatus
<1>4. Moving(t)'
  BY <1>2, <1>3 DEF Moving, Allowed
<1>5. Work(t)'
  BY <1>2, <1>3, <1>4 DEF Work, Transacting, Behind, Transactional
<1> QED
  BY <1>3, <1>5, OwnWork

\* The first UPDATE of finish_submission.
LEMMA WorkUpdateDone ==
  ASSUME WorkInv, SafeInv', NEW t \in Tasks, UpdateDone(t)
  PROVE  WorkInv'
<1> USE DEF SafeInv, TypeInv, TypeOK, GoTo, Alone, OnlyOf
<1>0. SafeInv /\ Work(t) /\ Held(t) /\ TaskOK(t) /\ db \in Databases
  BY DEF WorkInv
<1>1. stage[t] = "update_done" /\ stage[t] \in Transacting /\ view[t] = db
  BY <1>0 DEF UpdateDone, Work, Transacting
<1>2. /\ call[t].op = "finish_submission" /\ SubmissionExists(db, call[t].id)
      /\ CanTransitionTo(db.submissions[call[t].id].status, "DONE")
  BY <1>0, <1>1 DEF TaskOK, Held
<1>3. /\ OnlyOf(t) /\ UNCHANGED <<db, call, row>>
      /\ stage'[t] \in Behind \cup {"commit"} /\ stamp'[t] = clock
      /\ view'[t] = WriteVerdict(db, call[t].id, call[t].verdict, stamp'[t])
  BY <1>0, <1>1 DEF UpdateDone, Behind
<1>4. view'[t] = [view'[t] EXCEPT !.progress = view'[t].progress]
  BY <1>0, <1>3 DEF WriteVerdict, Databases
<1>5. Finishing(t)'
  BY <1>2, <1>3, <1>4 DEF Finishing, Allowed
<1>6. Work(t)'
  BY <1>2, <1>3, <1>5 DEF Work, Transacting, Behind, Transactional
<1> QED
  BY <1>3, <1>6, OwnWork

\* The UPDATE of user_progress, or the INSERT when there is no row yet.
LEMMA WorkProgress ==
  ASSUME WorkInv, SafeInv', NEW t \in Tasks,
         UpdateUserProgress(t) \/ InsertUserProgress(t)
  PROVE  WorkInv'
<1> USE DEF SafeInv, TypeInv, TypeOK, GoTo, Alone, OnlyOf
<1>0. SafeInv /\ Work(t) /\ TaskOK(t) /\ db \in Databases
  BY DEF WorkInv
<1>1. stage[t] \in Behind /\ stage[t] \in Transacting /\ call[t].op = "finish_submission"
  BY <1>0 DEF UpdateUserProgress, InsertUserProgress, Behind, Transacting, TaskOK
<1>2. Finishing(t) /\ view[t] \in Databases
  BY <1>0, <1>1 DEF Work, TaskOK
<1>3. /\ OnlyOf(t) /\ UNCHANGED <<db, call, stamp, row>>
      /\ stage'[t] \in Behind \cup {"commit"}
  BY <1>0 DEF UpdateUserProgress, InsertUserProgress, Behind
<1>4. view'[t] = [view[t] EXCEPT !.progress = view'[t].progress]
  <2>1. CASE view'[t] = view[t]
    BY <1>2, <2>1 DEF Databases
  <2>2. CASE view'[t] = UpdateProgress(view[t], Learner(t), Attempted(t),
                                       call[t].verdict, stamp[t])
    BY <1>2, <2>2 DEF UpdateProgress, Databases
  <2>3. CASE view'[t] = InsertProgress(view[t], Learner(t), Attempted(t),
                                       call[t].verdict, stamp[t])
    BY <1>2, <2>3 DEF InsertProgress, Databases
  <2> QED
    BY <1>0, <2>1, <2>2, <2>3 DEF UpdateUserProgress, InsertUserProgress
<1>5. view'[t] = [WriteVerdict(db, call[t].id, call[t].verdict, stamp[t])
                    EXCEPT !.progress = view'[t].progress]
  <2> DEFINE w == WriteVerdict(db, call[t].id, call[t].verdict, stamp[t])
  <2>1. view[t] = [w EXCEPT !.progress = view[t].progress]
    BY <1>2 DEF Finishing
  <2> HIDE DEF w
  <2>2. [[w EXCEPT !.progress = view[t].progress] EXCEPT !.progress = view'[t].progress]
          = [w EXCEPT !.progress = view'[t].progress]
    OBVIOUS
  <2> QED
    BY <1>4, <2>1, <2>2 DEF w
<1>6. Finishing(t)'
  BY <1>2, <1>3, <1>5 DEF Finishing, Allowed
<1>7. Work(t)'
  BY <1>1, <1>3, <1>6 DEF Work, Transacting, Behind, Transactional
<1> QED
  BY <1>3, <1>7, OwnWork

\* What the view of a transaction is when it commits, by its method.
LEMMA ViewAtCommit ==
  ASSUME WorkInv, NEW t \in Tasks, stage[t] = "commit"
  PROVE  /\ call[t] \in Calls /\ view[t] \in Databases /\ db \in Databases
         /\ \/ call[t].op = "replace_problems" /\ Cataloguing(t)
            \/ call[t].op = "set_submission_status" /\ Moving(t)
            \/ call[t].op = "finish_submission" /\ Finishing(t)
         /\ view[t].users = db.users /\ view[t].runs = db.runs
         /\ \A o \in Tasks \ {t} : stage[o] \notin Transacting
<1>1. stage[t] \in Transacting
  BY DEF Transacting
<1>2. Work(t) /\ TaskOK(t) /\ db \in Databases /\ OneWriter
  BY DEF WorkInv, SafeInv, TypeInv, TypeOK
<1>3. call[t] \in Calls /\ view[t] \in Databases
  BY <1>1, <1>2 DEF TaskOK
<1>4. \/ call[t].op = "replace_problems" /\ Cataloguing(t)
      \/ call[t].op = "set_submission_status" /\ Moving(t)
      \/ call[t].op = "finish_submission" /\ Finishing(t)
  BY <1>1, <1>2 DEF Work, Transactional
<1>5. view[t].users = db.users /\ view[t].runs = db.runs
  BY <1>2, <1>4 DEF Cataloguing, Moving, Finishing, WriteStatus, WriteVerdict, Databases
<1>6. \A o \in Tasks \ {t} : stage[o] \notin Transacting
  BY <1>1, <1>2 DEF OneWriter
<1> QED
  BY <1>2, <1>3, <1>4, <1>5, <1>6

\* COMMIT.
LEMMA WorkCommit ==
  ASSUME WorkInv, SafeInv', NEW t \in Tasks, Commit(t)
  PROVE  WorkInv'
<1> USE DEF SafeInv, TypeInv, TypeOK, GoTo, Alone, OnlyOf
<1>0. SafeInv
  BY DEF WorkInv
<1>1. /\ stage[t] = "commit" /\ stage'[t] = "reply" /\ db' = view[t] /\ OnlyOf(t)
  BY <1>0 DEF Commit, Release, Finished
<1>2. \A u \in UserIds : UserExists(db', u) => UserExists(db, u)
  BY <1>1, ViewAtCommit DEF UserExists
<1> QED
  BY <1>1, <1>2, ViewAtCommit, WriterWork

\* A call starts.
LEMMA WorkInvoke ==
  ASSUME WorkInv, SafeInv', NEW t \in Tasks, NEW c \in Calls, Invoke(t, c)
  PROVE  WorkInv'
<1> USE DEF SafeInv, TypeInv, TypeOK, GoTo, Alone, OnlyOf
<1>0. SafeInv /\ Work(t)
  BY DEF WorkInv
<1>1. PICK id \in Generated(c) : minted' = [minted EXCEPT ![t] = id]
  BY DEF Invoke
<1>2. c.op = "create_user" => ~UserExists(db, id)
  BY <1>1 DEF Generated
<1>3. /\ stage'[t] = "acquire" /\ call'[t] = c /\ minted'[t] = id
      /\ row'[t] = 0 /\ OnlyOf(t) /\ db' = db
  BY <1>0, <1>1 DEF Invoke, Work
<1>4. Work(t)'
  BY <1>2, <1>3 DEF Work, Transacting, Behind
<1> QED
  BY <1>3, <1>4, OwnWork

\* Time passes.
LEMMA WorkTick ==
  ASSUME WorkInv, SafeInv', Tick \/ UNCHANGED vars
  PROVE  WorkInv'
<1>1. UNCHANGED <<db, lock, view, stage, call, minted, stamp, row, answer>>
  BY DEF Tick, vars
<1>2. ASSUME NEW t \in Tasks PROVE Work(t)'
  <2>1. Work(t)
    BY DEF WorkInv
  <2>2. Cataloguing(t) => Cataloguing(t)'
    BY <1>1 DEF Cataloguing, Catalogued
  <2>3. (Moving(t) => Moving(t)') /\ (Finishing(t) => Finishing(t)')
    BY <1>1 DEF Moving, Finishing, Allowed
  <2>4. Abstract!AnswerTo(db', call'[t]) = Abstract!AnswerTo(db, call[t])
    BY <1>1
  <2> QED
    BY <1>1, <2>1, <2>2, <2>3, <2>4 DEF Work
<1> QED
  BY <1>2 DEF WorkInv

\* The process dies: there are no calls.
LEMMA WorkCrash ==
  ASSUME WorkInv, SafeInv', Crash
  PROVE  WorkInv'
<1>1. ASSUME NEW t \in Tasks PROVE Work(t)'
  BY DEF Crash, Work, Transacting, Behind
<1> QED
  BY <1>1 DEF WorkInv

\* Every step keeps WorkInv.
LEMMA WorkNext == WorkInv /\ [Next]_vars => WorkInv'
<1> SUFFICES ASSUME WorkInv, [Next]_vars PROVE WorkInv'
  OBVIOUS
<1>0. SafeInv'
  BY SafeNext DEF WorkInv
<1>1. CASE Tick \/ UNCHANGED vars
  BY <1>0, <1>1, WorkTick
<1>2. ASSUME NEW t \in Tasks, Step(t) \/ Cancel(t) \/ StatementFails(t) \/ CorruptRow(t)
      PROVE  WorkInv'
  BY <1>0, <1>2, WorkQuietly, WorkBegin, WorkInserts, WorkUpsertRow, WorkSelectProblems,
     WorkDeleteRow, WorkChecks, WorkUpdateStatus, WorkUpdateDone, WorkProgress, WorkCommit
     DEF Step
<1>3. ASSUME NEW t \in Tasks, NEW c \in Calls, Invoke(t, c)
      PROVE  WorkInv'
  BY <1>0, <1>3, WorkInvoke
<1>4. CASE Crash
  BY <1>0, <1>4, WorkCrash
<1> QED
  BY <1>1, <1>2, <1>3, <1>4 DEF Next

\* WorkInv is inductive.
THEOREM WorkInvariant == Spec => []WorkInv
BY WorkInit, WorkNext, PTL DEF Spec

-----------------------------------------------------------------------------
(* What is committed is never taken back.                                  *)

\* What no step takes back: accounts and runs stay, and a submission keeps its
\* row or moves on as can_transition_to allows.
Extends(d, e) ==
  /\ \A u \in UserIds : UserExists(d, u) => e.users[u] = d.users[u]
  /\ d.runs \subseteq e.runs
  /\ \A s \in Submissions(d) : \/ e.submissions[s] = d.submissions[s]
                               \/ MayBecome(d.submissions[s], e.submissions[s])

\* The rows of the submissions table that a transaction may commit.
LEMMA RowsMayBecome ==
  ASSUME NEW r \in SubmissionRow, NEW st \in Statuses, NEW v \in Verdicts, NEW now \in Nat
  PROVE  /\ CanTransitionTo(r.status, st) => MayBecome(r, Moved(r, st, now))
         /\ CanTransitionTo(r.status, "DONE") => MayBecome(r, Judged(r, v, now))
<1>1. Moved(r, st, now) # NULL /\ Judged(r, v, now) # NULL
  BY RowsTyped, TablesAssumption
<1>2. /\ Moved(r, st, now).status = st
      /\ r.started_at # NULL => Moved(r, st, now).started_at = r.started_at
      /\ \A f \in {"user", "problem", "hash", "created_at"} : Moved(r, st, now)[f] = r[f]
  BY DEF Moved, SubmissionRow
<1>3. /\ Judged(r, v, now).status = "DONE"
      /\ Judged(r, v, now).started_at = r.started_at
      /\ \A f \in {"user", "problem", "hash", "created_at"} : Judged(r, v, now)[f] = r[f]
  BY DEF Judged, SubmissionRow
<1> HIDE DEF Moved, Judged
<1> QED
  BY <1>1, <1>2, <1>3 DEF MayBecome

\* The single INSERTs add rows and change none.
LEMMA InsertsExtend ==
  ASSUME WorkInv, NEW t \in Tasks, CreateUser(t) \/ CreateSubmission(t) \/ RecordRun(t)
  PROVE  Extends(db, db')
<1>1. db \in Databases /\ Work(t) /\ Held(t) /\ TaskOK(t)
  BY DEF WorkInv, SafeInv, TypeInv, TypeOK
<1>2. CASE db' = db
  BY <1>2 DEF Extends
<1>3. CASE CreateUser(t) /\ db' = InsertUser(db, minted[t], call[t].account)
  <2>1. ~UserExists(db, minted[t])
    BY <1>1, <1>3 DEF CreateUser, Inserting, Work
  <2>2. /\ db'.users = [db.users EXCEPT ![minted[t]] = call[t].account]
        /\ db'.submissions = db.submissions /\ db'.runs = db.runs
    BY <1>1, <1>3 DEF InsertUser, Databases
  <2>3. DOMAIN db.users = UserIds
    BY <1>1 DEF Databases
  <2> QED
    BY <2>1, <2>2, <2>3 DEF Extends, UserExists
<1>4. CASE /\ CreateSubmission(t)
           /\ db' = InsertSubmission(db, minted[t], call[t].new, stamp[t])
  <2>1. ~SubmissionExists(db, minted[t])
    BY <1>1, <1>4 DEF CreateSubmission, Inserting, Held
  <2>2. /\ \A s \in SubmissionIds \ {minted[t]} : db'.submissions[s] = db.submissions[s]
        /\ db'.users = db.users /\ db'.runs = db.runs
    BY <1>1, <1>4 DEF InsertSubmission, Databases
  <2> QED
    BY <2>1, <2>2 DEF Extends, Submissions
<1>5. CASE db' = InsertRun(db, call[t].run)
  BY <1>1, <1>5 DEF InsertRun, Databases, Extends
<1> QED
  BY <1>2, <1>3, <1>4, <1>5 DEF CreateUser, CreateSubmission, RecordRun

\* COMMIT changes at most the row of one submission, and as it may.
LEMMA CommitExtends ==
  ASSUME WorkInv, NEW t \in Tasks, Commit(t)
  PROVE  Extends(db, db')
<1>1. stage[t] = "commit" /\ db' = view[t]
  BY DEF Commit
<1>2. /\ call[t] \in Calls /\ db \in Databases
      /\ db'.users = db.users /\ db'.runs = db.runs
  BY <1>1, ViewAtCommit
<1>3. stamp[t] \in Nat
  BY DEF WorkInv, SafeInv, TypeInv, TypeOK
<1>4. CASE db'.submissions = db.submissions
  BY <1>2, <1>4 DEF Extends
<1>5. ASSUME NEW s \in SubmissionIds, SubmissionExists(db, s), NEW r,
             MayBecome(db.submissions[s], r),
             db'.submissions = [db.submissions EXCEPT ![s] = r]
      PROVE  Extends(db, db')
  <2>1. DOMAIN db.submissions = SubmissionIds
    BY <1>2 DEF Databases
  <2> QED
    BY <1>2, <1>5, <2>1 DEF Extends, Submissions
<1>6. CASE Cataloguing(t)
  BY <1>1, <1>2, <1>4, <1>6 DEF Cataloguing, Databases
<1>7. CASE call[t].op = "set_submission_status" /\ Moving(t)
  <2>1. /\ call[t].id \in SubmissionIds /\ call[t].status \in Statuses
        /\ SubmissionExists(db, call[t].id)
        /\ CanTransitionTo(db.submissions[call[t].id].status, call[t].status)
    BY <1>2, <1>7, CallTyped DEF Moving, Allowed
  <2>2. MayBecome(db.submissions[call[t].id],
                  Moved(db.submissions[call[t].id], call[t].status, stamp[t]))
    BY <1>2, <1>3, <2>1, SubmissionTyped, RowsMayBecome DEF Verdicts
  <2>3. db'.submissions = [db.submissions EXCEPT ![call[t].id] =
                             Moved(db.submissions[call[t].id], call[t].status, stamp[t])]
    BY <1>1, <1>2, <1>7 DEF Moving, WriteStatus, Databases
  <2> QED
    BY <1>5, <2>1, <2>2, <2>3
<1>8. CASE call[t].op = "finish_submission" /\ Finishing(t)
  <2>1. /\ call[t].id \in SubmissionIds /\ call[t].verdict \in Verdicts
        /\ SubmissionExists(db, call[t].id)
        /\ CanTransitionTo(db.submissions[call[t].id].status, "DONE")
    BY <1>2, <1>8, CallTyped DEF Finishing, Allowed
  <2>2. MayBecome(db.submissions[call[t].id],
                  Judged(db.submissions[call[t].id], call[t].verdict, stamp[t]))
    BY <1>2, <1>3, <2>1, SubmissionTyped, RowsMayBecome DEF Statuses
  <2>3. db'.submissions = [db.submissions EXCEPT ![call[t].id] =
                             Judged(db.submissions[call[t].id], call[t].verdict, stamp[t])]
    BY <1>1, <1>2, <1>8 DEF Finishing, WriteVerdict, Databases
  <2> QED
    BY <1>5, <2>1, <2>2, <2>3
<1> QED
  BY <1>1, <1>6, <1>7, <1>8, ViewAtCommit

\* Who may write to the file.
LEMMA WhoWrites ==
  ASSUME [Next]_vars
  PROVE  \/ db' = db
         \/ \E t \in Tasks : \/ CreateUser(t) \/ CreateSubmission(t) \/ RecordRun(t)
                             \/ Commit(t)
<1>1. ASSUME NEW t \in Tasks, Step(t) \/ Cancel(t) \/ StatementFails(t) \/ CorruptRow(t)
      PROVE  \/ db' = db
             \/ CreateUser(t) \/ CreateSubmission(t) \/ RecordRun(t) \/ Commit(t)
  BY <1>1 DEF Step, Acquire, PoolTimeout, BusyTimeout, Begin, BeginUnclaimed, UpsertRow,
     SelectProblems, CorruptRow,
     DeleteRow, SelectStatus, SelectFinish, Check, UpdateStatus, UpdateDone,
     UpdateUserProgress, InsertUserProgress, Rollback, Return, Cancel, StatementFails
<1> QED
  BY <1>1 DEF Next, Tick, Crash, Invoke, vars

\* Every step extends what is committed.
LEMMA StepExtends == WorkInv /\ [Next]_vars => Extends(db, db')
<1> SUFFICES ASSUME WorkInv, [Next]_vars PROVE Extends(db, db')
  OBVIOUS
<1>1. CASE db' = db
  BY <1>1 DEF Extends
<1> QED
  BY <1>1, WhoWrites, InsertsExtend, CommitExtends

\* No committed submission is ever lost, changes hands, moves other than along
\* can_transition_to, is started twice, or changes once it is DONE: whatever
\* interleaves, fails or dies (model.rs:89-111).
THEOREM HistoryIsLegal == Spec => LegalHistory
<1>1. WorkInv /\ [Next]_vars =>
        [\A s \in Submissions(db) :
           \/ db'.submissions[s] = db.submissions[s]
           \/ MayBecome(db.submissions[s], db'.submissions[s])]_vars
  BY StepExtends DEF Extends
<1> QED
  BY <1>1, WorkInvariant, PTL DEF Spec, LegalHistory

\* The catalog a COMMIT of replace_problems publishes, problem by problem.
LEMMA CatalogAtCommit ==
  ASSUME WorkInv, NEW t \in Tasks, stage[t] = "commit", call[t].op = "replace_problems",
         NEW p \in Problems
  PROVE  \/ /\ \A i \in DOMAIN call[t].rows : call[t].rows[i].id # p
            /\ view[t].problems[p] = NULL
         \/ \E i \in DOMAIN call[t].rows :
              /\ call[t].rows[i].id = p
              /\ \A j \in DOMAIN call[t].rows : call[t].rows[j].id = p => j <= i
              /\ view[t].problems[p] = call[t].rows[i].content
              /\ CanUpsertProblem(call[t].rows[i].content)
<1>1. /\ call[t] \in Calls /\ Cataloguing(t)
  BY ViewAtCommit
<1>2. call[t].rows \in Seq(CatalogRow)
  BY <1>1, CallTyped
<1>3. row[t] = Len(call[t].rows) /\ DOMAIN call[t].rows = 1..row[t]
  BY <1>1, <1>2 DEF Cataloguing
<1>4. CASE NoneAbout(call[t].rows, row[t], p)
  BY <1>1, <1>3, <1>4 DEF Cataloguing, Catalogued, NoneAbout, LastAbout
<1>5. ASSUME NEW i \in 1..row[t], LastAbout(call[t].rows, row[t], p, i),
             view[t].problems[p] = call[t].rows[i].content
      PROVE  \E k \in DOMAIN call[t].rows :
               /\ call[t].rows[k].id = p
               /\ \A j \in DOMAIN call[t].rows : call[t].rows[j].id = p => j <= k
               /\ view[t].problems[p] = call[t].rows[k].content
               /\ CanUpsertProblem(call[t].rows[k].content)
  <2>1. \A j \in 1..row[t] : call[t].rows[j].id = p => j <= i
    BY <1>2, <1>3, <1>5 DEF LastAbout
  <2>2. CanUpsertProblem(call[t].rows[i].content)
    BY <1>1, <1>5 DEF Cataloguing
  <2> QED
    BY <1>3, <1>5, <2>1, <2>2 DEF LastAbout
<1> QED
  BY <1>1, <1>4, <1>5 DEF Cataloguing, Catalogued

\* Only a COMMIT of replace_problems changes the catalog.
LEMMA WhoWritesProblems ==
  ASSUME WorkInv, [Next]_vars, db'.problems # db.problems
  PROVE  \E t \in Tasks : Commit(t) /\ call[t].op = "replace_problems"
<1>1. db \in Databases
  BY DEF WorkInv, SafeInv, TypeInv, TypeOK
<1>2. PICK t \in Tasks : CreateUser(t) \/ CreateSubmission(t) \/ RecordRun(t) \/ Commit(t)
  BY WhoWrites
<1>3. Commit(t)
  BY <1>1, <1>2 DEF CreateUser, CreateSubmission, RecordRun, InsertUser, InsertSubmission,
     InsertRun, Databases
<1>4. stage[t] = "commit" /\ db' = view[t]
  BY <1>3 DEF Commit
<1>5. ~Moving(t) /\ ~Finishing(t)
  BY <1>1, <1>4 DEF Moving, Finishing, WriteStatus, WriteVerdict, Databases
<1> QED
  BY <1>3, <1>4, <1>5, ViewAtCommit

\* The catalog is never seen half replaced: a step that changes it is the
\* COMMIT of one replace_problems call, and what it leaves is the whole catalog
\* of that call, every row of it valid (store.rs:31).
THEOREM CatalogsAreWhole == Spec => CatalogAllOrNothing
<1>1. ASSUME WorkInv, [Next]_vars, db'.problems # db.problems
      PROVE  \E t \in Tasks :
               /\ stage[t] = "commit" /\ call[t].op = "replace_problems"
               /\ \A p \in Problems :
                    LET named == {i \in DOMAIN call[t].rows : call[t].rows[i].id = p}
                    IN  IF named = {} THEN db'.problems[p] = NULL
                        ELSE /\ \E i \in named : /\ \A j \in named : j <= i
                                                 /\ db'.problems[p] = call[t].rows[i].content
                             /\ db'.problems[p] \notin BadContents
  <2>1. PICK t \in Tasks : Commit(t) /\ call[t].op = "replace_problems"
    BY <1>1, WhoWritesProblems
  <2>2. stage[t] = "commit" /\ db' = view[t]
    BY <2>1 DEF Commit
  <2>3. ASSUME NEW p \in Problems
        PROVE  LET named == {i \in DOMAIN call[t].rows : call[t].rows[i].id = p}
               IN  IF named = {} THEN db'.problems[p] = NULL
                   ELSE /\ \E i \in named : /\ \A j \in named : j <= i
                                            /\ db'.problems[p] = call[t].rows[i].content
                        /\ db'.problems[p] \notin BadContents
    BY <1>1, <2>1, <2>2, CatalogAtCommit DEF CanUpsertProblem
  <2> QED
    BY <2>1, <2>2, <2>3
<1> QED
  BY <1>1, WorkInvariant, PTL DEF Spec, CatalogAllOrNothing

-----------------------------------------------------------------------------
(* An answer of Ok is never untrue.                                        *)

\* What t has been told is done is done, and the submission it is about exists.
Holds(t) ==
  /\ Kept(t)
  /\ call[t].op \in {"set_submission_status", "finish_submission"} =>
       SubmissionExists(db, call[t].id)

Told(t) == stage[t] = "reply" /\ answer[t] = "Ok"

\* The inductive invariant behind OkIsKept and OneFinishWins.
AnswerInv ==
  /\ WorkInv
  /\ \A t \in Tasks : Told(t) => Holds(t)
  /\ OneFinishWins

\* A call is told Ok by its INSERT or its COMMIT, and by nothing else.
LEMMA WhoIsTold ==
  ASSUME WorkInv, [Next]_vars, NEW t \in Tasks, Told(t)'
  PROVE  /\ UNCHANGED <<call[t], minted[t], stamp[t]>>
         /\ \/ Told(t)
            \/ /\ CreateUser(t) \/ CreateSubmission(t) \/ RecordRun(t) \/ Commit(t)
               /\ \A o \in Tasks \ {t} : /\ stage'[o] = stage[o] /\ answer'[o] = answer[o]
                                         /\ call'[o] = call[o]
<1> USE DEF TypeOK, GoTo
<1>0. TypeOK /\ Work(t) /\ "Ok" # NULL
  BY CallsAssumption DEF WorkInv, SafeInv, TypeInv, Answers
<1>1. ASSUME NEW a \in Tasks, a # t, Step(a) \/ Cancel(a) \/ StatementFails(a) \/ CorruptRow(a)
      PROVE  UNCHANGED <<call[t], minted[t], stamp[t]>> /\ Told(t)
  <2>1. UNCHANGED <<stage[t], call[t], minted[t], stamp[t], answer[t]>>
    BY <1>0, <1>1 DEF Step, Acquire, PoolTimeout, BusyTimeout, Begin, BeginUnclaimed, CreateUser,
       CreateSubmission, RecordRun, UpsertRow, SelectProblems, DeleteRow, SelectStatus,
       SelectFinish, Check, UpdateStatus, UpdateDone, UpdateUserProgress,
       InsertUserProgress, Commit, Rollback, Return, Cancel, StatementFails, CorruptRow,
       Clear, Abort, Finished
  <2> QED
    BY <2>1 DEF Told
<1>2. CASE CreateUser(t) \/ CreateSubmission(t) \/ RecordRun(t) \/ Commit(t)
  BY <1>0, <1>2 DEF CreateUser, CreateSubmission, RecordRun, Commit, Finished
<1>3. CASE Step(t) \/ Cancel(t) \/ StatementFails(t) \/ CorruptRow(t)
  <2>1. CASE Rollback(t)
    BY <1>0, <2>1 DEF Rollback, Finished, Told, Work, Broken
  <2>2. CASE PoolTimeout(t) \/ BusyTimeout(t)
    BY <1>0, <2>2 DEF PoolTimeout, BusyTimeout, Finished, Told
  <2>3. CASE Return(t) \/ Cancel(t) \/ StatementFails(t) \/ CorruptRow(t) \/ BeginUnclaimed(t)
    BY <1>0, <2>3 DEF Return, Cancel, StatementFails, CorruptRow, BeginUnclaimed, Clear, Abort,
       Finished, Told
  <2>4. CASE Acquire(t) \/ SelectProblems(t) \/ UpdateStatus(t) \/ UpdateDone(t)
               \/ UpdateUserProgress(t) \/ InsertUserProgress(t)
    BY <1>0, <2>4 DEF Acquire, SelectProblems, UpdateStatus, UpdateDone,
       UpdateUserProgress, InsertUserProgress, Told
  <2>5. CASE UpsertRow(t) \/ DeleteRow(t) \/ SelectStatus(t) \/ SelectFinish(t)
    BY <1>0, <2>5 DEF UpsertRow, DeleteRow, SelectStatus, SelectFinish, Check, Abort, Told
  <2>6. CASE Begin(t)
    <3>1. call[t].op \in Transactional
      BY <2>6 DEF Begin, Locked, WorkInv, SafeInv, TypeInv, TaskOK
    <3> QED
      BY <1>0, <2>6, <3>1, FirstStatementTyped DEF Begin, Locked, Told, Transactional
  <2> QED
    BY <1>2, <1>3, <2>1, <2>2, <2>3, <2>4, <2>5, <2>6 DEF Step
<1>4. CASE Tick \/ UNCHANGED vars
  BY <1>4 DEF Tick, vars, Told
<1>5. CASE Crash
  BY <1>5 DEF Crash, Told
<1>6. ASSUME NEW a \in Tasks, NEW c \in Calls, Invoke(a, c)
      PROVE  UNCHANGED <<call[t], minted[t], stamp[t]>> /\ Told(t)
  BY <1>0, <1>6 DEF Invoke, Told
<1> QED
  BY <1>1, <1>3, <1>4, <1>5, <1>6 DEF Next

\* A submission with a verdict is DONE, so it is never written again.
LEMMA VerdictIsFinal ==
  ASSUME WorkInv, NEW s \in Submissions(db), db.submissions[s].verdict \in Verdicts
  PROVE  db.submissions[s].status = "DONE"
<1>1. InOrder(db.submissions[s], clock)
  BY DEF WorkInv, SafeInv, Sound, TimesInOrder
<1> QED
  BY <1>1, TablesAssumption DEF InOrder

\* What was told stays true.
LEMMA ToldStays ==
  ASSUME WorkInv, Extends(db, db'), NEW t \in Tasks, Told(t), Holds(t),
         UNCHANGED <<call[t], minted[t], stamp[t]>>
  PROVE  Holds(t)'
<1>1. /\ call[t] \in Calls
      /\ call[t].op = "create_user" => minted[t] \in UserIds
      /\ call[t].op = "create_submission" => minted[t] \in SubmissionIds
  BY DEF WorkInv, SafeInv, TypeInv, TaskOK, Told
<1>2. CASE call[t].op = "create_user"
  <2>1. UserExists(db, minted[t])
    BY <1>1, <1>2, CallTyped, TablesAssumption DEF Holds, Kept, UserExists
  <2> QED
    BY <1>1, <1>2, <2>1 DEF Holds, Kept, Extends
<1>3. CASE call[t].op = "create_submission"
  <2>1. minted[t] \in Submissions(db)
    BY <1>1, <1>3 DEF Holds, Kept, Submissions
  <2> QED
    BY <1>1, <1>3, <2>1 DEF Holds, Kept, Extends, MayBecome, Submissions, SubmissionExists
<1>4. CASE call[t].op = "set_submission_status"
  <2>1. call[t].id \in Submissions(db) /\ db.submissions[call[t].id].status # "QUEUED"
    BY <1>1, <1>4, CallTyped DEF Holds, Kept, Submissions
  <2>2. \/ db'.submissions[call[t].id] = db.submissions[call[t].id]
        \/ MayBecome(db.submissions[call[t].id], db'.submissions[call[t].id])
    BY <2>1 DEF Extends
  <2>3. /\ SubmissionExists(db', call[t].id)
        /\ db'.submissions[call[t].id].status # "QUEUED"
    BY <2>1, <2>2 DEF MayBecome, CanTransitionTo, Underway, Submissions, SubmissionExists
  <2> QED
    BY <1>4, <2>3 DEF Holds, Kept
<1>5. CASE call[t].op = "finish_submission"
  <2>1. call[t].id \in Submissions(db) /\ db.submissions[call[t].id].verdict \in Verdicts
    BY <1>1, <1>5, CallTyped DEF Holds, Kept, Submissions
  <2>2. db'.submissions[call[t].id] = db.submissions[call[t].id]
    BY <2>1, VerdictIsFinal DEF Extends, MayBecome, CanTransitionTo, Underway
  <2> QED
    BY <1>5, <2>2 DEF Holds, Kept, SubmissionExists
<1>6. CASE call[t].op = "record_run"
  BY <1>1, <1>6 DEF Holds, Kept, Extends
<1>7. CASE call[t].op = "replace_problems"
  BY <1>7 DEF Holds, Kept
<1> QED
  BY <1>1, <1>2, <1>3, <1>4, <1>5, <1>6, <1>7, CallTyped

\* What is told is true.
LEMMA ToldIsTrue ==
  ASSUME WorkInv, NEW t \in Tasks, Told(t)', UNCHANGED <<call[t], minted[t], stamp[t]>>,
         CreateUser(t) \/ CreateSubmission(t) \/ RecordRun(t) \/ Commit(t)
  PROVE  Holds(t)'
<1> USE DEF TypeOK, GoTo
<1>0. TypeOK /\ db \in Databases /\ TaskOK(t) /\ stamp[t] \in Nat
  BY DEF WorkInv, SafeInv, TypeInv
<1>1. CASE CreateUser(t)
  <2>1. /\ stage[t] = "insert" /\ call[t].op = "create_user" /\ minted[t] \in UserIds
        /\ db' = InsertUser(db, minted[t], call[t].account)
    BY <1>0, <1>1 DEF CreateUser, Inserting, TaskOK, Finished, Told
  <2>2. db'.users[minted[t]] = call[t].account
    BY <1>0, <2>1 DEF InsertUser, Databases
  <2> QED
    BY <2>1, <2>2 DEF Holds, Kept
<1>2. CASE CreateSubmission(t)
  <2>1. /\ stage[t] = "insert" /\ call[t].op = "create_submission"
        /\ minted[t] \in SubmissionIds /\ call[t] \in Calls
        /\ db' = InsertSubmission(db, minted[t], call[t].new, stamp[t])
    BY <1>0, <1>2 DEF CreateSubmission, Inserting, TaskOK, Finished, Told
  <2>2. db'.submissions[minted[t]].created_at = stamp[t]
    BY <1>0, <2>1 DEF InsertSubmission, Databases
  <2>3. SubmissionExists(db', minted[t])
    <3>1. [user |-> call[t].new.user, problem |-> call[t].new.problem,
           hash |-> call[t].new.hash, status |-> "QUEUED", verdict |-> NULL,
           created_at |-> stamp[t], started_at |-> NULL, finished_at |-> NULL]
             \in SubmissionRow
      BY <1>0, <2>1, CallTyped DEF NewSubmission, SubmissionRow, Optional, Statuses
    <3> QED
      BY <1>0, <2>1, <3>1, TablesAssumption DEF InsertSubmission, Databases, SubmissionExists
  <2> QED
    BY <2>1, <2>2, <2>3 DEF Holds, Kept
<1>3. CASE RecordRun(t)
  <2>1. /\ call[t].op = "record_run" /\ db' = InsertRun(db, call[t].run)
    BY <1>0, <1>3 DEF RecordRun, Inserting, Finished, Told
  <2>2. call[t].run \in db'.runs
    BY <1>0, <2>1 DEF InsertRun, Databases
  <2> QED
    BY <2>1, <2>2 DEF Holds, Kept
<1>4. CASE Commit(t)
  <2>1. stage[t] = "commit" /\ db' = view[t] /\ call[t] \in Calls
    BY <1>4, ViewAtCommit DEF Commit
  <2>2. CASE call[t].op = "replace_problems"
    BY <2>2 DEF Holds, Kept
  <2>3. CASE call[t].op = "set_submission_status" /\ Moving(t)
    <3>1. /\ call[t].id \in SubmissionIds /\ call[t].status \in Statuses \ {"QUEUED"}
          /\ db.submissions[call[t].id] \in SubmissionRow
      BY <1>0, <2>1, <2>3, CallTyped, SubmissionTyped
         DEF Moving, Allowed, CanTransitionTo, Underway
    <3>2. db'.submissions[call[t].id] =
            Moved(db.submissions[call[t].id], call[t].status, stamp[t])
      BY <1>0, <2>1, <2>3, <3>1 DEF Moving, WriteStatus, Databases
    <3>3. /\ Moved(db.submissions[call[t].id], call[t].status, stamp[t]) # NULL
          /\ Moved(db.submissions[call[t].id], call[t].status, stamp[t]).status = call[t].status
      <4>1. Moved(db.submissions[call[t].id], call[t].status, stamp[t]) \in SubmissionRow
        BY <1>0, <3>1, RowsTyped DEF Verdicts
      <4> QED
        BY <3>1, <4>1, TablesAssumption DEF Moved, SubmissionRow
    <3> QED
      BY <2>3, <3>1, <3>2, <3>3 DEF Holds, Kept, SubmissionExists
  <2>4. CASE call[t].op = "finish_submission" /\ Finishing(t)
    <3>1. /\ call[t].id \in SubmissionIds /\ call[t].verdict \in Verdicts
          /\ db.submissions[call[t].id] \in SubmissionRow
      BY <1>0, <2>1, <2>4, CallTyped, SubmissionTyped DEF Finishing, Allowed
    <3>2. db'.submissions[call[t].id] =
            Judged(db.submissions[call[t].id], call[t].verdict, stamp[t])
      BY <1>0, <2>1, <2>4, <3>1 DEF Finishing, WriteVerdict, Databases
    <3>3. /\ Judged(db.submissions[call[t].id], call[t].verdict, stamp[t]) # NULL
          /\ Judged(db.submissions[call[t].id], call[t].verdict, stamp[t]).verdict
               = call[t].verdict
          /\ Judged(db.submissions[call[t].id], call[t].verdict, stamp[t]).finished_at
               = stamp[t]
      <4>1. Judged(db.submissions[call[t].id], call[t].verdict, stamp[t]) \in SubmissionRow
        BY <1>0, <3>1, RowsTyped
      <4> QED
        BY <3>1, <4>1, TablesAssumption DEF Judged, SubmissionRow
    <3> QED
      BY <2>4, <3>2, <3>3 DEF Holds, Kept, SubmissionExists
  <2> QED
    BY <2>1, <2>2, <2>3, <2>4, ViewAtCommit
<1> QED
  BY <1>1, <1>2, <1>3, <1>4

\* Of two finishes of a submission the second finds it DONE.
LEMMA FinishWins ==
  ASSUME AnswerInv, [Next]_vars, NEW t \in Tasks, NEW o \in Tasks, t # o,
         Told(t)', call'[t].op = "finish_submission",
         Told(o)', call'[o].op = "finish_submission", call'[t].id = call'[o].id
  PROVE  FALSE
<1>0. WorkInv /\ OneFinishWins /\ (Told(t) => Holds(t)) /\ (Told(o) => Holds(o))
  BY DEF AnswerInv
<1>1. call'[t] = call[t] /\ call'[o] = call[o]
  BY <1>0, WhoIsTold
<1>2. ASSUME NEW a \in Tasks, NEW b \in Tasks, a # b, Told(b), Holds(b),
             ~Told(a), Told(a)',
             call[a].op = "finish_submission", call[b].op = "finish_submission",
             call[a].id = call[b].id
      PROVE  FALSE
  <2>1. Commit(a)
    BY <1>0, <1>2, WhoIsTold DEF CreateUser, CreateSubmission, RecordRun, Inserting
  <2>2. stage[a] = "commit"
    BY <2>1 DEF Commit
  <2>3. Finishing(a) /\ call[a] \in Calls
    BY <1>0, <1>2, <2>2, ViewAtCommit
  <2>4. call[a].id \in Submissions(db) /\ db.submissions[call[a].id].status # "DONE"
    BY <1>2, <2>3, CallTyped DEF Finishing, Allowed, Submissions, CanTransitionTo, Underway
  <2>5. call[b] \in Calls
    BY <1>0, <1>2 DEF WorkInv, SafeInv, TypeInv, TaskOK, Told
  <2>6. db.submissions[call[a].id].verdict \in Verdicts
    BY <1>2, <2>5, CallTyped DEF Holds, Kept
  <2> QED
    BY <1>0, <2>4, <2>6, VerdictIsFinal
<1>3. CASE Told(t) /\ Told(o)
  BY <1>0, <1>1, <1>3 DEF OneFinishWins, Told
<1>4. CASE ~Told(t) /\ Told(o)
  BY <1>0, <1>1, <1>2, <1>4
<1>5. CASE Told(t) /\ ~Told(o)
  BY <1>0, <1>1, <1>2, <1>5
<1>6. CASE ~Told(t) /\ ~Told(o)
  BY <1>0, <1>6, WhoIsTold DEF Told
<1> QED
  BY <1>3, <1>4, <1>5, <1>6

\* Every step keeps AnswerInv.
LEMMA AnswerNext == AnswerInv /\ [Next]_vars => AnswerInv'
<1> SUFFICES ASSUME AnswerInv, [Next]_vars PROVE AnswerInv'
  OBVIOUS
<1>1. WorkInv /\ WorkInv' /\ Extends(db, db')
  BY WorkNext, StepExtends DEF AnswerInv
<1>2. ASSUME NEW t \in Tasks, Told(t)' PROVE Holds(t)'
  <2>1. UNCHANGED <<call[t], minted[t], stamp[t]>>
    BY <1>1, <1>2, WhoIsTold
  <2>2. \/ Told(t) /\ Holds(t)
        \/ CreateUser(t) \/ CreateSubmission(t) \/ RecordRun(t) \/ Commit(t)
    BY <1>1, <1>2, WhoIsTold DEF AnswerInv
  <2> QED
    BY <1>1, <1>2, <2>1, <2>2, ToldStays, ToldIsTrue
<1>3. OneFinishWins'
  BY FinishWins DEF OneFinishWins, Told
<1> QED
  BY <1>1, <1>2, <1>3 DEF AnswerInv

\* AnswerInv is inductive.
THEOREM AnswerInvariant == Spec => []AnswerInv
<1>1. Init => AnswerInv
  BY WorkInit DEF Init, AnswerInv, OneFinishWins, Told
<1> QED
  BY <1>1, AnswerNext, PTL DEF Spec

\* Ok is never answered for work that is not committed, and stays true while
\* the answer is on its way: a created row is there, a status was left, the
\* verdict stored is the one that was given.
THEOREM OkIsTrue == Spec => []OkIsKept
<1>1. AnswerInv => OkIsKept
  BY DEF AnswerInv, OkIsKept, Told, Holds
<1> QED
  BY <1>1, AnswerInvariant, PTL

\* Of any number of finish_submission calls for one submission, in flight
\* together, at most one is answered Ok (tests/store.rs:482).
THEOREM FinishWinsOnce == Spec => []OneFinishWins
<1>1. AnswerInv => OneFinishWins
  BY DEF AnswerInv
<1> QED
  BY <1>1, AnswerInvariant, PTL

-----------------------------------------------------------------------------
(* Every step is a step of StoreSpec, or changes nothing that StoreSpec    *)
(* sees.                                                                   *)

\* StoreSpec says the same of a database as SqliteStore does.
LEMMA SameTables ==
  ASSUME NEW d
  PROVE  /\ Abstract!ProgressIsTally(d) <=> ProgressIsTally(d)
         /\ \A r : Abstract!CanInsertUser(d, r) <=> CanInsertUser(d, r)
         /\ \A p : Abstract!CanDeleteProblem(d, p) <=> CanDeleteProblem(d, p)
         /\ \A n : Abstract!CanInsertSubmission(d, n) <=> CanInsertSubmission(d, n)
         /\ \A r : Abstract!AttemptTaken(d, r) <=> AttemptTaken(d, r)
         /\ \A r : Abstract!CanReferToSubmission(d, r) <=> CanReferToSubmission(d, r)
<1>1. Abstract!ProgressIsTally(d) <=> ProgressIsTally(d)
  <2>1. Abstract!Submissions(d) = Submissions(d)
    BY DEF Abstract!Submissions, Submissions, Abstract!SubmissionExists, SubmissionExists
  <2>2. ASSUME NEW u, NEW p PROVE Abstract!Tallied(d, u, p) = Tallied(d, u, p)
    BY <2>1 DEF Abstract!Tallied, Tallied, Abstract!Counts, Counts,
       Abstract!CountsAgainstUser, CountsAgainstUser, Abstract!IsInfrastructure,
       IsInfrastructure, Abstract!IsAccepted, IsAccepted
  <2>3. ASSUME NEW T, NEW r PROVE Abstract!IsTallyOf(d, T, r) <=> IsTallyOf(d, T, r)
    BY DEF Abstract!IsTallyOf, IsTallyOf, Abstract!IsAccepted, IsAccepted,
       Abstract!Cardinality, Cardinality
  <2> QED
    BY <2>2, <2>3 DEF Abstract!ProgressIsTally, ProgressIsTally
<1> QED
  BY <1>1 DEF Abstract!CanInsertUser, CanInsertUser, Abstract!UserExists, UserExists,
     Abstract!CanDeleteProblem, CanDeleteProblem, Abstract!SubmissionExists,
     SubmissionExists, Abstract!CanInsertSubmission, CanInsertSubmission,
     Abstract!ProblemExists, ProblemExists, Abstract!AttemptTaken, AttemptTaken,
     Abstract!CanReferToSubmission, CanReferToSubmission

\* What StoreSpec sees of a step of t.
LEMMA SeenSteps ==
  ASSUME WorkInv, NEW t \in Tasks, OnlyOf(t), TypeOK'
  PROVE  /\ db' = db /\ call' = call /\ stage[t] # "reply" /\
              (stage'[t] # "reply" \/ answer'[t] = NULL) =>
              UNCHANGED Abstract!storeVars
         /\ db' = db /\ call' = call /\ stage[t] \notin {"idle", "reply"} /\
              stage'[t] = "reply" /\ answer'[t] \in Broken =>
              Abstract!GiveUp(t)
         /\ db' = db /\ call' = [call EXCEPT ![t] = NULL] /\ stage'[t] = "idle" =>
              Abstract!Forget({t})
<1> DEFINE Reply == [o \in Tasks |-> IF stage[o] = "reply" THEN answer[o] ELSE NULL]
<1>1. TypeOK /\ (stage[t] # "idle" => call[t] # NULL)
  BY CallsAssumption DEF WorkInv, SafeInv, TypeInv, TaskOK
<1>2. \A o \in Tasks \ {t} : Reply'[o] = Reply[o]
  BY DEF OnlyOf, Alone
<1>3. Reply[t] = (IF stage[t] = "reply" THEN answer[t] ELSE NULL)
      /\ Reply'[t] = (IF stage'[t] = "reply" THEN answer'[t] ELSE NULL)
  OBVIOUS
<1>4. Reply = [o \in Tasks |-> Reply[o]] /\ Reply' = [o \in Tasks |-> Reply'[o]]
  OBVIOUS
<1> HIDE DEF Reply
<1>5. ASSUME db' = db, call' = call, stage[t] # "reply",
             stage'[t] # "reply" \/ answer'[t] = NULL
      PROVE  UNCHANGED Abstract!storeVars
  <2>1. Reply' = Reply
    BY <1>2, <1>3, <1>4, <1>5
  <2> QED
    BY <1>5, <2>1 DEF Abstract!storeVars, Reply
<1>6. ASSUME db' = db, call' = call, stage[t] \notin {"idle", "reply"},
             stage'[t] = "reply", answer'[t] \in Broken
      PROVE  Abstract!GiveUp(t)
  <2>1. Reply' = [Reply EXCEPT ![t] = answer'[t]] /\ Reply[t] = NULL
    BY <1>2, <1>3, <1>4, <1>6
  <2> QED
    BY <1>1, <1>6, <2>1 DEF Abstract!GiveUp, Abstract!Broken, Broken, Reply
<1>7. ASSUME db' = db, call' = [call EXCEPT ![t] = NULL], stage'[t] = "idle"
      PROVE  Abstract!Forget({t})
  <2>1. Reply' = [o \in Tasks |-> IF o \in {t} THEN NULL ELSE Reply[o]]
    BY <1>2, <1>3, <1>4, <1>7
  <2>2. call' = [o \in Tasks |-> IF o \in {t} THEN NULL ELSE call[o]]
    BY <1>1, <1>7 DEF TypeOK
  <2> QED
    BY <1>7, <2>1, <2>2 DEF Abstract!Forget, Reply
<1> QED
  BY <1>5, <1>6, <1>7

\* The step at which a call takes effect, or is refused.
LEMMA SeenPerform ==
  ASSUME WorkInv, NEW t \in Tasks, OnlyOf(t), TypeOK', call' = call,
         stage[t] \notin {"idle", "reply"}, stage'[t] = "reply",
         answer'[t] = Abstract!AnswerTo(db, call[t]),
         IF answer'[t] = "Ok" THEN Abstract!After(db, call[t], db') ELSE db' = db
  PROVE  Abstract!Perform(t)
<1> DEFINE Reply == [o \in Tasks |-> IF stage[o] = "reply" THEN answer[o] ELSE NULL]
<1>1. call[t] # NULL
  BY CallsAssumption DEF WorkInv, SafeInv, TypeInv, TaskOK
<1>2. Reply' = [Reply EXCEPT ![t] = Abstract!AnswerTo(db, call[t])] /\ Reply[t] = NULL
  BY DEF OnlyOf, Alone
<1> QED
  BY <1>1, <1>2 DEF Abstract!Perform

\* The entry of a catalog is its last row about a problem, or nothing.
LEMMA EntryIsLast ==
  ASSUME NEW rows \in Seq(CatalogRow), NEW p
  PROVE  /\ (\A i \in DOMAIN rows : rows[i].id # p) => Abstract!CatalogEntry(rows, p) = NULL
         /\ \A i \in DOMAIN rows :
              /\ rows[i].id = p
              /\ \A j \in DOMAIN rows : rows[j].id = p => j <= i
              => Abstract!CatalogEntry(rows, p) = rows[i].content
<1>1. (\A i \in DOMAIN rows : rows[i].id # p) => Abstract!CatalogEntry(rows, p) = NULL
  BY DEF Abstract!CatalogEntry
<1>2. ASSUME NEW i \in DOMAIN rows, rows[i].id = p,
             \A j \in DOMAIN rows : rows[j].id = p => j <= i
      PROVE  Abstract!CatalogEntry(rows, p) = rows[i].content
  <2> DEFINE P(k) == /\ rows[k].id = p
                     /\ \A j \in DOMAIN rows : j > k => rows[j].id # p
             last == CHOOSE k \in DOMAIN rows : P(k)
  <2>1. DOMAIN rows \subseteq Nat
    OBVIOUS
  <2>2. P(i)
    BY <1>2, <2>1
  <2>3. last \in DOMAIN rows /\ P(last)
    BY <2>2
  <2>4. Abstract!CatalogEntry(rows, p) = rows[last].content
    BY <1>2 DEF Abstract!CatalogEntry
  <2>5. last = i
    <3> HIDE DEF last
    <3>1. last <= i /\ ~(i > last)
      BY <1>2, <2>3
    <3> QED
      BY <2>1, <2>3, <3>1
  <2> QED
    BY <2>4, <2>5
<1> QED
  BY <1>1, <1>2

\* COMMIT of replace_problems: the catalog could be replaced, and is.
LEMMA CatalogSeen ==
  ASSUME WorkInv, NEW t \in Tasks, stage[t] = "commit", call[t].op = "replace_problems",
         db' = view[t]
  PROVE  /\ Abstract!AnswerTo(db, call[t]) = "Ok"
         /\ Abstract!After(db, call[t], db')
<1>1. /\ call[t] \in Calls /\ db \in Databases /\ view[t] \in Databases /\ Cataloguing(t)
  BY ViewAtCommit
<1>2. call[t].rows \in Seq(CatalogRow)
  BY <1>1, CallTyped
<1>3. row[t] = Len(call[t].rows) /\ DOMAIN call[t].rows = 1..row[t]
  BY <1>1, <1>2 DEF Cataloguing
<1>4. ASSUME NEW p \in Problems
      PROVE  view[t].problems[p] = Abstract!CatalogEntry(call[t].rows, p)
  BY <1>2, CatalogAtCommit, EntryIsLast
<1>5. db' = [db EXCEPT !.problems = Abstract!Catalog(call[t].rows)]
  <2>1. view[t].problems = Abstract!Catalog(call[t].rows)
    BY <1>1, <1>4 DEF Abstract!Catalog, Databases
  <2> QED
    BY <1>1, <2>1 DEF Cataloguing
<1>6. \A i \in DOMAIN call[t].rows : Abstract!CanUpsertProblem(call[t].rows[i].content)
  BY <1>1, <1>3 DEF Cataloguing, Abstract!CanUpsertProblem, CanUpsertProblem
<1>7. ASSUME NEW p \in Problems, ProblemExists(db, p),
             Abstract!CatalogEntry(call[t].rows, p) = NULL
      PROVE  CanDeleteProblem(db, p)
  <2>1. NoneAbout(call[t].rows, row[t], p)
    <3>1. ASSUME NEW i \in DOMAIN call[t].rows PROVE call[t].rows[i].content # NULL
      <4>1. call[t].rows[i] \in CatalogRow
        BY <1>2
      <4> QED
        BY <4>1, TablesAssumption DEF CatalogRow
    <3> QED
      BY <1>3, <1>4, <1>7, <3>1, CatalogAtCommit DEF NoneAbout
  <2>2. ~\E i \in 1..row[t] : LastAbout(call[t].rows, row[t], p, i)
    BY <2>1 DEF NoneAbout, LastAbout
  <2> QED
    BY <1>1, <1>4, <1>7, <2>2 DEF Cataloguing, Catalogued, ProblemExists
<1>8. Abstract!CanReplace(db, call[t])
  BY <1>6, <1>7, SameTables DEF Abstract!CanReplace, Abstract!ProblemExists, ProblemExists
<1>9. Abstract!AnswerTo(db, call[t]) = "Ok"
  BY <1>8 DEF Abstract!AnswerTo, Abstract!Accepts
<1>10. Abstract!After(db, call[t], db') <=> Abstract!CatalogReplaced(db, call[t], db')
  BY DEF Abstract!After
<1> QED
  BY <1>5, <1>9, <1>10 DEF Abstract!CatalogReplaced

\* COMMIT of set_submission_status: the move was allowed, and is made.
LEMMA MoveSeen ==
  ASSUME WorkInv, NEW t \in Tasks, stage[t] = "commit",
         call[t].op = "set_submission_status", db' = view[t]
  PROVE  /\ Abstract!AnswerTo(db, call[t]) = "Ok"
         /\ Abstract!After(db, call[t], db')
<1> DEFINE c == call[t]
           r == db.submissions[c.id]
<1>1. /\ c \in Calls /\ db \in Databases /\ Moving(t)
  BY ViewAtCommit
<1>2. c.id \in SubmissionIds /\ SubmissionExists(db, c.id) /\ CanTransitionTo(r.status, c.status)
  BY <1>1, CallTyped DEF Moving, Allowed
<1>3. Abstract!AnswerTo(db, c) = "Ok"
  BY <1>2, AnswerToMove DEF Abstract!MoveAnswer, Abstract!SubmissionExists, SubmissionExists,
     Abstract!CanTransitionTo, CanTransitionTo, Abstract!Underway, Underway
<1>4. db'.submissions[c.id] = Moved(r, c.status, stamp[t])
  BY <1>1, <1>2 DEF Moving, WriteStatus, Databases
<1>5. Moved(r, c.status, db'.submissions[c.id].started_at) = Moved(r, c.status, stamp[t])
  <2>1. r \in SubmissionRow
    BY <1>1, <1>2, SubmissionTyped
  <2>2. db'.submissions[c.id].started_at =
          IF r.started_at = NULL THEN stamp[t] ELSE r.started_at
    BY <1>4, <2>1 DEF Moved, SubmissionRow
  <2> HIDE DEF r
  <2> QED
    BY <2>2 DEF Moved
<1>6. db' = WriteStatus(db, c.id, c.status, db'.submissions[c.id].started_at)
  BY <1>1, <1>5 DEF Moving, WriteStatus
<1>7. Abstract!After(db, c, db') <=> Abstract!StatusSet(db, c, db')
  BY DEF Abstract!After
<1> QED
  BY <1>3, <1>6, <1>7 DEF Abstract!StatusSet, Abstract!WriteStatus, WriteStatus,
     Abstract!Moved, Moved

\* COMMIT of finish_submission: the row is judged, and the tally is right.
LEMMA FinishSeen ==
  ASSUME WorkInv, NEW t \in Tasks, stage[t] = "commit",
         call[t].op = "finish_submission", db' = view[t], ProgressIsTally(db')
  PROVE  /\ Abstract!AnswerTo(db, call[t]) = "Ok"
         /\ Abstract!After(db, call[t], db')
<1> DEFINE c == call[t]
           r == db.submissions[c.id]
<1>1. /\ c \in Calls /\ db \in Databases /\ Finishing(t)
  BY ViewAtCommit
<1>2. c.id \in SubmissionIds /\ SubmissionExists(db, c.id) /\ CanTransitionTo(r.status, "DONE")
  BY <1>1, CallTyped DEF Finishing, Allowed
<1>3. Abstract!AnswerTo(db, c) = "Ok"
  BY <1>2, AnswerToMove DEF Abstract!MoveAnswer, Abstract!SubmissionExists, SubmissionExists,
     Abstract!CanTransitionTo, CanTransitionTo, Abstract!Underway, Underway
<1>4. /\ db'.submissions = WriteVerdict(db, c.id, c.verdict, stamp[t]).submissions
      /\ db' = [db EXCEPT !.submissions = db'.submissions, !.progress = db'.progress]
  BY <1>1 DEF Finishing, WriteVerdict, Databases
<1>5. db'.submissions[c.id].finished_at = stamp[t]
  <2>1. r \in SubmissionRow
    BY <1>1, <1>2, SubmissionTyped
  <2>2. db'.submissions[c.id] = Judged(r, c.verdict, stamp[t])
    BY <1>1, <1>2, <1>4 DEF WriteVerdict, Databases
  <2> HIDE DEF r
  <2> QED
    BY <2>1, <2>2 DEF Judged, SubmissionRow
<1>6. Abstract!After(db, c, db') <=> Abstract!SubmissionFinished(db, c, db')
  BY DEF Abstract!After
<1> QED
  BY <1>3, <1>4, <1>5, <1>6, SameTables DEF Abstract!SubmissionFinished,
     Abstract!WriteVerdict, WriteVerdict, Abstract!Judged, Judged

\* The INSERTs take effect, or are refused, at once.  A run that is refused
\* twice over, for its attempt and for its submission, may be answered either.
LEMMA InsertsSeen ==
  ASSUME WorkInv, NEW t \in Tasks, TypeOK',
         CreateUser(t) \/ CreateSubmission(t) \/ RecordRun(t)
  PROVE  Abstract!Perform(t) \/ Abstract!GiveUp(t)
<1> USE DEF TypeOK, GoTo
<1>0. TypeOK /\ db \in Databases /\ TaskOK(t) /\ Work(t) /\ Held(t)
  BY DEF WorkInv, SafeInv, TypeInv
<1>1. /\ stage[t] = "insert" /\ stage'[t] = "reply" /\ call' = call /\ OnlyOf(t)
      /\ call[t] \in Calls
  BY <1>0 DEF CreateUser, CreateSubmission, RecordRun, Inserting, Finished, OnlyOf, Alone,
     TaskOK
<1>2. CASE CreateUser(t)
  <2>1. call[t].op = "create_user" /\ minted[t] \in UserIds /\ ~UserExists(db, minted[t])
    BY <1>0, <1>1, <1>2 DEF CreateUser, Inserting, TaskOK, Work
  <2>2. Abstract!AnswerTo(db, call[t]) =
          IF CanInsertUser(db, call[t].account) THEN "Ok" ELSE "Conflict"
    BY <2>1, SameTables DEF Abstract!AnswerTo, Abstract!Accepts
  <2>3. db' = InsertUser(db, minted[t], call[t].account) => Abstract!After(db, call[t], db')
    BY <2>1 DEF Abstract!After, Abstract!UserCreated, Abstract!UserExists, UserExists,
       Abstract!InsertUser, InsertUser
  <2>4. /\ answer'[t] = Abstract!AnswerTo(db, call[t])
        /\ IF answer'[t] = "Ok" THEN Abstract!After(db, call[t], db') ELSE db' = db
    BY <1>0, <1>2, <2>2, <2>3 DEF CreateUser, Finished
  <2> QED
    BY <1>1, <2>4, SeenPerform
<1>3. CASE CreateSubmission(t)
  <2>1. /\ call[t].op = "create_submission" /\ minted[t] \in SubmissionIds
        /\ ~SubmissionExists(db, minted[t])
    BY <1>0, <1>1, <1>3 DEF CreateSubmission, Inserting, TaskOK, Held
  <2>2. Abstract!AnswerTo(db, call[t]) =
          IF CanInsertSubmission(db, call[t].new) THEN "Ok" ELSE "Database"
    BY <2>1, SameTables DEF Abstract!AnswerTo, Abstract!Accepts
  <2>3. ASSUME db' = InsertSubmission(db, minted[t], call[t].new, stamp[t]), Told(t)'
        PROVE  Abstract!After(db, call[t], db')
    <3>1. Holds(t)'
      BY <1>0, <1>1, <1>3, <2>3, ToldIsTrue DEF CreateSubmission
    <3>2. /\ SubmissionExists(db', minted[t])
          /\ db'.submissions[minted[t]].created_at = stamp[t]
      BY <1>3, <2>1, <3>1 DEF CreateSubmission, Holds, Kept
    <3>3. Abstract!After(db, call[t], db') <=> Abstract!SubmissionCreated(db, call[t], db')
      BY <2>1 DEF Abstract!After
    <3> QED
      BY <2>1, <2>3, <3>2, <3>3 DEF Abstract!SubmissionCreated, Abstract!SubmissionExists,
         SubmissionExists, Abstract!InsertSubmission, InsertSubmission
  <2>4. /\ answer'[t] = Abstract!AnswerTo(db, call[t])
        /\ IF answer'[t] = "Ok" THEN Abstract!After(db, call[t], db') ELSE db' = db
    BY <1>0, <1>1, <1>3, <2>2, <2>3 DEF CreateSubmission, Finished, Told
  <2> QED
    BY <1>1, <2>4, SeenPerform
<1>4. CASE RecordRun(t)
  <2>1. call[t].op = "record_run"
    BY <1>4 DEF RecordRun, Inserting
  <2>2. Abstract!AnswerTo(db, call[t]) =
          IF AttemptTaken(db, call[t].run) THEN "Conflict"
          ELSE IF CanReferToSubmission(db, call[t].run) THEN "Ok" ELSE "Database"
    BY <2>1, SameTables DEF Abstract!AnswerTo, Abstract!Accepts
  <2>3. CASE answer'[t] = "Database" /\ db' = db
    BY <1>1, <2>3, SeenSteps DEF Broken
  <2>4. CASE /\ AttemptTaken(db, call[t].run)
             /\ db' = db /\ answer'[t] = "Conflict"
    BY <1>1, <2>2, <2>4, SeenPerform
  <2>5. CASE /\ ~AttemptTaken(db, call[t].run) /\ CanReferToSubmission(db, call[t].run)
             /\ db' = InsertRun(db, call[t].run) /\ answer'[t] = "Ok"
    <3>1. Abstract!After(db, call[t], db')
      BY <2>1, <2>5 DEF Abstract!After, Abstract!RunRecorded, Abstract!InsertRun, InsertRun
    <3> QED
      BY <1>1, <2>2, <2>5, <3>1, SeenPerform
  <2> QED
    BY <1>0, <1>4, <2>3, <2>4, <2>5 DEF RecordRun, Finished
<1> QED
  BY <1>2, <1>3, <1>4

\* ROLLBACK: the call is refused, has failed, or is not waited for.
LEMMA RollbackSeen ==
  ASSUME WorkInv, NEW t \in Tasks, TypeOK', Rollback(t)
  PROVE  \/ Abstract!Perform(t) \/ Abstract!GiveUp(t)
         \/ UNCHANGED Abstract!storeVars
<1> USE DEF TypeOK, GoTo
<1>0. TypeOK /\ Work(t)
  BY DEF WorkInv, SafeInv, TypeInv
<1>1. /\ stage[t] = "rollback" /\ stage'[t] = "reply" /\ answer'[t] = answer[t]
      /\ db' = db /\ call' = call /\ OnlyOf(t)
  BY <1>0 DEF Rollback, Release, Finished, OnlyOf, Alone
<1>2. CASE answer[t] = NULL
  BY <1>1, <1>2, SeenSteps
<1>3. CASE answer[t] \in Broken
  BY <1>1, <1>3, SeenSteps
<1>4. CASE answer[t] # "Ok" /\ answer[t] = Abstract!AnswerTo(db, call[t])
  BY <1>1, <1>4, SeenPerform
<1> QED
  BY <1>0, <1>1, <1>2, <1>3, <1>4 DEF Work

\* COMMIT: the call takes effect.
LEMMA CommitSeen ==
  ASSUME WorkInv, NEW t \in Tasks, TypeOK', ProgressIsTally(db'), Commit(t)
  PROVE  Abstract!Perform(t)
<1> USE DEF TypeOK, GoTo
<1>0. TypeOK
  BY DEF WorkInv, SafeInv, TypeInv
<1>1. /\ stage[t] = "commit" /\ stage'[t] = "reply" /\ answer'[t] = "Ok"
      /\ db' = view[t] /\ call' = call /\ OnlyOf(t)
  BY <1>0 DEF Commit, Release, Finished, OnlyOf, Alone
<1>2. Abstract!AnswerTo(db, call[t]) = "Ok" /\ Abstract!After(db, call[t], db')
  BY <1>1, ViewAtCommit, CatalogSeen, MoveSeen, FinishSeen
<1> QED
  BY <1>1, <1>2, SeenPerform

\* A step of a task.
LEMMA TaskSeen ==
  ASSUME WorkInv, NEW t \in Tasks, TypeOK', ProgressIsTally(db'),
         Step(t) \/ Cancel(t) \/ StatementFails(t) \/ CorruptRow(t)
  PROVE  \/ Abstract!Perform(t) \/ Abstract!GiveUp(t) \/ Abstract!Forget({t})
         \/ UNCHANGED Abstract!storeVars
<1> USE DEF TypeOK, GoTo, OnlyOf, Alone
<1>0. TypeOK
  BY DEF WorkInv, SafeInv, TypeInv
<1>1. CASE \/ PoolTimeout(t) \/ BusyTimeout(t)
           \/ StatementFails(t) /\ Finished(t, "Database")
  <2>1. /\ db' = db /\ call' = call /\ stage[t] \notin {"idle", "reply"}
        /\ stage'[t] = "reply" /\ answer'[t] = "Database" /\ OnlyOf(t)
    BY <1>0, <1>1 DEF PoolTimeout, BusyTimeout, StatementFails, Transacting, Finished
  <2> QED
    BY <2>1, SeenSteps DEF Broken
<1>2. CASE CreateUser(t) \/ CreateSubmission(t) \/ RecordRun(t)
  BY <1>2, InsertsSeen
<1>3. CASE Rollback(t)
  BY <1>3, RollbackSeen
<1>4. CASE Commit(t)
  BY <1>4, CommitSeen
<1>5. ASSUME Clear(t), db' = db, view' = view, clock' = clock
      PROVE  Abstract!Forget({t})
  <2>1. call' = [call EXCEPT ![t] = NULL] /\ stage'[t] = "idle" /\ OnlyOf(t)
    BY <1>0, <1>5 DEF Clear
  <2> QED
    BY <1>5, <2>1, SeenSteps
<1>6. ASSUME stage[t] # "reply", stage'[t] # "reply", OnlyOf(t), db' = db, call' = call
      PROVE  UNCHANGED Abstract!storeVars
  BY <1>6, SeenSteps
<1>7. CASE Return(t) \/ Cancel(t) \/ StatementFails(t) \/ CorruptRow(t) \/ BeginUnclaimed(t)
  <2>1. CASE Clear(t) /\ UNCHANGED <<clock, db, lock, view>>
    BY <1>5, <2>1
  <2>2. CASE /\ stage[t] # "reply"
             /\ Abort(t, NULL) \/ Abort(t, "Database") \/ Abort(t, "CorruptRow")
             /\ view' = [view EXCEPT ![t] = view'[t]]
             /\ UNCHANGED <<clock, db, call, minted, stamp, row>>
    BY <1>0, <1>6, <2>2 DEF Abort
  <2>3. CASE /\ stage[t] \in {"begin", "insert", "commit"}
             /\ UNCHANGED <<clock, db, lock, view, stage, call, minted, stamp, row, answer>>
    BY <1>6, <2>3
  <2>4. CASE StatementFails(t) /\ Finished(t, "Database")
    BY <1>1, <2>4
  <2> QED
    BY <1>0, <1>7, <2>1, <2>2, <2>3, <2>4 DEF Return, Cancel, StatementFails, CorruptRow,
       BeginUnclaimed, Locked, Transacting
<1>8. CASE Acquire(t) \/ SelectProblems(t) \/ UpdateStatus(t) \/ UpdateDone(t)
             \/ UpdateUserProgress(t) \/ InsertUserProgress(t)
  BY <1>0, <1>6, <1>8 DEF Acquire, SelectProblems, UpdateStatus, UpdateDone,
     UpdateUserProgress, InsertUserProgress
<1>9. CASE UpsertRow(t) \/ DeleteRow(t) \/ SelectStatus(t) \/ SelectFinish(t)
  BY <1>0, <1>6, <1>9 DEF UpsertRow, DeleteRow, SelectStatus, SelectFinish, Check, Abort
<1>10. CASE Begin(t)
  <2>1. call[t].op \in Transactional
    BY <1>10 DEF Begin, Locked, WorkInv, SafeInv, TypeInv, TaskOK
  <2>2. stage'[t] # "reply"
    BY <1>0, <1>10, <2>1, FirstStatementTyped DEF Begin, Locked, Transactional
  <2> QED
    BY <1>0, <1>6, <1>10, <2>2 DEF Begin, Locked
<1> QED
  BY <1>1, <1>2, <1>3, <1>4, <1>7, <1>8, <1>9, <1>10 DEF Step

\* A step of the store.
LEMMA StepSeen == WorkInv /\ WorkInv' /\ [Next]_vars => [Abstract!Next]_(Abstract!storeVars)
<1> SUFFICES ASSUME WorkInv, WorkInv', [Next]_vars
             PROVE  Abstract!Next \/ UNCHANGED Abstract!storeVars
  OBVIOUS
<1>0. TypeOK /\ TypeOK' /\ ProgressIsTally(db')
  BY DEF WorkInv, SafeInv, TypeInv, Sound
<1>1. ASSUME NEW t \in Tasks, Step(t) \/ Cancel(t) \/ StatementFails(t) \/ CorruptRow(t)
      PROVE  Abstract!Next \/ UNCHANGED Abstract!storeVars
  BY <1>0, <1>1, TaskSeen DEF Abstract!Next
<1>2. ASSUME NEW t \in Tasks, NEW c \in Calls, Invoke(t, c)
      PROVE  Abstract!Next
  <2>1. /\ stage[t] = "idle" /\ call' = [call EXCEPT ![t] = c] /\ db' = db
        /\ stage' = [stage EXCEPT ![t] = "acquire"] /\ answer' = answer
    BY <1>2 DEF Invoke, GoTo
  <2>2. call[t] = NULL
    BY <2>1 DEF WorkInv, Work
  <2>3. [o \in Tasks |-> IF stage'[o] = "reply" THEN answer'[o] ELSE NULL]
          = [o \in Tasks |-> IF stage[o] = "reply" THEN answer[o] ELSE NULL]
    BY <1>0, <2>1 DEF TypeOK
  <2>4. Abstract!Request(t)
    BY <2>1, <2>2, <2>3 DEF Abstract!Request
  <2> QED
    BY <2>4 DEF Abstract!Next
<1>3. CASE Crash
  <2>1. Abstract!Forget(Tasks)
    BY <1>3 DEF Crash, Abstract!Forget
  <2> QED
    BY <2>1 DEF Abstract!Next
<1>4. CASE Tick \/ UNCHANGED vars
  BY <1>4 DEF Tick, vars, Abstract!storeVars
<1> QED
  BY <1>1, <1>2, <1>3, <1>4 DEF Next

\* SqliteStore implements the Store trait as StoreSpec states it: each call
\* takes effect in one step between its start and its answer, or not at all,
\* and its answer tells which, whatever interleaves, times out, fails, is
\* dropped or dies (store.rs; sqlite.rs:65-75, 252-560).
THEOREM StoreIsAtomic == Spec => MethodsAreAtomic
<1>1. Init => Abstract!Init
  BY DEF Init, Abstract!Init
<1> QED
  BY <1>1, StepSeen, WorkInvariant, PTL DEF Spec, Abstract!Spec, MethodsAreAtomic
=============================================================================
