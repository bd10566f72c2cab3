--------------------------- MODULE StoreProperties ---------------------------
(***************************************************************************)
(* What SqliteStore must guarantee, for any clients.                       *)
(***************************************************************************)
EXTENDS SqliteStore

\* Every variable has its type; a task holds a view while it transacts.
TypeOK ==
  /\ clock \in Nat
  /\ db \in Databases
  /\ lock \in Optional(Tasks)
  /\ view \in [Tasks -> Optional(Databases)]
  /\ stage \in [Tasks -> Stages]
  /\ call \in [Tasks -> Optional(Calls)]
  /\ minted \in [Tasks -> Optional(SubmissionIds \cup UserIds)]
  /\ stamp \in [Tasks -> Nat]
  /\ row \in [Tasks -> Nat]
  /\ answer \in [Tasks -> Optional(Answers)]
  /\ dropped \in [Tasks -> BOOLEAN]

-----------------------------------------------------------------------------
(* Safety.                                                                 *)

\* BEGIN IMMEDIATE serializes the writers: the one task between BEGIN and the
\* end of its transaction is the owner of the write lock (sqlite.rs:65-75).
OneWriter == \A t \in Tasks : stage[t] \in Transacting <=> lock = t

\* user_progress is never anything but the tally of the submissions, however
\* finish_submission calls interleave, fail or die (sqlite.rs:524-557).
ProgressMatches == ProgressIsTally(db)

\* No row refers to a row that is not there, though catalogs are replaced
\* while submissions come in (sqlite.rs:252-298).
References == NothingDangles(db)

\* The times of every submission are in order and in the past, through retries
\* and restarts (sqlite.rs:464-467, 512-514).
TimesTold == TimesInOrder(db, clock)

\* Ok is never answered for work that is not committed.
Kept(t) ==
  LET c == call[t] IN
  CASE c.op = "create_user" -> db.users[minted[t]] = c.account
    [] c.op = "create_submission" ->
         /\ SubmissionExists(db, minted[t])
         /\ db.submissions[minted[t]].created_at = stamp[t]
    [] c.op = "set_submission_status" -> db.submissions[c.id].status # "QUEUED"
    [] c.op = "finish_submission" ->
         /\ db.submissions[c.id].verdict = c.verdict
         /\ db.submissions[c.id].finished_at = stamp[t]
    [] c.op = "record_run" -> c.run \in db.runs
    [] OTHER -> TRUE

OkIsKept ==
  \A t \in Tasks : stage[t] = "reply" /\ answer[t] = "Ok" => Kept(t)

\* Of several finish_submission calls for one submission at most one wins
\* (tests/store.rs:482).
OneFinishWins ==
  \A t, o \in Tasks :
    /\ t # o
    /\ stage[t] = "reply" /\ answer[t] = "Ok" /\ call[t].op = "finish_submission"
    /\ stage[o] = "reply" /\ answer[o] = "Ok" /\ call[o].op = "finish_submission"
    => call[t].id # call[o].id

-----------------------------------------------------------------------------
(* What a step may never do.                                               *)

\* A committed submission keeps its identity, moves only along
\* can_transition_to, is never started twice, and once DONE is immutable
\* (model.rs:89-111; tests/store.rs:163).
MayBecome(old, new) ==
  /\ new # NULL
  /\ \A f \in {"user", "problem", "hash", "created_at"} : new[f] = old[f]
  /\ CanTransitionTo(old.status, new.status)
  /\ old.started_at # NULL => new.started_at = old.started_at

LegalHistory ==
  [][\A s \in Submissions(db) :
       \/ db'.submissions[s] = db.submissions[s]
       \/ MayBecome(db.submissions[s], db'.submissions[s])]_vars

\* The catalog is never seen half replaced: it changes from one whole catalog
\* to the whole catalog of a replace_problems call, and to a valid one
\* (store.rs:31).
CatalogAllOrNothing ==
  [][db'.problems # db.problems =>
       \E t \in Tasks :
         /\ stage[t] = "commit" /\ call[t].op = "replace_problems"
         /\ \A p \in Problems :
              LET named == {i \in DOMAIN call[t].rows : call[t].rows[i].id = p}
              IN  IF named = {} THEN db'.problems[p] = NULL
                  ELSE /\ \E i \in named : /\ \A j \in named : j <= i
                                           /\ db'.problems[p] = call[t].rows[i].content
                       /\ db'.problems[p] \notin BadContents]_vars

-----------------------------------------------------------------------------
(* Liveness, under the fairness of FairSpec.                               *)

\* Every call returns, with the pool and the write lock contended.
CallsReturn == \A t \in Tasks : stage[t] # "idle" ~> stage[t] = "idle"

\* A writer never waits for anything another task holds.
LockIsReleased == lock # NULL ~> lock = NULL

-----------------------------------------------------------------------------
(* Refinement: seen from outside, every method is atomic.                  *)

Abstract == INSTANCE StoreSpec WITH
  data <- db,
  request <- call,
  reply <- [t \in Tasks |-> IF stage[t] = "reply" THEN answer[t] ELSE NULL]

MethodsAreAtomic == Abstract!Spec

-----------------------------------------------------------------------------
(* What documents and tests say, and the code does not do.                 *)

\* model.rs:49: DONE is where the verdict is set.
DoneHasVerdict ==
  \A s \in Submissions(db) :
    db.submissions[s].status = "DONE" => db.submissions[s].verdict # NULL

\* store.rs:68: "The learner's history, newest first."
HistoryNewestFirst ==
  \A s, r \in Submissions(db) :
    /\ db.submissions[s].user = db.submissions[r].user
    /\ db.submissions[s].created_at < db.submissions[r].created_at
    => HistoryBefore(db, r, s)
=============================================================================
