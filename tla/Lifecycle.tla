----------------------------- MODULE Lifecycle -----------------------------
(***************************************************************************)
(* The two enumerations every component shares: where a submission is in   *)
(* its life (satunera-store, model.rs) and what the judge answered         *)
(* (satunera-contracts, verdict.rs), with the predicates the code asks of  *)
(* them.  No state: this module only gives the vocabulary.                 *)
(***************************************************************************)
CONSTANT NULL  \* no value: None, SQL NULL, and the absent row

\* SubmissionStatus.
Statuses == {"QUEUED", "PREPARING", "BUILDING", "BOOTING", "RUNNING", "DONE"}

\* The statuses of a submission that some attempt is working on.
Underway == {"PREPARING", "BUILDING", "BOOTING", "RUNNING"}

\* Mutant: QUEUED may jump to DONE.
CanTransitionFromQueue(from, to) ==
  \/ from = "QUEUED" /\ to \in {"PREPARING", "DONE"}
  \/ from \in Underway /\ to # "QUEUED"

\* Mutant: only a later status can be given up for another attempt.
CanTransitionOnward(from, to) ==
  \/ from = "QUEUED"  /\ to = "PREPARING"
  \/ from \in Underway /\ to \in Underway \cup {"DONE"} /\ from # to

\* SubmissionStatus::can_transition_to.  PREPARING can be re-entered from any
\* attempt, itself included; otherwise the lifecycle moves forward, and only
\* an attempt can end in DONE.
CanTransitionTo(from, to) ==
  \/ from = "QUEUED"  /\ to = "PREPARING"
  \/ from \in Underway /\ to \in {"PREPARING", "DONE"}
  \/ from = "PREPARING" /\ to \in {"BUILDING", "BOOTING", "RUNNING"}
  \/ from = "BUILDING"  /\ to \in {"BOOTING", "RUNNING"}
  \/ from = "BOOTING"   /\ to = "RUNNING"

\* Verdict.
Verdicts == {"AC", "WA", "TLE", "MLE", "RE", "CE", "SE", "IE"}

IsAccepted(verdict) == verdict = "AC"

\* The failure is the judge's or the author's, not the learner's.
IsInfrastructure(verdict) == verdict \in {"SE", "IE"}

CountsAgainstUser(verdict) == ~IsInfrastructure(verdict)

\* finish_submission: the verdicts that move user_progress.
Counts(verdict) == CountsAgainstUser(verdict) \/ IsAccepted(verdict)
=============================================================================
