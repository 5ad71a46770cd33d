----------------------------- MODULE ConfigTrial -----------------------------
(***************************************************************************)
(* The trial journal of a configuration revision: the pure policy of       *)
(* src/config_trial_policy.c, which src/config_trial.c keeps in RAM and    *)
(* saves in NVS.  Revision 0 stands for none.                              *)
(***************************************************************************)
EXTENDS Integers

NoJournal == [pending |-> 0, rejected |-> 0, attempted |-> FALSE]

\* config_trial_policy_prepare
TrialPrepare_KeepsAttempt(journal, revision) ==   \* seeded bug
  [journal EXCEPT !.pending = revision, !.rejected = 0]
TrialPrepare(journal, revision) ==
  [pending |-> revision, rejected |-> 0, attempted |-> FALSE]

\* config_trial_policy_cancel
TrialCancel(journal, revision) ==
  IF journal.pending = revision
  THEN [journal EXCEPT !.pending = 0, !.attempted = FALSE]
  ELSE journal

\* config_trial_policy_decide: the decision, and the journal it leaves
TrialDecision(journal, revision) ==
  CASE journal.rejected = revision -> "PREVIOUS"
    [] journal.rejected # revision /\ journal.pending # revision -> "ACTIVE"
    [] OTHER -> IF journal.attempted THEN "PREVIOUS" ELSE "TRIAL"

TrialDecided_NoReject(journal, revision) ==   \* seeded bug
  CASE journal.rejected = revision -> journal
    [] journal.rejected # revision /\ journal.pending # revision ->
         [journal EXCEPT !.pending = 0, !.attempted = FALSE]
    [] OTHER -> IF journal.attempted
                THEN [journal EXCEPT !.pending = 0, !.attempted = FALSE]
                ELSE [journal EXCEPT !.attempted = TRUE]
TrialDecided(journal, revision) ==
  CASE journal.rejected = revision -> journal
    [] journal.rejected # revision /\ journal.pending # revision ->
         IF journal.pending = 0 THEN journal
         ELSE [journal EXCEPT !.pending = 0, !.attempted = FALSE]
    [] OTHER -> IF journal.attempted
                THEN [pending |-> 0, rejected |-> revision, attempted |-> FALSE]
                ELSE [journal EXCEPT !.attempted = TRUE]

\* config_trial_policy_reject
TrialReject(journal, revision) ==
  [pending |-> 0, rejected |-> revision, attempted |-> FALSE]

\* config_trial_policy_needs_confirmation
NeedsConfirmation(journal, revision) ==
  journal.pending = revision /\ journal.attempted

\* config_trial_policy_confirm
TrialConfirm(journal, revision) ==
  IF NeedsConfirmation(journal, revision) THEN NoJournal ELSE journal
=============================================================================
