------------------------------ MODULE Records ------------------------------
(***************************************************************************)
(* The records that users keep, experiments with their links and feedback, *)
(* side by side in one database: module Experiments and module Feedback    *)
(* share no row, so a behaviour works on one of the two.                   *)
(***************************************************************************)
EXTENDS Experiments

CONSTANTS Admins, MaxReplies
VARIABLES table, note, handling, received, outbox, mailed, stored, crossed

F == INSTANCE Feedback WITH Handlers <- Requests

\* Who replied is a user, where nobody did there is NULL.
ASSUME RecordsAssumption == F!None \notin Admins /\ MaxReplies \in Nat

feedbackVars == <<note, handling, received, outbox, mailed, stored, crossed>>

RecordsInit ==
  /\ table \in {"experiments", "user_feedback"}
  /\ Init
  /\ F!FeedbackInit

ExperimentStep ==
  /\ table = "experiments"
  /\ Next
  /\ UNCHANGED <<table, feedbackVars>>

FeedbackStep ==
  /\ table = "user_feedback"
  /\ F!FeedbackNext
  /\ UNCHANGED <<table, vars>>

RecordsSpec ==
  RecordsInit /\ [][ExperimentStep \/ FeedbackStep]_<<table, vars, feedbackVars>>

-----------------------------------------------------------------------------
\* Both tables, and the requests that work on them, have their types.
RecordsTypeOK == ExperimentsTypeOK /\ F!FeedbackTypeOK

\* A note that is marked as replied names who replied and when, unless two
\* requests for it overlap (module Feedback).
RepliesAreWhole == F!RepliesAreWhole

\* Only notes and replies that were committed are sent (module Feedback).
MailedWereStored == F!MailedWereStored

=============================================================================
