------------------------------ MODULE Feedback ------------------------------
(***************************************************************************)
(* A note of a user, its row of table user_feedback, and administrators    *)
(* who reply to it or set and clear its replied flag.  A request commits   *)
(* before it responds; e-mails are sent by a task after the response.      *)
(***************************************************************************)
EXTENDS Naturals

CONSTANTS
  Handlers,    \* requests that may be under way at once
  Admins,      \* administrators
  MaxReplies   \* bound: requests ever begun

VARIABLES
  note,        \* the row of table user_feedback
  handling,    \* the requests under way
  received,    \* requests begun so far, which also numbers times and replies
  outbox,      \* notes and replies that a background task has yet to send by e-mail
  mailed,      \* notes and replies that were sent
  stored,      \* history: notes and replies that were committed
  crossed      \* history: two requests under way have written the row

Times == 0 .. MaxReplies
None == "nobody"
\* replied_at, replied_by_user_id and reply_body; 0 and None are NULL.
Note == [there: BOOLEAN, at: Times, by: Admins \cup {None}, body: Times]
NoNote == [there |-> FALSE, at |-> 0, by |-> None, body |-> 0]
AtRest == [op |-> "none"]

FeedbackInit ==
  /\ note = NoNote
  /\ handling = [h \in Handlers |-> AtRest]
  /\ received = 0
  /\ outbox = {} /\ mailed = {} /\ stored = {}
  /\ crossed = FALSE

-----------------------------------------------------------------------------
Receive(h, op, new, body) ==
  /\ handling[h] = AtRest /\ received < MaxReplies
  /\ handling' = [handling EXCEPT ![h] = [op |-> op, seen |-> note, new |-> new, body |-> body]]
  /\ received' = received + 1
  /\ UNCHANGED <<note, outbox, mailed, stored, crossed>>

\* create_feedback: a screenshot that is too large or malformed is refused.
SubmitFeedback(h) ==
  /\ ~ note.there /\ \A g \in Handlers : handling[g] = AtRest
  /\ Receive(h, "submit", [NoNote EXCEPT !.there = TRUE], received + 1)

ReplyToFeedback(h, admin) ==
  /\ note.there
  /\ Receive(h, "reply", [note EXCEPT !.at = received + 1, !.by = admin, !.body = received + 1],
             received + 1)

Unmarked == [note EXCEPT !.at = 0, !.by = None, !.body = 0]

MarkReplied(h, admin, replied) ==
  /\ note.there
  /\ Receive(h, "mark", IF replied THEN [note EXCEPT !.at = received + 1, !.by = admin]
                        ELSE Unmarked, 0)

\* A mutant: the task is queued whether the commit succeeds or not.
RefusedAndMailed(h) ==
  /\ handling[h] # AtRest
  /\ handling' = [handling EXCEPT ![h] = AtRest]
  /\ outbox' = outbox \cup ({handling[h].body} \ {0})
  /\ UNCHANGED <<note, received, mailed, stored, crossed>>

\* The handler or the database fails.
RefuseFeedback(h) ==
  /\ handling[h] # AtRest
  /\ handling' = [handling EXCEPT ![h] = AtRest]
  /\ UNCHANGED <<note, received, outbox, mailed, stored, crossed>>

\* The columns that the request changed are written, and its task is queued.
CommitFeedback(h) ==
  LET job == handling[h] IN
  /\ job # AtRest
  /\ note' = [c \in DOMAIN note |-> IF job.new[c] # job.seen[c] THEN job.new[c] ELSE note[c]]
  /\ outbox' = outbox \cup ({job.body} \ {0})
  /\ stored' = stored \cup ({job.body} \ {0})
  /\ crossed' = (crossed \/ \E g \in Handlers \ {h} : handling[g] # AtRest)
  /\ handling' = [handling EXCEPT ![h] = AtRest]
  /\ UNCHANGED <<received, mailed>>

\* notify_user_of_submission, notify_admins_of_submission, notify_user_of_reply:
\* what the mail server refuses is only logged.
Deliver(body, sent) ==
  /\ body \in outbox
  /\ outbox' = outbox \ {body}
  /\ mailed' = IF sent THEN mailed \cup {body} ELSE mailed
  /\ UNCHANGED <<note, handling, received, stored, crossed>>

\* The process ends: requests and tasks are lost.
CrashFeedback ==
  /\ outbox # {} \/ \E h \in Handlers : handling[h] # AtRest
  /\ handling' = [h \in Handlers |-> AtRest]
  /\ outbox' = {}
  /\ UNCHANGED <<note, received, mailed, stored, crossed>>

FeedbackNext ==
  \/ \E h \in Handlers :
       \/ SubmitFeedback(h) \/ CommitFeedback(h) \/ RefuseFeedback(h)
       \/ \E admin \in Admins : \/ ReplyToFeedback(h, admin)
                                \/ \E replied \in BOOLEAN : MarkReplied(h, admin, replied)
  \/ \E body \in outbox, sent \in BOOLEAN : Deliver(body, sent)
  \/ CrashFeedback

-----------------------------------------------------------------------------
\* The row, the requests for it and the e-mails have their types.
FeedbackTypeOK ==
  /\ note \in Note
  /\ \A h \in Handlers : handling[h] = AtRest \/ handling[h].new \in Note
  /\ received \in Times
  /\ outbox \cup mailed \cup stored \subseteq Times \ {0}
  /\ crossed \in BOOLEAN

\* A note that is marked as replied names who replied and when, and its reply
\* goes with the mark, as long as no two requests for it overlap: each writes
\* only the columns that it changed.
RepliesAreWhole ==
  ~ crossed => /\ note.at = 0 <=> note.by = None
               /\ note.at = 0 => note.body = 0

\* Only notes and replies that were committed are sent by e-mail, whatever fails,
\* crashes or is written at the same time.
MailedWereStored == mailed \subseteq stored

=============================================================================
