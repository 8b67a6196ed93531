------------------------------ MODULE Sessions ------------------------------
(***************************************************************************)
(* The sessions of one user: table sessions, the requests that are looked  *)
(* up in it, refresh it and revoke its rows, and the locks they take.      *)
(*                                                                         *)
(* A request is one transaction.  Its UPDATEs lock rows in the order of    *)
(* arrival until it commits, which get_db_session does after the response  *)
(* was sent; what it reads is what others have committed.                  *)
(***************************************************************************)
EXTENDS Integers, Sequences, FiniteSets, SequencesExt

CONSTANTS
  Requests,   \* requests that may be under way at once
  MaxRows,    \* bound: sessions ever opened
  MaxTime,    \* bound: the clock
  Throttle,   \* _LAST_USED_THROTTLE
  Idle,       \* cookie_session_idle_days
  Absolute    \* cookie_session_absolute_days

ASSUME TimesAssumption ==
  /\ MaxTime \in Nat /\ MaxRows \in Nat \ {0}
  /\ Throttle \in Nat /\ Idle \in Nat /\ Absolute \in Nat
  /\ Throttle + 1 < Idle /\ Idle <= Absolute

VARIABLES
  now,       \* the clock
  rows,      \* table sessions
  queue,     \* who locks a row, and who waits for it behind
  work,      \* the requests under way
  answer,    \* what the client of a request was told and has not yet read
  served,    \* history: when a session was last used by a request that committed
  signedOut  \* history: sessions that a sign-out-everywhere found open

serverVars == <<now, rows, queue, work, answer, served, signedOut>>

Ids == 1 .. MaxRows
Row == [made: BOOLEAN, used: 0 .. MaxTime, idle: Nat, until: Nat, revoked: BOOLEAN]
NoRow == [made |-> FALSE, used |-> 0, idle |-> 0, until |-> 0, revoked |-> FALSE]
NewRow(t) == [made |-> TRUE, used |-> t, idle |-> t + Idle, until |-> t + Absolute,
              revoked |-> FALSE]

Job == [stage: {"none", "open", "acting", "answered"},
        op: {"login", "use", "logout", "logout_all", "revoke"},
        row: Ids, at: 0 .. MaxTime, touch: BOOLEAN, targets: SUBSET Ids, found: SUBSET Ids]
NoJob == [stage |-> "none", op |-> "use", row |-> 1, at |-> 0, touch |-> FALSE,
          targets |-> {}, found |-> {}]
\* What a response says, and the session cookie it sets: 0 clears the cookie,
\* Keep leaves it as it is.
Keep == MaxRows + 1
Answer == [says: {"none", "ok", "unauthorised", "error"}, cookie: 0 .. Keep]
NoAnswer == [says |-> "none", cookie |-> Keep]
Says(word) == [says |-> word, cookie |-> Keep]

\* The user has one session, opened when the clock started.
ServerInit ==
  /\ now = 0
  /\ rows = [s \in Ids |-> IF s = 1 THEN NewRow(0) ELSE NoRow]
  /\ queue = [s \in Ids |-> <<>>]
  /\ work = [q \in Requests |-> NoJob]
  /\ answer = [q \in Requests |-> NoAnswer]
  /\ served = [s \in Ids |-> 0]
  /\ signedOut = {}

-----------------------------------------------------------------------------
\* list_user_sessions, and the checks of lookup_session_by_cookie.
Open(s) ==
  /\ rows[s].made /\ ~ rows[s].revoked
  /\ now < rows[s].until
  /\ now < rows[s].idle

\* A mutant: nothing is written within the idle time.
StaleTooLate(s) == now - rows[s].used > Idle

\* last_used_at is written at most once per Throttle.
Stale(s) == now - rows[s].used > Throttle

Enqueue(q, S) == queue' = [s \in Ids |-> IF s \in S /\ ~ Contains(queue[s], q)
                                         THEN Append(queue[s], q) ELSE queue[s]]
\* A mutant: nobody releases the locks.
StillLocked(q) == queue
Unlocked(q) == [s \in Ids |->
  IF Contains(queue[s], q)
  THEN RemoveAt(queue[s], CHOOSE i \in 1 .. Len(queue[s]) : queue[s][i] = q)
  ELSE queue[s]]
Waits(q) == \E s \in Ids : Contains(queue[s], q) /\ Head(queue[s]) # q

\* get_current_user and require_auth: the session is looked up and refreshed.
\* An administrator disables and enables the user (module Accounts) at any time.
Ask(q, s, op) ==
  /\ work[q].stage = "none" /\ answer[q] = NoAnswer
  /\ \/ /\ s \in Ids /\ Open(s)
        /\ work' = [work EXCEPT ![q] = [stage |-> "open", op |-> op, row |-> s, at |-> now,
                                        touch |-> Stale(s), targets |-> {}, found |-> {}]]
        /\ Enqueue(q, IF Stale(s) THEN {s} ELSE {})
        /\ UNCHANGED answer
     \/ /\ answer' = [answer EXCEPT ![q] = Says("unauthorised")]
        /\ UNCHANGED <<work, queue>>
  /\ UNCHANGED <<now, rows, served, signedOut>>

\* authenticate_user and create_session; a wrong password is refused.
Login(q) ==
  /\ work[q].stage = "none" /\ answer[q] = NoAnswer
  /\ \/ /\ \E s \in Ids :
             /\ ~ rows[s].made
             /\ \A p \in Requests : work[p].op = "login" => work[p].row # s
             /\ \A r \in 1 .. s - 1 : rows[r].made
                  \/ \E p \in Requests : work[p].op = "login" /\ work[p].row = r
             /\ work' = [work EXCEPT ![q] = [stage |-> "acting", op |-> "login", row |-> s,
                                             at |-> now, touch |-> FALSE, targets |-> {},
                                             found |-> {}]]
        /\ UNCHANGED answer
     \/ /\ answer' = [answer EXCEPT ![q] = Says("unauthorised")]
        /\ UNCHANGED work
  /\ UNCHANGED <<now, rows, queue, served, signedOut>>

\* The rows that the handler revokes: a family is a single session, because
\* nobody passes a family_id to create_session.
Targets(q) ==
  CASE work[q].op = "logout" -> {{work[q].row}}
    [] work[q].op = "logout_all" -> {{work[q].row} \cup {s \in Ids : Open(s)}}
    [] work[q].op = "revoke" -> {{t} : t \in {s \in Ids : rows[s].made}}
    [] OTHER -> {{}}

Act(q) ==
  /\ work[q].stage = "open"
  /\ ~ Waits(q)
  /\ \E targets \in Targets(q) :
       /\ work' = [work EXCEPT ![q].stage = "acting", ![q].targets = targets,
                                  ![q].found = {s \in Ids : Open(s) /\ work[q].op = "logout_all"}]
       /\ Enqueue(q, targets)
  /\ UNCHANGED <<now, rows, answer, served, signedOut>>

\* The response leaves before the transaction is committed.
Respond(q) ==
  /\ work[q].stage = "acting"
  /\ ~ Waits(q)
  /\ work' = [work EXCEPT ![q].stage = "answered"]
  /\ answer' = [answer EXCEPT ![q] =
       CASE work[q].op = "login" -> [says |-> "ok", cookie |-> work[q].row]
         [] work[q].op \in {"logout", "logout_all"} -> [says |-> "ok", cookie |-> 0]
         [] work[q].op = "revoke" /\ (\A t \in work[q].targets : rows[t].revoked) -> Says("error")
         [] OTHER -> Says("ok")]
  /\ UNCHANGED <<now, rows, queue, served, signedOut>>

\* A mutant: the whole row is written back as it was looked up.
RowWrittenBack(q, s) ==
  IF work[q].touch /\ s = work[q].row
  THEN [NewRow(work[q].at) EXCEPT !.until = rows[s].until, !.revoked = s \in work[q].targets]
  ELSE [rows[s] EXCEPT !.revoked = @ \/ s \in work[q].targets]

\* Only the columns that changed are written.
RowAfter(q, s) ==
  LET row == [rows[s] EXCEPT !.revoked = @ \/ s \in work[q].targets]
  IN  CASE s = work[q].row /\ work[q].op = "login" -> NewRow(work[q].at)
        [] s = work[q].row /\ work[q].touch ->
             [row EXCEPT !.used = work[q].at, !.idle = work[q].at + Idle]
        [] OTHER -> row

Commit(q) ==
  /\ work[q].stage = "answered"
  /\ rows' = [s \in Ids |-> RowAfter(q, s)]
  /\ queue' = Unlocked(q)
  /\ work' = [work EXCEPT ![q] = NoJob]
  /\ served' = [served EXCEPT ![work[q].row] = IF @ < work[q].at THEN work[q].at ELSE @]
  /\ signedOut' = signedOut \cup work[q].found
  /\ UNCHANGED <<now, answer>>

\* The handler or the database fails, also after the response was sent; of
\* requests that wait for one another the database fails one.
Rollback(q) ==
  /\ work[q].stage # "none"
  /\ queue' = Unlocked(q)
  /\ work' = [work EXCEPT ![q] = NoJob]
  /\ answer' = [answer EXCEPT ![q] = IF work[q].stage = "answered" THEN @ ELSE Says("error")]
  /\ UNCHANGED <<now, rows, served, signedOut>>

Tick ==
  /\ now < MaxTime
  /\ now' = now + 1
  /\ UNCHANGED <<rows, queue, work, answer, served, signedOut>>

ServerStep(q) == Act(q) \/ Respond(q) \/ Commit(q)

-----------------------------------------------------------------------------
\* Rows, requests and locks have their types, and only requests that are under
\* way hold or wait for locks.
SessionsTypeOK ==
  /\ now \in 0 .. MaxTime
  /\ rows \in [Ids -> Row]
  /\ work \in [Requests -> Job]
  /\ answer \in [Requests -> Answer]
  /\ served \in [Ids -> 0 .. MaxTime]
  /\ queue \in [Ids -> Seq(Requests)]
  /\ \A s \in Ids : \A i \in 1 .. Len(queue[s]) : work[queue[s][i]].stage # "none"

\* A session that was used is not timed out earlier than Idle - Throttle after
\* its last use, although most uses write nothing and requests overlap.
UsedSessionsLast ==
  \A s \in Ids : rows[s].made => rows[s].idle >= served[s] + Idle - Throttle

\* Sign-out-everywhere leaves none of the sessions open that it has found
\* open, in spite of requests of theirs that refresh them meanwhile.
SignedOutEverywhere == \A s \in signedOut : rows[s].revoked

=============================================================================
