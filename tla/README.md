# Formal model of factorial

This directory holds TLA+ specifications of factorial, the configurations that
model-check them with TLC, and theorems about them with proofs for TLAPS. It
covers the chat from the agent loop's thread to the window that shows the answer,
the records users keep, accounts, sessions and the sign-in dialog, and the
operation of a host: migrations, deployments, backups and restores.

Paths are relative to the repository; `B/` is `backend/src/app/`, `F/` is
`frontend/src/lib/`.

- [Inventory](#inventory)
- [Modules](#modules)
- [How the model corresponds to the code](#how-the-model-corresponds-to-the-code)
- [Runs](#runs), [bounds](#bounds), [fairness and deadlock](#fairness-and-deadlock)
- [Theorems](#theorems)
- [Where code and documentation disagree](#where-code-and-documentation-disagree)
- [Not modelled](#not-modelled)
- [Plan](#plan)

## Inventory

factorial is a FastAPI backend on PostgreSQL, a SvelteKit single-page client and
a set of shell scripts for operation. A user talks to an agent (Claude, called
through Anthropic's API) that plans experiments with tools of the package
process_improve.

| Component | State it keeps | Operations | Interacts with |
|---|---|---|---|
| Agent loop (`B/services/agent_loop.py`, `tools.py`) | thread-local messages, tool records, an event queue | one API call per round, up to 10; tool calls; a sentinel at the end | run by the chat turn in a thread; feeds it through the queue; calls API and tools |
| Chat turn (`B/services/agent_service.py`) and event log (`chat_events`) | event counter, open token batch, database session | load, announce, drain the queue, log and yield events, save, report, fail, close | streams to the client; logs to `chat_events`; saves messages, tool calls, experiments, simulators |
| Resume endpoint (`B/api/v1/endpoints/chat.py`) | none | replay `chat_events` after a sequence number; append `interrupted` | reads the log, asked by the client |
| Chat client (`F/state/chat.svelte.ts`, `F/api/sse.ts`) | spinner, last event id, resume attempts, bubble | send, read live stream, resume by timer, cancel, retry, load, clear | reads the stream and replays |
| Conversation history and simulators (`agent_service.py`, `simulator_*.py`) | `messages`, `message_count`, `simulators.reveal_request_count` | each turn reads at its start and writes at its end | shared by all turns of a conversation |
| Experiments, results, evaluation, shares | `experiments.results_data`, `evaluation_data`, `experiment_shares` | create, merge results, evaluate, export, share, revoke | written by turns and by requests |
| Upload wizard | `uploads` with a status | parse, answer, finalise | writes an experiment |
| Accounts: signup, invites, setup tokens, roles, admins | `signups`, `setup_tokens`, `users`, `roles` | submit, approve, reject, register, reset, set admin, set active | requests, and a command line beside them |
| Sessions and authentication | `sessions`, cookies | create, look up and renew, revoke one or all | every request |
| Anthropic status tracker | deque of recent calls; hourly snapshots | record, classify, snapshot | written by agent loops, polled by clients |
| Feedback | `feedback` | create, list, reply by mail | |
| Blue-green deployment (`scripts/deploy-blue-green.sh`) | state file, Caddy's upstream, containers | build, wait, switch, drain, stop, roll back | ends turns that outlive the drain window |
| Backup, restore, drill (`scripts/*.sh`) | lock, dump files, `admin_events` rows | dump, verify, upload; stop, drop, restore, start | the whole database, the application |
| Frontend stores (auth, reauth, experiments, status) | user, pending requests, lists | load, retry after login, poll | every endpoint |

What is hard, and what makes each part correct:

- **Agent loop and chat turn.** A thread and a coroutine share a queue; the
  coroutine may be cancelled at every `await` and `yield`, the process may die
  between any two steps, a row of the log may fail to be written. Correct means:
  the log tells the story the client saw, nothing but text of an open batch can
  be missing from it, every turn ends and says so, what is saved is what was
  shown, and a tool use is never separated from its result.
- **Client.** The stream may break anywhere; readers and timers of earlier
  attempts stay alive. Correct means: no text is skipped, the spinner stops when
  the server dies, reconnecting stops.
- **Conversation.** Turns overlap (two tabs; or the next message sent on `done`,
  which comes before the save). Correct means: rows have an order that respects
  cause and effect, uses stay with their results, a hidden model is revealed at the
  second request and not at the first.
- **Experiments and uploads.** Results are read, merged and written back by
  overlapping requests; no row may be lost, no expired share served.
- **Accounts and sessions.** Checks and writes of overlapping requests: a token
  is used once, an admin remains, a revoked session stays revoked.
- **Schema.** Fourteen revisions go up under code that still serves, and down by
  hand. Correct means: every release that serves finds the columns it maps and may
  leave out the others, and a downgrade undoes its upgrade.
- **Deployment and backup.** Steps of a script between which it may die or be
  run again: some colour is live and healthy, the state file agrees with the
  traffic, an application that was stopped is started, no backup is lost.
- **Frontend stores.** Responses out of order, one login for several requests.

`PROJECT.json` lists the components with their status, and each hazard with its
line and the properties that would show it going wrong.

## Modules

| Module | What it is |
|---|---|
| `AgentLoop` | `_run_agent_loop`: replies, tool calls, errors, the queue, what it returns |
| `ChatTurn` | `run_chat` composed with the loop: emission, batching, log, save, announcements, failure, cancellation, crash; the replay of the log; extends `AgentLoop` |
| `EventStream` | the abstract promise of a turn: numbered events with a log that only text may overtake |
| `ChatClient` | the browser's side of one turn composed with `ChatTurn` |
| `Conversation` | several turns of one conversation on table `messages` |
| `Simulators` | simulators and the double-confirm policy composed with `Conversation` |
| `ChatWindow` | the chat window over several turns: send, cancel, retry, load; streams, replays and timers of earlier turns |
| `Sessions` | table `sessions`: sign-in, use, refresh, revocation, with row locks |
| `SignIn` | the calls of a tab and its sign-in dialog, composed with `Sessions` |
| `Browser` | `SignIn` beside `ChatWindow` |
| `Accounts` | `users`, `signup_requests`, `roles`, `setup_tokens` with overlapping transactions |
| `Experiments` | an experiment with its columns, its upload and its link |
| `Feedback` | a note, replies to it, the e-mails about it |
| `Records` | `Experiments` beside `Feedback` |
| `Migrations` | the alembic revisions on an abstract schema, and the columns each release needs |
| `BlueGreen` | `deploy-blue-green.sh` with Caddy and two containers, on `Migrations` |
| `Backups` | `backup-postgres.sh`, `restore-postgres.sh`, `restore-drill.sh` and `admin_events`, on `Migrations` |
| `Operations` | a host of either kind: `BlueGreen` or `Backups` |
| `MCChatTurn`, `MCSimulators`, `MCAccounts`, `MCRecords`, `MCBrowser` | values for TLC: tools, calls of a page, symmetries |
| `ChatTurn_proofs` | types of a turn, paired history, terminal event, audit trail, announcements |
| `ChatTurnLog_proofs` | the log invariant, and that `ChatTurn` implements `EventStream` |
| `ChatClient_proofs` | that a client leaves the turn alone, and that its text has no hole |
| `Conversation_proofs` | order and counts of overlapping turns, exactness of serial ones, the policy on revealing |
| `Accounts_proofs` | what checks without locks guarantee: administrators, links, invites, roles |
| `Browser_proofs` | sessions and their locks, the sign-in dialog, the bubbles of the window |
| `Experiments_proofs` | saved values, views and revocation of a link, notes and their mails |
| `Operations_proofs` | the schema, the colour that serves, backups and restores |

`ChatTurn` sees all of one turn in detail and the conversation as one row of it;
`Conversation` sees all turns and one turn as the rows its answer becomes (`Simulators`
and `ChatClient` add variables to these two and are proved to leave them alone:
`SimulatorsAreTurns`, `ClientsLeaveTheTurn`). The
replies it allows are those of `AgentLoop`: uses followed by their results (theorem
`HistoryIsPaired`), except in the last reply. `ChatWindow` in turn sees a turn of the
server as numbered events with a log, which is what `EventStream` promises.

`Browser`, `Records` and `Operations` put two components side by side that share no
state but what is named in their headers; a behaviour of theirs exercises one of
the two, chosen in its first state, so the run checks each of them in full and
neither hides a step of the other.

## How the model corresponds to the code

**Agent loop.** `worker` is the program counter of the thread. `BeginTurn` to
`Leave` are the statements between two events of the loop: the top of the `while`,
a text delta, the end of the model's reply (`FinalReply`, `ToolReply`,
`ApiFails`), the announcement of a tool (`CallTool`), its answer (`Answer`, also
for a `ToolExecutionError`), any other exception (`ToolBreaks`, before or after
the `tool_result` event), the message of results (`EndReply`), the `else` of the
loop (`Exhaust`) and the `finally` (`Leave`, the sentinel). An event is its type, a
message its role and tools; texts, inputs, costs and times are left out.

**Chat turn.** `gen` is the place in `run_chat`, `stage` the place within the
emission of one event: flush the open token batch, store the row, yield, look at
the batch's age. Each is one step because each is an `await` or a `yield`, where
the generator can be cancelled and the process can die. A row of `chat_events` is
`[first, seq, type]`: the table keeps `seq`, the number of the last event in it;
`first` records which events its text holds. `StoreRow` may lose a row (the code
logs the exception and goes on); for a conversation that is not committed yet it
must (the foreign key). `Persist` is the one transaction of step 8. `Fail` is the
`except` block, with the case that `emit` itself raises, after which the error goes
out without a number. It is assumed that `db.rollback()` in that block does not
raise. `Cancel` covers sse-starlette's cancellation after a disconnect:
`CancelledError` passes the `except`, and the final flush is carried out or
cancelled itself. `Crash` ends the process; only the log and commits remain.

**Client.** `ReadLive`, `EndLive`, `LiveFails` are the loop of `parseSSEStream`,
its end, which calls nothing back, and its exception. Every resume attempt is an
entry of `resume` with its timer, request, rows and end; `ResumeOpens` and
`ReplayProbes` are the endpoint's two queries, between which the turn may go on.
`Dispatch` is `dispatchSSEEvent` with the callbacks of `buildCallbacks`. Note that
`cancelStream` aborts the reader started last and leaves timers armed.

**Conversation.** A turn reads the conversation (`Open`) and the rows
(`ReadHistory`) in two statements under READ COMMITTED, commits its question
(`Ask`), and commits its answer (`Save`) under numbers fixed by `ReadHistory`, with
`message_count` written from its own copy (not written when unchanged, as
SQLAlchemy does). `Abort` is every way to end without the save. `BuildMessages` is
`_build_messages_from_history`, by which a history becomes what the API is sent:
consecutive rows of one role are one message. Unanswered tool uses, and texts that stay
bare strings among the blocks of a message, are sent all the same: no property claims
that the API accepts the result, see the findings.

**Simulators.** `LoadSimulators`, `RequestReveal`, `CreateSimulator` and
`StoreSimulators` are `list_simulators_for_conversation`, `pre_dispatch`,
`post_dispatch` and the part of step 8 that writes counts and new rows. `requests`
is a history variable: how each request to reveal was answered.

**Chat window.** A turn of the server issues `Length` numbered events, the first of
which announces the conversation and the last of which is `done` or `error`, or dies.
Those between are texts, and `rows` are the numbers of its rows in `chat_events`: texts
wait in a batch until they are old enough (`FlushBatch`), the turn ends or is cancelled,
and become one row under the number of the last (`Flushed`). A live stream delivers
every event by itself, a replay the rows whose number is greater than the
`Last-Event-ID`'s (`AnswerReplay`), each with all its texts (`Holds`). So a client
that was cut off inside a batch appends the beginning of it once more, which
`AnswersAreTheirOwn` allows once in a bubble, to that place only, and never as a hole.
A row that a database error loses is left to `ChatTurn` and `ChatClient`.
`readers` are the calls of `streamChat` and `resumeChatStream` in their order, so that
an index of it is what `abortController` holds. A bubble remembers the reader started
for it, which is what `AnswersAreTheirOwn` compares its texts with. The callbacks
(`OnToken`, `OnError`, `OnEnd`) write to the last bubble, `lastEventId` and
`isStreaming` whichever reader calls them, as those of `buildCallbacks` do.
`loadConversation` is two steps with an `await` between them. `strayed` is a history
variable: the user went on while something was alive that nothing aborts, or a
replay was asked for before anything was read. The code misbehaves then (see the
findings), the property makes an exception of it, and the model stops there.

**Sessions and sign-in.** A request is one transaction in three steps: `Ask` looks
the session up as committed (`lookup_session_by_cookie`) and decides whether to
refresh it; `Act` takes the row locks of its UPDATEs in the order of arrival (`queue`)
and waits for them; `Respond` answers; `Commit` writes the columns that changed, after
the response, as `get_db_session` does. `Rollback` may happen at any of them. In
`SignIn`, `Refused` is `triggerReauth` (open the dialog or join it), `Resume` is
`reauthResolve` and `reauthReject`, which let every waiting call go.

**Accounts.** A request reads and checks in one step and commits in another;
the tables are as others left them in between, except that unique and foreign
keys hold. `contended` remembers rows that two transactions under way would both
write: the code locks none, so what it promises is what holds without that.

**Experiments and feedback.** A request reads the row (and Claude may parse a file in
between), and `Commit` writes the columns that differ from what was read, as
SQLAlchemy does. `saved` is what was last saved of each column when requests do not
overlap on it. A view is served (`Serve`) under the row lock of its UPDATE before its transaction
commits (`CommitView`),
in which the database increments the counter (`Counted`); a view whose commit fails
after the response was shown and is not counted (`uncounted`). In
`Feedback` a row commits before the response, and `_deliver_notifications` runs after
it, or never.

**Migrations.** A table is the set of its columns with a flag: an INSERT must name
this column. `UpOne` and `DownOne` apply one revision; PostgreSQL's transactional DDL
makes it atomic. `Works(release, db)` says that the columns a release maps are there
and no other one is required.

**Blue-green.** `deploy` and `rollback` are places in the script between two commands
with an effect: the state file is read (`StartDeploy`), then come the container of the
other colour (`StartNext`), its health check, the migrations (`Migrate`, one atomic step
because `env.py` runs all of them in one transaction), Caddy's snippet, the reload, the
state file, and after the drain `StopPrevious`. `DeployEnds` is failure or being cut
short at any of them. The script takes no lock: `Deploys` may run side by side, and
`DeployDuring` and `RollbackDuring` are the places of running scripts at which another
deploy or a rollback is started all the same. `Careful` is what is assumed of the
operator: no script is started before files that disagree are repaired, no rollback to
a colour that is not healthy or whose migrations have not run; `--rollback` itself looks
at neither. What `operations` shows is for a careful operator and scripts that do not
overlap (both sets empty); `rollback_window` has a rollback during the drain, the
guide's advice of vps-guide.md:694. What a second deploy during it does is among the
findings.

**Backups.** Each script is a record with its place, its row of `admin_events` and
what it holds: a dump, an object's key, a target. The two locks are the guards
`pc = "idle"` of their scripts, so a backup may run during a restore of the site and
dump what there is of the database (`whole`). `close_via_cli` works only while the
app's container runs and the table exists (`CliWorks`), as the traps call the CLI inside
it. A stored object has the bytes of the dump, others of the same size, or fewer
(`Bytes`): `VerifyUpload` finds out only the last, because the hash it compares is the
string that the upload attached; `VerifyDownload` hashes the bytes and finds out both.
`Killed` runs no trap.

Definitions that a comment calls mutants are plausible bugs; each property fails
when the definition named in the comment is replaced by the mutant. They are no
part of any specification.

## Runs

| Run | Module, configuration | Shows |
|---|---|---|
| `chat_turn` | `MCChatTurn`, `ChatTurn.cfg` | `TypeOK`; `LogMatchesStream`: no event in two rows, rows show what the stream showed; `OnlyTextIsLost`: only text can be missing from the log; `TurnEndsTerminal`: a turn that ran to its end sent `done` or `error`; `ImplementsEventStream`: refinement of `EventStream`; `TurnEnds`: every turn ends |
| `tool_rounds` | `MCChatTurn`, `ToolRounds.cfg` | `AuditMatchesStream`: cards shown are the calls in the audit trail; `ToolUsesAnswered`: uses are followed by their results; `ReportsMatchCommit`: what is announced is committed, and all of it is announced |
| `chat_client` | `ChatClient`, `ChatClient.cfg` | `ClientTypeOK`; `NoTextSkipped`; `CrashIsReported`: a client that reads or is about to reconnect is not left spinning by a crash; `ReadersStop` |
| `conversation` | `MCSimulators`, `Simulators.cfg` | `SimulatorsTypeOK`; `CausalOrder`: what a turn writes is numbered after what it read; `CountNeverOvercounts`; `SerialTurnsAreExact`: without overlap, numbers are 1..n, the count is n and uses stay with their results, also after failures; `MessagesAreReplies`: and grouping rows by role makes the messages that were said; `RevealNeedsTwoRequests`; `SecondRequestReveals` |
| `accounts` | `MCAccounts`, `Accounts.cfg` | `AccountsTypeOK`; `AdminsRemain`; `TokenUsedOnce`; `RegistrationIsFinal`; `RoleInUseStays`: what the checks of overlapping requests still guarantee without a lock |
| `browser` | `MCBrowser`, `Browser.cfg` | `BrowserTypeOK`; `UsedSessionsLast`: throttled refreshes never time out a session in use; `SignedOutEverywhere`: signing out everywhere closes all it found although others refresh them; `WaitersHaveDialog`: a call waits only under a dialog; `AnswersAreTheirOwn`: a bubble shows its own answer without a hole, and again only the beginning of a batch it was cut off in |
| `records` | `MCRecords`, `Records.cfg` | `RecordsTypeOK`; `SavedStays`: what was saved survives writes of other columns; `ViewsAreCounted`: a served view is counted, unless its own commit failed after the response; `RevokedStays`; `MailedWereStored`: only what was committed is mailed |
| `operations` | `Operations`, `Operations.cfg` | `OperationsTypeOK`; `TrafficIsServed`: Caddy's upstream answers, and its code fits the schema, through deploys, migrations and rollbacks that do not overlap; `DowngradeRestores`; `SuccessMeansStored`: a recorded backup names an object of its own with the size of its dump, a recorded restore or drill one with its bytes; `WholeWhileServed`: no half-restored database is served, unless a partial one was stored |
| `rollback_window` | `Operations`, `Rollback.cfg` | violation of `TrafficIsServed` |
| `replay_finished` | `MCChatTurn`, `ReplayFinished.cfg` | violation of `FinishedTurnIsNotInterrupted` |
| `spinner_stops` | `ChatClient`, `SpinnerStops.cfg` | violation of `SpinnerStops` |
| `shared_sequence` | `Conversation`, `SharedSequence.cfg` | violation of `SequenceDeterminesOrder` |

The last four are disagreements between code and documentation, see below.

### Bounds

- `MaxAgentTurns` (code: `MAX_AGENT_TURNS = 10`) is 2 where rounds matter: the
  first, and one more after results, the last of which can also exhaust the loop.
  It is 1 for the client, which cannot tell rounds apart.
- `MaxTokens` 2: a batch of one and of two tokens, batches that end by another
  event, by age, by the close, and text on both sides of a flush.
- `MaxToolCalls` 1 in `chat_turn`; 2 in `tool_rounds`, where a reply mixes meta
  tools, designs, simulators, failures and results.
- `MaxStoreFailures` 1 in `chat_turn`: any one row, the batch or an event, is lost.
  0 in `tool_rounds`, which has no property about the log.
- `MaxResume` (code: `MAX_RESUME_ATTEMPTS = 3`) is 2 in `chat_client`, so that a
  second reader overlaps the first, and 3 in `spinner_stops`.
- `Turns` 3, of which `MaxActive` 2 at once, `MaxBlocks` 3 blocks in an answer,
  one simulator: a turn that creates, one that is refused, one that reveals; a
  turn that overlaps both others; an answer with a text and an answered call, or
  with several calls that are cut off. Turns are symmetric; no temporal
  property is in that run. (A second reveal after a turn that aborts takes a fourth
  turn; it is covered by the proof of `RevealNeedsTwoRequests`.) Of the calls of one reply at most one concerns a
  simulator: two in one reply act like two in successive replies.

- Accounts: 3 addresses, 2 of them administrators, one role, one link and 3
  transactions under way, 4 ever begun: both sides of a race and a third party, then
  one request on what they left. Addresses and requests are symmetric.
- Browser: two calls and the dialog, 2 sessions, `MaxTime` 3 with an idle time of 3, an
  absolute one of 3 and a throttle of 1, so that a use may be throttled or refresh, and
  a session may expire either way and be replaced. In the window `MaxSends` 2 messages, `MaxReaders` 3 requests
  (two messages and a replay, or one and two replays), answers of two texts
  (a batch of one and of two), `MaxResume` 2.
- Records: 3 requests under way and 4 ever begun, 2 values to enter, 2 administrators,
  5 requests about a note. Requests and values are symmetric.
- Operations: every one of the 14 releases with all revisions between; on the other
  kind of host 4 runs of scripts, 2 objects and 2 writes: a restore of an older dump
  while another backup and a drill are under way, and a backup that runs into a restore. That a
  restore of the partial object it may store is backed up in its turn needs a fifth run
  of a script and a third object; only the theorems cover it. `Rollback.cfg` needs two
  releases.

The theorems below hold for all values of the constants of their modules.

### Fairness and deadlock

`FairSpec` assumes weak fairness of the worker's steps (calls of the API and of
tools have time-outs) and of the generator's (the event loop resumes a coroutine
whose wait is over), and `ClientFairSpec` that of the client's readers and timers
too (the browser runs its callbacks; a request is answered or fails). None is
assumed of a disconnection, a cancellation, a crash, or a user who cancels.
`accounts`, `browser`, `records` and `operations` check safety only: nobody is bound to
make a request or to run a script, and the code retries nothing by itself.
`CHECK_DEADLOCK FALSE` is stated because a turn, its readers, a bounded set of
turns and a bounded number of requests come to an end, a window that has strayed is
not followed, and a host whose restore failed really stays down until somebody acts.

## Theorems

Every property that a run checks is also proved for all values of the constants,
except the liveness properties and `MessagesAreReplies`. The proofs use the `ASSUME`s of the modules and
nothing else: bounds are natural numbers (some positive), the addresses are finitely
many and an administrator is there at the start, the releases are revisions, NULL is
no administrator, address or role, a session is refreshed before it is idle too long
(`Throttle + 1 < Idle`, as in the settings), an answer has an event before its end. One
theorem has hypotheses of its own, `TrafficServed`, named below.

| Theorem | States | Argument |
|---|---|---|
| `TypeCorrect` | `Spec => []TypeOK` | `TypeInv` adds that a tool is being called only while a call is pending, without which `Head(calls)` has no type |
| `HistoryIsPaired` | `[]ToolUsesAnswered` | `PairInv`: the messages are paired up to the last reply, and at every place of the worker the results so far followed by the calls left are the uses of that reply; saved messages are a copy |
| `ClientIsTold` | `[]TurnEndsTerminal` | `EndInv`: a worker that is leaving has put a terminal event on the queue; until the generator has sent one, it is still in the queue or being emitted |
| `AuditMatches` | `[]AuditMatchesStream` | `AuditInv`: results shown, in hand and on the queue are together as many as the calls recorded, and the sentinel is the last item of the queue |
| `ReportsMatch` | `[]ReportsMatchCommit` | `ReportInv`: experiments announced, being announced and left to announce are together the designs that were committed |
| `LogInvariant` | `[]LogInv` | see below |
| `LogTellsTheStream` | `[]LogMatchesStream` | from `LogInv` |
| `OnlyTextCanBeLost` | `[]OnlyTextIsLost` | from `LogInv` |
| `TurnImplementsStream` | `Spec => ImplementsEventStream` | from `LogInv`, action by action |
| `ClientsLeaveTheTurn` | `ClientSpec => Spec /\ []ServerInv` | every step of the client is a step of the turn, its disconnection, or a stutter |
| `ClientTyped` | `ClientSpec => []ClientTypeOK` | from `ClientInv` |
| `NoHoleInTheText` | `ClientSpec => []NoTextSkipped` | see below |
| `RowsAreCausal` | `ConversationSpec => []CausalOrder` | `OrderInv`: the next number of a turn exceeds all it has read and written, and it writes nothing before its question |
| `CountsNoMore` | `ConversationSpec => []CountNeverOvercounts` | `CountInv`: no copy of the counter exceeds the number of rows; rows that are saved are new and as many as the blocks (a bijection) |
| `SerialTurns` | `ConversationSpec => []SerialTurnsAreExact` | `SerialInv`: there are C rows, numbered 1 to C, and every copy of the count is C |
| `SimulatorsAreTurns` | `Spec => ConversationSpec` | refinement: calls about simulators are replies of the conversation |
| `SimulatorsTyped` | `[]SimulatorsTypeOK` | with `OrderInv` of the conversation |
| `RevealsNeedTwo` | `[]RevealNeedsTwoRequests` | `SimsInv`, see below |
| `SecondReveals` | `[]SecondRequestReveals` | from `SimsInv` |
| `AccountsKeepTypes` | `[]AccountsTypeOK` | `TypeInv`: what a transaction under way names exists (`Sound`), and two that would write one row are in `contended` (`Separate`) |
| `AnAdministratorRemains` | `[]AdminsRemain` | `AdminsInv`: a demotion under way leaves another administrator |
| `ALinkIsRedeemedOnce` | `[]TokenUsedOnce` | `TokenInv`: a link that is being redeemed is unused, an unused one has set nothing |
| `AnInviteIsAcceptedOnce` | `[]RegistrationIsFinal` | `SignupInv`: a signup is still what the decision under way has found |
| `ADeletedRoleIsUnused` | `[]RoleInUseStays` | a role that is being given is touched by the request that gives it |
| `BrowserTyped` | `BrowserSpec => []BrowserTypeOK` | `BrowserInv`, the invariants of sessions, calls and window |
| `UsedSessionsStay` | `[]UsedSessionsLast` | `SessionsInv`, see below |
| `SignOutReachesAll` | `[]SignedOutEverywhere` | a session that a sign-out found stays among its targets, and no commit takes `revoked` back |
| `WaitersAreShownADialog` | `[]WaitersHaveDialog` | inductive with the types |
| `BubblesShowTheirTurns` | `[]AnswersAreTheirOwn` | `WindowInv`, see below |
| `RecordsKeepTypes` | `Spec => []ShareInv` | the inductive invariant of the next two |
| `EveryViewIsCounted` | `[]ViewsAreCounted` | `ShareInv`: nobody was shown an experiment that has no link, one request makes the link, and of the requests that have served it at most one has not ended |
| `RevocationIsFinal` | `[]RevokedStays` | from `ShareInv` |
| `NothingSavedIsLost` | `[]SavedStays` | `FreshInv`: what a request has read of a column it will write is what the row still holds, unless two requests wrote the same column |
| `TablesAreApart` | `RecordsSpec => Spec /\ []NoteInv` | refinement: `Records` steps are those of `Experiments` or leave them alone |
| `RecordsTyped` | `RecordsSpec => []RecordsTypeOK` | from the two above |
| `RepliesStayWhole` | `[]RepliesAreWhole` | `WholeInv`: a request under way has read the note as it is and leaves it whole |
| `OnlyStoredIsMailed` | `[]MailedWereStored` | `OutboxInv`: mail is queued by the step that commits |
| `OperationsTyped` | `OperationsSpec => []OperationsTypeOK` | `HostInv`, see below |
| `SuccessIsStored` | `[]SuccessMeansStored` | from `HostInv` |
| `ServedIsWhole` | `[]WholeWhileServed` | from `HostInv` |
| `OneSchemaARevision` | `[]DowngradeRestores` | the schemas are closed under every revision, up and down |
| `TrafficServed` | `Careful` and `DeployDuring = RollbackDuring = {}` imply `[]TrafficIsServed` | `ColorInv`, see below |

**Log.** `LogMatchesStream` is not inductive: that a row shows what the stream shows
depends on the number of the event in hand, on the batch and on where the emission
stands. `LogInv` is the conjunction of `Numbering` (events yielded, the counter and the
stage agree), `Batch` (the open batch is a run of tokens that ends at the last event and
begins after every row), `Rows` (rows are disjoint runs within the counter and show
the events yielded or in hand) and `Stored` (while no row was lost, what is neither
in a row nor in the batch nor in hand is text). TLC found it to hold before it was
proved. The refinement maps `settled` to the event before the open batch, or before the
event about to be stored; `durable` to the events that some row covers; `shown` to
the events yielded.

**Client.** `NoTextSkipped` rests on both sides. The server's part is `Unlogged`: text
that was shown and is not in the log lies behind every row, since it is in the open
batch or was lost with it; therefore text that appears later, on the stream or in a row,
lies ahead of all that was given away (`NewTextIsAhead`), and no step of the server can
open a hole in what the client has. The client's part is one condition for each reader
that is left: the live one has shown all the text up to where it has read (`LiveInv`),
and what the bubble lacks before a row that a replay still holds is in another row of
that replay (`ReplayInv`). A replay delivers its oldest row first, rows are disjoint,
so nothing before that row is missing (`DispatchShows`). Readers share `lastEventId` and
the bubble, so each of these conditions has to survive what the others render.

**Conversation.** `SerialTurnsAreExact` adds to the order of rows that answers are
answered uses with at most unanswered ones at the end (`AnswerInv`, kept by appending a
reply), that an active turn has written nothing but its question (`QuestionInv`), and
that adding a question and such an answer to well paired rows leaves them well paired.
It says nothing of what the API accepts: see the findings on texts in lists and on uses
without results.
`RevealNeedsTwoRequests` is a balance: for each simulator twice the reveals plus the
open count is at most the requests, once for what is stored and once for the turn under
way (`BalanceInv`). The property used to count every request. That form could not be
proved, for a good reason: a turn that reveals and then aborts leaves the stored count
at 1, so the next request reveals again. It takes four turns, one more than the run has.
The property now speaks of the requests of turns that were saved or are under way
(`Known`), and the behaviour is among the findings below.

**Accounts.** The five theorems about accounts rest on one invariant, `AccountsInv`.
What the checks of a transaction have found is a fact about the tables when it begins
(`Starts`), and nothing holds the tables still until it commits. `Separate` closes the
gap: whoever could falsify that fact touches the same row and is under way too, so
either the row is in `contended`, and nothing is promised about it, or it is the same
transaction (lemma `Alone`). Each operation has a lemma (`CommitChangeKeeps`, ...), which
cites those for what it leaves alone (`AdminsStay`, `TokensStay`, `SignupsStay`,
`RolesStay`) and argues about the rest.

**Sessions.** A refresh writes the time of its lookup, which may be long ago when it
commits. `UsedSessionsLast` holds because refreshes of a row wait for its lock in the
order of their lookups (`OrderInv`), the one that goes on is first (`LockInv`), and a
request has found its row used no later than its own time, or at most `Throttle` before
(`LookupInv`). So `used` never goes back behind a use by more than `Throttle`.

**Chat window.** Until the user strays (see the findings), at most one reader or timer
lives before the turn ends, it belongs to the answer in the last bubble and has read as
far as `lastEventId` (`AliveInv`), and that bubble holds the texts up to there
(`ShownInv`). After the end there may be more of them; they have nothing left to show.
A replay holds the rows of its turn beyond where it has read (`Delivers`); the turn only
ever adds greater rows (`Grown`), so the next of them begins either behind the last text
shown or in the batch that text is in (`NextRow`). It is the latter at most once: after
it `lastEventId` is the number of a row.

**Records.** A merge keeps all columns but one; another request that overlaps wrote a
different column or is in `contended`. Hence what is written back is what was read. The
counter of views is incremented in the database, a revocation writes only its flag.

**Operations.** For the schema, `Schemas` is the set of the fifteen schemas that the
revisions produce from the empty database; each of the fourteen upgrades and downgrades
is a lemma on named tables. `UpgradeHead` is a recursive function; that it reaches the
schema of the newest revision is shown by induction over the set of revisions for which
it does, with the least-element theorem of the library's well-founded relations. For
backups, `HostInv` says which rows of `admin_events` fit an object of the store, also for
the older rows inside dumps that a restore may bring back, and that the app is down from
the moment the database is dropped until it is whole; a dump may be partial only once
a partial object is stored, or while its backup's row went with the dropped database.
For the colours, `ColorInv` says that the files Caddy has read, or would read after a
restart, point at a colour that answers and whose release needs nothing that a migration
since took away. It is kept only by scripts that do not overlap and an operator who
repairs files that disagree and rolls back only to a healthy colour whose migrations
have run (`Careful`). That the first is needed, run `rollback_window` shows for a
rollback, and for a second deploy a configuration that differs from its `Operations.cfg`
in `DeployDuring = {"draining"}` (see the findings).

Model-checked only: the liveness properties `TurnEnds`, `CrashIsReported` and
`ReadersStop`, since fairness and ENABLED are out of the prover's reach, and
`MessagesAreReplies`. Proved only: `RepliesAreWhole`. The
properties whose runs expect a violation are refuted by them. No theorem is about what
a recursive operator computes for every input, for which the prover has no usable
induction over data; the models have none but `UpgradeHead`, and for it induction over
sets of naturals is enough.

## Where code and documentation disagree

Shown by runs:

1. `experiment_created` and `simulator_created` are logged after `done`, so the replay
   of a turn that finished ends with `interrupted` (`replay_finished`; chat.py:97).
2. After an `error` event the client resumes behind it, finds nothing, and spins for
   ever (`spinner_stops`; chat.svelte.ts:33). `CrashIsReported` excludes turns
   that issued an error for this reason.
3. Two overlapping turns number their rows alike, and the order among these rows is
   left to the database (`shared_sequence`; conversation.py:103).
4. A rollback in the drain window, which the guide recommends, makes the previous colour
   live, and the deploy then wakes up and stops it (`rollback_window`;
   vps-guide.md:694).

Visible in the models, without a run of their own:

- The order "persisted before being yielded" (agent_service.py:503) does not hold for
  tokens; a client cut off inside a batch is sent the whole batch again and shows
  that text twice. `EventStream` states the weaker promise.
- A first request to reveal counts even if the tool failed and the user was told of
  no refusal; two requests in one turn reveal the model although "first ask → wait
  for user, second ask → reveal" (simulator_service.py:15); a count for a simulator
  created in the same turn, or of a turn that aborts, is lost. In particular a turn that
  reveals the model and is cut off leaves the stored count at 1, and the next single
  request reveals it again, although the "second request flips to confirmed=True and
  resets the counter" (simulator_interception.py:69, agent_service.py:737).
  `RevealNeedsTwoRequests` and `SecondRequestReveals` state what does hold.
- A reply cut off while it asks for tools is saved without results, and every later
  turn of that conversation sends a tool use that nothing answers, which the API refuses.
  (`ToolUsesAnswered` excepts the last message of a turn, `SerialTurnsAreExact` such
  uses.)
- `_persist_new_messages` "returns a map of tool_use_id -> Message.id"
  (agent_service.py:300), but reads `msg_row.id` before the row is flushed, when the
  database has not given it an id yet: the audit rows are never linked to messages.
  The model has no such link.
- A text that is grouped with other rows of its role is a bare string in a content list
  (agent_service.py:274, 252, 283), which the API refuses: after a reply that says
  something before it calls a tool, or two questions in a row, no later turn of the
  conversation succeeds, although the function is to "convert stored `Message` rows into
  Anthropic API message format" (agent_service.py:235). In `Conversation` these are the
  messages of `BuildMessages` with two rows of which one has no call.
- Chat window: a message that fails before its first event is resumed without an event
  id, and the previous answer is replayed into its bubble as if it were its own
  (chat.svelte.ts:387, chat.py:116); resume timers and older readers survive a cancel, a
  new message and a load (chat.svelte.ts:124). `AnswersAreTheirOwn` is violated by both
  when `strayed` is left out of it.
- Accounts: disabled administrators count as remaining ones, and two demotions at once
  each count the other (admin_service.py:39); a link redeemed twice at once sets two
  passwords (setup_token_service.py:73); a role may go while an invite names it
  (role_service.py:69); a rejected address runs into the unique constraint when it
  signs up again (signup_service.py:38); `list-admins` always fails (cli.py:88).
- Sign-in: a refused call that was sent before the dialog closed opens a second one
  (reauth.svelte.ts:30).
- Experiments: overlapping `add_results` lose rows (experiment_service.py:168); rows
  stored by an upload have no `run_index`, and later merges fail
  (experiment_service.py:162); late answers overwrite a confirmed design
  (uploads.py:145), a late response the next upload's preview
  (UploadWizardModal.svelte:82), a slow list the one asked for later
  (experiments.svelte.ts:45).
- Feedback: clearing a mark while its author replies again leaves a reply of nobody
  (feedback_service.py:153). Theorem `RepliesStayWhole` excepts requests that overlap.
- Deployment: the script takes no lock, so a second deploy in the drain of the first
  builds the colour the first one came from and makes it live; the first wakes up and
  stops it (deploy-blue-green.sh:204, against "zero-downtime cutover" in line 3). With
  `DeployDuring = {"draining"}` and two deploys `TrafficIsServed` is violated.
- Deployment: `--rollback` does not look at the colour it moves to
  (deploy-blue-green.sh:171); a script cut short between reload and state file makes
  the next deploy rebuild the live colour (deploy-blue-green.sh:198). `Careful` excludes
  both.
- Backups: a stored object of the right length with other bytes is recorded as a success
  (backup-postgres.sh:426 compares the string attached at line 415; vps-guide.md:763 says
  the hash is "verified on both upload and restore"): `SuccessMeansStored` therefore
  promises bytes of a restore and a drill only. Backup and restore take different locks
  (restore-postgres.sh:135; vps-guide.md:768 names one), so a backup may store a database
  that is being restored: `BackupsAreWhole` is violated in the model, and
  `WholeWhileServed` holds only as long as it is not.
- Backups: `pg_restore --jobs=2` reads from a pipe, which PostgreSQL refuses after the
  database was dropped (restore-postgres.sh:351; the model takes the step as one that
  may succeed or fail); the scripts need the service `app`, which a blue-green host has
  not (backup-postgres.sh:363); a restore loses its own row (restore-postgres.sh:169).
- Migrations: the downgrade of 0010 inserts a role that no revision created.

## Not modelled

Texts, tool inputs and outputs, token counts, costs and timings; what the API and
the tools compute (any reply within the bounds is possible); the token and cost totals
of a conversation, which are kept the way `message_count` is; rate limits (slowapi);
exports, charts and design computation (formatting and numerics of libraries);
components and routes of the frontend (layout over the stores); configuration,
logging and generic admin views; types, indexes and foreign keys of the schema and
the data that a downgrade cannot bring back.

The Anthropic status tracker: each worker keeps its own window of errors in memory and
its own hourly snapshot; within a worker it is arithmetic on a deque without an
`await` inside, which the unit tests reach. `clearConversation` of the chat window:
nothing in the application calls it. Stores that only hold the last response. The
contents of a drill's scratch database, `--dry-run` and `--list`. The state of the upload
dialog in the browser.

## Plan

What is left, in order of its worth:

1. **The safety half of the liveness properties**: a measure that every step of a
   reader or of the generator lowers (attempts left, states of a replay, rows held),
   from which `ReadersStop` and `TurnEnds` follow with the fairness that TLC checks.
2. **Composition**: that a turn of `ChatWindow` is an `EventStream`, so that what
   `ChatTurn` guarantees carries over to the bubbles, and that an answer of
   `AgentLoop` is one that `Conversation` allows.
3. **`MessagesAreReplies` for any number of turns**: that the rows of a history keep the
   order of their messages is an invariant like `QuestionPaired`'s.
4. **Abstract specifications** of an account's administrators and of a session's
   life, which `Accounts` and `Sessions` implement.
