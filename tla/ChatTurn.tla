------------------------------ MODULE ChatTurn ------------------------------
(***************************************************************************)
(* One chat turn of the backend: the generator run_chat                    *)
(* (backend/src/app/services/agent_service.py), which starts the agent     *)
(* loop in a thread, drains its queue into a stream of server-sent events, *)
(* logs the events in the table chat_events, and saves what the loop       *)
(* produced; and the replay of that log by the resume endpoint             *)
(* (backend/src/app/api/v1/endpoints/chat.py).                             *)
(*                                                                         *)
(* Every event has a sequence number.  Text tokens are not logged one by   *)
(* one: they gather in a buffer that is logged as a single row, numbered   *)
(* like its last token, when another event comes, when the buffer is old   *)
(* enough or when the generator closes.  The row [first, seq, type] stands *)
(* for the text of the events first..seq.                                  *)
(*                                                                         *)
(* The generator is one coroutine: a step of it runs from one await or     *)
(* yield to the next.  The worker thread, a disconnection of the client,   *)
(* the cancellation that follows it and a crash of the process may come    *)
(* between any two of its steps.                                           *)
(***************************************************************************)
EXTENDS AgentLoop

CONSTANT MaxStoreFailures   \* bound: chat_events rows that cannot be written

ASSUME TurnAssumption == MaxStoreFailures \in Nat

VARIABLES
    gen,            \* where run_chat is
    stage,          \* where the event being emitted is, "idle" if there is none
    out,            \* the type of the event emitted last
    conversation,   \* "none", "pending" (not committed yet) or "saved"
    eventSeq,       \* event_seq
    tokenBuf,       \* the open token batch, first and last sequence number
    log,            \* the rows of chat_events of this turn
    sent,           \* the types of the numbered events yielded so far, in order
    bareError,      \* an error event was yielded that has no number
    reports,        \* how many created_experiments and created_sim_rows are
                    \* still to be announced
    saved,          \* what persist_assistant committed
    connected,      \* the client still reads the stream
    cancelled,      \* the generator was cancelled
    storeFailures   \* chat_events rows lost to a database error

turnVars == <<gen, stage, out, conversation, eventSeq, tokenBuf, log, sent,
              bareError, reports, saved, connected, cancelled, storeFailures>>
vars == <<loopVars, turnVars>>

EventTypes == LoopEvents \cup {"conversation_id", "experiment_created", "simulator_created"}
Terminal == {"done", "error"}         \* _TERMINAL_EVENT_TYPES
NoBatch == [first |-> 0, last |-> 0]
NothingSaved == [messages |-> <<>>, records |-> <<>>]
NoReports == [experiments |-> 0, simulators |-> 0]

Row == [first : Nat, seq : Nat, type : EventTypes]

TypeOK ==
    /\ LoopTypeOK
    /\ gen \in {"loading", "announcing", "launching", "draining", "persisting",
                "reporting", "failing", "closing", "ended", "dead"}
    /\ stage \in {"idle", "flush", "store", "yield", "age"}
    /\ out \in EventTypes
    /\ conversation \in {"none", "pending", "saved"}
    /\ eventSeq \in Nat
    /\ tokenBuf \in [first : Nat, last : Nat]
    /\ log \subseteq Row
    /\ sent \in Seq(EventTypes)
    /\ bareError \in BOOLEAN
    /\ reports \in [experiments : Nat, simulators : Nat]
    /\ saved \in [messages : Seq(Message), records : Seq(ToolRecord)]
    /\ connected \in BOOLEAN
    /\ cancelled \in BOOLEAN
    /\ storeFailures \in 0..MaxStoreFailures

Init ==
    /\ LoopInit
    /\ gen = "loading"
    /\ stage = "idle"
    /\ out = "conversation_id"
    /\ conversation = "none"
    /\ eventSeq = 0
    /\ tokenBuf = NoBatch
    /\ log = {}
    /\ sent = <<>>
    /\ bareError = FALSE
    /\ reports = NoReports
    /\ saved = NothingSaved
    /\ connected = TRUE
    /\ cancelled = FALSE
    /\ storeFailures = 0

-----------------------------------------------------------------------------
(* _persist_chat_event: a row of its own transaction.  A failure is        *)
(* swallowed; without a committed conversation the foreign key refuses the *)
(* row.                                                                    *)
StoreRow(row) ==
    \/ /\ conversation = "saved"
       /\ log' = log \cup {row}
       /\ UNCHANGED storeFailures
    \/ /\ conversation = "pending"
       /\ UNCHANGED <<log, storeFailures>>
    \/ /\ conversation = "saved"
       /\ storeFailures < MaxStoreFailures
       /\ storeFailures' = storeFailures + 1
       /\ UNCHANGED log

TokenRow == [first |-> tokenBuf.first, seq |-> tokenBuf.last, type |-> "token"]
EventRow == [first |-> eventSeq, seq |-> eventSeq, type |-> out]

\* Mutant of Emit: the open batch is not flushed before another event.
EmitPastBatch(type) ==
    /\ stage = "idle"
    /\ eventSeq' = eventSeq + 1
    /\ out' = type
    /\ IF conversation # "none" /\ type = "token"
       THEN tokenBuf' = [first |-> IF tokenBuf = NoBatch THEN eventSeq' ELSE tokenBuf.first,
                         last |-> eventSeq']
       ELSE UNCHANGED tokenBuf
    /\ stage' = IF conversation = "none" \/ type = "token" THEN "yield" ELSE "store"

\* emit, up to its first await: number the event; a token only joins the
\* batch, another event first flushes the batch, then is stored.
Emit(type) ==
    LET seq == eventSeq + 1
    IN  /\ stage = "idle"
        /\ eventSeq' = seq
        /\ out' = type
        /\ IF conversation = "none"
           THEN stage' = "yield" /\ UNCHANGED tokenBuf
           ELSE IF type = "token"
           THEN /\ tokenBuf' = [first |-> IF tokenBuf = NoBatch THEN seq ELSE tokenBuf.first,
                                last |-> seq]
                /\ stage' = "yield"
           ELSE /\ stage' = IF tokenBuf = NoBatch THEN "store" ELSE "flush"
                /\ UNCHANGED tokenBuf

\* Mutants of Flush: the batch is not emptied, or the event that made the
\* flush necessary is not stored.
FlushKeepsBatch ==
    /\ stage = "flush"
    /\ StoreRow(TokenRow)
    /\ stage' = "store"
    /\ UNCHANGED <<loopVars, gen, out, conversation, eventSeq, tokenBuf, sent, bareError,
                   reports, saved, connected, cancelled>>

FlushOnly ==
    /\ stage = "flush"
    /\ StoreRow(TokenRow)
    /\ tokenBuf' = NoBatch
    /\ stage' = "yield"
    /\ UNCHANGED <<loopVars, gen, out, conversation, eventSeq, sent, bareError,
                   reports, saved, connected, cancelled>>

\* flush_token_buffer within emit.
Flush ==
    /\ stage = "flush"
    /\ StoreRow(TokenRow)
    /\ tokenBuf' = NoBatch
    /\ stage' = "store"
    /\ UNCHANGED <<loopVars, gen, out, conversation, eventSeq, sent, bareError,
                   reports, saved, connected, cancelled>>

Store ==
    /\ stage = "store"
    /\ StoreRow(EventRow)
    /\ stage' = "yield"
    /\ UNCHANGED <<loopVars, gen, out, conversation, eventSeq, tokenBuf, sent,
                   bareError, reports, saved, connected, cancelled>>

\* The event leaves the generator.  The drain loop then looks at the batch's age.
Yield ==
    /\ stage = "yield"
    /\ sent' = Append(sent, out)
    /\ stage' = IF gen = "draining" /\ tokenBuf # NoBatch THEN "age" ELSE "idle"
    /\ UNCHANGED <<loopVars, gen, out, conversation, eventSeq, tokenBuf, log,
                   bareError, reports, saved, connected, cancelled, storeFailures>>

\* The batch is older than _TOKEN_BATCH_INTERVAL_S, or it is not.
CheckAge ==
    /\ stage = "age"
    /\ \/ StoreRow(TokenRow) /\ tokenBuf' = NoBatch
       \/ UNCHANGED <<log, storeFailures, tokenBuf>>
    /\ stage' = "idle"
    /\ UNCHANGED <<loopVars, gen, out, conversation, eventSeq, sent, bareError,
                   reports, saved, connected, cancelled>>

-----------------------------------------------------------------------------
\* Steps 1 and 2: load or create the conversation and commit the user's
\* message.  An unknown or foreign conversation is refused with an error that
\* has no number; a database error may strike before the conversation is
\* known, while a new one is not committed, or with an existing one at hand.
Load ==
    /\ gen = "loading"
    /\ \/ /\ gen' = "closing"
          /\ bareError' = TRUE
          /\ UNCHANGED conversation
       \/ /\ gen' = "announcing"
          /\ conversation' = "saved"
          /\ UNCHANGED bareError
       \/ /\ gen' = "failing"
          /\ conversation' \in {"none", "pending", "saved"}
          /\ UNCHANGED bareError
    /\ UNCHANGED <<loopVars, stage, out, eventSeq, tokenBuf, log, sent, reports,
                   saved, connected, cancelled, storeFailures>>

\* Step 4.
Announce ==
    /\ gen = "announcing"
    /\ Emit("conversation_id")
    /\ gen' = "launching"
    /\ UNCHANGED <<loopVars, conversation, log, sent, bareError, reports, saved,
                   connected, cancelled, storeFailures>>

\* Steps 5 and 6: load the simulators, build the client, start the worker.
\* A missing API key ends the turn with an error event.
Launch ==
    /\ gen = "launching"
    /\ stage = "idle"
    /\ StartWorker
    /\ gen' = "draining"
    /\ UNCHANGED <<stage, out, conversation, eventSeq, tokenBuf, log, sent, bareError,
                   reports, saved, connected, cancelled, storeFailures>>

LaunchWithoutKey ==
    /\ gen = "launching"
    /\ Emit("error")
    /\ gen' = "closing"
    /\ UNCHANGED <<loopVars, conversation, log, sent, bareError, reports, saved,
                   connected, cancelled, storeFailures>>

\* Mutant of Drain: the sentinel is handed on as an event.
DrainSentinel ==
    /\ gen = "draining"
    /\ stage = "idle"
    /\ queue # <<>>
    /\ queue' = Tail(queue)
    /\ Emit(Head(queue))
    /\ gen' = IF Head(queue) = "sentinel" THEN "persisting" ELSE "draining"
    /\ UNCHANGED <<worker, agentTurn, tokens, calls, results, newMessages, toolRecords,
                   newSims, conversation, log, sent, bareError, reports, saved,
                   connected, cancelled, storeFailures>>

\* Step 6, _stream_from_queue: take the next item and emit it; the sentinel
\* ends the loop; an item that cannot be serialised raises.
Drain ==
    /\ gen = "draining"
    /\ stage = "idle"
    /\ queue # <<>>
    /\ queue' = Tail(queue)
    /\ LET item == Head(queue)
       IN  IF item \in LoopEvents
           THEN Emit(item) /\ UNCHANGED gen
           ELSE /\ gen' = IF item = "sentinel" THEN "persisting" ELSE "failing"
                /\ UNCHANGED <<stage, out, eventSeq, tokenBuf>>
    /\ UNCHANGED <<worker, agentTurn, tokens, calls, results, newMessages, toolRecords,
                   newSims, conversation, log, sent, bareError, reports, saved,
                   connected, cancelled, storeFailures>>

\* The designs that succeeded, each of which becomes an experiment.
Designs(records) ==
    {i \in DOMAIN records : records[i] = [tool |-> DesignTool, status |-> "success"]}

\* Mutant of Persist: every call of the design tool is announced, the failed
\* ones too.
PersistAnyDesign ==
    /\ gen = "persisting"
    /\ stage = "idle"
    /\ worker = "returned"
    /\ saved' = [messages |-> newMessages, records |-> toolRecords]
    /\ reports' = [experiments |-> Cardinality({i \in DOMAIN toolRecords :
                                                   toolRecords[i].tool = DesignTool}),
                   simulators |-> newSims]
    /\ gen' = "reporting"
    /\ UNCHANGED <<loopVars, stage, out, conversation, eventSeq, tokenBuf, log, sent,
                   bareError, connected, cancelled, storeFailures>>

\* Steps 7 and 8: await the worker, then save its messages, tool calls,
\* experiments and simulators in one transaction.
Persist ==
    /\ gen = "persisting"
    /\ stage = "idle"
    /\ worker = "returned"
    /\ saved' = [messages |-> newMessages, records |-> toolRecords]
    /\ reports' = [experiments |-> Cardinality(Designs(toolRecords)),
                   simulators |-> newSims]
    /\ gen' = "reporting"
    /\ UNCHANGED <<loopVars, stage, out, conversation, eventSeq, tokenBuf, log, sent,
                   bareError, connected, cancelled, storeFailures>>

\* A database error: preparing the launch, or saving the turn.
Raise ==
    /\ gen \in {"launching", "persisting"}
    /\ stage = "idle"
    /\ gen' = "failing"
    /\ UNCHANGED <<loopVars, stage, out, conversation, eventSeq, tokenBuf, log, sent,
                   bareError, reports, saved, connected, cancelled, storeFailures>>

\* Steps 10 and 11, after the commit: first the experiments, then the
\* simulators.
Report ==
    /\ gen = "reporting"
    /\ \/ /\ reports.experiments > 0
          /\ Emit("experiment_created")
          /\ reports' = [reports EXCEPT !.experiments = @ - 1]
          /\ UNCHANGED gen
       \/ /\ reports.experiments = 0
          /\ reports.simulators > 0
          /\ Emit("simulator_created")
          /\ reports' = [reports EXCEPT !.simulators = @ - 1]
          /\ UNCHANGED gen
       \/ /\ reports = NoReports
          /\ stage = "idle"
          /\ gen' = "closing"
          /\ UNCHANGED <<stage, out, eventSeq, tokenBuf, reports>>
    /\ UNCHANGED <<loopVars, conversation, log, sent, bareError, saved, connected,
                   cancelled, storeFailures>>

\* The except block: roll back and emit an error event.  If emit raises in
\* turn (after the rollback the conversation has to be loaded anew) the
\* number is spent and the error goes out without one.
Fail ==
    /\ gen = "failing"
    /\ stage = "idle"
    /\ \/ Emit("error") /\ UNCHANGED bareError
       \/ /\ conversation # "none"
          /\ eventSeq' = eventSeq + 1
          /\ bareError' = TRUE
          /\ UNCHANGED <<stage, out, tokenBuf>>
    /\ gen' = "closing"
    /\ UNCHANGED <<loopVars, conversation, log, sent, reports, saved, connected,
                   cancelled, storeFailures>>

\* The finally block: flush what is left of the batch.
Close ==
    /\ gen = "closing"
    /\ stage = "idle"
    /\ \/ tokenBuf # NoBatch /\ StoreRow(TokenRow)
       \/ (tokenBuf = NoBatch \/ bareError) /\ UNCHANGED <<log, storeFailures>>
    /\ tokenBuf' = NoBatch
    /\ gen' = "ended"
    /\ UNCHANGED <<loopVars, stage, out, conversation, eventSeq, sent, bareError,
                   reports, saved, connected, cancelled>>

GenStep == \/ Flush \/ Store \/ Yield \/ CheckAge \/ Load \/ Announce \/ Launch
           \/ LaunchWithoutKey \/ Drain \/ Persist \/ Raise \/ Report \/ Fail \/ Close

-----------------------------------------------------------------------------
\* The client goes away.
Disconnect ==
    /\ connected
    /\ connected' = FALSE
    /\ UNCHANGED <<loopVars, gen, stage, out, conversation, eventSeq, tokenBuf, log,
                   sent, bareError, reports, saved, cancelled, storeFailures>>

\* The server notices and cancels the generator at its await or yield.  No
\* except clause catches that; the final flush may still be carried out or be
\* cancelled itself.  The worker thread runs on.
Cancel ==
    /\ ~connected
    /\ gen \notin {"ended", "dead"}
    /\ \/ tokenBuf # NoBatch /\ StoreRow(TokenRow)
       \/ UNCHANGED <<log, storeFailures>>
    /\ tokenBuf' = NoBatch
    /\ stage' = "idle"
    /\ gen' = "ended"
    /\ cancelled' = TRUE
    /\ UNCHANGED <<loopVars, out, conversation, eventSeq, sent, bareError, reports,
                   saved, connected>>

\* The process stops: a crash, or the end of a container's drain window.  Its
\* memory is gone, the log and what was committed stay.
Crash ==
    /\ gen \notin {"ended", "dead"}
    /\ gen' = "dead"
    /\ worker' = "dead"
    /\ agentTurn' = 0 /\ tokens' = 0 /\ newSims' = 0
    /\ calls' = <<>> /\ results' = <<>> /\ queue' = <<>>
    /\ newMessages' = <<>> /\ toolRecords' = <<>> /\ reports' = NoReports
    /\ stage' = "idle"
    /\ tokenBuf' = NoBatch
    /\ connected' = FALSE
    /\ UNCHANGED <<out, conversation, eventSeq, log, sent, bareError, saved, cancelled,
                   storeFailures>>

WorkerStep == LoopStep /\ UNCHANGED turnVars

Next == WorkerStep \/ GenStep \/ Disconnect \/ Cancel \/ Crash

\* The worker's calls have time-outs and the event loop resumes a coroutine
\* whose await is over: both keep going.  Nothing obliges a client to leave or
\* a process to crash.
Fairness == WF_vars(WorkerStep) /\ WF_vars(GenStep)

Spec == Init /\ [][Next]_vars
FairSpec == Spec /\ Fairness
-----------------------------------------------------------------------------
(* Replay: the resume endpoint selects the rows after the client's last    *)
(* event and adds a synthetic "interrupted" event unless the last row of   *)
(* the turn (which is also the last one selected, if any is) is terminal.  *)
Covered == {i \in 1..eventSeq : \E r \in log : i \in r.first..r.seq}
\* Mutants of the replay: rows are chosen by the first event they hold; an
\* unfinished turn is not marked.
ReplayRowsByFirst(after) == {r \in log : r.first > after}
ReplayNeverInterrupted == FALSE
ReplayRows(after) == {r \in log : r.seq > after}
IsLatest(row) == \A r \in log : r.seq <= row.seq
ReplayInterrupted == ~ \E row \in log : IsLatest(row) /\ row.type \in Terminal

-----------------------------------------------------------------------------
(* Properties.                                                             *)

Count(seq, type) == Cardinality({i \in DOMAIN seq : seq[i] = type})

\* The log tells the same story as the stream: no event is in two rows (so
\* ordering rows by sequence is ordering events, and the unique constraint of
\* chat_events never refuses one), and a row has the type of the events that
\* the client was shown under its numbers.
LogMatchesStream ==
    /\ \A r, s \in log : r # s => r.seq < s.first \/ s.seq < r.first
    /\ \A r \in log : \A i \in r.first..r.seq : i <= Len(sent) => sent[i] = r.type

\* As long as the database takes the rows, nothing but text that was shown to
\* the client can be missing from the log, whatever is cut off by a
\* disconnection or a crash.
OnlyTextIsLost ==
    conversation = "saved" /\ storeFailures = 0 =>
        \A i \in 1..Len(sent) : i \notin Covered => sent[i] = "token"

\* The tool_result cards the client was shown are exactly the answered tool
\* calls of the audit trail that was committed.
AuditMatchesStream ==
    saved # NothingSaved =>
        Count(sent, "tool_result") =
            Cardinality({i \in DOMAIN saved.records : saved.records[i].tool \notin MetaTools})

\* In the history a later turn is built from, a reply that uses tools is
\* followed by a message that answers these tools in the same order, unless
\* it is the last message of its turn.
ToolUsesAnswered ==
    \A i \in 1..Len(saved.messages) - 1 :
        saved.messages[i].role = "assistant" =>
            saved.messages[i + 1] = [role |-> "user", tools |-> saved.messages[i].tools]

\* A client is told of an experiment only when it is committed, and a client
\* that stays is told of every one.
ReportsMatchCommit ==
    LET told == Count(sent, "experiment_created")
        committed == Cardinality(Designs(saved.records))
    IN  /\ told <= committed
        /\ gen = "ended" /\ ~cancelled => told = committed

\* A turn that runs to its end, on whatever path, tells the client so.
TurnEndsTerminal ==
    gen = "ended" /\ ~cancelled =>
        bareError \/ \E i \in DOMAIN sent : sent[i] \in Terminal

\* "The stream closes naturally if the turn's last persisted event is
\* terminal": a turn that ran to its end is not replayed as interrupted.
FinishedTurnIsNotInterrupted ==
    gen = "ended" /\ ~cancelled /\ conversation = "saved" /\ storeFailures = 0 /\ ~bareError
        => ~ReplayInterrupted

\* Every turn comes to an end, since the worker always leaves a sentinel.
TurnEnds == <>(gen \in {"ended", "dead"})

\* A chat turn is a stream of events backed by a log.  An event still to be
\* stored, and the open batch, are not settled.
Settled ==
    IF tokenBuf # NoBatch THEN tokenBuf.first - 1
    ELSE IF stage = "store" THEN eventSeq - 1 ELSE eventSeq

Stream == INSTANCE EventStream WITH
    issued <- eventSeq,
    text <- eventSeq > 0 /\ out = "token",
    settled <- Settled,
    durable <- Covered,
    shown <- Len(sent),
    status <- IF cancelled \/ gen = "dead" THEN "broken"
              ELSE IF gen = "ended" THEN "finished" ELSE "open"

ImplementsEventStream == Stream!Spec
=============================================================================
