----------------------------- MODULE ChatClient -----------------------------
(***************************************************************************)
(* The browser's side of one chat turn, composed with the server's         *)
(* (module ChatTurn): ChatState (frontend/src/lib/state/chat.svelte.ts)    *)
(* and the stream readers streamChat and resumeChatStream                  *)
(* (frontend/src/lib/api/sse.ts).                                          *)
(*                                                                         *)
(* The live stream may break anywhere.  A reader that fails, or that reads *)
(* an error event, schedules a resume by a timer; when the timer fires the *)
(* client asks for a replay of what follows the last event it saw.  Each   *)
(* attempt is a reader of its own: nothing stops the earlier ones, and     *)
(* nothing stops a timer.                                                  *)
(***************************************************************************)
EXTENDS ChatTurn, FiniteSetsExt

CONSTANT MaxResume   \* MAX_RESUME_ATTEMPTS

ASSUME ClientAssumption == MaxResume \in Nat

VARIABLES
    streaming,   \* isStreaming: the spinner
    outcome,     \* how the turn was presented: "none", "done", "error",
                 \* "interrupted" or "cancelled"
    known,       \* conversationId is set
    lastId,      \* lastEventId: the sequence number in it, 0 if null
    attempts,    \* resumeAttempts
    live,        \* streamChat is reading the live stream
    got,         \* numbered events read from the live stream
    resume,      \* the resume attempts
    rendered     \* the tokens shown in the assistant's bubble, in order

clientVars == <<streaming, outcome, known, lastId, attempts, live, got, resume, rendered>>
allVars == <<vars, clientVars>>

Attempt == 1..MaxResume
\* An attempt holds the rows its replay has still to deliver, and whether an
\* "interrupted" event follows them.
Idle(state) == [state |-> state, rows |-> {}, marker |-> FALSE]
Unnumbered(type) == [first |-> 0, seq |-> 0, type |-> type]

ClientTypeOK ==
    /\ TypeOK
    /\ streaming \in BOOLEAN
    /\ outcome \in {"none", "done", "error", "interrupted", "cancelled"}
    /\ known \in BOOLEAN
    /\ lastId \in 0..eventSeq
    /\ attempts \in 0..MaxResume
    /\ live \in BOOLEAN
    /\ got \in 0..Len(sent)
    /\ resume \in [Attempt -> [state : {"unused", "timer", "probing", "open", "closed"},
                               rows : SUBSET log, marker : BOOLEAN]]
    /\ rendered \in Seq(Nat)

\* sendMessage has just been called.
ClientInit ==
    /\ streaming = TRUE
    /\ outcome = "none"
    /\ known = FALSE
    /\ lastId = 0
    /\ attempts = 0
    /\ live = TRUE
    /\ got = 0
    /\ resume = [a \in Attempt |-> Idle("unused")]
    /\ rendered = <<>>

-----------------------------------------------------------------------------
\* onDone, onInterrupted, and the giving-up branch of onError.
Conclude(how) ==
    /\ streaming' = FALSE
    /\ outcome' = IF outcome = "none" THEN how ELSE outcome

\* Mutant of OnError: the attempts are not limited.
OnErrorAlways(pool) ==
    IF known /\ streaming
    THEN /\ attempts' = attempts + 1
         /\ resume' = [pool EXCEPT ![attempts + 1].state = "timer"]
         /\ UNCHANGED <<streaming, outcome>>
    ELSE /\ Conclude("error")
         /\ resume' = pool
         /\ UNCHANGED attempts

\* onError: schedule a resume if one can help, else show the error.  pool is
\* the set of attempts as the reader that fails leaves it.
OnError(pool) ==
    IF known /\ attempts < MaxResume /\ streaming
    THEN /\ attempts' = attempts + 1
         /\ resume' = [pool EXCEPT ![attempts + 1].state = "timer"]
         /\ UNCHANGED <<streaming, outcome>>
    ELSE /\ Conclude("error")
         /\ resume' = pool
         /\ UNCHANGED attempts

\* dispatchSSEEvent for an event whose text, if it is a token, is that of the
\* events first..seq; seq = 0 for an event without an id.
Dispatch(row, pool) ==
    /\ lastId' = IF row.seq = 0 THEN lastId ELSE row.seq
    /\ known' = (known \/ row.type = "conversation_id")
    /\ rendered' = IF row.type = "token"
                   THEN rendered \o [i \in 1..(row.seq - row.first) + 1 |-> row.first + i - 1]
                   ELSE rendered
    /\ CASE row.type = "done" ->
                Conclude("done") /\ attempts' = 0 /\ resume' = pool
         [] row.type = "interrupted" ->
                Conclude("interrupted") /\ attempts' = 0 /\ resume' = pool
         [] row.type = "error" -> OnError(pool)
         [] OTHER -> UNCHANGED <<streaming, outcome, attempts>> /\ resume' = pool

-----------------------------------------------------------------------------
\* The live stream: an event arrives.
ReadLive ==
    /\ live /\ connected
    /\ got < Len(sent)
    /\ got' = got + 1
    /\ Dispatch([first |-> got', seq |-> got', type |-> sent[got']], resume)
    /\ UNCHANGED <<vars, live>>

\* The live stream ends with the response; an error without a number comes
\* last.  The end itself calls nothing back.
EndLive ==
    /\ live /\ connected
    /\ got = Len(sent)
    /\ gen = "ended"
    /\ live' = FALSE
    /\ IF bareError
       THEN Dispatch(Unnumbered("error"), resume)
       ELSE UNCHANGED <<streaming, outcome, known, lastId, attempts, resume, rendered>>
    /\ UNCHANGED <<vars, got>>

\* The connection of the live stream is gone: the reader throws.
LiveFails ==
    /\ live /\ ~connected
    /\ live' = FALSE
    /\ OnError(resume)
    /\ UNCHANGED <<vars, known, lastId, got, rendered>>

\* A timer fires and the resume request is answered: the rows that follow
\* lastId, oldest first, then "interrupted" if the last one is not terminal.
\* When there is no row a second query asks for the last row of the turn.
ResumeOpens(a) ==
    LET rows == ReplayRows(lastId)
    IN  /\ resume[a].state = "timer"
        /\ known
        /\ resume' = [resume EXCEPT ![a] =
                         [state |-> IF rows = {} THEN "probing" ELSE "open",
                          rows |-> rows,
                          marker |-> rows # {} /\ ReplayInterrupted]]
        /\ UNCHANGED <<vars, streaming, outcome, known, lastId, attempts, live, got, rendered>>

ReplayProbes(a) ==
    /\ resume[a].state = "probing"
    /\ resume' = [resume EXCEPT ![a].state = "open", ![a].marker = ReplayInterrupted]
    /\ UNCHANGED <<vars, streaming, outcome, known, lastId, attempts, live, got, rendered>>

\* The request fails, or the connection breaks while the replay is read.
ResumeFails(a) ==
    /\ resume[a].state \in {"timer", "probing", "open"}
    /\ OnError([resume EXCEPT ![a] = Idle("closed")])
    /\ UNCHANGED <<vars, known, lastId, live, got, rendered>>

ReadReplay(a) ==
    /\ resume[a].state = "open"
    /\ \/ \E row \in resume[a].rows :
             /\ \A r \in resume[a].rows : row.seq <= r.seq
             /\ Dispatch(row, [resume EXCEPT ![a].rows = @ \ {row}])
       \/ /\ resume[a].rows = {} /\ resume[a].marker
          /\ Dispatch(Unnumbered("interrupted"), [resume EXCEPT ![a].marker = FALSE])
    /\ UNCHANGED <<vars, live, got>>

\* Mutant of EndReplay: a replay that ends resumes again.
EndReplayAgain(a) ==
    /\ resume[a] = Idle("open")
    /\ resume' = [resume EXCEPT ![a].state = "timer"]
    /\ UNCHANGED <<vars, streaming, outcome, known, lastId, attempts, live, got, rendered>>

\* The replay ends; like the end of the live stream, it calls nothing back.
EndReplay(a) ==
    /\ resume[a] = Idle("open")
    /\ resume' = [resume EXCEPT ![a].state = "closed"]
    /\ UNCHANGED <<vars, streaming, outcome, known, lastId, attempts, live, got, rendered>>

\* cancelStream: abort the reader started last (abortController) and stop the
\* spinner.  A timer stays armed.
LatestReader == {a \in Attempt : resume[a].state \in {"probing", "open", "closed"}}
CancelStream ==
    /\ streaming
    /\ Conclude("cancelled")
    /\ IF LatestReader = {}
       THEN live' = FALSE /\ connected' = FALSE /\ UNCHANGED resume
       ELSE /\ resume' = [resume EXCEPT ![Max(LatestReader)] =
                              Idle("closed")]
            /\ UNCHANGED <<live, connected>>
    /\ UNCHANGED <<loopVars, gen, stage, out, conversation, eventSeq, tokenBuf, log, sent,
                   bareError, reports, saved, cancelled, storeFailures,
                   known, lastId, attempts, got, rendered>>

-----------------------------------------------------------------------------
ServerStep == Next /\ UNCHANGED clientVars

ReaderStep ==
    \/ ReadLive \/ EndLive \/ LiveFails
    \/ \E a \in Attempt : \/ ResumeOpens(a) \/ ReplayProbes(a) \/ ResumeFails(a)
                            \/ ReadReplay(a) \/ EndReplay(a)

ClientNext == ServerStep \/ ReaderStep \/ CancelStream

\* The browser runs its callbacks and timers, and a request is answered or
\* fails.  The user need not cancel.
ClientSpec == Init /\ ClientInit /\ [][ClientNext]_allVars
ClientFairSpec ==
    /\ ClientSpec
    /\ WF_allVars(WorkerStep /\ UNCHANGED clientVars)
    /\ WF_allVars(GenStep /\ UNCHANGED clientVars)
    /\ WF_allVars(ReaderStep)

-----------------------------------------------------------------------------
(* Properties.                                                             *)

TextIds == {i \in DOMAIN sent : sent[i] = "token"}
              \cup UNION {r.first..r.seq : r \in {x \in log : x.type = "token"}}

\* However often the connection breaks, the text in the bubble has no hole:
\* a piece of text is rendered only after every earlier piece, and once the
\* client has seen an event it has rendered all the text before it.
NoTextSkipped ==
    storeFailures = 0 =>
        /\ \A p \in DOMAIN rendered : \A i \in TextIds :
              i < rendered[p] => \E q \in 1..p : rendered[q] = i
        /\ \A i \in TextIds : i <= lastId => \E q \in DOMAIN rendered : rendered[q] = i

\* When the process that ran the turn dies, a client that still reads the
\* stream or is about to reconnect is not left spinning: it learns that the
\* turn was interrupted, or that it had finished, or its attempts run out.
\* (Not so when the turn had failed with an error event: see SpinnerStops.)
ErrorIssued == \/ \E i \in DOMAIN sent : sent[i] = "error"
               \/ \E row \in log : row.type = "error"
StillTrying == live \/ \E a \in Attempt : resume[a].state = "timer"
CrashIsReported ==
    (gen = "dead" /\ streaming /\ StillTrying /\ ~ErrorIssued) ~> ~streaming

\* The client does not reconnect for ever: there comes a time when no reader
\* and no timer is left.
Quiet == ~live /\ \A a \in Attempt : resume[a].state \in {"unused", "closed"}
ReadersStop == <>[]Quiet

\* "... instead of spinning forever": every turn gets an outcome.
SpinnerStops == <>(~streaming)
=============================================================================
