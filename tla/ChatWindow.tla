----------------------------- MODULE ChatWindow -----------------------------
(***************************************************************************)
(* ChatState (frontend/src/lib/state/chat.svelte.ts) over several turns of *)
(* one tab: messages are sent, cancelled and retried and another           *)
(* conversation is loaded while streams, replays and timers of earlier     *)
(* turns are alive.  All of them share one bubble, one lastEventId and one *)
(* abortController.  A turn of the server is what module EventStream       *)
(* promises: numbered events, and a log from which they are replayed, one  *)
(* row for a whole batch of texts.                                         *)
(***************************************************************************)
EXTENDS Naturals, Sequences, FiniteSets, SequencesExt

CONSTANTS
  Length,      \* events of a turn: its announcement, texts, and done or error
  MaxResume,   \* MAX_RESUME_ATTEMPTS
  MaxSends,    \* bound: messages ever sent
  MaxReaders   \* bound: requests ever made, for streams and for replays

ASSUME ChatWindowAssumption ==
  /\ Length \in Nat /\ Length > 1
  /\ {MaxResume, MaxSends, MaxReaders} \subseteq Nat

VARIABLES
  turns,            \* of the server, in the order of their beginning
  messages,         \* the bubbles; those of the user stand for their answer
  conversationId,   \* the turn that began the conversation, 0 for null
  loading,          \* the conversation that loadConversation waits for, or 0
  isStreaming,
  error,            \* an error is shown, and the button that retries
  lastEventId,      \* turn and number, NoId for null
  resumeAttempts,
  timers,           \* resume timers that are armed
  readers,          \* streamChat and resumeChatStream, in the order of their calls
  abortController,  \* the reader that can be aborted, 0 for null
  strayed           \* history: see Leave and TimerFires

windowVars == <<turns, messages, conversationId, loading, isStreaming, error,
                lastEventId, resumeAttempts, timers, readers, abortController, strayed>>

NoId == [turn |-> 0, seq |-> 0]
\* An answer: the reader that was started for it, 0 when it was loaded, and the
\* texts that were appended to it.
Bubble(r) == [reader |-> r, shown |-> <<>>]
\* conv is the conversation asked for; a reader has read event seq of turn, it
\* is still to read the rows, and then "interrupted" if there is a marker.
Reader(kind, conv, id) ==
  [kind |-> kind, state |-> "asking", conv |-> conv, turn |-> id.turn, seq |-> id.seq,
   rows |-> {}, marker |-> FALSE]
Alive == {r \in DOMAIN readers : readers[r].state # "closed"}
Sends == {r \in DOMAIN readers : readers[r].kind = "live"}

\* There is an earlier conversation of one turn, and nothing on the screen.
WindowInit ==
  /\ turns = <<[conv |-> 1, issued |-> Length, rows |-> 1 .. Length, state |-> "done"]>>
  /\ messages = <<>> /\ conversationId = 0 /\ loading = 0
  /\ isStreaming = FALSE /\ error = FALSE
  /\ lastEventId = NoId /\ resumeAttempts = 0 /\ timers = 0
  /\ readers = <<>> /\ abortController = 0
  /\ strayed = FALSE

-----------------------------------------------------------------------------
(* The server *)

clientSide == <<messages, conversationId, loading, isStreaming, error,
                lastEventId, resumeAttempts, timers, abortController, strayed>>

\* A message without a conversation begins one.  The live stream has every event
\* by itself.
AcceptTurn(r) ==
  LET t == Len(turns) + 1
      conv == readers[r].conv
  IN  /\ readers[r].kind = "live" /\ readers[r].state = "asking"
      /\ turns' = Append(turns, [conv |-> IF conv = 0 THEN t ELSE conv,
                                 issued |-> 0, rows |-> {}, state |-> "running"])
      /\ readers' = [readers EXCEPT ![r].state = "reading", ![r].turn = t,
                                    ![r].rows = 1 .. Length]
      /\ UNCHANGED clientSide

\* A turn's rows are the numbers of its chat_events: of the last event of each.
\* flush_token_buffer makes one row of the texts issued since the last.
Flushed(turn) == turn.rows \cup ({turn.issued} \ {0})
\* The row numbered to holds the events from first on.
Holds(turn, first, to) ==
  /\ to \in turn.rows /\ first \in 1 .. to
  /\ first - 1 \in turn.rows \cup {0}
  /\ turn.rows \cap first .. (to - 1) = {}

\* emit: a text goes into the batch, any other event has a row of its own.
IssueEvent(t) ==
  LET n == turns[t].issued + 1
  IN  /\ turns[t].state = "running"
      /\ \E end \in {"done", "error"} :
           turns' = [turns EXCEPT
             ![t].issued = n,
             ![t].rows = IF n \in 2 .. Length - 1 THEN @ ELSE Flushed(turns[t]) \cup {n},
             ![t].state = IF n = Length THEN end ELSE @]
      /\ UNCHANGED <<readers, clientSide>>

\* The batch is old enough.
FlushBatch(t) ==
  /\ turns[t].state = "running"
  /\ turns[t].issued \notin turns[t].rows \cup {0}
  /\ turns' = [turns EXCEPT ![t].rows = Flushed(turns[t])]
  /\ UNCHANGED <<readers, clientSide>>

\* The process ends and the batch is lost, or the turn is cancelled because
\* nobody reads it and stores the batch.
TurnDies(t) ==
  /\ turns[t].state = "running"
  /\ \E rows \in {turns[t].rows, Flushed(turns[t])} :
       turns' = [turns EXCEPT ![t].state = "dead", ![t].rows = rows]
  /\ UNCHANGED <<readers, clientSide>>

\* resume_chat and _replay_events: the rows whose number is greater than the
\* Last-Event-ID's; rows of another conversation are not found.
AnswerReplay(r) ==
  LET turn == turns[readers[r].turn]
  IN  /\ readers[r].kind = "replay" /\ readers[r].state = "asking"
      /\ readers' = [readers EXCEPT
           ![r].state = "reading",
           ![r].rows = {k \in turn.rows : turn.conv = readers[r].conv /\ k > readers[r].seq},
           ![r].marker = Length \notin turn.rows]
      /\ UNCHANGED <<turns, clientSide>>

-----------------------------------------------------------------------------
(* The callbacks; from is readers as the reader leaves it *)

OnError(from) ==
  /\ readers' = from
  /\ IF conversationId # 0 /\ resumeAttempts < MaxResume /\ isStreaming
     THEN /\ resumeAttempts' = resumeAttempts + 1
          /\ timers' = timers + 1
          /\ UNCHANGED <<error, isStreaming, abortController>>
     ELSE /\ error' = TRUE
          /\ isStreaming' = FALSE
          /\ abortController' = 0
          /\ UNCHANGED <<resumeAttempts, timers>>

\* onDone, and onInterrupted, which shows an error.
OnEnd(from, shows) ==
  /\ readers' = from
  /\ isStreaming' = FALSE
  /\ abortController' = 0
  /\ resumeAttempts' = 0
  /\ error' = (error \/ shows)
  /\ UNCHANGED timers

Texts(t, first, to) == [k \in 1 .. to - first + 1 |-> [turn |-> t, seq |-> first + k - 1]]
\* onToken with the texts first .. to: the last message, whoever's answer it is.
OnToken(t, first, to) ==
  messages' = IF messages = <<>> THEN messages
              ELSE [messages EXCEPT ![Len(messages)].shown = @ \o Texts(t, first, to)]

\* A replay delivers the whole of a row, what was read before it included.
ReadEvent(r) ==
  LET t == readers[r].turn
      turn == turns[t]
  IN  \E to \in readers[r].rows, first \in 1 .. Length :
        LET from == [readers EXCEPT ![r].seq = to, ![r].rows = @ \ {to}]
        IN  /\ readers[r].state = "reading"
            /\ \A k \in readers[r].rows : to <= k
            /\ to <= turn.issued
            /\ IF readers[r].kind = "live" THEN first = to ELSE Holds(turn, first, to)
            /\ lastEventId' = [turn |-> t, seq |-> to]
            /\ conversationId' = IF to = 1 THEN turn.conv ELSE conversationId
            /\ IF to \in 2 .. Length - 1 THEN OnToken(t, first, to) ELSE UNCHANGED messages
            /\ CASE to < Length -> /\ readers' = from
                                   /\ UNCHANGED <<isStreaming, error, resumeAttempts, timers,
                                                  abortController>>
                 [] to = Length /\ turn.state = "done" -> OnEnd(from, FALSE)
                 [] OTHER -> OnError(from)
            /\ UNCHANGED <<turns, loading, strayed>>

Closed(r) == [readers EXCEPT ![r].state = "closed", ![r].rows = {}, ![r].marker = FALSE]

\* The replay of a turn that has not ended.
ReadInterrupted(r) ==
  /\ readers[r].state = "reading" /\ readers[r].rows = {}
  /\ readers[r].marker
  /\ OnEnd(Closed(r), TRUE)
  /\ UNCHANGED <<turns, messages, conversationId, loading, lastEventId, strayed>>

EndReader(r) ==
  /\ readers[r].state = "reading" /\ readers[r].rows = {}
  /\ ~ readers[r].marker
  /\ readers' = Closed(r)
  /\ UNCHANGED <<turns, clientSide>>

\* The request is refused, or its connection breaks.
ReaderFails(r) ==
  /\ r \in Alive
  /\ OnError(Closed(r))
  /\ UNCHANGED <<turns, messages, conversationId, loading, lastEventId, strayed>>

\* Without an event id the replay is that of the most recent turn of the
\* conversation, which may be an earlier one: the window has strayed.
TimerFires ==
  /\ timers > 0 /\ Len(readers) < MaxReaders
  /\ timers' = timers - 1
  /\ readers' = Append(readers, Reader("replay", conversationId, lastEventId))
  /\ abortController' = Len(readers')
  /\ strayed' = (strayed \/ lastEventId = NoId)
  /\ UNCHANGED <<turns, messages, conversationId, loading, isStreaming, error, lastEventId,
                 resumeAttempts>>

-----------------------------------------------------------------------------
(* The user *)

\* The user goes on: what is still alive, except the reader that is aborted,
\* may write into the bubbles of another turn.
Leave(aborted) == strayed' = (strayed \/ timers > 0 \/ Alive \ {aborted} # {})

\* A mutant: the id of the last event of the answer before is kept.
SentWithOldId(before) ==
  LET r == Len(readers) + 1
  IN  /\ ~ isStreaming
      /\ Len(readers) < MaxReaders /\ Cardinality(Sends) < MaxSends
      /\ messages' = Append(before, Bubble(r))
      /\ readers' = Append(readers, Reader("live", conversationId, NoId))
      /\ abortController' = r
      /\ isStreaming' = TRUE
      /\ error' = FALSE
      /\ resumeAttempts' = 0
      /\ Leave(0)
      /\ UNCHANGED <<turns, conversationId, loading, lastEventId, timers>>

Sent(before) ==
  LET r == Len(readers) + 1
  IN  /\ ~ isStreaming
      /\ Len(readers) < MaxReaders /\ Cardinality(Sends) < MaxSends
      /\ messages' = Append(before, Bubble(r))
      /\ readers' = Append(readers, Reader("live", conversationId, NoId))
      /\ abortController' = r
      /\ isStreaming' = TRUE
      /\ error' = FALSE
      /\ lastEventId' = NoId
      /\ resumeAttempts' = 0
      /\ Leave(0)
      /\ UNCHANGED <<turns, conversationId, loading, timers>>

sendMessage == Sent(messages)

\* The question and its answer go, and the question is sent again.
retryLastMessage ==
  /\ error /\ Sends # {}
  /\ Sent(IF messages = <<>> THEN messages ELSE Front(messages))

cancelStream ==
  /\ isStreaming
  /\ readers' = IF abortController = 0 THEN readers ELSE Closed(abortController)
  /\ abortController' = 0
  /\ isStreaming' = FALSE
  /\ Leave(abortController)
  /\ UNCHANGED <<turns, messages, conversationId, loading, error, lastEventId, resumeAttempts,
                 timers>>

loadConversation(conv) ==
  /\ loading = 0
  /\ conv # conversationId \/ messages = <<>>
  /\ loading' = conv
  /\ error' = FALSE
  /\ UNCHANGED <<turns, messages, conversationId, isStreaming, lastEventId, resumeAttempts,
                 timers, readers, abortController, strayed>>

\* The answers that were saved; nothing of what is under way is stopped.
ConversationLoaded ==
  /\ loading # 0
  /\ conversationId' = loading
  /\ messages' = [i \in 1 .. Cardinality({t \in DOMAIN turns : turns[t].conv = loading
                                                            /\ turns[t].state = "done"})
                    |-> Bubble(0)]
  /\ loading' = 0
  /\ Leave(0)
  /\ UNCHANGED <<turns, isStreaming, error, lastEventId, resumeAttempts, timers, readers,
                 abortController>>

LoadFails ==
  /\ loading # 0
  /\ loading' = 0
  /\ error' = TRUE
  /\ UNCHANGED <<turns, messages, conversationId, isStreaming, lastEventId, resumeAttempts,
                 timers, readers, abortController, strayed>>

\* Nothing is said of a window that has strayed, and it is not followed further.
WindowNext ==
  /\ ~ strayed
  /\ \/ \E r \in DOMAIN readers :
          \/ AcceptTurn(r) \/ AnswerReplay(r)
          \/ ReadEvent(r) \/ ReadInterrupted(r) \/ EndReader(r) \/ ReaderFails(r)
     \/ \E t \in DOMAIN turns :
          IssueEvent(t) \/ FlushBatch(t) \/ TurnDies(t) \/ loadConversation(turns[t].conv)
     \/ TimerFires \/ ConversationLoaded \/ LoadFails
     \/ sendMessage \/ retryLastMessage \/ cancelStream

WindowSpec == WindowInit /\ [][WindowNext]_windowVars

-----------------------------------------------------------------------------
\* The state of the window has its type, and what it refers to exists.
WindowTypeOK ==
  /\ \A t \in DOMAIN turns : turns[t] \in
       [conv : 1 .. t, issued : 0 .. Length, rows : SUBSET (1 .. Length),
        state : {"running", "done", "error", "dead"}]
  /\ \A i \in DOMAIN messages : messages[i].reader \in {0} \cup Sends
  /\ {conversationId, loading} \subseteq 0 .. Len(turns)
  /\ {isStreaming, error, strayed} \subseteq BOOLEAN
  /\ lastEventId.turn \in 0 .. Len(turns) /\ lastEventId.seq \in 0 .. Length
  /\ resumeAttempts \in 0 .. MaxResume
  /\ timers \in Nat
  /\ abortController \in 0 .. Len(readers)

\* Where shown does not go on with the next text.
GoesBack(shown) == {k \in DOMAIN shown \ {1} : shown[k].seq # shown[k - 1].seq + 1}
\* Text n is the first of a row, and the texts n .. s are only a part of it.
Repeats(turn, s, n) == \E to \in turn.rows : n <= s /\ s < to /\ Holds(turn, n, to)
\* The number of the last text; that of the announcement when there is none.
ReadUpTo(shown) == IF shown = <<>> THEN 1 ELSE shown[Len(shown)].seq

\* A bubble shows the texts of the turn that was asked for it, from the first on,
\* none missing and in order; it shows a text again only when the reading
\* stopped inside a batch, whose beginning the replay repeats, and that once in
\* a bubble.  What the window believes to have read last is where the bubble
\* ends.  This holds through broken streams, replays, retries and loaded
\* conversations, unless the user went on while a timer, or a reader that
\* nothing aborts, was alive, or a replay was asked for before anything was read
\* (see the README).
AnswersAreTheirOwn ==
  ~ strayed =>
    /\ \A i \in DOMAIN messages :
         LET r == messages[i].reader
             shown == messages[i].shown
         IN  IF r = 0 THEN shown = <<>>
             ELSE /\ \A k \in DOMAIN shown : shown[k].turn = readers[r].turn
                  /\ shown # <<>> => shown[1].seq = 2
                  /\ \A k \in GoesBack(shown) :
                       Repeats(turns[readers[r].turn], shown[k - 1].seq, shown[k].seq)
                  /\ \A j, k \in GoesBack(shown) : j = k
    /\ isStreaming /\ lastEventId # NoId =>
         \A i \in DOMAIN messages :
           i = Len(messages) /\ messages[i].reader # 0 =>
             /\ lastEventId.turn = readers[messages[i].reader].turn
             /\ ReadUpTo(messages[i].shown) = IF lastEventId.seq = Length THEN Length - 1
                                              ELSE lastEventId.seq

=============================================================================
