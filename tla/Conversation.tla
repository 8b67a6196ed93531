---------------------------- MODULE Conversation ----------------------------
(***************************************************************************)
(* The turns of one conversation and the rows of table messages they       *)
(* share (run_chat, backend/src/app/services/agent_service.py).  Nothing   *)
(* keeps turns apart: a second browser tab starts one at any time, and     *)
(* the same tab may do so as soon as it has read "done", which is before   *)
(* the turn is saved.                                                      *)
(*                                                                         *)
(* A turn reads the conversation (its message_count), then the rows, in    *)
(* two statements that each see what is committed (READ COMMITTED); it     *)
(* commits the user's question, lets the agent loop run, and commits all   *)
(* rows of the answer at once, numbered from a sequence that it fixed when *)
(* it read the rows.  The loop is module AgentLoop's, reduced to the rows  *)
(* its replies become; the token and cost totals of the conversation are   *)
(* kept the way message_count is and left out.                             *)
(***************************************************************************)
EXTENDS Naturals, Sequences, FiniteSets

CONSTANTS
    Turns,      \* the turns of the conversation
    MaxBlocks,  \* bound: blocks in one answer
    MaxActive   \* bound: turns under way at once

ASSUME ConversationAssumption == {MaxBlocks, MaxActive} \subseteq Nat

VARIABLES
    rows,           \* the rows of table messages
    message_count,  \* the conversation's counter, in the database
    phase,          \* where each turn is
    history,        \* the rows it was built from: history_rows
    next_seq,       \* the number of its next row
    count,          \* message_count of its own copy of the conversation
    answer,         \* the blocks of new_messages, in order
    overlapped      \* history: two turns have been under way at once

convVars == <<rows, message_count, phase, history, next_seq, count, answer, overlapped>>

\* A block is a text (call 0), or belongs to a tool call of its turn: the
\* assistant's tool_use, or the user's tool_result.
Block == [role : {"user", "assistant"}, call : Nat]
Row == [turn : Turns, seq : Nat, role : {"user", "assistant"}, call : Nat]
RowAt(t, seq, block) == [turn |-> t, seq |-> seq, role |-> block.role, call |-> block.call]

Question == [role |-> "user", call |-> 0]
Text == [role |-> "assistant", call |-> 0]
Blocks(role, first, n) == [i \in 1..n |-> [role |-> role, call |-> first + i]]

RowsOf(t) == {r \in rows : r.turn = t}
Active == {t \in Turns : phase[t] \notin {"idle", "over"}}

ConversationTypeOK ==
    /\ rows \subseteq Row
    /\ message_count \in Nat
    /\ phase \in [Turns -> {"idle", "opened", "read", "asked", "running", "finished", "over"}]
    /\ history \in [Turns -> SUBSET Row]
    /\ next_seq \in [Turns -> Nat]
    /\ count \in [Turns -> Nat]
    /\ answer \in [Turns -> Seq(Block)]
    /\ overlapped \in BOOLEAN

ConversationInit ==
    /\ rows = {}
    /\ message_count = 0
    /\ phase = [t \in Turns |-> "idle"]
    /\ history = [t \in Turns |-> {}]
    /\ next_seq = [t \in Turns |-> 0]
    /\ count = [t \in Turns |-> 0]
    /\ answer = [t \in Turns |-> <<>>]
    /\ overlapped = FALSE

-----------------------------------------------------------------------------
\* A turn without a conversation id makes the conversation, and commits it
\* together with the question: until then nobody else can name it.
Create(t) ==
    /\ phase[t] = "idle"
    /\ rows = {}
    /\ rows' = {RowAt(t, 1, Question)}
    /\ message_count' = 1
    /\ count' = [count EXCEPT ![t] = 1]
    /\ next_seq' = [next_seq EXCEPT ![t] = 2]
    /\ phase' = [phase EXCEPT ![t] = "asked"]
    /\ UNCHANGED <<history, answer, overlapped>>

\* Step 1: db.get(Conversation).
Open(t) ==
    /\ phase[t] = "idle"
    /\ rows # {}
    /\ Cardinality(Active) < MaxActive
    /\ count' = [count EXCEPT ![t] = message_count]
    /\ phase' = [phase EXCEPT ![t] = "opened"]
    /\ overlapped' = (overlapped \/ Active # {})
    /\ UNCHANGED <<rows, message_count, history, next_seq, answer>>

\* Mutant of ReadHistory: the last number is used again.
ReadHistoryReusing(t) ==
    /\ phase[t] = "opened"
    /\ history' = [history EXCEPT ![t] = rows]
    /\ \E last \in {r.seq : r \in rows} :
          /\ \A r \in rows : r.seq <= last
          /\ next_seq' = [next_seq EXCEPT ![t] = last]
    /\ phase' = [phase EXCEPT ![t] = "read"]
    /\ UNCHANGED <<rows, message_count, count, answer, overlapped>>

\* Step 1: the rows, and the number after the last one.
ReadHistory(t) ==
    /\ phase[t] = "opened"
    /\ history' = [history EXCEPT ![t] = rows]
    /\ \E last \in {r.seq : r \in rows} :
          /\ \A r \in rows : r.seq <= last
          /\ next_seq' = [next_seq EXCEPT ![t] = last + 1]
    /\ phase' = [phase EXCEPT ![t] = "read"]
    /\ UNCHANGED <<rows, message_count, count, answer, overlapped>>

\* Mutant of MessageOf: a message is not closed when the role changes.
MessageUnflushed(h, r) == {s \in h : s.role = r.role}

\* _build_messages_from_history: consecutive rows of one role become one
\* message.
MessageOf(h, r) ==
    {s \in h : \A x \in h : \/ r.seq <= x.seq /\ x.seq <= s.seq
                            \/ s.seq <= x.seq /\ x.seq <= r.seq
                            => x.role = r.role}
BuildMessages(h) == {MessageOf(h, r) : r \in h}

\* Mutant of Ask: the number is not advanced past the question.
AskInPlace(t) ==
    /\ phase[t] = "read"
    /\ rows' = rows \cup {RowAt(t, next_seq[t], Question)}
    /\ count' = [count EXCEPT ![t] = @ + 1]
    /\ message_count' = count'[t]
    /\ phase' = [phase EXCEPT ![t] = "asked"]
    /\ UNCHANGED <<history, next_seq, answer, overlapped>>

\* Step 2: the question is committed, and message_count written back.
Ask(t) ==
    /\ phase[t] = "read"
    /\ rows' = rows \cup {RowAt(t, next_seq[t], Question)}
    /\ next_seq' = [next_seq EXCEPT ![t] = @ + 1]
    /\ count' = [count EXCEPT ![t] = @ + 1]
    /\ message_count' = count'[t]
    /\ phase' = [phase EXCEPT ![t] = "asked"]
    /\ UNCHANGED <<history, answer, overlapped>>

\* Steps 5 and 6: the agent loop starts.
Start(t) ==
    /\ phase[t] = "asked"
    /\ phase' = [phase EXCEPT ![t] = "running"]
    /\ UNCHANGED <<rows, message_count, history, next_seq, count, answer, overlapped>>

Calls(t) == Cardinality({i \in DOMAIN answer[t] :
                            answer[t][i].role = "assistant" /\ answer[t][i].call # 0})

\* A reply is a text or none, then n tool calls.
Texts == {<<>>, <<Text>>}

\* The model asks for n tools, and they are answered.
ToolReply(t, text, n) ==
    /\ phase[t] = "running"
    /\ n > 0
    /\ answer' = [answer EXCEPT ![t] = @ \o text \o Blocks("assistant", Calls(t), n)
                                           \o Blocks("user", Calls(t), n)]
    /\ Len(answer'[t]) <= MaxBlocks
    /\ UNCHANGED <<rows, message_count, phase, history, next_seq, count, overlapped>>

\* The loop's last reply.  One that asks for tools gets no answers: it was
\* cut at the token limit, or a tool broke the loop.
LastReply(t, text, n) ==
    /\ phase[t] = "running"
    /\ answer' = [answer EXCEPT ![t] = @ \o text \o Blocks("assistant", Calls(t), n)]
    /\ Len(answer'[t]) <= MaxBlocks
    /\ phase' = [phase EXCEPT ![t] = "finished"]
    /\ UNCHANGED <<rows, message_count, history, next_seq, count, overlapped>>

\* The API fails or the loop runs out of turns: what it has so far is kept.
LoopFails(t) ==
    /\ phase[t] = "running"
    /\ phase' = [phase EXCEPT ![t] = "finished"]
    /\ UNCHANGED <<rows, message_count, history, next_seq, count, answer, overlapped>>

\* The turn is over and its memory gone.
End(t) ==
    /\ phase' = [phase EXCEPT ![t] = "over"]
    /\ next_seq' = [next_seq EXCEPT ![t] = 0]
    /\ count' = [count EXCEPT ![t] = 0]
    /\ answer' = [answer EXCEPT ![t] = <<>>]

\* Mutant of Save: the question is counted again.
SaveCountingQuestion(t) ==
    /\ phase[t] = "finished"
    /\ rows' = rows \cup {RowAt(t, next_seq[t] + i - 1, answer[t][i]) : i \in DOMAIN answer[t]}
    /\ message_count' = IF answer[t] = <<>> THEN message_count ELSE count[t] + Len(answer[t]) + 1
    /\ End(t)
    /\ UNCHANGED <<history, overlapped>>

\* Step 8: one transaction; message_count is written back from the copy,
\* unless it has not changed there.
Save(t) ==
    /\ phase[t] = "finished"
    /\ rows' = rows \cup {RowAt(t, next_seq[t] + i - 1, answer[t][i]) : i \in DOMAIN answer[t]}
    /\ message_count' = IF answer[t] = <<>> THEN message_count ELSE count[t] + Len(answer[t])
    /\ End(t)
    /\ UNCHANGED <<history, overlapped>>

\* A database error, a cancellation after the client left, or a crash: what is
\* not committed is gone.
Abort(t) ==
    /\ t \in Active
    /\ End(t)
    /\ UNCHANGED <<rows, message_count, history, overlapped>>

ConversationNext ==
    \E t \in Turns :
        \/ Create(t) \/ Open(t) \/ ReadHistory(t) \/ Ask(t) \/ Start(t)
        \/ \E text \in Texts, n \in 0..MaxBlocks :
              ToolReply(t, text, n) \/ LastReply(t, text, n)
        \/ LoopFails(t) \/ Save(t) \/ Abort(t)

ConversationSpec == ConversationInit /\ [][ConversationNext]_convVars
-----------------------------------------------------------------------------
(* Properties.                                                             *)

\* Reading the rows by number respects cause and effect even when turns
\* overlap: all a turn writes is numbered after all it had read, and its own
\* question and answer are numbered in the order they were made.
CausalOrder ==
    /\ \A t \in Turns : \A r \in history[t], s \in RowsOf(t) : r.seq < s.seq
    /\ \A r, s \in rows : r.turn = s.turn /\ r.seq = s.seq => r = s

\* Overlapping turns lose updates of message_count, but it never claims more
\* rows than there are.
CountNeverOvercounts == message_count <= Cardinality(rows)

\* A tool use without its result: its turn was saved without it.  (The API
\* refuses it.)
Dangling(h) == {r \in h : /\ r.role = "assistant" /\ r.call # 0
                          /\ \A s \in h : s.turn = r.turn /\ s.call = r.call => s = r}

\* Every other tool use of h is answered after it, and nothing comes between
\* but the reply's own uses and results, the uses before the results.
WellPaired(h) ==
    \A r \in h \ Dangling(h) : r.role = "assistant" /\ r.call # 0 =>
        \E s \in h :
            /\ s.turn = r.turn /\ s.call = r.call /\ s.role = "user"
            /\ r.seq < s.seq
            /\ \A x \in h : r.seq < x.seq /\ x.seq < s.seq => x.call # 0
            /\ \A x, y \in h : r.seq < x.seq /\ x.seq < y.seq /\ y.seq <= s.seq /\ x.role = "user"
                                   => y.role = "user"

\* Turns that follow one another number their rows 1, 2, 3, ..., count them
\* exactly, and read histories in which whatever a failed or cut turn left
\* behind parts no other use from its result.
SerialTurnsAreExact ==
    ~overlapped =>
        /\ {r.seq : r \in rows} = 1..Cardinality(rows)
        /\ Active = {} => message_count = Cardinality(rows)
        /\ \A t \in Turns : WellPaired(history[t])

\* While turns follow one another, grouping the rows by role again makes the
\* messages that were said, whatever failed or cut turns left behind: those of
\* the assistant are one reply each, its text first and its calls after it,
\* and in those of the user results come first, all of one turn, before the
\* questions.  (That a text among them stays a bare string is a finding.)
MessagesAreReplies ==
    ~overlapped =>
        \A t \in Turns : \A message \in BuildMessages(history[t]) :
            \A r, s \in message : r.seq < s.seq =>
                /\ s.role = "assistant" => s.call # 0 /\ s.turn = r.turn
                /\ s.role = "user" /\ s.call # 0 => r.call # 0 /\ r.turn = s.turn

\* "The sequence column determines ordering": no two rows share a number.
SequenceDeterminesOrder == \A r, s \in rows : r.seq = s.seq => r = s
=============================================================================
