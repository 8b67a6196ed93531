---------------------------- MODULE ChatTurn_proofs ----------------------------
(***************************************************************************)
(* Proofs about one chat turn, for every number of agent turns, every set  *)
(* of tools, every length of the replies and every number of database      *)
(* failures.                                                               *)
(***************************************************************************)
EXTENDS ChatTurn, SequenceTheorems, FiniteSetTheorems, TLAPS

-----------------------------------------------------------------------------
(* Lemmas about the agent loop.                                            *)

\* A tool is being called only while a tool_use block is left to execute.
CallPending == worker = "calling" => calls # <<>>

\* One or two elements of a set are a sequence over it.
LEMMA ShortSequences ==
    ASSUME NEW S, NEW x \in S, NEW y \in S
    PROVE  <<x>> \in Seq(S) /\ <<x, y>> \in Seq(S)
    OBVIOUS

\* The tool_use blocks of a reply are a sequence of tools.
LEMMA UsesAreSequences == ASSUME NEW uses \in Uses PROVE uses \in Seq(Tools)
<1> SUFFICES ASSUME NEW n \in 0..MaxToolCalls, uses \in [1..n -> Tools]
             PROVE  uses \in Seq(Tools)
    BY DEF Uses
<1>1. n \in Nat
    BY LoopAssumption
<1> QED BY <1>1

\* What the loop puts on the queue is a sequence of items.
LEMMA PutType ==
    ASSUME queue \in Seq(Items), NEW items \in Seq(Items), Put(items)
    PROVE  queue' \in Seq(Items)
    BY DEF Put

LEMMA AnnouncementType == ASSUME NEW tool PROVE Announcement(tool) \in Seq(Items)
<1>1. /\ <<"plan">> \in Seq(Items)
      /\ <<"plan_update">> \in Seq(Items)
      /\ <<"phase", "tool_start">> \in Seq(Items)
    BY ShortSequences, Zenon DEF Items, LoopEvents
<1>2. CASE tool = "record_plan"
    BY <1>1, <1>2 DEF Announcement
<1>3. CASE tool = "update_plan"
    BY <1>1, <1>3 DEF Announcement
<1>4. CASE tool # "record_plan" /\ tool # "update_plan"
    BY <1>1, <1>4 DEF Announcement
<1> QED BY <1>2, <1>3, <1>4

\* A worker step keeps the state of the loop well typed.
LEMMA LoopTypeStep ==
    ASSUME LoopTypeOK, CallPending, StartWorker \/ LoopStep
    PROVE  LoopTypeOK' /\ CallPending'
<1> USE LoopAssumption DEF LoopTypeOK, WorkerStates, CallPending
<1>q. /\ <<>> \in Seq(Items)
      /\ \A x \in Items : <<x>> \in Seq(Items)
      /\ \A x, y \in Items : <<x, y>> \in Seq(Items)
    BY ShortSequences
<1>i. {"phase", "token", "tool_result", "done", "error", "unserialisable", "sentinel"}
          \subseteq Items
    BY DEF Items, LoopEvents
<1>1. CASE StartWorker
    BY <1>1 DEF StartWorker
<1>2. CASE BeginTurn
    <2>1. queue' \in Seq(Items)
        BY <1>2, <1>q, <1>i, PutType DEF BeginTurn
    <2> QED BY <1>2, <2>1 DEF BeginTurn
<1>3. CASE Exhaust
    <2>1. queue' \in Seq(Items)
        BY <1>3, <1>q, <1>i, PutType DEF Exhaust
    <2> QED BY <1>3, <2>1 DEF Exhaust
<1>4. CASE ReceiveDelta
    <2>1. queue' \in Seq(Items)
        BY <1>4, <1>q, <1>i, PutType DEF ReceiveDelta
    <2> QED BY <1>4, <2>1 DEF ReceiveDelta
<1>5. CASE ApiFails
    <2>1. queue' \in Seq(Items)
        BY <1>5, <1>q, <1>i, PutType DEF ApiFails
    <2> QED BY <1>5, <2>1 DEF ApiFails
<1>6. ASSUME NEW stop \in StopReasons, NEW uses \in Uses, FinalReply(stop, uses)
      PROVE  LoopTypeOK' /\ CallPending'
    <2>1. queue' \in Seq(Items)
        BY <1>6, <1>q, <1>i, PutType DEF FinalReply
    <2>2. [role |-> "assistant", tools |-> uses] \in Message
        BY UsesAreSequences DEF Message
    <2>3. newMessages' \in Seq(Message)
        BY <1>6, <2>2 DEF FinalReply, Say
    <2> QED BY <1>6, <2>1, <2>3 DEF FinalReply
<1>7. ASSUME NEW uses \in Uses, ToolReply(uses)
      PROVE  LoopTypeOK' /\ CallPending'
    <2>1. uses \in Seq(Tools) /\ <<>> \in Seq(Tools)
        BY UsesAreSequences
    <2>2. [role |-> "assistant", tools |-> uses] \in Message
        BY <2>1 DEF Message
    <2>3. newMessages' \in Seq(Message)
        BY <1>7, <2>2 DEF ToolReply, Say
    <2> QED BY <1>7, <2>1, <2>3 DEF ToolReply
<1>8. CASE CallTool
    <2>1. queue' \in Seq(Items)
        BY <1>8, AnnouncementType, PutType DEF CallTool
    <2> QED BY <1>8, <2>1 DEF CallTool
<1>9. ASSUME NEW status \in {"success", "error"}, Answer(status)
      PROVE  LoopTypeOK' /\ CallPending'
    <2>1. /\ Head(calls) \in Tools
          /\ Tail(calls) \in Seq(Tools)
        BY <1>9 DEF Answer
    <2>2. queue' \in Seq(Items)
        BY <1>9, <1>q, <1>i, PutType DEF Answer
    <2>3. [tool |-> Head(calls), status |-> status] \in ToolRecord
        BY <2>1 DEF ToolRecord
    <2>4. toolRecords' \in Seq(ToolRecord)
        BY <1>9, <2>3 DEF Answer
    <2>5. results' \in Seq(Tools)
        BY <1>9, <2>1 DEF Answer
    <2> QED BY <1>9, <2>1, <2>2, <2>4, <2>5 DEF Answer
<1>10. CASE ToolBreaks
    <2>1. queue' \in Seq(Items)
        BY <1>10, <1>q, <1>i, PutType DEF ToolBreaks
    <2> QED BY <1>10, <2>1 DEF ToolBreaks
<1>11. CASE EndReply
    <2>1. [role |-> "user", tools |-> results] \in Message
        BY DEF Message
    <2>2. newMessages' \in Seq(Message)
        BY <1>11, <2>1 DEF EndReply, Say
    <2> QED BY <1>11, <2>2 DEF EndReply
<1>12. CASE Leave
    <2>1. queue' \in Seq(Items)
        BY <1>12, <1>q, <1>i, PutType DEF Leave
    <2> QED BY <1>12, <2>1 DEF Leave
<1> QED BY <1>1, <1>2, <1>3, <1>4, <1>5, <1>6, <1>7, <1>8, <1>9, <1>10, <1>11, <1>12
        DEF LoopStep

-----------------------------------------------------------------------------
(* Lemmas about the helpers.                                               *)

\* Storing a row keeps the log a set of rows and the failures in bounds.
LEMMA StoreRowType ==
    ASSUME log \subseteq Row, storeFailures \in 0..MaxStoreFailures,
           NEW row \in Row, StoreRow(row)
    PROVE  log' \subseteq Row /\ storeFailures' \in 0..MaxStoreFailures
    BY TurnAssumption DEF StoreRow

\* A row stored for the batch or for the event being emitted is a row.
LEMMA RowTypes == ASSUME TypeOK PROVE TokenRow \in Row /\ EventRow \in Row
    BY DEF TypeOK, TokenRow, EventRow, Row, EventTypes, LoopEvents

\* Emitting an event keeps what it changes well typed.
LEMMA EmitType ==
    ASSUME TypeOK, NEW type \in EventTypes, Emit(type)
    PROVE  /\ eventSeq' \in Nat
           /\ out' \in EventTypes
           /\ stage' \in {"idle", "flush", "store", "yield", "age"}
           /\ tokenBuf' \in [first : Nat, last : Nat]
    BY DEF TypeOK, Emit

\* There are finitely many designs to save.
LEMMA DesignsFinite ==
    ASSUME NEW records \in Seq(ToolRecord)
    PROVE  Cardinality(Designs(records)) \in Nat
<1>1. IsFiniteSet(1..Len(records))
    BY FS_Interval
<1>2. Designs(records) \subseteq 1..Len(records)
    BY DEF Designs
<1> QED BY <1>1, <1>2, FS_Subset, FS_CardinalityType

-----------------------------------------------------------------------------
TypeInv == TypeOK /\ CallPending

LEMMA TypeInit == Init => TypeInv
<1> SUFFICES ASSUME Init PROVE TypeInv
    OBVIOUS
<1>1. LoopTypeOK /\ CallPending
    BY LoopAssumption DEF Init, LoopInit, LoopTypeOK, CallPending, WorkerStates
<1>2. saved \in [messages : Seq(Message), records : Seq(ToolRecord)]
    BY DEF Init, NothingSaved
<1>3. /\ tokenBuf \in [first : Nat, last : Nat]
      /\ reports \in [experiments : Nat, simulators : Nat]
    BY DEF Init, NoBatch, NoReports
<1>4. out \in EventTypes /\ sent \in Seq(EventTypes) /\ storeFailures \in 0..MaxStoreFailures
    BY TurnAssumption DEF Init, EventTypes
<1> QED BY <1>1, <1>2, <1>3, <1>4 DEF TypeInv, TypeOK, Init

LEMMA TypeStep == TypeInv /\ [Next]_vars => TypeInv'
<1> SUFFICES ASSUME TypeInv, [Next]_vars PROVE TypeInv'
    OBVIOUS
<1> USE DEF TypeInv
<1>l. ASSUME UNCHANGED loopVars PROVE LoopTypeOK' /\ CallPending'
    BY <1>l DEF TypeOK, LoopTypeOK, CallPending, loopVars
<1>b. /\ NoBatch \in [first : Nat, last : Nat]
      /\ NoReports \in [experiments : Nat, simulators : Nat]
    BY DEF NoBatch, NoReports
<1>1. CASE Flush
    <2>1. log' \subseteq Row /\ storeFailures' \in 0..MaxStoreFailures
        BY <1>1, StoreRowType, RowTypes DEF Flush, TypeOK
    <2> QED BY <1>1, <1>l, <1>b, <2>1 DEF Flush, TypeOK
<1>2. CASE Store
    <2>1. log' \subseteq Row /\ storeFailures' \in 0..MaxStoreFailures
        BY <1>2, StoreRowType, RowTypes DEF Store, TypeOK
    <2> QED BY <1>2, <1>l, <2>1 DEF Store, TypeOK
<1>3. CASE Yield
    <2>1. sent' \in Seq(EventTypes)
        BY <1>3 DEF Yield, TypeOK
    <2> QED BY <1>3, <1>l, <2>1 DEF Yield, TypeOK
<1>4. CASE CheckAge
    <2>1. log' \subseteq Row /\ storeFailures' \in 0..MaxStoreFailures
        BY <1>4, StoreRowType, RowTypes DEF CheckAge, TypeOK
    <2> QED BY <1>4, <1>l, <1>b, <2>1 DEF CheckAge, TypeOK
<1>5. CASE Load
    BY <1>5, <1>l DEF Load, TypeOK
<1>6. CASE Announce
    <2>1. "conversation_id" \in EventTypes
        BY DEF EventTypes
    <2> QED BY <1>6, <1>l, <2>1, EmitType DEF Announce, TypeOK
<1>7. CASE Launch
    <2>1. LoopTypeOK' /\ CallPending'
        BY <1>7, LoopTypeStep DEF Launch, TypeOK
    <2> QED BY <1>7, <2>1 DEF Launch, TypeOK
<1>8. CASE LaunchWithoutKey
    <2>1. "error" \in EventTypes
        BY DEF EventTypes, LoopEvents
    <2> QED BY <1>8, <1>l, <2>1, EmitType DEF LaunchWithoutKey, TypeOK
<1>9. CASE Drain
    <2>1. queue' \in Seq(Items)
        BY <1>9 DEF Drain, TypeOK, LoopTypeOK
    <2>2. LoopTypeOK' /\ CallPending'
        BY <1>9, <2>1 DEF Drain, TypeOK, LoopTypeOK, CallPending
    <2>3. CASE Head(queue) \in LoopEvents
        <3>1. Head(queue) \in EventTypes
            BY <2>3 DEF EventTypes
        <3> QED BY <1>9, <2>2, <2>3, <3>1, EmitType DEF Drain, TypeOK
    <2>4. CASE Head(queue) \notin LoopEvents
        BY <1>9, <2>2, <2>4 DEF Drain, TypeOK
    <2> QED BY <2>3, <2>4
<1>10. CASE Persist
    <2>1. reports' \in [experiments : Nat, simulators : Nat]
        BY <1>10, DesignsFinite DEF Persist, TypeOK, LoopTypeOK
    <2>2. saved' \in [messages : Seq(Message), records : Seq(ToolRecord)]
        BY <1>10 DEF Persist, TypeOK, LoopTypeOK
    <2> QED BY <1>10, <1>l, <2>1, <2>2 DEF Persist, TypeOK
<1>11. CASE Raise
    BY <1>11, <1>l DEF Raise, TypeOK
<1>12. CASE Report
    <2>1. {"experiment_created", "simulator_created"} \subseteq EventTypes
        BY DEF EventTypes
    <2>2. CASE reports.experiments > 0 /\ Emit("experiment_created")
               /\ reports' = [reports EXCEPT !.experiments = @ - 1] /\ UNCHANGED gen
        <3>1. reports' \in [experiments : Nat, simulators : Nat]
            BY <2>2 DEF TypeOK
        <3> QED BY <1>12, <1>l, <2>1, <2>2, <3>1, EmitType DEF Report, TypeOK
    <2>3. CASE reports.experiments = 0 /\ reports.simulators > 0 /\ Emit("simulator_created")
               /\ reports' = [reports EXCEPT !.simulators = @ - 1] /\ UNCHANGED gen
        <3>1. reports' \in [experiments : Nat, simulators : Nat]
            BY <2>3 DEF TypeOK
        <3> QED BY <1>12, <1>l, <2>1, <2>3, <3>1, EmitType DEF Report, TypeOK
    <2>4. CASE gen' = "closing" /\ UNCHANGED <<stage, out, eventSeq, tokenBuf, reports>>
        BY <1>12, <1>l, <2>4 DEF Report, TypeOK
    <2> QED BY <1>12, <2>2, <2>3, <2>4 DEF Report
<1>13. CASE Fail
    <2>1. "error" \in EventTypes
        BY DEF EventTypes, LoopEvents
    <2>2. CASE Emit("error") /\ UNCHANGED bareError
        BY <1>13, <1>l, <2>1, <2>2, EmitType DEF Fail, TypeOK
    <2>3. CASE eventSeq' = eventSeq + 1 /\ bareError' = TRUE /\ UNCHANGED <<stage, out, tokenBuf>>
        BY <1>13, <1>l, <2>3 DEF Fail, TypeOK
    <2> QED BY <1>13, <2>2, <2>3 DEF Fail
<1>14. CASE Close
    <2>1. log' \subseteq Row /\ storeFailures' \in 0..MaxStoreFailures
        BY <1>14, StoreRowType, RowTypes DEF Close, TypeOK
    <2> QED BY <1>14, <1>l, <1>b, <2>1 DEF Close, TypeOK
<1>15. CASE Disconnect
    BY <1>15, <1>l DEF Disconnect, TypeOK
<1>16. CASE Cancel
    <2>1. log' \subseteq Row /\ storeFailures' \in 0..MaxStoreFailures
        BY <1>16, StoreRowType, RowTypes DEF Cancel, TypeOK
    <2> QED BY <1>16, <1>l, <1>b, <2>1 DEF Cancel, TypeOK
<1>17. CASE Crash
    <2>1. LoopTypeOK' /\ CallPending'
        BY <1>17, LoopAssumption DEF Crash, LoopTypeOK, CallPending, WorkerStates
    <2> QED BY <1>17, <1>b, <2>1 DEF Crash, TypeOK
<1>18. CASE WorkerStep
    <2>1. LoopTypeOK' /\ CallPending'
        BY <1>18, LoopTypeStep DEF WorkerStep, TypeOK
    <2> QED BY <1>18, <2>1 DEF WorkerStep, TypeOK, turnVars
<1>19. CASE UNCHANGED vars
    BY <1>19, <1>l DEF vars, turnVars, TypeOK
<1> QED BY <1>1, <1>2, <1>3, <1>4, <1>5, <1>6, <1>7, <1>8, <1>9, <1>10, <1>11, <1>12,
           <1>13, <1>14, <1>15, <1>16, <1>17, <1>18, <1>19 DEF Next, GenStep

\* In every reachable state of a chat turn every variable has its type: the
\* sentinel and the items that cannot be serialised never become events, and
\* no counter of run_chat leaves its range.
THEOREM TypeCorrect == Spec => []TypeOK
<1>1. TypeInv => TypeOK
    BY DEF TypeInv
<1> QED BY <1>1, TypeInit, TypeStep, PTL DEF Spec

-----------------------------------------------------------------------------
(* The history: every reply that uses tools is followed by their results.  *)

Paired(messages) ==
    \A i \in 1..Len(messages) - 1 :
        messages[i].role = "assistant" =>
            messages[i + 1] = [role |-> "user", tools |-> messages[i].tools]

\* The last message is by the user while the model is being asked; while
\* tools are executed it is the reply that asked for them.
PairInv ==
    /\ Paired(newMessages)
    /\ worker \in {"waiting", "looping", "thinking", "streaming"} =>
          newMessages = <<>> \/ newMessages[Len(newMessages)].role = "user"
    /\ worker \in {"dispatching", "calling"} =>
          /\ newMessages # <<>>
          /\ newMessages[Len(newMessages)] = [role |-> "assistant", tools |-> results \o calls]
    /\ Paired(saved.messages)

\* Adding a message that fits the last one keeps a history paired.
LEMMA PairedAppend ==
    ASSUME NEW messages \in Seq(Message), NEW m \in Message, Paired(messages),
           \/ messages = <<>>
           \/ messages[Len(messages)].role = "user"
           \/ m = [role |-> "user", tools |-> messages[Len(messages)].tools]
    PROVE  Paired(Append(messages, m))
<1> DEFINE longer == Append(messages, m)
<1>1. /\ Len(longer) = Len(messages) + 1 /\ Len(messages) \in Nat
      /\ \A i \in 1..Len(messages) : longer[i] = messages[i]
      /\ longer[Len(messages) + 1] = m
    OBVIOUS
<1> HIDE DEF longer
<1>2. SUFFICES ASSUME NEW i \in 1..Len(messages), longer[i].role = "assistant"
               PROVE  longer[i + 1] = [role |-> "user", tools |-> longer[i].tools]
    BY <1>1 DEF Paired, longer
<1>3. CASE i < Len(messages)
    BY <1>1, <1>2, <1>3 DEF Paired
<1>4. CASE i = Len(messages)
    BY <1>1, <1>2, <1>4
<1> QED BY <1>3, <1>4

\* What is appended comes last.
LEMMA LastOfAppend ==
    ASSUME NEW S, NEW s \in Seq(S), NEW x \in S
    PROVE  Append(s, x) # <<>> /\ Append(s, x)[Len(Append(s, x))] = x
<1>1. Len(Append(s, x)) = Len(s) + 1 /\ Len(s) \in Nat
    OBVIOUS
<1>2. Append(s, x) # <<>>
    BY <1>1
<1> QED BY <1>1, <1>2

\* Moving the head of one sequence to the end of another one does not change
\* their concatenation.
LEMMA AppendHeadTail ==
    ASSUME NEW S, NEW s \in Seq(S), NEW t \in Seq(S), t # <<>>
    PROVE  Append(s, Head(t)) \o Tail(t) = s \o t
<1> DEFINE left == Append(s, Head(t)) \o Tail(t)
           right == s \o t
<1>1. /\ Head(t) \in S /\ Tail(t) \in Seq(S) /\ Append(s, Head(t)) \in Seq(S)
      /\ Len(t) >= 1 /\ Len(Tail(t)) = Len(t) - 1 /\ Len(Append(s, Head(t))) = Len(s) + 1
    OBVIOUS
<1>2. left \in Seq(S) /\ right \in Seq(S) /\ Len(left) = Len(s) + Len(t)
      /\ Len(right) = Len(s) + Len(t)
    BY <1>1
<1>3. ASSUME NEW i \in 1..Len(left) PROVE left[i] = right[i]
    <2>1. CASE i <= Len(s)
        BY <1>1, <1>2, <2>1
    <2>2. CASE i = Len(s) + 1
        BY <1>1, <1>2, <2>2
    <2>3. CASE i > Len(s) + 1
        <3>1. left[i] = Tail(t)[i - (Len(s) + 1)]
            BY <1>1, <1>2, <2>3
        <3>2. Tail(t)[i - (Len(s) + 1)] = t[i - Len(s)]
            BY <1>1, <1>2, <2>3
        <3> QED BY <1>1, <1>2, <2>3, <3>1, <3>2
    <2> QED BY <1>2, <2>1, <2>2, <2>3
<1> HIDE DEF left, right
<1>4. left = right
    BY <1>2, <1>3
<1> QED BY <1>4 DEF left, right

\* A worker step keeps the messages of the loop paired.
LEMMA PairLoopStep ==
    ASSUME LoopTypeOK, CallPending, PairInv, StartWorker \/ LoopStep, UNCHANGED saved
    PROVE  PairInv'
<1> USE DEF LoopTypeOK, PairInv, CallPending
<1>1. ASSUME UNCHANGED newMessages,
             worker' \in {"waiting", "looping", "thinking", "streaming"} =>
                 worker \in {"waiting", "looping", "thinking", "streaming"},
             worker' \in {"dispatching", "calling"} =>
                 worker \in {"dispatching", "calling"} /\ results' \o calls' = results \o calls
      PROVE  PairInv'
    BY <1>1
<1>2. CASE StartWorker \/ BeginTurn \/ Exhaust \/ ReceiveDelta \/ ApiFails \/ Leave
    BY <1>1, <1>2 DEF StartWorker, BeginTurn, Exhaust, ReceiveDelta, ApiFails, Leave
<1>3. CASE CallTool \/ ToolBreaks
    BY <1>1, <1>3 DEF CallTool, ToolBreaks
<1>4. ASSUME NEW status \in {"success", "error"}, Answer(status) PROVE PairInv'
    <2>1. calls \in Seq(Tools) /\ results \in Seq(Tools) /\ calls # <<>>
        BY <1>4 DEF Answer
    <2>2. Append(results, Head(calls)) \o Tail(calls) = results \o calls
        BY <2>1, AppendHeadTail
    <2> QED BY <1>1, <1>4, <2>2 DEF Answer
<1>5. ASSUME NEW stop \in StopReasons, NEW uses \in Uses, FinalReply(stop, uses)
      PROVE  PairInv'
    <2>1. [role |-> "assistant", tools |-> uses] \in Message
        BY UsesAreSequences DEF Message
    <2>2. Paired(newMessages')
        BY <1>5, <2>1, PairedAppend DEF FinalReply, Say
    <2> QED BY <1>5, <2>2 DEF FinalReply
<1>6. ASSUME NEW uses \in Uses, ToolReply(uses) PROVE PairInv'
    <2>1. uses \in Seq(Tools) /\ [role |-> "assistant", tools |-> uses] \in Message
        BY UsesAreSequences DEF Message
    <2>2. Paired(newMessages')
        BY <1>6, <2>1, PairedAppend DEF ToolReply, Say
    <2>3. <<>> \o uses = uses
        BY <2>1
    <2> DEFINE reply == [role |-> "assistant", tools |-> uses]
    <2>3a. newMessages' = Append(newMessages, reply) /\ newMessages \in Seq(Message)
          /\ reply \in Message
        BY <1>6, <2>1 DEF ToolReply, Say
    <2>4. newMessages' # <<>> /\ newMessages'[Len(newMessages')] = reply
        BY <2>3a, LastOfAppend
    <2> QED BY <1>6, <2>2, <2>3, <2>4 DEF ToolReply
<1>7. CASE EndReply
    <2> DEFINE last == newMessages[Len(newMessages)]
               answer == [role |-> "user", tools |-> results]
    <2>1. answer \in Message
        BY DEF Message
    <2>2. results \o calls = results
        BY <1>7 DEF EndReply
    <2>3. last = [role |-> "assistant", tools |-> results]
        BY <1>7, <2>2 DEF EndReply
    <2>4. answer = [role |-> "user", tools |-> last.tools]
        BY <2>3
    <2>5. Paired(newMessages')
        BY <1>7, <2>1, <2>4, PairedAppend DEF EndReply, Say
    <2>6. newMessages'[Len(newMessages')] = answer
        BY <1>7, <2>1 DEF EndReply, Say
    <2> QED BY <1>7, <2>5, <2>6 DEF EndReply
<1> QED BY <1>2, <1>3, <1>4, <1>5, <1>6, <1>7 DEF LoopStep

LEMMA PairInit == Init => PairInv
<1> SUFFICES ASSUME Init PROVE PairInv
    OBVIOUS
<1>1. Paired(<<>>)
    BY DEF Paired
<1>2. newMessages = <<>> /\ worker = "waiting" /\ saved.messages = <<>>
    BY DEF Init, LoopInit, NothingSaved
<1> QED BY <1>1, <1>2 DEF PairInv

LEMMA PairStep == TypeInv /\ PairInv /\ [Next]_vars => PairInv'
<1> SUFFICES ASSUME TypeInv, PairInv, [Next]_vars PROVE PairInv'
    OBVIOUS
<1> USE DEF TypeInv
<1>u. ASSUME UNCHANGED <<worker, calls, results, newMessages, saved>> PROVE PairInv'
    BY <1>u DEF PairInv
<1>1. CASE Flush \/ Store \/ Yield \/ CheckAge \/ Load \/ Announce \/ LaunchWithoutKey
           \/ Raise \/ Report \/ Fail \/ Close \/ Disconnect \/ Cancel \/ UNCHANGED vars
    BY <1>1, <1>u DEF Flush, Store, Yield, CheckAge, Load, Announce, LaunchWithoutKey, Raise,
       Report, Fail, Close, Disconnect, Cancel, vars, loopVars, turnVars
<1>2. CASE Drain
    BY <1>2, <1>u DEF Drain
<1>3. CASE Launch
    BY <1>3, PairLoopStep DEF Launch, TypeOK
<1>4. CASE Persist
    BY <1>4 DEF Persist, PairInv, loopVars
<1>5. CASE Crash
    <2>1. Paired(<<>>)
        BY DEF Paired
    <2> QED BY <1>5, <2>1 DEF Crash, PairInv
<1>6. CASE WorkerStep
    BY <1>6, PairLoopStep DEF WorkerStep, TypeOK, turnVars
<1> QED BY <1>1, <1>2, <1>3, <1>4, <1>5, <1>6 DEF Next, GenStep

\* In the history that later turns send to the model, a reply that uses tools
\* is answered by a message with the results of exactly these tools, in their
\* order, unless nothing follows it in its turn.
THEOREM HistoryIsPaired == Spec => []ToolUsesAnswered
<1>1. PairInv => ToolUsesAnswered
    BY DEF PairInv, Paired, ToolUsesAnswered
<1>2. Spec => []TypeInv
    BY TypeInit, TypeStep, PTL DEF Spec
<1> QED BY <1>1, <1>2, PairInit, PairStep, PTL DEF Spec

-----------------------------------------------------------------------------
(* The end: a turn that is not cut off tells the client that it is over.   *)

HasTerminal(events) == \E i \in 1..Len(events) : events[i] \in Terminal

\* A terminal event was shown, or is about to be.
Told == \/ bareError
        \/ HasTerminal(sent)
        \/ stage \in {"flush", "store", "yield"} /\ out \in Terminal

\* The worker puts a terminal event on the queue before it leaves, so
\* run_chat comes to the sentinel after a terminal event.
EndInv ==
    /\ gen \in {"loading", "announcing", "launching"} => worker = "waiting" /\ queue = <<>>
    /\ gen = "draining" /\ worker \in {"leaving", "returned"} => Told \/ HasTerminal(queue)
    /\ gen = "draining" =>
          \A i \in 1..Len(queue) :
             queue[i] = "sentinel" => Told \/ \E j \in 1..i - 1 : queue[j] \in Terminal
    /\ gen \in {"persisting", "reporting", "closing"} => Told
    /\ gen = "ended" /\ ~cancelled => Told /\ stage = "idle"

\* Numbering an event does not untell the client.
LEMMA EmitTold ==
    ASSUME NEW type \in EventTypes, Emit(type), UNCHANGED sent, bareError => bareError'
    PROVE  (Told => Told') /\ (type \in Terminal => Told')
    BY DEF Emit, Told, HasTerminal

\* Putting items on the queue keeps the invariant: a sentinel only when the
\* worker leaves, and it is leaving only after a terminal event.
LEMMA PutKeepsEnd ==
    ASSUME TypeInv, EndInv, NEW items \in Seq(Items), Put(items), UNCHANGED turnVars,
           worker # "waiting",
           \A k \in 1..Len(items) : items[k] = "sentinel" => worker = "leaving",
           worker' \in {"leaving", "returned"} => worker = "leaving" \/ HasTerminal(items)
    PROVE  EndInv'
<1>1. /\ queue \in Seq(Items) /\ queue' = queue \o items
      /\ Len(queue') = Len(queue) + Len(items) /\ Len(queue) \in Nat /\ Len(items) \in Nat
      /\ \A i \in 1..Len(queue) : queue'[i] = queue[i]
      /\ \A k \in 1..Len(items) : queue'[Len(queue) + k] = items[k]
    BY DEF TypeInv, TypeOK, LoopTypeOK, Put
<1>2. Told' = Told /\ UNCHANGED <<gen, stage, cancelled>>
    BY DEF turnVars, Told
<1>3. HasTerminal(queue) => HasTerminal(queue')
    BY <1>1 DEF HasTerminal
<1>4. HasTerminal(items) => HasTerminal(queue')
    <2>1. ASSUME NEW k \in 1..Len(items), items[k] \in Terminal PROVE HasTerminal(queue')
        <3>1. Len(queue) + k \in 1..Len(queue')
            BY <1>1
        <3> QED BY <1>1, <2>1, <3>1 DEF HasTerminal
    <2> QED BY <2>1 DEF HasTerminal
<1>5. ASSUME gen = "draining", NEW i \in 1..Len(queue'), queue'[i] = "sentinel", ~Told
      PROVE  \E j \in 1..i - 1 : queue'[j] \in Terminal
    <2>1. CASE i <= Len(queue)
        <3>1. PICK j \in 1..i - 1 : queue[j] \in Terminal
            BY <1>1, <1>5, <2>1 DEF EndInv
        <3> QED BY <1>1, <2>1, <3>1
    <2>2. CASE i > Len(queue)
        <3>1. i - Len(queue) \in 1..Len(items) /\ queue'[i] = items[i - Len(queue)]
            BY <1>1, <2>2
        <3>2. HasTerminal(queue)
            BY <1>5, <3>1 DEF EndInv
        <3>3. PICK j \in 1..Len(queue) : queue[j] \in Terminal
            BY <3>2 DEF HasTerminal
        <3> QED BY <1>1, <2>2, <3>3
    <2> QED BY <1>1, <2>1, <2>2
<1> QED BY <1>1, <1>2, <1>3, <1>4, <1>5 DEF EndInv

LEMMA EndInit == Init => EndInv
    BY DEF Init, LoopInit, EndInv

LEMMA EndLoopStep ==
    ASSUME TypeInv, EndInv, LoopStep, UNCHANGED turnVars
    PROVE  EndInv'
<1> USE DEF Terminal
<1>q. /\ <<>> \in Seq(Items)
      /\ \A x \in Items : <<x>> \in Seq(Items)
      /\ \A x, y \in Items : <<x, y>> \in Seq(Items)
    BY ShortSequences
<1>i. {"phase", "token", "tool_result", "done", "error", "unserialisable", "sentinel"}
          \subseteq Items
    BY DEF Items, LoopEvents
<1>s. \A items \in {<<>>, <<"phase">>, <<"token">>, <<"phase", "token">>, <<"tool_result">>,
                    <<"error">>, <<"phase", "done">>, <<"unserialisable", "error">>} :
         \A k \in 1..Len(items) : items[k] # "sentinel"
    OBVIOUS
<1>e. HasTerminal(<<"error">>)
    <2>1. 1 \in 1..Len(<<"error">>) /\ <<"error">>[1] = "error"
        OBVIOUS
    <2> QED BY <2>1 DEF HasTerminal
<1>d. HasTerminal(<<"phase", "done">>)
    <2>1. 2 \in 1..Len(<<"phase", "done">>) /\ <<"phase", "done">>[2] = "done"
        OBVIOUS
    <2> QED BY <2>1 DEF HasTerminal
<1>x. HasTerminal(<<"unserialisable", "error">>)
    <2>1. 2 \in 1..Len(<<"unserialisable", "error">>) /\ <<"unserialisable", "error">>[2] = "error"
        OBVIOUS
    <2> QED BY <2>1 DEF HasTerminal
<1> HIDE DEF Terminal
<1>p. ASSUME NEW items \in {<<>>, <<"phase">>, <<"token">>, <<"phase", "token">>,
                            <<"tool_result">>},
             Put(items), worker # "waiting", worker' \notin {"leaving", "returned"}
      PROVE  EndInv'
    <2>1. items \in Seq(Items)
        BY <1>q, <1>i
    <2> QED BY <1>p, <1>s, <2>1, PutKeepsEnd
<1>r. ASSUME NEW items \in {<<"error">>, <<"phase", "done">>, <<"unserialisable", "error">>},
             Put(items), worker # "waiting"
      PROVE  EndInv'
    <2>1. items \in Seq(Items) /\ HasTerminal(items)
        BY <1>q, <1>i, <1>e, <1>d, <1>x
    <2> QED BY <1>r, <1>s, <2>1, PutKeepsEnd
<1>1. CASE BeginTurn
    BY <1>1, <1>p DEF BeginTurn
<1>2. CASE Exhaust
    BY <1>2, <1>r DEF Exhaust
<1>3. CASE ReceiveDelta
    BY <1>3, <1>p DEF ReceiveDelta
<1>4. CASE ApiFails
    BY <1>4, <1>r DEF ApiFails
<1>5. ASSUME NEW stop \in StopReasons, NEW uses \in Uses, FinalReply(stop, uses)
      PROVE  EndInv'
    BY <1>5, <1>r DEF FinalReply
<1>6. CASE CallTool
    <2>1. \A k \in 1..Len(Announcement(Head(calls))) : Announcement(Head(calls))[k] # "sentinel"
        BY DEF Announcement
    <2> QED BY <1>6, <2>1, AnnouncementType, PutKeepsEnd DEF CallTool
<1>7. ASSUME NEW status \in {"success", "error"}, Answer(status) PROVE EndInv'
    BY <1>7, <1>p DEF Answer
<1>8. CASE ToolBreaks
    BY <1>8, <1>r DEF ToolBreaks
<1>9. CASE Leave
    BY <1>9, <1>q, <1>i, PutKeepsEnd DEF Leave
<1>10. ASSUME UNCHANGED queue, worker # "waiting", worker' \notin {"leaving", "returned"}
       PROVE  EndInv'
    BY <1>10 DEF EndInv, Told, turnVars
<1>11. CASE EndReply \/ \E uses \in Uses : ToolReply(uses)
    BY <1>10, <1>11 DEF EndReply, ToolReply
<1> QED BY <1>1, <1>2, <1>3, <1>4, <1>5, <1>6, <1>7, <1>8, <1>9, <1>11 DEF LoopStep

LEMMA EndStep == TypeInv /\ EndInv /\ [Next]_vars => EndInv'
<1> SUFFICES ASSUME TypeInv, EndInv, [Next]_vars PROVE EndInv'
    OBVIOUS
<1>t. {"conversation_id", "experiment_created", "simulator_created", "error"} \subseteq EventTypes
    BY DEF EventTypes, LoopEvents
<1>g. gen \in {"ended", "dead"} \/ gen \notin {"ended", "dead"}
    OBVIOUS
\* A step that leaves the queue, the worker and the place of the generator alone.
<1>k. ASSUME UNCHANGED <<worker, queue, gen, cancelled>>, Told => Told',
             gen = "ended" => stage' = stage
      PROVE  EndInv'
    BY <1>k DEF EndInv
<1>1. CASE Flush \/ Store \/ CheckAge
    BY <1>1, <1>k DEF Flush, Store, CheckAge, Told, EndInv, loopVars
<1>2. CASE Yield
    <2>1. /\ Len(sent') = Len(sent) + 1 /\ Len(sent) \in Nat
          /\ \A i \in 1..Len(sent) : sent'[i] = sent[i]
          /\ sent'[Len(sent) + 1] = out
        BY <1>2 DEF Yield, TypeInv, TypeOK
    <2>2. Told => Told'
        BY <1>2, <2>1 DEF Yield, Told, HasTerminal
    <2>3. gen = "ended" => cancelled \/ stage = "idle"
        BY DEF EndInv
    <2> QED BY <1>2, <2>2, <2>3 DEF Yield, EndInv, loopVars
<1>3. CASE Load \/ Announce \/ Raise
    BY <1>3, <1>t, EmitTold DEF Load, Announce, Raise, EndInv, Told, loopVars
<1>4. CASE Launch
    BY <1>4 DEF Launch, StartWorker, EndInv
<1>5. CASE LaunchWithoutKey
    BY <1>5, <1>t, EmitTold DEF LaunchWithoutKey, EndInv, Terminal
<1>6. CASE Drain
    <2>1. /\ queue \in Seq(Items) /\ queue # <<>> /\ queue' = Tail(queue)
          /\ Len(queue) \in Nat /\ Len(queue) >= 1 /\ Len(queue') = Len(queue) - 1
          /\ \A i \in 1..Len(queue') : queue'[i] = queue[i + 1]
          /\ Head(queue) = queue[1]
          /\ gen = "draining" /\ UNCHANGED <<worker, sent, bareError, cancelled>>
        BY <1>6 DEF Drain, TypeInv, TypeOK, LoopTypeOK
    <2>2. CASE Head(queue) \in LoopEvents
        <3>1. /\ Head(queue) \in EventTypes /\ Emit(Head(queue)) /\ UNCHANGED gen
              /\ queue[1] # "sentinel"
            BY <1>6, <2>1, <2>2 DEF Drain, EventTypes, LoopEvents
        <3>2. CASE Head(queue) \in Terminal
            BY <2>1, <3>1, <3>2, EmitTold DEF EndInv
        <3>3. CASE Head(queue) \notin Terminal
            <4>1. Told => Told'
                BY <2>1, <3>1, EmitTold
            <4>2. HasTerminal(queue) => HasTerminal(queue')
                <5> SUFFICES ASSUME NEW i \in 1..Len(queue), queue[i] \in Terminal
                             PROVE  HasTerminal(queue')
                    BY DEF HasTerminal
                <5>1. i - 1 \in 1..Len(queue') /\ queue'[i - 1] = queue[i]
                    BY <2>1, <3>3
                <5> QED BY <5>1 DEF HasTerminal
            <4>3. ASSUME NEW i \in 1..Len(queue'), queue'[i] = "sentinel", ~Told
                  PROVE  \E j \in 1..i - 1 : queue'[j] \in Terminal
                <5>1. i + 1 \in 1..Len(queue) /\ queue[i + 1] = "sentinel"
                    BY <2>1, <4>3
                <5>2. PICK j \in 1..i : queue[j] \in Terminal
                    BY <2>1, <4>3, <5>1 DEF EndInv
                <5>3. j # 1
                    BY <2>1, <3>3, <5>2
                <5>4. j - 1 \in 1..i - 1 /\ queue'[j - 1] = queue[j]
                    BY <2>1, <4>3, <5>2, <5>3
                <5> QED BY <5>2, <5>4
            <4> QED BY <2>1, <3>1, <4>1, <4>2, <4>3 DEF EndInv
        <3> QED BY <3>2, <3>3
    <2>3. CASE Head(queue) = "sentinel"
        <3>1. Told
            BY <2>1, <2>3 DEF EndInv
        <3>2. gen' = "persisting" /\ UNCHANGED <<stage, out>>
            BY <1>6, <2>3 DEF Drain, LoopEvents
        <3> QED BY <2>1, <3>1, <3>2 DEF EndInv, Told
    <2>4. CASE Head(queue) \notin LoopEvents /\ Head(queue) # "sentinel"
        <3>1. gen' = "failing"
            BY <1>6, <2>4 DEF Drain
        <3> QED BY <3>1 DEF EndInv
    <2> QED BY <2>2, <2>3, <2>4
<1>7. CASE Persist
    BY <1>7 DEF Persist, EndInv, Told
<1>8. CASE Report
    <2>1. Told /\ gen = "reporting" /\ gen' \in {"reporting", "closing"}
        BY <1>8 DEF Report, EndInv
    <2>2. Told'
        BY <1>8, <2>1, <1>t, EmitTold DEF Report, Told
    <2> QED BY <2>1, <2>2 DEF EndInv
<1>9. CASE Fail
    <2>1. Told'
        BY <1>9, <1>t, EmitTold DEF Fail, Told, Terminal
    <2> QED BY <1>9, <2>1 DEF Fail, EndInv
<1>10. CASE Close
    BY <1>10 DEF Close, EndInv, Told
<1>11. CASE Disconnect \/ UNCHANGED vars
    BY <1>11, <1>k DEF Disconnect, vars, loopVars, turnVars, Told
<1>12. CASE Cancel
    BY <1>12 DEF Cancel, EndInv
<1>13. CASE Crash
    BY <1>13 DEF Crash, EndInv
<1>14. CASE WorkerStep
    BY <1>14, EndLoopStep DEF WorkerStep
<1> QED BY <1>1, <1>2, <1>3, <1>4, <1>5, <1>6, <1>7, <1>8, <1>9, <1>10, <1>11, <1>12,
           <1>13, <1>14 DEF Next, GenStep

\* A turn that runs to its end without being cancelled has shown the client a
\* done or an error event, on every path: a reply, an error of the API, an
\* exception in a tool, an item that cannot be serialised, a database error.
THEOREM ClientIsTold == Spec => []TurnEndsTerminal
<1>1. TypeInv /\ EndInv => TurnEndsTerminal
    BY DEF EndInv, Told, HasTerminal, TurnEndsTerminal
<1>2. Spec => []TypeInv
    BY TypeInit, TypeStep, PTL DEF Spec
<1> QED BY <1>1, <1>2, EndInit, EndStep, PTL DEF Spec

-----------------------------------------------------------------------------
(* Counting: the events shown and the calls recorded.                      *)

\* The positions of a sequence that hold a member of M.
Matches(seq, M) == {i \in DOMAIN seq : seq[i] \in M}
One(x, M) == IF x \in M THEN 1 ELSE 0

\* The matching places of a sequence can be counted.
LEMMA MatchesFinite ==
    ASSUME NEW S, NEW s \in Seq(S), NEW M
    PROVE  IsFiniteSet(Matches(s, M)) /\ Cardinality(Matches(s, M)) \in Nat
<1>1. DOMAIN s = 1..Len(s) /\ Len(s) \in Nat
    OBVIOUS
<1>2. IsFiniteSet(DOMAIN s)
    BY <1>1, FS_Interval
<1>3. Matches(s, M) \subseteq DOMAIN s
    BY DEF Matches
<1>4. IsFiniteSet(Matches(s, M))
    BY <1>2, <1>3, FS_Subset
<1> QED BY <1>4, FS_CardinalityType

\* Nothing matches in the empty sequence.
LEMMA MatchesNothing == ASSUME NEW M PROVE Cardinality(Matches(<<>>, M)) = 0
<1>1. Matches(<<>>, M) = {}
    BY DEF Matches
<1> QED BY <1>1, FS_EmptySet

\* An element more counts if it is in M.
LEMMA MatchesAppend ==
    ASSUME NEW S, NEW s \in Seq(S), NEW x \in S, NEW M
    PROVE  Cardinality(Matches(Append(s, x), M)) = Cardinality(Matches(s, M)) + One(x, M)
<1> PICK longer : longer = Append(s, x)
    OBVIOUS
<1> PICK n \in Nat : n = Len(s)
    OBVIOUS
<1>1. /\ DOMAIN s = 1..n /\ DOMAIN longer = 1..(n + 1)
      /\ \A i \in 1..n : longer[i] = s[i]
      /\ longer[n + 1] = x
    OBVIOUS
<1>2. 1..(n + 1) = (1..n) \cup {n + 1} /\ n + 1 \notin 1..n
    OBVIOUS
<1>3. IsFiniteSet(Matches(s, M)) /\ Cardinality(Matches(s, M)) \in Nat
    BY MatchesFinite
<1>4. CASE x \in M
    <2>1. Matches(longer, M) = Matches(s, M) \cup {n + 1} /\ n + 1 \notin Matches(s, M)
        BY <1>1, <1>2, <1>4 DEF Matches
    <2> QED BY <1>3, <1>4, <2>1, FS_AddElement DEF One
<1>5. CASE x \notin M
    <2>1. Matches(longer, M) = Matches(s, M)
        BY <1>1, <1>2, <1>5 DEF Matches
    <2> QED BY <1>3, <1>5, <2>1 DEF One
<1> QED BY <1>4, <1>5

\* An element less counts too: the others move by one.
LEMMA MatchesTail ==
    ASSUME NEW S, NEW s \in Seq(S), s # <<>>, NEW M
    PROVE  Cardinality(Matches(s, M)) = Cardinality(Matches(Tail(s), M)) + One(Head(s), M)
<1> PICK t : t = Tail(s)
    OBVIOUS
<1> PICK n \in Nat : n = Len(t)
    OBVIOUS
<1>1. /\ t \in Seq(S) /\ DOMAIN t = 1..n /\ DOMAIN s = 1..(n + 1)
      /\ \A i \in 1..n : t[i] = s[i + 1]
      /\ Head(s) = s[1]
    OBVIOUS
<1> DEFINE moved == {i + 1 : i \in Matches(t, M)}
           f == [i \in Matches(t, M) |-> i + 1]
<1>2. Matches(t, M) \subseteq 1..n
    BY <1>1 DEF Matches
<1>3. IsFiniteSet(Matches(t, M)) /\ Cardinality(Matches(t, M)) \in Nat
    BY <1>1, MatchesFinite
<1>4. f \in Bijection(Matches(t, M), moved)
    <2>1. \A i, j \in Matches(t, M) : f[i] = f[j] => i = j
        BY <1>2
    <2>2. /\ f \in [Matches(t, M) -> moved]
          /\ \A y \in moved : \E i \in Matches(t, M) : f[i] = y
        OBVIOUS
    <2> HIDE DEF f, moved
    <2>3. f \in Injection(Matches(t, M), moved) /\ f \in Surjection(Matches(t, M), moved)
        BY <2>1, <2>2 DEF Injection, IsInjective, Surjection
    <2> QED BY <2>3 DEF Bijection
<1>5. IsFiniteSet(moved) /\ Cardinality(moved) = Cardinality(Matches(t, M))
    BY <1>3, <1>4, FS_Bijection DEF ExistsBijection
<1>6. \A i : i \in moved <=> i \in 2..(n + 1) /\ s[i] \in M
    <2>1. \A i \in 2..(n + 1) : i - 1 \in 1..n /\ i = (i - 1) + 1 /\ t[i - 1] = s[i]
        BY <1>1
    <2>2. ASSUME NEW i \in moved PROVE i \in 2..(n + 1) /\ s[i] \in M
        <3> PICK k \in Matches(t, M) : i = k + 1
            OBVIOUS
        <3>1. k \in 1..n /\ t[k] \in M
            BY <1>1 DEF Matches
        <3> QED BY <1>1, <3>1
    <2>3. ASSUME NEW i \in 2..(n + 1), s[i] \in M PROVE i \in moved
        <3>1. i - 1 \in Matches(t, M) /\ i = (i - 1) + 1
            BY <1>1, <2>1, <2>3 DEF Matches
        <3> QED BY <3>1
    <2> QED BY <2>2, <2>3
<1> HIDE DEF moved, f
<1>7. 1..(n + 1) = (2..(n + 1)) \cup {1} /\ 1 \notin 2..(n + 1)
    OBVIOUS
<1>8. CASE s[1] \in M
    <2>1. Matches(s, M) = moved \cup {1} /\ 1 \notin moved
        BY <1>1, <1>6, <1>7, <1>8 DEF Matches
    <2>2. Cardinality(moved \cup {1}) = Cardinality(moved) + 1
        BY <1>5, <2>1, FS_AddElement
    <2> QED BY <1>1, <1>5, <1>8, <2>1, <2>2 DEF One
<1>9. CASE s[1] \notin M
    <2>1. Matches(s, M) = moved
        BY <1>1, <1>6, <1>7, <1>9 DEF Matches
    <2> QED BY <1>1, <1>3, <1>5, <1>9, <2>1 DEF One
<1> QED BY <1>8, <1>9

-----------------------------------------------------------------------------
(* The results shown are the calls recorded.                               *)

Result == {"tool_result"}
Executed == {r \in ToolRecord : r.tool \notin MetaTools}

\* A result event on its way to the client.
Pending(type) == IF stage \in {"flush", "store", "yield"} /\ out = type THEN 1 ELSE 0

\* What the stream has shown, is showing and will show of the loop's results
\* are the calls that were recorded; the sentinel is the last item.
AuditInv ==
    /\ \A i \in 1..Len(queue) : queue[i] = "sentinel" => i = Len(queue) /\ worker = "returned"
    /\ gen \in {"loading", "announcing", "launching"} =>
          worker = "waiting" /\ queue = <<>> /\ toolRecords = <<>>
    /\ gen \in {"loading", "announcing", "launching", "draining"} =>
          Cardinality(Matches(sent, Result)) + Pending("tool_result")
              + Cardinality(Matches(queue, Result)) = Cardinality(Matches(toolRecords, Executed))
    /\ gen = "persisting" =>
          /\ worker = "returned"
          /\ Cardinality(Matches(sent, Result)) + Pending("tool_result")
                 = Cardinality(Matches(toolRecords, Executed))
    /\ gen \in {"loading", "announcing", "launching", "draining", "persisting"} =>
          saved = NothingSaved
    /\ saved # NothingSaved =>
          /\ Pending("tool_result") = 0
          /\ Cardinality(Matches(sent, Result)) = Cardinality(Matches(saved.records, Executed))

\* A worker step adds as many results to the queue as calls to the record.
LEMMA AuditWorker ==
    ASSUME TypeInv, AuditInv, LoopStep, UNCHANGED turnVars,
           worker # "waiting", worker # "returned",
           Cardinality(Matches(queue', Result)) + Cardinality(Matches(toolRecords, Executed))
             = Cardinality(Matches(queue, Result)) + Cardinality(Matches(toolRecords', Executed)),
           \A i \in 1..Len(queue') : queue'[i] = "sentinel" => i = Len(queue') /\ worker' = "returned",
           queue' \in Seq(Items), toolRecords' \in Seq(ToolRecord)
    PROVE  AuditInv'
<1> PICK a \in Nat : a = Cardinality(Matches(queue, Result))
    BY MatchesFinite DEF TypeInv, TypeOK, LoopTypeOK
<1> PICK b \in Nat : b = Cardinality(Matches(toolRecords, Executed))
    BY MatchesFinite DEF TypeInv, TypeOK, LoopTypeOK
<1> PICK c \in Nat : c = Cardinality(Matches(queue', Result))
    BY MatchesFinite
<1> PICK d \in Nat : d = Cardinality(Matches(toolRecords', Executed))
    BY MatchesFinite
<1> PICK e \in Nat : e = Cardinality(Matches(sent, Result))
    BY MatchesFinite DEF TypeInv, TypeOK
<1> PICK p \in Nat : p = Pending("tool_result")
    BY DEF Pending
<1>1. c + b = a + d
    OBVIOUS
<1>2. /\ UNCHANGED <<gen, sent, saved, stage, out>>
      /\ Cardinality(Matches(sent', Result)) = e /\ Pending("tool_result")' = p
    BY DEF turnVars, Pending
<1>3. gen = "draining" => e + p + c = d
    <2> SUFFICES ASSUME gen = "draining" PROVE e + p + c = d
        OBVIOUS
    <2>1. e + p + a = b
        BY DEF AuditInv
    <2> QED BY ONLY <1>1, <2>1, a \in Nat, b \in Nat, c \in Nat, d \in Nat, e \in Nat, p \in Nat
<1>4. gen \notin {"loading", "announcing", "launching", "persisting"}
    BY DEF AuditInv
<1> QED BY <1>2, <1>3, <1>4 DEF AuditInv

\* Putting items that are not results, nor the sentinel, on the queue.
LEMMA PutCounts ==
    ASSUME queue \in Seq(Items), NEW x \in Items, NEW y \in Items
    PROVE  /\ queue \o <<>> = queue
           /\ queue \o <<x>> = Append(queue, x)
           /\ queue \o <<x, y>> = Append(Append(queue, x), y)
           /\ Cardinality(Matches(Append(queue, x), Result))
                = Cardinality(Matches(queue, Result)) + One(x, Result)
           /\ Cardinality(Matches(Append(Append(queue, x), y), Result))
                = Cardinality(Matches(queue, Result)) + One(x, Result) + One(y, Result)
<1>1. Append(queue, x) \in Seq(Items)
    OBVIOUS
<1>2. Cardinality(Matches(Append(queue, x), Result))
                = Cardinality(Matches(queue, Result)) + One(x, Result)
    BY MatchesAppend
<1>3. Cardinality(Matches(Append(Append(queue, x), y), Result))
                = Cardinality(Matches(Append(queue, x), Result)) + One(y, Result)
    BY <1>1, MatchesAppend
<1>4. queue \o <<>> = queue /\ queue \o <<x>> = Append(queue, x)
    OBVIOUS
<1>5. queue \o <<x, y>> = Append(Append(queue, x), y)
    OBVIOUS
<1> QED BY <1>2, <1>3, <1>4, <1>5

\* Another item on a queue without a sentinel leaves it without one.
LEMMA NoSentinel ==
    ASSUME NEW q \in Seq(Items), NEW x \in Items, x # "sentinel",
           \A i \in 1..Len(q) : q[i] # "sentinel"
    PROVE  \A i \in 1..Len(Append(q, x)) : Append(q, x)[i] # "sentinel"
<1> PICK n \in Nat : n = Len(q)
    OBVIOUS
<1>1. /\ Len(Append(q, x)) = n + 1
      /\ \A i \in 1..n : Append(q, x)[i] = q[i]
      /\ Append(q, x)[n + 1] = x
    OBVIOUS
<1>2. \A i \in 1..(n + 1) : i \in 1..n \/ i = n + 1
    OBVIOUS
<1> QED BY <1>1, <1>2

\* A step of the loop keeps the results on the queue and the record in step.
LEMMA AuditLoopStep ==
    ASSUME TypeInv, AuditInv, LoopStep, UNCHANGED turnVars
    PROVE  AuditInv'
<1>q. queue \in Seq(Items) /\ toolRecords \in Seq(ToolRecord) /\ calls \in Seq(Tools)
    BY DEF TypeInv, TypeOK, LoopTypeOK
<1>i. {"phase", "token", "plan", "plan_update", "tool_start", "tool_result", "done", "error",
       "unserialisable", "sentinel"} \subseteq Items
    BY DEF Items, LoopEvents
<1>o. /\ \A x \in {"phase", "token", "plan", "plan_update", "tool_start", "done", "error",
                   "unserialisable", "sentinel"} : One(x, Result) = 0
      /\ One("tool_result", Result) = 1
    BY DEF One, Result
<1>w. worker # "waiting" /\ worker # "returned"
    BY DEF LoopStep, BeginTurn, Exhaust, ReceiveDelta, ApiFails, FinalReply, ToolReply, CallTool,
           Answer, ToolBreaks, EndReply, Leave
<1>n. \A i \in 1..Len(queue) : queue[i] # "sentinel"
    BY <1>w DEF AuditInv
<1>a. Cardinality(Matches(queue, Result)) \in Nat
    BY <1>q, MatchesFinite
<1>b. Cardinality(Matches(toolRecords, Executed)) \in Nat
    BY <1>q, MatchesFinite
\* Nothing is put, or one item, or two, none of which is a result.
<1>0. ASSUME UNCHANGED <<queue, toolRecords>> PROVE AuditInv'
    BY <1>0, <1>n, <1>q, <1>w, AuditWorker
<1>1. ASSUME NEW x \in {"phase", "token", "plan", "plan_update", "error"}, Put(<<x>>),
             UNCHANGED toolRecords
      PROVE  AuditInv'
    <2>1. x \in Items /\ x # "sentinel" /\ One(x, Result) = 0
        BY <1>i, <1>o
    <2>2. queue' = Append(queue, x)
        BY <1>1, <1>q, <2>1, PutCounts DEF Put
    <2>3. Cardinality(Matches(queue', Result)) = Cardinality(Matches(queue, Result))
        <3>1. Cardinality(Matches(queue', Result)) = Cardinality(Matches(queue, Result)) + One(x, Result)
            BY <1>q, <2>1, <2>2, PutCounts
        <3> QED BY <1>a, <2>1, <3>1
    <2>4. queue' \in Seq(Items) /\ \A i \in 1..Len(queue') : queue'[i] # "sentinel"
        BY <1>n, <1>q, <2>1, <2>2, NoSentinel
    <2> QED BY <1>1, <1>q, <1>w, <2>3, <2>4, AuditWorker
<1>2. ASSUME NEW x \in {"phase", "unserialisable"}, NEW y \in {"token", "done", "tool_start", "error"},
             Put(<<x, y>>), UNCHANGED toolRecords
      PROVE  AuditInv'
    <2>1. /\ x \in Items /\ x # "sentinel" /\ One(x, Result) = 0
          /\ y \in Items /\ y # "sentinel" /\ One(y, Result) = 0
        BY <1>i, <1>o
    <2>2. queue' = Append(Append(queue, x), y)
        BY <1>2, <1>q, <2>1, PutCounts DEF Put
    <2>3. Cardinality(Matches(queue', Result)) = Cardinality(Matches(queue, Result))
        <3>1. Cardinality(Matches(queue', Result))
                  = Cardinality(Matches(queue, Result)) + One(x, Result) + One(y, Result)
            BY <1>q, <2>1, <2>2, PutCounts
        <3> QED BY <1>a, <2>1, <3>1
    <2>4. Append(queue, x) \in Seq(Items)
          /\ \A i \in 1..Len(Append(queue, x)) : Append(queue, x)[i] # "sentinel"
        BY <1>n, <1>q, <2>1, NoSentinel
    <2>5. queue' \in Seq(Items) /\ \A i \in 1..Len(queue') : queue'[i] # "sentinel"
        BY <2>1, <2>2, <2>4, NoSentinel
    <2> QED BY <1>2, <1>q, <1>w, <2>3, <2>5, AuditWorker
<1>3. CASE BeginTurn \/ Exhaust \/ ReceiveDelta \/ ApiFails \/ ToolBreaks
    BY <1>1, <1>2, <1>3 DEF BeginTurn, Exhaust, ReceiveDelta, ApiFails, ToolBreaks
<1>4. ASSUME NEW stop \in StopReasons, NEW uses \in Uses, FinalReply(stop, uses)
      PROVE  AuditInv'
    BY <1>2, <1>4 DEF FinalReply
<1>5. CASE EndReply \/ \E uses \in Uses : ToolReply(uses)
    BY <1>0, <1>5 DEF EndReply, ToolReply
<1>6. CASE CallTool
    BY <1>1, <1>2, <1>6 DEF CallTool, Announcement
<1>7. ASSUME NEW status \in {"success", "error"}, Answer(status) PROVE AuditInv'
    <2> PICK tool \in Tools : tool = Head(calls)
        BY <1>7, <1>q DEF TypeInv, CallPending, Answer
    <2> PICK record : record = [tool |-> tool, status |-> status]
        OBVIOUS
    <2>1. record \in ToolRecord /\ record.tool = tool
        BY DEF ToolRecord
    <2>2. toolRecords' = Append(toolRecords, record)
        BY <1>7 DEF Answer
    <2>3. toolRecords' \in Seq(ToolRecord)
        BY <1>q, <2>1, <2>2
    <2>4. Cardinality(Matches(toolRecords', Executed))
              = Cardinality(Matches(toolRecords, Executed)) + One(record, Executed)
        BY <1>q, <2>1, <2>2, MatchesAppend
    <2>5. CASE tool \in MetaTools
        <3>1. queue' = queue
            BY <1>7, <1>i, <1>q, <2>5, PutCounts DEF Answer, Put
        <3>2. One(record, Executed) = 0
            BY <2>1, <2>5 DEF One, Executed
        <3> QED BY <1>a, <1>b, <1>n, <1>q, <1>w, <2>3, <2>4, <3>1, <3>2, AuditWorker
    <2>6. CASE tool \notin MetaTools
        <3>1. "tool_result" \in Items /\ "tool_result" # "sentinel"
            BY <1>i
        <3>2. queue' = Append(queue, "tool_result")
            BY <1>7, <1>q, <2>6, <3>1, PutCounts DEF Answer, Put
        <3>3. Cardinality(Matches(queue', Result)) = Cardinality(Matches(queue, Result)) + 1
            BY <1>o, <1>q, <3>1, <3>2, PutCounts
        <3>4. One(record, Executed) = 1
            BY <2>1, <2>6 DEF One, Executed
        <3>5. queue' \in Seq(Items) /\ \A i \in 1..Len(queue') : queue'[i] # "sentinel"
            BY <1>n, <1>q, <3>1, <3>2, NoSentinel
        <3>6. Cardinality(Matches(queue', Result)) + Cardinality(Matches(toolRecords, Executed))
                = Cardinality(Matches(queue, Result)) + Cardinality(Matches(toolRecords', Executed))
            BY <1>a, <1>b, <2>4, <3>3, <3>4
        <3> QED BY <1>w, <2>3, <3>5, <3>6, AuditWorker
    <2> QED BY <2>5, <2>6
<1>8. CASE Leave
    <2>1. "sentinel" \in Items
        BY <1>i
    <2>2. queue' = Append(queue, "sentinel") /\ UNCHANGED toolRecords /\ worker' = "returned"
        BY <1>8, <1>q, <2>1, PutCounts DEF Leave, Put
    <2>3. Cardinality(Matches(queue', Result)) = Cardinality(Matches(queue, Result))
        <3>1. Cardinality(Matches(queue', Result))
                  = Cardinality(Matches(queue, Result)) + One("sentinel", Result)
            BY <1>q, <2>1, <2>2, PutCounts
        <3> QED BY <1>a, <1>o, <3>1
    <2>4. queue' \in Seq(Items) /\ \A i \in 1..Len(queue') : queue'[i] = "sentinel" => i = Len(queue')
        <3> PICK n \in Nat : n = Len(queue)
            BY <1>q
        <3>1. /\ queue' \in Seq(Items) /\ Len(queue') = n + 1
              /\ \A i \in 1..n : queue'[i] = queue[i]
            BY <1>q, <2>1, <2>2
        <3>2. \A i \in 1..(n + 1) : i \in 1..n \/ i = n + 1
            OBVIOUS
        <3> QED BY <1>n, <3>1, <3>2
    <2> QED BY <1>q, <1>w, <2>2, <2>3, <2>4, AuditWorker
<1> QED BY <1>3, <1>4, <1>5, <1>6, <1>7, <1>8 DEF LoopStep

LEMMA AuditInit == Init => AuditInv
<1> SUFFICES ASSUME Init PROVE AuditInv
    OBVIOUS
<1>1. queue = <<>> /\ sent = <<>> /\ toolRecords = <<>> /\ Pending("tool_result") = 0
    BY DEF Init, LoopInit, Pending
<1>2. /\ Cardinality(Matches(sent, Result)) = 0
      /\ Cardinality(Matches(queue, Result)) = 0
      /\ Cardinality(Matches(toolRecords, Executed)) = 0
    BY <1>1, MatchesNothing
<1> QED BY <1>1, <1>2 DEF AuditInv, Init, LoopInit

\* Emitting an event makes it the one on its way.
LEMMA EmitPending ==
    ASSUME NEW type, Emit(type)
    PROVE  /\ Pending("tool_result") = 0
           /\ Pending("tool_result")' = One(type, Result)
           /\ Pending("experiment_created") = 0
           /\ Pending("experiment_created")' = One(type, {"experiment_created"})
    BY DEF Emit, Pending, One, Result

\* The event on its way is shown.
LEMMA YieldCounts ==
    ASSUME TypeInv, Yield, NEW type
    PROVE  /\ Pending(type)' = 0
           /\ Cardinality(Matches(sent', {type}))
                = Cardinality(Matches(sent, {type})) + Pending(type)
<1>1. sent \in Seq(EventTypes) /\ out \in EventTypes
    BY DEF TypeInv, TypeOK
<1>2. sent' = Append(sent, out) /\ stage = "yield" /\ stage' \in {"age", "idle"}
    BY DEF Yield
<1>3. Cardinality(Matches(sent', {type})) = Cardinality(Matches(sent, {type})) + One(out, {type})
    BY <1>1, <1>2, MatchesAppend
<1>4. One(out, {type}) = Pending(type) /\ Pending(type)' = 0
    BY <1>2 DEF One, Pending
<1> QED BY <1>3, <1>4

LEMMA AuditStep == TypeInv /\ AuditInv /\ [Next]_vars => AuditInv'
<1> SUFFICES ASSUME TypeInv, AuditInv, [Next]_vars PROVE AuditInv'
    OBVIOUS
<1>q. queue \in Seq(Items) /\ toolRecords \in Seq(ToolRecord) /\ sent \in Seq(EventTypes)
    BY DEF TypeInv, TypeOK, LoopTypeOK
<1> PICK a : a = Cardinality(Matches(sent, Result))
    OBVIOUS
<1> PICK b : b = Cardinality(Matches(queue, Result))
    OBVIOUS
<1> PICK c : c = Cardinality(Matches(toolRecords, Executed))
    OBVIOUS
<1>a. a \in Nat /\ b \in Nat /\ c \in Nat
    BY <1>q, MatchesFinite
\* A step that leaves what is counted alone, and comes no nearer to the commit.
<1>k. ASSUME UNCHANGED <<queue, worker, toolRecords, saved, sent>>,
             Pending("tool_result")' = Pending("tool_result"),
             gen' \in {"loading", "announcing", "launching"} =>
                 gen \in {"loading", "announcing", "launching"},
             gen' \in {"draining", "persisting"} => gen' = gen
      PROVE  AuditInv'
    BY <1>k DEF AuditInv
<1>1. CASE Flush \/ Store \/ CheckAge
    <2>1. Pending("tool_result")' = Pending("tool_result")
        BY <1>1 DEF Flush, Store, CheckAge, Pending
    <2> QED BY <1>1, <1>k, <2>1 DEF Flush, Store, CheckAge, loopVars
<1>2. CASE Yield
    <2> PICK p \in Nat : p = Pending("tool_result")
        BY DEF Pending
    <2>1. /\ Pending("tool_result")' = 0
          /\ Cardinality(Matches(sent', Result)) = a + p
        BY <1>2, YieldCounts DEF Result
    <2>2. UNCHANGED <<queue, worker, toolRecords, saved, gen>>
        BY <1>2 DEF Yield, loopVars
    <2>3. gen \in {"loading", "announcing", "launching", "draining"} => a + p + 0 + b = c
        BY <1>a DEF AuditInv
    <2>4. gen = "persisting" => a + p + 0 = c
        BY <1>a DEF AuditInv
    <2>5. saved # NothingSaved =>
              p = 0 /\ a + p = Cardinality(Matches(saved.records, Executed))
        BY <1>a DEF AuditInv
    <2> QED BY <2>1, <2>2, <2>3, <2>4, <2>5 DEF AuditInv
<1>3. CASE Load
    <2>1. Pending("tool_result")' = Pending("tool_result")
        BY <1>3 DEF Load, Pending
    <2> QED BY <1>3, <1>k, <2>1 DEF Load, loopVars
<1>4. CASE Announce \/ LaunchWithoutKey
    <2>1. Pending("tool_result")' = Pending("tool_result")
        BY <1>4, EmitPending DEF Announce, LaunchWithoutKey, One, Result
    <2> QED BY <1>4, <1>k, <2>1 DEF Announce, LaunchWithoutKey, loopVars
<1>5. CASE Launch
    <2>1. Pending("tool_result")' = Pending("tool_result")
        BY <1>5 DEF Launch, Pending
    <2>2. /\ gen = "launching" /\ gen' = "draining"
          /\ UNCHANGED <<queue, toolRecords, sent, saved>>
        BY <1>5 DEF Launch, StartWorker
    <2> QED BY <2>1, <2>2 DEF AuditInv
<1>6. CASE Drain
    <2>1. /\ queue # <<>> /\ queue' = Tail(queue) /\ gen = "draining" /\ stage = "idle"
          /\ UNCHANGED <<worker, toolRecords, sent, saved>>
        BY <1>6 DEF Drain
    <2> PICK x \in Items : x = Head(queue)
        BY <1>q, <2>1
    <2> PICK b1 : b1 = Cardinality(Matches(queue', Result))
        OBVIOUS
    <2> PICK n \in Nat : n = Len(queue')
        BY <1>q, <2>1
    <2>2. b = b1 + One(x, Result) /\ b1 \in Nat
        <3>1. queue' \in Seq(Items)
            BY <1>q, <2>1
        <3>2. b1 \in Nat
            BY <3>1, MatchesFinite
        <3>3. Cardinality(Matches(queue, Result))
                  = Cardinality(Matches(Tail(queue), Result)) + One(Head(queue), Result)
            BY <1>q, <2>1, MatchesTail
        <3> QED BY <2>1, <3>2, <3>3
    <2>3. Len(queue) = n + 1 /\ queue[1] = x /\ \A i \in 1..n : queue'[i] = queue[i + 1]
        BY <1>q, <2>1
    <2>4. a + b = c /\ Pending("tool_result") = 0
        BY <1>a, <2>1 DEF AuditInv, Pending
    <2>5. saved = NothingSaved
        BY <2>1 DEF AuditInv
    <2>6. \A i \in 1..n : queue'[i] = "sentinel" => i = n /\ worker = "returned"
        BY <2>3 DEF AuditInv
    <2>7. CASE x \in LoopEvents
        <3>1. Emit(x) /\ UNCHANGED gen
            BY <1>6, <2>7 DEF Drain
        <3>2. Pending("tool_result")' = One(x, Result) /\ One(x, Result) \in Nat
            BY <3>1, EmitPending DEF One
        <3>3. a + One(x, Result) + b1 = c
            BY <1>a, <2>2, <2>4, <3>2
        <3> QED BY <2>1, <2>5, <2>6, <3>1, <3>2, <3>3 DEF AuditInv
    <2>8. CASE x = "sentinel"
        <3>1. gen' = "persisting" /\ UNCHANGED <<stage, out>>
            BY <1>6, <2>8 DEF Drain, LoopEvents
        <3>2. n = 0 /\ worker = "returned"
            BY <2>3, <2>8 DEF AuditInv
        <3>3. queue' = <<>>
            BY <1>q, <2>1, <3>2
        <3>4. b1 = 0 /\ One(x, Result) = 0
            BY <2>8, <3>3, MatchesNothing DEF One, Result
        <3>5. Pending("tool_result")' = 0 /\ a + 0 = c
            BY <1>a, <2>1, <2>2, <2>4, <3>1, <3>4 DEF Pending
        <3> QED BY <2>1, <2>5, <2>6, <3>1, <3>2, <3>5 DEF AuditInv
    <2>9. CASE x \notin LoopEvents /\ x # "sentinel"
        <3>1. gen' = "failing"
            BY <1>6, <2>9 DEF Drain
        <3> QED BY <2>1, <2>5, <2>6, <3>1 DEF AuditInv
    <2> QED BY <2>7, <2>8, <2>9
<1>7. CASE Persist
    <2>1. /\ gen = "persisting" /\ stage = "idle" /\ gen' = "reporting"
          /\ UNCHANGED <<queue, worker, sent, stage>>
          /\ saved'.records = toolRecords
        BY <1>7 DEF Persist, loopVars
    <2>2. Pending("tool_result") = 0 /\ Pending("tool_result")' = 0
        BY <2>1 DEF Pending
    <2>3. a = c
        BY <1>a, <2>1, <2>2 DEF AuditInv
    <2> QED BY <2>1, <2>2, <2>3 DEF AuditInv
<1>8. CASE Raise
    <2>1. Pending("tool_result")' = Pending("tool_result")
        BY <1>8 DEF Raise, Pending
    <2> QED BY <1>8, <1>k, <2>1 DEF Raise, loopVars
<1>9. CASE Report
    <2>1. gen = "reporting" /\ gen' \in {"reporting", "closing"}
          /\ UNCHANGED <<queue, worker, toolRecords, saved, sent>>
        BY <1>9 DEF Report, loopVars
    <2>2. \/ Emit("experiment_created") \/ Emit("simulator_created")
          \/ UNCHANGED <<stage, out>>
        BY <1>9 DEF Report
    <2>3. Pending("tool_result")' = Pending("tool_result")
        BY <2>2, EmitPending DEF One, Result, Pending
    <2> QED BY <1>k, <2>1, <2>3
<1>10. CASE Fail
    <2>1. gen' = "closing" /\ UNCHANGED <<queue, worker, toolRecords, saved, sent>>
        BY <1>10 DEF Fail, loopVars
    <2>2. Emit("error") \/ UNCHANGED <<stage, out>>
        BY <1>10 DEF Fail
    <2>3. Pending("tool_result")' = Pending("tool_result")
        BY <2>2, EmitPending DEF One, Result, Pending
    <2> QED BY <1>k, <2>1, <2>3
<1>11. CASE Close
    <2>1. Pending("tool_result")' = Pending("tool_result")
        BY <1>11 DEF Close, Pending
    <2> QED BY <1>11, <1>k, <2>1 DEF Close, loopVars
<1>12. CASE Disconnect \/ UNCHANGED vars
    <2>1. Pending("tool_result")' = Pending("tool_result")
        BY <1>12 DEF Disconnect, vars, turnVars, Pending
    <2> QED BY <1>12, <1>k, <2>1 DEF Disconnect, vars, loopVars, turnVars
<1>13. CASE Cancel
    <2>1. /\ UNCHANGED <<queue, worker, toolRecords, saved, sent>>
          /\ gen' = "ended" /\ Pending("tool_result")' = 0
        BY <1>13 DEF Cancel, loopVars, Pending
    <2> QED BY <2>1 DEF AuditInv
<1>14. CASE Crash
    <2>1. UNCHANGED <<saved, sent>> /\ gen' = "dead" /\ Pending("tool_result")' = 0
        BY <1>14 DEF Crash, Pending
    <2>2. queue' = <<>>
        BY <1>14 DEF Crash
    <2> QED BY <2>1, <2>2 DEF AuditInv
<1>15. CASE WorkerStep
    BY <1>15, AuditLoopStep DEF WorkerStep
<1> QED BY <1>1, <1>2, <1>3, <1>4, <1>5, <1>6, <1>7, <1>8, <1>9, <1>10, <1>11, <1>12,
           <1>13, <1>14, <1>15 DEF Next, GenStep

\* The tool_result cards a client was shown are the answered tool calls of the
\* committed audit trail, one by one, however the worker's puts, the
\* generator's steps, a disconnection and a crash interleave: the sentinel is
\* the last item, so a turn that is saved has shown every item before it.
THEOREM AuditMatches == Spec => []AuditMatchesStream
<1>1. TypeInv /\ AuditInv => AuditMatchesStream
    <2> SUFFICES ASSUME TypeInv, AuditInv, saved # NothingSaved
                 PROVE  Count(sent, "tool_result") =
                            Cardinality({i \in DOMAIN saved.records : saved.records[i].tool \notin MetaTools})
        BY DEF AuditMatchesStream
    <2>1. Matches(sent, Result) = {i \in DOMAIN sent : sent[i] = "tool_result"}
        BY DEF Matches, Result
    <2>2. saved.records \in Seq(ToolRecord)
        BY DEF TypeInv, TypeOK
    <2>3. \A i \in DOMAIN saved.records : saved.records[i] \in ToolRecord
        BY <2>2
    <2>4. Matches(saved.records, Executed)
            = {i \in DOMAIN saved.records : saved.records[i].tool \notin MetaTools}
        BY <2>3 DEF Matches, Executed
    <2> QED BY <2>1, <2>4 DEF AuditInv, Count
<1>2. Spec => []TypeInv
    BY TypeInit, TypeStep, PTL DEF Spec
<1> QED BY <1>1, <1>2, AuditInit, AuditStep, PTL DEF Spec

-----------------------------------------------------------------------------
(* What the client is told of the experiments that were committed.         *)

Created == "experiment_created"
\* Commit to announce: told, being told and still to tell.
Committed == Cardinality(Designs(saved.records))
ReportsLeft == reports.experiments

ReportInv ==
    /\ cancelled => gen = "ended"
    /\ gen # "dead" /\ ~cancelled =>
          Cardinality(Matches(sent, {Created})) + Pending(Created) + ReportsLeft = Committed
    /\ Cardinality(Matches(sent, {Created})) + Pending(Created) <= Committed
    /\ gen \notin {"reporting", "dead"} /\ ~cancelled => ReportsLeft = 0

LEMMA ReportInit == Init => ReportInv
<1> SUFFICES ASSUME Init PROVE ReportInv
    OBVIOUS
<1>1. /\ sent = <<>> /\ Pending(Created) = 0 /\ gen = "loading"
      /\ saved.records = <<>> /\ ReportsLeft = 0 /\ cancelled = FALSE
    BY DEF Init, Pending, NothingSaved, NoReports, ReportsLeft
<1>2. Cardinality(Matches(sent, {Created})) = 0
    BY <1>1, MatchesNothing
<1>3. Designs(saved.records) = {}
    BY <1>1 DEF Designs
<1>4. Committed = 0
    BY <1>3, FS_EmptySet DEF Committed
<1> QED BY <1>1, <1>2, <1>4 DEF ReportInv

LEMMA ReportStep == TypeInv /\ AuditInv /\ ReportInv /\ [Next]_vars => ReportInv'
<1> SUFFICES ASSUME TypeInv, AuditInv, ReportInv, [Next]_vars PROVE ReportInv'
    OBVIOUS
<1>q. sent \in Seq(EventTypes) /\ saved.records \in Seq(ToolRecord)
      /\ toolRecords \in Seq(ToolRecord) /\ ReportsLeft \in Nat
    BY DEF TypeInv, TypeOK, LoopTypeOK, ReportsLeft
<1> PICK a : a = Cardinality(Matches(sent, {Created}))
    OBVIOUS
<1> PICK p \in {0, 1} : p = Pending(Created)
    BY DEF Pending
<1>a. a \in Nat /\ Committed \in Nat
    BY <1>q, MatchesFinite, DesignsFinite DEF Committed
\* A step that tells nothing of an experiment.
<1>k. ASSUME UNCHANGED <<saved, sent, reports, cancelled>>, Pending(Created)' = Pending(Created),
             gen' = "reporting" => gen = "reporting",
             gen = "reporting" => gen' = "reporting",
             gen = "dead" => gen' = "dead",
             gen = "ended" => gen' = "ended"
      PROVE  ReportInv'
    BY <1>k DEF ReportInv, Committed, ReportsLeft
<1>1. CASE Flush \/ Store \/ CheckAge
    <2>1. Pending(Created)' = Pending(Created)
        BY <1>1 DEF Flush, Store, CheckAge, Pending
    <2> QED BY <1>1, <1>k, <2>1 DEF Flush, Store, CheckAge
<1>2. CASE Yield
    <2>1. /\ Pending(Created)' = 0
          /\ Cardinality(Matches(sent', {Created})) = a + p
        BY <1>2, YieldCounts
    <2>2. UNCHANGED <<saved, reports, gen, cancelled>>
        BY <1>2 DEF Yield
    <2>3. a + p = a + p + 0
        BY <1>a
    <2> QED BY <2>1, <2>2, <2>3 DEF ReportInv, Committed, ReportsLeft
<1>3. CASE Load
    <2>1. Pending(Created)' = Pending(Created)
        BY <1>3 DEF Load, Pending
    <2> QED BY <1>3, <1>k, <2>1 DEF Load
<1>4. CASE Announce \/ LaunchWithoutKey
    <2>1. Pending(Created)' = Pending(Created)
        BY <1>4, EmitPending DEF Announce, LaunchWithoutKey, One, Created
    <2> QED BY <1>4, <1>k, <2>1 DEF Announce, LaunchWithoutKey
<1>5. CASE Launch
    <2>1. Pending(Created)' = Pending(Created)
        BY <1>5 DEF Launch, Pending
    <2> QED BY <1>5, <1>k, <2>1 DEF Launch
<1>6. CASE Drain
    <2>1. /\ gen = "draining" /\ stage = "idle" /\ gen' \in {"draining", "persisting", "failing"}
          /\ UNCHANGED <<saved, sent, reports, cancelled>>
        BY <1>6 DEF Drain
    <2>2. (Head(queue) \in LoopEvents /\ Emit(Head(queue))) \/ UNCHANGED <<stage, out>>
        BY <1>6 DEF Drain
    <2>3. Pending(Created)' = Pending(Created)
        BY <2>1, <2>2, EmitPending DEF One, Created, Pending, LoopEvents
    <2> QED BY <1>k, <2>1, <2>3
<1>7. CASE Persist
    <2>1. /\ gen = "persisting" /\ stage = "idle" /\ gen' = "reporting"
          /\ UNCHANGED <<sent, stage, cancelled>>
          /\ saved'.records = toolRecords
          /\ ReportsLeft' = Cardinality(Designs(toolRecords))
        BY <1>7 DEF Persist, ReportsLeft
    <2>2. Pending(Created) = 0 /\ Pending(Created)' = 0
        BY <2>1 DEF Pending
    <2>3. saved.records = <<>>
        BY <2>1 DEF AuditInv, NothingSaved
    <2>4. Designs(saved.records) = {}
        BY <2>3 DEF Designs
    <2>5. Committed = 0
        BY <2>4, FS_EmptySet DEF Committed
    <2>6. a = 0
        BY <1>a, <2>2, <2>5 DEF ReportInv
    <2>7. Committed' = ReportsLeft' /\ Committed' \in Nat
        BY <1>q, <2>1, DesignsFinite DEF Committed
    <2>8. ~cancelled
        BY <2>1 DEF ReportInv
    <2> QED BY <2>1, <2>2, <2>6, <2>7, <2>8 DEF ReportInv
<1>8. CASE Raise
    <2>1. Pending(Created)' = Pending(Created)
        BY <1>8 DEF Raise, Pending
    <2> QED BY <1>8, <1>k, <2>1 DEF Raise
<1>9. CASE Report
    <2>1. gen = "reporting" /\ UNCHANGED <<saved, sent, cancelled>> /\ ~cancelled
        BY <1>9 DEF Report, ReportInv
    <2>2. a + p + ReportsLeft = Committed
        BY <2>1 DEF ReportInv
    <2>3. Cardinality(Matches(sent', {Created})) = a /\ Committed' = Committed
        BY <2>1 DEF Committed
    <2>4. CASE /\ reports.experiments > 0 /\ Emit("experiment_created")
               /\ reports' = [reports EXCEPT !.experiments = @ - 1] /\ UNCHANGED gen
        <3>1. p = 0 /\ Pending(Created)' = 1
            BY <2>4, EmitPending DEF One, Created
        <3>2. ReportsLeft' = ReportsLeft - 1 /\ ReportsLeft > 0
            BY <2>4 DEF TypeInv, TypeOK, ReportsLeft
        <3>3. a + 1 + (ReportsLeft - 1) = Committed /\ a + 1 <= Committed
            BY <1>a, <1>q, <2>2, <3>1, <3>2
        <3> QED BY <2>1, <2>3, <2>4, <3>1, <3>2, <3>3 DEF ReportInv
    <2>5. CASE /\ Emit("simulator_created")
               /\ reports' = [reports EXCEPT !.simulators = @ - 1] /\ UNCHANGED gen
        <3>1. p = 0 /\ Pending(Created)' = 0
            BY <2>5, EmitPending DEF One, Created
        <3>2. ReportsLeft' = ReportsLeft
            BY <2>5 DEF TypeInv, TypeOK, ReportsLeft
        <3> QED BY <2>1, <2>2, <2>3, <2>5, <3>1, <3>2 DEF ReportInv
    <2>6. CASE /\ reports = NoReports /\ gen' = "closing"
               /\ UNCHANGED <<stage, out, reports>>
        <3>1. Pending(Created)' = Pending(Created)
            BY <2>6 DEF Pending
        <3>2. ReportsLeft = 0 /\ ReportsLeft' = 0
            BY <2>6 DEF ReportsLeft, NoReports
        <3> QED BY <2>1, <2>2, <2>3, <2>6, <3>1, <3>2 DEF ReportInv
    <2> QED BY <1>9, <2>4, <2>5, <2>6 DEF Report
<1>10. CASE Fail
    <2>1. gen = "failing" /\ gen' = "closing" /\ UNCHANGED <<saved, sent, reports, cancelled>>
        BY <1>10 DEF Fail
    <2>2. Emit("error") \/ UNCHANGED <<stage, out>>
        BY <1>10 DEF Fail
    <2>3. Pending(Created)' = Pending(Created)
        BY <2>2, EmitPending DEF One, Created, Pending
    <2> QED BY <1>k, <2>1, <2>3
<1>11. CASE Close
    <2>1. Pending(Created)' = Pending(Created)
        BY <1>11 DEF Close, Pending
    <2> QED BY <1>11, <1>k, <2>1 DEF Close
<1>12. CASE Disconnect \/ WorkerStep \/ UNCHANGED vars
    <2>1. Pending(Created)' = Pending(Created)
        BY <1>12 DEF Disconnect, WorkerStep, vars, turnVars, Pending
    <2> QED BY <1>12, <1>k, <2>1 DEF Disconnect, WorkerStep, vars, turnVars
<1>13. CASE Cancel
    <2>1. UNCHANGED <<saved, sent>> /\ gen' = "ended" /\ cancelled' = TRUE /\ Pending(Created)' = 0
        BY <1>13 DEF Cancel, Pending
    <2>2. a + 0 <= Committed
        BY <1>a DEF ReportInv
    <2> QED BY <2>1, <2>2 DEF ReportInv, Committed
<1>14. CASE Crash
    <2>1. /\ UNCHANGED <<saved, sent, cancelled>> /\ gen' = "dead" /\ Pending(Created)' = 0
          /\ gen \notin {"ended", "dead"}
        BY <1>14 DEF Crash, Pending
    <2>2. a + 0 <= Committed /\ ~cancelled
        BY <1>a, <2>1 DEF ReportInv
    <2> QED BY <2>1, <2>2 DEF ReportInv, Committed
<1> QED BY <1>1, <1>2, <1>3, <1>4, <1>5, <1>6, <1>7, <1>8, <1>9, <1>10, <1>11, <1>12,
           <1>13, <1>14 DEF Next, GenStep

\* A client is told of an experiment only after the transaction that holds it,
\* and one that stays to the end of the turn is told of every one, whatever
\* the worker did in the meantime.
THEOREM ReportsMatch == Spec => []ReportsMatchCommit
<1>1. TypeInv /\ EndInv /\ ReportInv => ReportsMatchCommit
    <2> SUFFICES ASSUME TypeInv, EndInv, ReportInv PROVE ReportsMatchCommit
        OBVIOUS
    <2> PICK a : a = Cardinality(Matches(sent, {Created}))
        OBVIOUS
    <2>1. a \in Nat /\ Committed \in Nat /\ Pending(Created) \in {0, 1}
        BY MatchesFinite, DesignsFinite DEF TypeInv, TypeOK, Pending, Committed
    <2>2. Matches(sent, {Created}) = {i \in DOMAIN sent : sent[i] = "experiment_created"}
        BY DEF Matches, Created
    <2>3. Count(sent, "experiment_created") = a
        BY <2>2 DEF Count
    <2>4. a <= Committed
        BY <2>1 DEF ReportInv
    <2>5. gen = "ended" /\ ~cancelled => a = Committed
        <3> SUFFICES ASSUME gen = "ended", ~cancelled PROVE a = Committed
            OBVIOUS
        <3>1. Pending(Created) = 0
            BY DEF EndInv, Pending
        <3>2. a + 0 + 0 = Committed
            BY <3>1 DEF ReportInv
        <3> QED BY <2>1, <3>2
    <2> QED BY <2>3, <2>4, <2>5 DEF ReportsMatchCommit, Committed
<1>2. Spec => []TypeInv
    BY TypeInit, TypeStep, PTL DEF Spec
<1>3. Spec => []AuditInv
    BY <1>2, AuditInit, AuditStep, PTL DEF Spec
<1>4. Spec => []EndInv
    BY <1>2, EndInit, EndStep, PTL DEF Spec
<1> QED BY <1>1, <1>2, <1>3, <1>4, ReportInit, ReportStep, PTL DEF Spec

=============================================================================
