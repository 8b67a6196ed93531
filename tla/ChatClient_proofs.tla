--------------------------- MODULE ChatClient_proofs ---------------------------
(***************************************************************************)
(* Proof that the browser's side of a chat turn keeps its types, and that  *)
(* the text in the bubble has no hole, for any number of breaks, replays   *)
(* and readers that run side by side.                                      *)
(*                                                                         *)
(* The server's part is that a piece of text that was shown and is not in  *)
(* the log comes after every row of the log (Unlogged), so that a replay   *)
(* never jumps over it.  The client's part is that each reader that is     *)
(* left, the live one and every replay, still holds or follows what the    *)
(* bubble lacks (LiveInv, ReplayInv).                                      *)
(***************************************************************************)
EXTENDS ChatClient, ChatTurnLog_proofs

-----------------------------------------------------------------------------
(* The server: which text the log may lack.                                *)

\* A turn whose conversation is not committed logs nothing, and the text of
\* one that is goes through the batch.
Batched ==
    /\ conversation # "saved" => log = {}
    /\ stage \in {"flush", "store"} => out # "token"
    /\ stage = "yield" /\ out = "token" /\ conversation = "saved" => tokenBuf # NoBatch

\* Text that was shown and is not in the log is in the open batch, or it was
\* in the batch when the turn was cut off; either way it is behind every row.
Unlogged ==
    conversation = "saved" /\ storeFailures = 0 =>
        \A i \in 1..Len(sent) : ~Logged(i) =>
            /\ \A r \in log : r.seq < i
            /\ ~Over => tokenBuf # NoBatch /\ tokenBuf.first <= i /\ i <= tokenBuf.last

ServerInv == LogInv /\ Batched /\ Unlogged

LEMMA BatchedStep == LogInv /\ Batched /\ [Next]_vars => Batched'
<1> SUFFICES ASSUME LogInv, Batched, [Next]_vars PROVE Batched'
    OBVIOUS
<1>t. TokenRow \in Row
    BY RowTypes DEF LogInv
<1>1. CASE Flush \/ Store \/ Yield \/ CheckAge
    BY <1>1 DEF Flush, Store, Yield, CheckAge, StoreRow, Batched, LogInv, Batch
<1>2. CASE Load
    BY <1>2 DEF Load, Batched, LogInv, Numbering, Rows
<1>3. CASE \E type \in EventTypes : Emit(type) /\ UNCHANGED <<conversation, log>>
    BY <1>3 DEF Emit, Batched, NoBatch, LogInv, TypeOK
<1>4. ASSUME UNCHANGED <<stage, out, conversation, tokenBuf, log>> PROVE Batched'
    BY <1>4 DEF Batched
<1>5. {"conversation_id", "experiment_created", "simulator_created", "error"} \cup LoopEvents
        \subseteq EventTypes
    BY DEF EventTypes, LoopEvents
<1>6. CASE Announce \/ LaunchWithoutKey \/ Drain \/ Report \/ Fail
    BY <1>3, <1>4, <1>5, <1>6 DEF Announce, LaunchWithoutKey, Drain, Report, Fail
<1>7. CASE Launch \/ Persist \/ Raise \/ Disconnect \/ WorkerStep \/ UNCHANGED vars
    BY <1>4, <1>7 DEF Launch, Persist, Raise, Disconnect, WorkerStep, vars, turnVars
<1>8. CASE Close \/ Cancel \/ Crash
    BY <1>8 DEF Close, Cancel, Crash, StoreRow, Batched, LogInv, Batch, Numbering
<1> QED BY <1>1, <1>2, <1>6, <1>7, <1>8 DEF Next, GenStep

LEMMA UnloggedStep ==
    LogInv /\ LogInv' /\ Batched /\ Unlogged /\ [Next]_vars => Unlogged'
<1> DEFINE Behind(i) ==
             /\ \A r \in log : r.seq < i
             /\ ~Over => tokenBuf # NoBatch /\ tokenBuf.first <= i /\ i <= tokenBuf.last
<1> SUFFICES ASSUME LogInv, LogInv', Batched, Unlogged, [Next]_vars,
                    conversation' = "saved", storeFailures' = 0,
                    NEW i \in 1..Len(sent'), ~Logged(i)'
             PROVE  Behind(i)'
    BY DEF Unlogged
<1> USE NumberingTypes DEF LogInv
<1>t. TokenRow \in Row /\ TokenRow.first = tokenBuf.first /\ TokenRow.seq = tokenBuf.last
    BY RowTypes DEF TokenRow
<1>0. i \in Nat
    BY DEF TypeOK
\* A step that shows and logs nothing and keeps the batch, which may grow.
<1>k. ASSUME UNCHANGED <<conversation, log, sent, storeFailures>>,
             ~Over' /\ tokenBuf # NoBatch =>
                 tokenBuf' # NoBatch /\ tokenBuf'.first = tokenBuf.first
                     /\ tokenBuf'.last >= tokenBuf.last,
             ~Over' => ~Over
      PROVE  Behind(i)'
    <2>1. Behind(i)
        BY <1>k DEF Unlogged, Logged
    <2>2. tokenBuf \in [first : Nat, last : Nat] /\ tokenBuf' \in [first : Nat, last : Nat]
        BY DEF TypeOK
    <2> QED BY <1>0, <1>k, <2>1, <2>2
\* The batch is logged: what is still not was lost before.
<1>b. ASSUME conversation = "saved", StoreRow(TokenRow), ~Over, UNCHANGED sent
      PROVE  FALSE
    <2>1. log' = log \cup {TokenRow} /\ storeFailures = 0
        BY <1>b DEF StoreRow
    <2>2. ~Logged(i) /\ ~(tokenBuf.first <= i /\ i <= tokenBuf.last)
        BY <1>t, <2>1 DEF Logged
    <2> QED BY <1>b, <2>1, <2>2 DEF Unlogged
<1>1. CASE Flush
    BY <1>1, <1>b DEF Flush, Numbering, Batch, Rows
<1>2. CASE Store
    <2>1. ~Over /\ tokenBuf = NoBatch /\ conversation = "saved" /\ storeFailures = 0
        BY <1>2 DEF Store, StoreRow, Numbering, Batch
    <2>2. ~Logged(i) /\ i \in 1..Len(sent)
        BY <1>2 DEF Store, StoreRow, Logged
    <2> QED BY <2>1, <2>2 DEF Unlogged
<1>3. CASE Yield
    <2>1. /\ eventSeq = Len(sent) + 1 /\ Len(sent') = Len(sent) + 1 /\ ~Over /\ ~bareError
          /\ UNCHANGED <<gen, conversation, log, tokenBuf, storeFailures>>
          /\ stage = "yield" /\ conversation = "saved" /\ storeFailures = 0
        BY <1>3 DEF Yield, Numbering, TypeOK, Over
    <2>2. CASE i \in 1..Len(sent)
        BY <2>1, <2>2 DEF Unlogged, Logged, Over
    <2>3. CASE i = eventSeq
        <3>1. out = "token"
            BY <2>1, <2>3 DEF Stored, Logged
        <3>2. tokenBuf # NoBatch /\ tokenBuf.last = eventSeq /\ tokenBuf.first <= eventSeq
            BY <2>1, <3>1 DEF Batched, Batch
        <3>3. \A r \in log : r.seq < tokenBuf.first
            BY <3>2 DEF Rows
        <3> QED BY <2>1, <2>3, <3>2, <3>3
    <2>4. i \in 1..Len(sent) \/ i = eventSeq
        BY <2>1
    <2> QED BY <2>2, <2>3, <2>4
<1>4. CASE CheckAge
    BY <1>4, <1>k, <1>b DEF CheckAge, Numbering, Batch, Rows, Over
<1>5. CASE Load
    <2>1. Len(sent) = 0 /\ sent' = sent
        BY <1>5 DEF Load, Numbering
    <2> QED BY <2>1
<1>6. CASE \E type \in EventTypes :
             /\ Emit(type) /\ UNCHANGED <<conversation, log, sent, storeFailures>>
             /\ ~Over' => ~Over
    <2>1. tokenBuf # NoBatch =>
              tokenBuf' # NoBatch /\ tokenBuf'.first = tokenBuf.first
                  /\ tokenBuf'.last >= tokenBuf.last
        BY <1>6 DEF Emit, Batch, NoBatch
    <2> QED BY <1>6, <1>k, <2>1
<1>7. {"conversation_id", "experiment_created", "simulator_created", "error"} \cup LoopEvents
        \subseteq EventTypes
    BY DEF EventTypes, LoopEvents
<1>8. CASE Announce \/ LaunchWithoutKey \/ Drain \/ Report \/ Fail
    <2>1. UNCHANGED <<conversation, log, sent, storeFailures>> /\ ~Over
        BY <1>8 DEF Announce, LaunchWithoutKey, Drain, Report, Fail, Over
    <2>2. (\E type \in EventTypes : Emit(type)) \/ UNCHANGED tokenBuf
        BY <1>7, <1>8 DEF Announce, LaunchWithoutKey, Drain, Report, Fail
    <2>3. CASE UNCHANGED tokenBuf
        BY <1>k, <2>1, <2>3
    <2> QED BY <1>6, <2>1, <2>2, <2>3
<1>9. CASE Launch \/ Persist \/ Raise \/ Disconnect \/ WorkerStep \/ UNCHANGED vars
    <2>1. UNCHANGED <<conversation, log, sent, storeFailures, tokenBuf>> /\ (~Over' => ~Over)
        BY <1>9 DEF Launch, Persist, Raise, Disconnect, WorkerStep, vars, turnVars, Over
    <2> QED BY <1>k, <2>1
<1>10. CASE Close \/ Cancel
    <2>1. ~Over /\ Over' /\ UNCHANGED <<conversation, sent>>
        BY <1>10 DEF Close, Cancel, Over
    <2> QED BY <1>10, <1>k, <1>b, <2>1 DEF Close, Cancel
<1>11. CASE Crash
    BY <1>11, <1>k DEF Crash, Over
<1> QED BY <1>1, <1>2, <1>3, <1>4, <1>5, <1>8, <1>9, <1>10, <1>11 DEF Next, GenStep

LEMMA ServerInit == Init => ServerInv
<1> SUFFICES ASSUME Init PROVE Batched /\ Unlogged
    BY LogInit DEF ServerInv
<1>1. Len(sent) = 0 /\ log = {} /\ stage = "idle"
    BY DEF Init
<1> QED BY <1>1 DEF Batched, Unlogged

LEMMA ServerKeeps == ServerInv /\ TypeOK' /\ [Next]_vars => ServerInv'
    BY LogStep, BatchedStep, UnloggedStep DEF ServerInv

-----------------------------------------------------------------------------
(* What a step of the server adds: an event shown, or a row.               *)

LEMMA StepGrows ==
    LogInv /\ [Next]_vars =>
        /\ storeFailures' \in {storeFailures, storeFailures + 1}
        /\ \/ UNCHANGED <<log, sent>>
           \/ Yield
           \/ sent' = sent /\ tokenBuf # NoBatch /\ log' = log \cup {TokenRow}
           \/ Store /\ log' = log \cup {EventRow}
<1> SUFFICES ASSUME LogInv, [Next]_vars
             PROVE  /\ storeFailures' \in {storeFailures, storeFailures + 1}
                    /\ \/ UNCHANGED <<log, sent>>
                       \/ Yield
                       \/ sent' = sent /\ tokenBuf # NoBatch /\ log' = log \cup {TokenRow}
                       \/ Store /\ log' = log \cup {EventRow}
    OBVIOUS
<1>1. CASE Flush \/ CheckAge \/ Close \/ Cancel
    BY <1>1 DEF Flush, CheckAge, Close, Cancel, StoreRow, LogInv, Batch
<1>2. CASE Store
    BY <1>2 DEF Store, StoreRow
<1>3. CASE Yield
    BY <1>3 DEF Yield
<1>4. CASE Load \/ Announce \/ Launch \/ LaunchWithoutKey \/ Drain \/ Persist \/ Raise \/ Report \/ Fail
    BY <1>4 DEF Load, Announce, Launch, LaunchWithoutKey, Drain, Persist, Raise, Report, Fail
<1>5. CASE Disconnect \/ Crash \/ WorkerStep \/ UNCHANGED vars
    BY <1>5 DEF Disconnect, Crash, WorkerStep, vars, turnVars
<1> QED BY <1>1, <1>2, <1>3, <1>4, <1>5 DEF Next, GenStep

\* Event i is text, as far as the stream and the log tell.
IsText(i) ==
    \/ i \in 1..Len(sent) /\ sent[i] = "token"
    \/ \E r \in log : r.type = "token" /\ r.first <= i /\ i <= r.seq

LEMMA TextIsText == TypeOK => \A i : i \in TextIds <=> i \in Nat /\ IsText(i)
<1> SUFFICES ASSUME TypeOK, NEW i PROVE i \in TextIds <=> i \in Nat /\ IsText(i)
    OBVIOUS
<1>1. /\ DOMAIN sent = 1..Len(sent)
      /\ \A r \in log : r.first \in Nat /\ r.seq \in Nat
    BY DEF TypeOK, Row
<1>2. \A r \in log : i \in r.first..r.seq <=> i \in Nat /\ r.first <= i /\ i <= r.seq
    BY <1>1
<1>3. i \in UNION {r.first..r.seq : r \in {x \in log : x.type = "token"}}
        <=> i \in Nat /\ \E r \in log : r.type = "token" /\ r.first <= i /\ i <= r.seq
    BY <1>2
<1>4. i \in {j \in DOMAIN sent : sent[j] = "token"}
        <=> i \in Nat /\ i \in 1..Len(sent) /\ sent[i] = "token"
    BY <1>1
<1> QED BY <1>3, <1>4 DEF TextIds, IsText

\* The same after a step.
LEMMA TextIsTextNext == TypeOK' => (\A i : i \in TextIds <=> i \in Nat /\ IsText(i))'
    BY TextIsText, PTL

\* Something of event i was given away.
Reached(i) == i <= Len(sent) \/ \E r \in log : i <= r.seq

\* Text that a step of the server brings lies ahead of all that was given away.
LEMMA NewTextIsAhead ==
    ASSUME ServerInv, ServerInv', [Next]_vars, NEW i \in TextIds', NEW j \in Nat, Reached(j), i <= j
    PROVE  i \in TextIds
<1> USE NumberingTypes DEF ServerInv, LogInv
<1>1. i \in Nat /\ IsText(i)'
    <2>1. TypeOK'
        OBVIOUS
    <2> QED BY <2>1, TextIsTextNext
<1>2. CASE UNCHANGED <<log, sent>>
    BY <1>2 DEF TextIds
<1>3. CASE Yield
    <2>1. /\ eventSeq = Len(sent) + 1 /\ Len(sent') = Len(sent) + 1 /\ log' = log /\ stage = "yield"
          /\ \A k \in 1..Len(sent) : sent'[k] = sent[k]
          /\ sent'[eventSeq] = out
        BY <1>3 DEF Yield, Numbering, TypeOK
    <2>2. ASSUME ~IsText(i) PROVE FALSE
        <3>1. i = eventSeq /\ out = "token"
            BY <1>1, <2>1, <2>2 DEF IsText
        <3>2. PICK r \in log : j <= r.seq
            BY <2>1, <3>1 DEF Reached
        <3>3. conversation = "saved" /\ tokenBuf # NoBatch
            BY <2>1, <3>1, <3>2 DEF Batched
        <3>4. r.seq < tokenBuf.first /\ tokenBuf.first <= eventSeq
            BY <3>2, <3>3 DEF Rows, Batch
        <3> QED BY <3>1, <3>2, <3>4
    <2> QED BY <1>1, <2>2, TextIsText
<1>4. CASE sent' = sent /\ tokenBuf # NoBatch /\ log' = log \cup {TokenRow}
    <2> PICK row : row = TokenRow
        OBVIOUS
    <2>1. row.first = tokenBuf.first /\ row.seq = tokenBuf.last
        BY DEF TokenRow
    <2>2. ASSUME ~IsText(i) PROVE FALSE
        <3>1. tokenBuf.first <= i /\ i <= tokenBuf.last
            BY <1>1, <1>4, <2>1, <2>2 DEF IsText
        <3>2. ~(i \in 1..Len(sent))
            BY <1>4, <2>2, <3>1 DEF Batch, IsText
        <3>3. 1 <= i
            BY <1>1, <1>4, <3>1 DEF Batch
        <3>4. Len(sent) < i
            BY <1>1, <3>2, <3>3
        <3>5. PICK r \in log : j <= r.seq
            BY <1>1, <3>4 DEF Reached
        <3>6. r.seq < tokenBuf.first
            BY <1>4, <3>5 DEF Rows
        <3> QED BY <1>1, <3>1, <3>5, <3>6
    <2> QED BY <1>1, <2>2, TextIsText
<1>5. CASE Store /\ log' = log \cup {EventRow}
    <2>1. EventRow.type # "token" /\ sent' = sent
        BY <1>5 DEF EventRow, Store, Batched
    <2>2. IsText(i)
        BY <1>1, <1>5, <2>1 DEF IsText
    <2> QED BY <1>1, <2>2, TextIsText
<1> QED BY <1>2, <1>3, <1>4, <1>5, StepGrows

-----------------------------------------------------------------------------
(* The client: what a dispatched event does.                               *)

Attempts == [state : {"unused", "timer", "probing", "open", "closed"},
             rows : SUBSET log, marker : BOOLEAN]
Resumes == [Attempt -> Attempts]

\* The replays hold what they held.
SameRows(pool) == \A a \in Attempt : resume'[a].rows = pool[a].rows

LEMMA OnErrorKeeps ==
    ASSUME ClientTypeOK, NEW pool \in Resumes, OnError(pool)
    PROVE  /\ streaming' \in BOOLEAN /\ attempts' \in 0..MaxResume /\ resume' \in Resumes
           /\ outcome' \in {"none", "done", "error", "interrupted", "cancelled"}
           /\ SameRows(pool)
<1>1. CASE known /\ attempts < MaxResume /\ streaming
    <2>1. attempts' = attempts + 1 /\ resume' = [pool EXCEPT ![attempts + 1].state = "timer"]
          /\ UNCHANGED <<streaming, outcome>>
        BY <1>1 DEF OnError
    <2>2. attempts + 1 \in 0..MaxResume
        BY <1>1, ClientAssumption DEF ClientTypeOK
    <2>3. resume' \in Resumes
        BY <2>1 DEF Resumes, Attempts
    <2>4. SameRows(pool)
        BY <2>1 DEF SameRows, Resumes, Attempts
    <2> QED BY <2>1, <2>2, <2>3, <2>4 DEF ClientTypeOK
<1>2. CASE ~(known /\ attempts < MaxResume /\ streaming)
    <2>1. Conclude("error") /\ resume' = pool /\ UNCHANGED attempts
        BY <1>2 DEF OnError
    <2> QED BY <2>1 DEF Conclude, ClientTypeOK, SameRows
<1> QED BY <1>1, <1>2

\* The events a reader may dispatch.
Dispatched == [first : Nat, seq : Nat, type : EventTypes \cup {"interrupted"}]

\* The text of an event is added to the bubble, in the order of the stream.
Adds(row) ==
    \E n \in Nat, m \in Nat :
        /\ n = Len(rendered)
        /\ m = IF row.type = "token" THEN row.seq - row.first + 1 ELSE 0
        /\ rendered' \in Seq(Nat) /\ Len(rendered') = n + m
        /\ \A p \in 1..n : rendered'[p] = rendered[p]
        /\ \A k \in 1..m : rendered'[n + k] = row.first + k - 1

LEMMA DispatchAdds ==
    ASSUME rendered \in Seq(Nat), NEW row \in Dispatched, NEW pool, Dispatch(row, pool),
           row.type = "token" => row.first <= row.seq
    PROVE  Adds(row)
<1> PICK n \in Nat : n = Len(rendered)
    OBVIOUS
<1>1. row.first \in Nat /\ row.seq \in Nat
    BY DEF Dispatched
<1>2. CASE row.type = "token"
    <2> PICK m \in Nat : m = row.seq - row.first + 1
        BY <1>1, <1>2
    <2> PICK f \in Nat : f = row.first
        BY <1>1
    <2> PICK more : more = [i \in 1..m |-> f + i - 1]
        OBVIOUS
    <2>1. more \in Seq(Nat) /\ Len(more) = m
        <3>1. \A i \in 1..m : f + i - 1 \in Nat
            OBVIOUS
        <3>2. more \in [1..m -> Nat]
            BY <3>1
        <3> QED BY ONLY <3>2, m \in Nat
    <2>2. rendered' = rendered \o more
        BY <1>1, <1>2 DEF Dispatch
    <2>3. /\ rendered' \in Seq(Nat) /\ Len(rendered') = n + m
          /\ \A p \in 1..n : rendered'[p] = rendered[p]
          /\ \A k \in 1..m : rendered'[n + k] = more[k]
        BY <2>1, <2>2
    <2>4. \A k \in 1..m : more[k] = row.first + k - 1
        OBVIOUS
    <2> QED BY <1>2, <2>3, <2>4 DEF Adds
<1>3. CASE row.type # "token"
    <2>1. rendered' = rendered
        BY <1>3 DEF Dispatch
    <2>2. \A k \in 1..0 : FALSE
        OBVIOUS
    <2> QED BY <1>3, <2>1, <2>2 DEF Adds
<1> QED BY <1>2, <1>3

LEMMA DispatchKeeps ==
    ASSUME ClientTypeOK, NEW row \in Dispatched, NEW pool \in Resumes, Dispatch(row, pool),
           row.seq <= eventSeq, row.type = "token" => row.first <= row.seq
    PROVE  /\ streaming' \in BOOLEAN /\ attempts' \in 0..MaxResume /\ resume' \in Resumes
           /\ outcome' \in {"none", "done", "error", "interrupted", "cancelled"}
           /\ known' \in BOOLEAN /\ lastId' \in 0..eventSeq
           /\ rendered' \in Seq(Nat)
           /\ SameRows(pool)
<1>1. rendered' \in Seq(Nat)
    BY DispatchAdds DEF ClientTypeOK, Adds
<1>2. known' \in BOOLEAN /\ lastId' \in 0..eventSeq
    <2>1. lastId' = IF row.seq = 0 THEN lastId ELSE row.seq
        BY DEF Dispatch
    <2>2. row.seq \in Nat /\ eventSeq \in Nat
        BY DEF Dispatched, ClientTypeOK, TypeOK
    <2> QED BY <2>1, <2>2 DEF Dispatch, ClientTypeOK
<1>3. \/ Conclude("done") /\ attempts' = 0 /\ resume' = pool
      \/ Conclude("interrupted") /\ attempts' = 0 /\ resume' = pool
      \/ OnError(pool)
      \/ UNCHANGED <<streaming, outcome, attempts>> /\ resume' = pool
    BY DEF Dispatch
<1>4. CASE OnError(pool)
    BY <1>1, <1>2, <1>4, OnErrorKeeps
<1>5. CASE \/ Conclude("done") /\ attempts' = 0 /\ resume' = pool
           \/ Conclude("interrupted") /\ attempts' = 0 /\ resume' = pool
           \/ UNCHANGED <<streaming, outcome, attempts>> /\ resume' = pool
    <2>1. /\ streaming' \in {FALSE, streaming} /\ attempts' \in {0, attempts} /\ resume' = pool
          /\ outcome' \in {outcome, "done", "interrupted"}
        BY <1>5 DEF Conclude
    <2>2. attempts' \in 0..MaxResume
        BY <2>1, ClientAssumption DEF ClientTypeOK
    <2>3. /\ streaming' \in BOOLEAN /\ SameRows(pool)
          /\ outcome' \in {"none", "done", "error", "interrupted", "cancelled"}
        BY <2>1 DEF ClientTypeOK, SameRows
    <2> QED BY <1>1, <1>2, <2>1, <2>2, <2>3
<1> QED BY <1>3, <1>4, <1>5

-----------------------------------------------------------------------------
(* The composition: to the server, the client is one that may go away.     *)

LEMMA ClientStepsAreTurnSteps == TypeOK /\ [ClientNext]_allVars => [Next]_vars
<1> SUFFICES ASSUME TypeOK, [ClientNext]_allVars PROVE [Next]_vars
    OBVIOUS
<1>1. CASE ServerStep
    BY <1>1 DEF ServerStep
<1>2. CASE ReaderStep
    BY <1>2 DEF ReaderStep, ReadLive, EndLive, LiveFails, ResumeOpens, ReplayProbes,
                ResumeFails, ReadReplay, EndReplay
<1>3. CASE CancelStream
    <2>1. /\ UNCHANGED <<loopVars, gen, stage, out, conversation, eventSeq, tokenBuf, log, sent,
                         bareError, reports, saved, cancelled, storeFailures>>
          /\ connected' \in {connected, FALSE} /\ connected \in BOOLEAN
        BY <1>3 DEF CancelStream, TypeOK
    <2>2. CASE connected' = connected
        BY <2>1, <2>2 DEF vars, turnVars
    <2>3. CASE connected /\ connected' = FALSE
        BY <2>1, <2>3 DEF Next, Disconnect
    <2> QED BY <2>1, <2>2, <2>3
<1>4. CASE UNCHANGED allVars
    BY <1>4 DEF allVars
<1> QED BY <1>1, <1>2, <1>3, <1>4 DEF ClientNext

\* Everything proved of a turn holds with a client that reads it, breaks off,
\* resumes and cancels: of the server's state it can only take its connection.
THEOREM ClientsLeaveTheTurn == ClientSpec => Spec /\ []ServerInv
<1>1. ClientSpec => Spec
    <2>1. Init /\ [][ClientNext]_allVars => []TypeInv
        <3>1. TypeInv /\ [ClientNext]_allVars => TypeInv'
            BY TypeStep, ClientStepsAreTurnSteps DEF TypeInv
        <3> QED BY <3>1, TypeInit, PTL
    <2>2. TypeInv /\ [ClientNext]_allVars => [Next]_vars
        BY ClientStepsAreTurnSteps DEF TypeInv
    <2> QED BY <2>1, <2>2, PTL DEF ClientSpec, Spec
<1>2. Spec => []ServerInv
    BY TypeCorrect, ServerInit, ServerKeeps, PTL DEF Spec
<1> QED BY <1>1, <1>2, PTL

LEMMA SeqGrows == [Next]_vars => eventSeq' \in {eventSeq, eventSeq + 1}
<1> SUFFICES ASSUME [Next]_vars PROVE eventSeq' \in {eventSeq, eventSeq + 1}
    OBVIOUS
<1>1. CASE GenStep
    BY <1>1 DEF GenStep, Flush, Store, Yield, CheckAge, Load, Announce, Launch, LaunchWithoutKey,
                Drain, Persist, Raise, Report, Fail, Close, Emit
<1>2. CASE Disconnect \/ Cancel \/ Crash \/ WorkerStep \/ UNCHANGED vars
    BY <1>2 DEF Disconnect, Cancel, Crash, WorkerStep, vars, turnVars
<1> QED BY <1>1, <1>2 DEF Next

-----------------------------------------------------------------------------
(* The text in the bubble.                                                 *)

InBubble(i) == \E q \in 1..Len(rendered) : rendered[q] = i

InOrder == \A p \in 1..Len(rendered) : \A i \in TextIds :
              i < rendered[p] => \E q \in 1..p : rendered[q] = i
UpToLast == \A i \in TextIds : i <= lastId => InBubble(i)

\* What the client has, the server has given away.
ReachInv == Reached(lastId) /\ \A p \in 1..Len(rendered) : Reached(rendered[p])

\* The live stream has skipped nothing.
LiveInv == live => \A i \in TextIds : i <= got => InBubble(i)

\* A replay still holds what the bubble lacks of the text before its rows.
ReplayInv ==
    \A a \in Attempt : \A r \in resume[a].rows : \A i \in TextIds :
        i < r.first => \/ InBubble(i)
                       \/ \E s \in resume[a].rows :
                             s.type = "token" /\ s.first <= i /\ i <= s.seq

Whole == storeFailures = 0 => InOrder /\ UpToLast /\ LiveInv /\ ReplayInv
ClientInv == ClientTypeOK /\ ReachInv /\ Whole

LEMMA ReachedMore ==
    ASSUME ServerInv, [Next]_vars, NEW j \in Nat, Reached(j)
    PROVE  (Reached(j))'
<1> USE NumberingTypes DEF ServerInv, LogInv
<1>1. log \subseteq log' /\ Len(sent) <= Len(sent')
    <2>1. Yield => Len(sent') = Len(sent) + 1 /\ log' = log
        BY DEF Yield, TypeOK
    <2>2. Store => sent' = sent
        BY DEF Store
    <2> QED BY <2>1, <2>2, StepGrows
<1>2. Len(sent') \in Nat \/ Len(sent') = Len(sent)
    BY StepGrows DEF Yield, Store, TypeOK
<1> QED BY <1>1, <1>2 DEF Reached

\* A step that gives the client nothing new to show.
LEMMA NothingShown ==
    ASSUME ServerInv, ServerInv', ClientInv, [Next]_vars,
           UNCHANGED <<lastId, got, rendered>>, live' => live,
           \A a \in Attempt : resume'[a].rows \in {resume[a].rows, {}}
    PROVE  ReachInv' /\ Whole'
<1> USE NumberingTypes DEF ServerInv, LogInv
<1>1. lastId \in Nat /\ got \in Nat /\ got <= Len(sent)
      /\ \A p \in 1..Len(rendered) : rendered[p] \in Nat
    BY DEF ClientInv, ClientTypeOK
<1>2. \A j \in Nat : Reached(j) => Reached(j)'
    BY ReachedMore
<1>3. \A i \in TextIds' : \A j \in Nat : Reached(j) /\ i <= j => i \in TextIds
    BY NewTextIsAhead
<1>4. ReachInv'
    BY <1>1, <1>2 DEF ClientInv, ReachInv
<1>5. ASSUME storeFailures' = 0 PROVE InOrder' /\ UpToLast' /\ LiveInv' /\ ReplayInv'
    <2>1. storeFailures = 0
        BY <1>5, StepGrows
    <2>2. InOrder'
        <3> SUFFICES ASSUME NEW p \in 1..Len(rendered), NEW i \in TextIds', i < rendered[p]
                     PROVE  \E q \in 1..p : rendered[q] = i
            BY DEF InOrder
        <3>1. i \in Nat /\ rendered[p] \in Nat /\ Reached(rendered[p])
            BY <1>1, TextIsTextNext DEF ClientInv, ReachInv
        <3>2. i \in TextIds
            BY <1>3, <3>1
        <3> QED BY <2>1, <3>2 DEF ClientInv, Whole, InOrder
    <2>3. \A i : InBubble(i)' <=> InBubble(i)
        BY DEF InBubble
    <2>4. UpToLast'
        BY <1>1, <1>3, <2>1, <2>3 DEF ClientInv, Whole, ReachInv, UpToLast
    <2>5. Reached(got)
        BY <1>1 DEF Reached
    <2>6. LiveInv'
        BY <1>1, <1>3, <2>1, <2>3, <2>5 DEF ClientInv, Whole, LiveInv
    <2>7. ReplayInv'
        <3> SUFFICES ASSUME NEW a \in Attempt, NEW r \in resume[a].rows, NEW i \in TextIds',
                            i < r.first, resume'[a].rows = resume[a].rows
                     PROVE  InBubble(i) \/ \E s \in resume[a].rows :
                                              s.type = "token" /\ s.first <= i /\ i <= s.seq
            BY <2>3 DEF ReplayInv
        <3>1. r \in log
            BY DEF ClientInv, ClientTypeOK
        <3>2. r.first <= r.seq /\ r.first \in Nat /\ r.seq \in Nat
            BY <3>1 DEF Rows
        <3>3. i \in Nat
            BY TextIsTextNext
        <3>4. i <= r.seq /\ Reached(r.seq)
            BY <3>1, <3>2, <3>3 DEF Reached
        <3>5. i \in TextIds
            BY <1>3, <3>2, <3>4
        <3> QED BY <2>1, <3>5 DEF ClientInv, Whole, ReplayInv
    <2> QED BY <2>2, <2>4, <2>6, <2>7
<1> QED BY <1>4, <1>5 DEF Whole

\* Places behind n, and places in a row.
LEMMA Beyond ==
    ASSUME NEW n \in Nat, NEW m \in Nat, NEW p \in 1..(n + m), p \notin 1..n
    PROVE  \E k \in 1..m : p = n + k
<1>1. p - n \in 1..m /\ p = n + (p - n)
    OBVIOUS
<1> QED BY <1>1

LEMMA PlaceInRow ==
    ASSUME NEW f \in Nat, NEW s \in Nat, NEW i \in Nat, f <= i, i <= s
    PROVE  \E k \in 1..(s - f + 1) : f + k - 1 = i
<1>1. i - f + 1 \in 1..(s - f + 1) /\ f + (i - f + 1) - 1 = i
    OBVIOUS
<1> QED BY <1>1

\* A reader gives the client nothing the server has not given away.
LEMMA DispatchReaches ==
    ASSUME ServerInv, ClientInv, UNCHANGED vars,
           NEW row \in Dispatched, row.type = "token" => row.first <= row.seq,
           Reached(row.seq), NEW pool, Dispatch(row, pool)
    PROVE  ReachInv'
<1> USE NumberingTypes DEF ServerInv, LogInv
<1> PICK s \in Nat : s = row.seq
    BY DEF Dispatched
<1> PICK f \in Nat : f = row.first
    BY DEF Dispatched
<1>2. UNCHANGED <<log, sent>>
    BY DEF vars, turnVars
<1>3. Reached(lastId')
    BY DEF Dispatch, ClientInv, ReachInv
<1>4. Adds(row)
    BY DispatchAdds DEF ClientInv, ClientTypeOK
<1> PICK n \in Nat, m \in Nat :
        /\ n = Len(rendered)
        /\ m = IF row.type = "token" THEN s - f + 1 ELSE 0
        /\ rendered' \in Seq(Nat) /\ Len(rendered') = n + m
        /\ \A p \in 1..n : rendered'[p] = rendered[p]
        /\ \A k \in 1..m : rendered'[n + k] = f + k - 1
    BY <1>4 DEF Adds
<1>5. \A k \in 1..m : Reached(f + k - 1)
    <2> SUFFICES ASSUME NEW k \in 1..m PROVE Reached(f + k - 1)
        OBVIOUS
    <2> PICK j \in Nat : j = f + k - 1
        BY ONLY k \in 1..m, f \in Nat, m \in Nat
    <2>1. m = s - f + 1 \/ m = 0
        OBVIOUS
    <2>2. j <= s
        BY ONLY <2>1, j = f + k - 1, k \in 1..m, f \in Nat, s \in Nat, m \in Nat
    <2>3. CASE s <= Len(sent)
        <3>1. Len(sent) \in Nat
            OBVIOUS
        <3>2. j <= Len(sent)
            BY ONLY <2>2, <2>3, <3>1, j \in Nat, s \in Nat
        <3> QED BY <3>2 DEF Reached
    <2>4. CASE \E r \in log : s <= r.seq
        <3> PICK r \in log : s <= r.seq
            BY <2>4
        <3>1. r.seq \in Nat
            OBVIOUS
        <3>2. j <= r.seq
            BY ONLY <2>2, s <= r.seq, <3>1, j \in Nat, s \in Nat
        <3> QED BY <3>2 DEF Reached
    <2> QED BY <2>3, <2>4 DEF Reached
<1>6. \A p \in 1..(n + m) : Reached(rendered'[p])
    <2> SUFFICES ASSUME NEW p \in 1..(n + m) PROVE Reached(rendered'[p])
        OBVIOUS
    <2>1. CASE p \in 1..n
        BY <2>1 DEF ClientInv, ReachInv
    <2>2. CASE p \notin 1..n
        <3> PICK k \in 1..m : p = n + k
            BY ONLY <2>2, Beyond, n \in Nat, m \in Nat, p \in 1..(n + m)
        <3>1. rendered'[p] = f + k - 1
            OBVIOUS
        <3> QED BY <1>5, <3>1
    <2> QED BY <2>1, <2>2
<1> QED BY <1>2, <1>3, <1>6 DEF ReachInv, Reached

\* An event with all the text before it in the bubble leaves it so.
LEMMA DispatchShows ==
    ASSUME ServerInv, ClientInv, UNCHANGED vars, InOrder,
           NEW row \in Dispatched, 1 <= row.first, row.first <= row.seq,
           NEW pool, Dispatch(row, pool),
           \A i \in TextIds : i < row.first => InBubble(i),
           row.type # "token" => \A i \in TextIds : ~(row.first <= i /\ i <= row.seq)
    PROVE  /\ InOrder' /\ UpToLast'
           /\ \A i \in TextIds : InBubble(i) \/ i <= row.seq => InBubble(i)'
<1> USE NumberingTypes DEF ServerInv, LogInv
<1> PICK s \in Nat : s = row.seq
    BY DEF Dispatched
<1> PICK f \in Nat : f = row.first
    BY DEF Dispatched
<1>1. \A i \in TextIds : i \in Nat
    BY TextIsText
<1>2. TextIds' = TextIds
    BY DEF vars, turnVars, TextIds
<1>3. Adds(row)
    BY DispatchAdds DEF ClientInv, ClientTypeOK
<1> PICK n \in Nat, m \in Nat :
        /\ n = Len(rendered)
        /\ m = IF row.type = "token" THEN s - f + 1 ELSE 0
        /\ rendered' \in Seq(Nat) /\ Len(rendered') = n + m
        /\ \A p \in 1..n : rendered'[p] = rendered[p]
        /\ \A k \in 1..m : rendered'[n + k] = f + k - 1
    BY <1>3 DEF Adds
<1>4. 1..n \subseteq 1..(n + m) /\ \A k \in 1..m : n + k \in 1..(n + m)
    BY ONLY n \in Nat, m \in Nat
<1>5. \A i \in TextIds : InBubble(i) => InBubble(i)'
    BY <1>4 DEF InBubble
\* The text of the row is in the bubble, each piece where it belongs.
<1>6. \A i \in TextIds : f <= i /\ i <= s => \E k \in 1..m : f + k - 1 = i
    <2> SUFFICES ASSUME NEW i \in TextIds, f <= i, i <= s PROVE \E k \in 1..m : f + k - 1 = i
        OBVIOUS
    <2>1. m = s - f + 1
        OBVIOUS
    <2>2. \E k \in 1..(s - f + 1) : f + k - 1 = i
        <3>1. i \in Nat
            BY <1>1
        <3> QED BY ONLY <3>1, PlaceInRow, f \in Nat, s \in Nat, f <= i, i <= s
    <2> QED BY <2>1, <2>2
<1>7. \A i \in TextIds : i <= s => InBubble(i)'
    <2> SUFFICES ASSUME NEW i \in TextIds, i <= s PROVE InBubble(i)'
        OBVIOUS
    <2>1. CASE i < f
        BY <1>5, <2>1
    <2>2. CASE f <= i
        <3> PICK k \in 1..m : f + k - 1 = i
            BY <1>6, <2>2
        <3>1. n + k \in 1..Len(rendered') /\ rendered'[n + k] = i
            BY <1>4
        <3> QED BY <3>1 DEF InBubble
    <2> QED BY <1>1, <2>1, <2>2
<1>8. UpToLast'
    <2>1. lastId' = s
        BY DEF Dispatch
    <2> QED BY <1>2, <1>7, <2>1 DEF UpToLast
<1>9. ASSUME NEW p \in 1..(n + m), NEW i \in TextIds, i < rendered'[p]
      PROVE  \E q \in 1..p : rendered'[q] = i
    <2>1. CASE p \in 1..n
        <3> PICK q \in 1..p : rendered[q] = i
            BY <1>9, <2>1 DEF InOrder
        <3>1. q \in 1..n
            BY <2>1
        <3> QED BY <3>1
    <2>2. CASE p \notin 1..n
        <3> PICK k \in 1..m : p = n + k
            BY ONLY <2>2, Beyond, n \in Nat, m \in Nat, p \in 1..(n + m)
        <3>1. i < f + k - 1
            BY <1>9
        <3>2. CASE i < f
            <4> PICK q \in 1..n : rendered[q] = i
                BY <3>2 DEF InBubble
            <4>1. q \in 1..p
                OBVIOUS
            <4> QED BY <4>1
        <3>3. CASE f <= i
            <4>1. m = s - f + 1 \/ m = 0
                OBVIOUS
            <4>2. i <= s
                BY ONLY <3>1, <4>1, <1>1, i \in TextIds, k \in 1..m, f \in Nat, s \in Nat, m \in Nat
            <4> PICK l \in 1..m : f + l - 1 = i
                BY <1>6, <3>3, <4>2
            <4>3. l <= k
                BY ONLY <3>1, f + l - 1 = i, l \in 1..m, k \in 1..m, f \in Nat, m \in Nat
            <4>4. n + l \in 1..p
                BY ONLY <4>3, p = n + k, l \in 1..m, k \in 1..m, n \in Nat, m \in Nat
            <4>5. rendered'[n + l] = f + l - 1
                OBVIOUS
            <4> QED BY <4>4, <4>5
        <3> QED BY ONLY <1>1, <3>2, <3>3, i \in TextIds, f \in Nat
    <2> QED BY <2>1, <2>2
<1>10. InOrder'
    BY <1>2, <1>9 DEF InOrder
<1> QED BY <1>5, <1>7, <1>8, <1>10

-----------------------------------------------------------------------------
(* The steps of the client.                                                *)

\* The types of what the client keeps, after a step that leaves the server's
\* state alone.
ClientTypes ==
    /\ streaming \in BOOLEAN /\ attempts \in 0..MaxResume /\ resume \in Resumes
    /\ outcome \in {"none", "done", "error", "interrupted", "cancelled"}
    /\ known \in BOOLEAN /\ lastId \in 0..eventSeq
    /\ live \in BOOLEAN /\ got \in 0..Len(sent)
    /\ rendered \in Seq(Nat)

LEMMA ClientTypesSplit == ClientTypeOK <=> TypeOK /\ ClientTypes
    BY DEF ClientTypeOK, ClientTypes, Resumes, Attempts

LEMMA ClientTypesSplitNext == (ClientTypeOK <=> TypeOK /\ ClientTypes)'
    BY ClientTypesSplit, PTL

LEMMA ClientStart == Init /\ ClientInit => ClientInv
<1> SUFFICES ASSUME Init, ClientInit PROVE ClientInv
    OBVIOUS
<1>1. TypeOK /\ Len(sent) = 0 /\ sent = <<>> /\ log = {} /\ eventSeq = 0
    BY TypeInit DEF TypeInv, Init
<1>2. \A a \in Attempt : resume[a].rows = {}
    BY DEF ClientInit, Idle
<1>3. resume \in Resumes
    BY DEF ClientInit, Idle, Resumes, Attempts
<1>4. ClientTypeOK
    <2>1. streaming = TRUE /\ outcome = "none" /\ known = FALSE /\ attempts = 0 /\ live = TRUE
        BY DEF ClientInit
    <2>2. lastId \in 0..eventSeq /\ got \in 0..Len(sent) /\ rendered \in Seq(Nat)
        BY <1>1 DEF ClientInit
    <2>3. attempts \in 0..MaxResume
        BY <2>1, ClientAssumption
    <2>4. ClientTypes
        BY <1>3, <2>1, <2>2, <2>3 DEF ClientTypes
    <2> QED BY <1>1, <2>4, ClientTypesSplit
<1>5. Len(rendered) = 0 /\ lastId = 0 /\ got = 0
    BY DEF ClientInit
<1>6. TextIds = {}
    BY <1>1 DEF TextIds
<1>7. ReachInv
    BY <1>1, <1>5 DEF ReachInv, Reached
<1>8. InOrder /\ UpToLast /\ LiveInv /\ ReplayInv
    BY <1>2, <1>6 DEF InOrder, UpToLast, LiveInv, ReplayInv
<1> QED BY <1>4, <1>7, <1>8 DEF ClientInv, Whole

\* The server goes on, or loses the client.
LEMMA ServerStepKeeps ==
    ASSUME ServerInv, ServerInv', ClientInv, [Next]_vars, UNCHANGED clientVars
    PROVE  ClientInv'
<1> USE NumberingTypes DEF ServerInv, LogInv
<1>1. UNCHANGED <<streaming, outcome, known, lastId, attempts, live, got, resume, rendered>>
    BY DEF clientVars
<1>2. ClientTypes
    BY ClientTypesSplit DEF ClientInv
<1>3. log \subseteq log' /\ Len(sent) <= Len(sent') /\ Len(sent') \in Nat
    <2>1. Yield => Len(sent') = Len(sent) + 1 /\ log' = log
        BY DEF Yield, TypeOK
    <2>2. Store => sent' = sent
        BY DEF Store
    <2> QED BY <2>1, <2>2, StepGrows
<1>4. resume' \in Resumes'
    BY <1>1, <1>2, <1>3 DEF ClientTypes, Resumes, Attempts
<1>5. lastId' \in 0..eventSeq' /\ got' \in 0..Len(sent')
    BY <1>1, <1>2, <1>3, SeqGrows DEF ClientTypes
<1>6. ClientTypes'
    BY <1>1, <1>2, <1>4, <1>5 DEF ClientTypes
<1>7. ClientTypeOK'
    BY <1>6, ClientTypesSplitNext
<1>8. ReachInv' /\ Whole'
    BY <1>1, NothingShown
<1> QED BY <1>7, <1>8 DEF ClientInv

\* A reader that shows nothing: only its types are left to prove.
LEMMA SilentReader ==
    ASSUME ServerInv, ServerInv', ClientInv, [Next]_vars,
           UNCHANGED <<log, sent, eventSeq, lastId, got, rendered>>, live' \in {live, FALSE},
           known' \in BOOLEAN,
           streaming' \in BOOLEAN, attempts' \in 0..MaxResume, resume' \in Resumes,
           outcome' \in {"none", "done", "error", "interrupted", "cancelled"},
           \A a \in Attempt : resume'[a].rows \in {resume[a].rows, {}}
    PROVE  ClientInv'
<1>1. ClientTypes
    BY ClientTypesSplit DEF ClientInv
<1>2. ClientTypes'
    BY <1>1 DEF ClientTypes, Resumes, Attempts
<1>3. ClientTypeOK'
    BY <1>2, ClientTypesSplitNext DEF ServerInv, LogInv
<1>4. live' => live
    BY <1>1 DEF ClientTypes
<1>5. UNCHANGED <<lastId, got, rendered>>
    OBVIOUS
<1>6. ReachInv' /\ Whole'
    BY <1>4, <1>5, NothingShown
<1> QED BY <1>3, <1>6 DEF ClientInv

\* The replays hold what they held, and the bubble has lost nothing.
LEMMA ReplayKept ==
    ASSUME ReplayInv, TextIds' = TextIds, \A i \in TextIds : InBubble(i) => InBubble(i)',
           SameRows(resume)
    PROVE  ReplayInv'
    BY DEF ReplayInv, SameRows

\* A row of one event that the client saw on the live stream.
LEMMA ReadLiveKeeps ==
    ASSUME ServerInv, ServerInv', ClientInv, ReadLive
    PROVE  ClientInv'
<1> USE NumberingTypes DEF ServerInv, LogInv
<1>1. ClientTypes /\ ClientTypeOK
    BY ClientTypesSplit DEF ClientInv
<1> PICK g \in Nat : g = got + 1
    BY <1>1 DEF ClientTypes
<1> PICK row : row = [first |-> g, seq |-> g, type |-> sent[g]]
    OBVIOUS
<1>2. live /\ g \in 1..Len(sent) /\ got' = g /\ Dispatch(row, resume) /\ UNCHANGED <<vars, live>>
    BY <1>1 DEF ReadLive, ClientTypes
<1>3. UNCHANGED <<log, sent, eventSeq, storeFailures>> /\ TextIds' = TextIds
    BY <1>2 DEF vars, turnVars, TextIds
<1>4. row \in Dispatched /\ row.first = g /\ row.seq = g /\ row.type = sent[g]
    BY <1>2, SMTT(60) DEF Dispatched, TypeOK
<1>5. g <= eventSeq /\ Reached(g) /\ 1 <= g
    BY <1>2 DEF Numbering, Reached
<1>6. resume \in Resumes
    BY <1>1 DEF ClientTypes
<1>7. /\ streaming' \in BOOLEAN /\ attempts' \in 0..MaxResume /\ resume' \in Resumes
      /\ outcome' \in {"none", "done", "error", "interrupted", "cancelled"}
      /\ known' \in BOOLEAN /\ lastId' \in 0..eventSeq
      /\ rendered' \in Seq(Nat)
      /\ SameRows(resume)
    BY <1>1, <1>2, <1>4, <1>5, <1>6, DispatchKeeps
<1>8. ClientTypes'
    BY <1>1, <1>2, <1>3, <1>7 DEF ClientTypes, Resumes, Attempts
<1>9. ReachInv'
    BY <1>2, <1>4, <1>5, DispatchReaches
<1>10. ASSUME storeFailures = 0 PROVE InOrder' /\ UpToLast' /\ LiveInv' /\ ReplayInv'
    <2>1. \A i \in TextIds : i < g => InBubble(i)
        <3> SUFFICES ASSUME NEW i \in TextIds, i < g PROVE InBubble(i)
            OBVIOUS
        <3>1. i \in Nat /\ got \in Nat
            BY <1>1, TextIsText DEF ClientTypes
        <3>2. i <= got
            BY ONLY <3>1, i < g, g = got + 1
        <3> QED BY <1>2, <1>10, <3>2 DEF ClientInv, Whole, LiveInv
    <2>2. row.type # "token" => \A i \in TextIds : ~(g <= i /\ i <= g)
        <3> SUFFICES ASSUME sent[g] # "token", NEW i \in TextIds, g <= i, i <= g PROVE FALSE
            BY <1>4
        <3>1. i = g /\ IsText(i)
            BY TextIsText
        <3>2. PICK r \in log : r.type = "token" /\ r.first <= g /\ g <= r.seq
            BY <3>1 DEF IsText
        <3> QED BY <1>2, <3>2 DEF Rows
    <2>3. /\ InOrder' /\ UpToLast'
          /\ \A i \in TextIds : InBubble(i) \/ i <= g => InBubble(i)'
        BY <1>2, <1>4, <1>5, <1>10, <2>1, <2>2, DispatchShows DEF ClientInv, Whole
    <2>4. LiveInv'
        BY <1>2, <1>3, <2>3 DEF LiveInv
    <2>5. ReplayInv'
        BY <1>3, <1>7, <1>10, <2>3, ReplayKept DEF ClientInv, Whole
    <2> QED BY <2>3, <2>4, <2>5
<1>11. ClientTypeOK'
    BY <1>8, ClientTypesSplitNext
<1> QED BY <1>3, <1>9, <1>10, <1>11 DEF ClientInv, Whole

\* A replay delivers its oldest row, which stands for the text of first..seq.
LEMMA ReadRowKeeps ==
    ASSUME ServerInv, ServerInv', ClientInv, UNCHANGED <<vars, live, got>>,
           NEW a \in Attempt, NEW row \in resume[a].rows,
           \A r \in resume[a].rows : row.seq <= r.seq,
           Dispatch(row, [resume EXCEPT ![a].rows = @ \ {row}])
    PROVE  ClientInv'
<1> USE NumberingTypes DEF ServerInv, LogInv
<1>1. ClientTypes /\ ClientTypeOK
    BY ClientTypesSplit DEF ClientInv
<1>2. UNCHANGED <<log, sent, eventSeq, storeFailures>> /\ TextIds' = TextIds
    BY DEF vars, turnVars, TextIds
<1>3. resume \in Resumes /\ resume[a].rows \subseteq log
    BY <1>1 DEF ClientTypes, Resumes, Attempts
<1>4. row \in log /\ row \in Dispatched
    BY <1>3, SMTT(60) DEF Dispatched, TypeOK, Row
<1>5. row.first \in Nat /\ row.seq \in Nat /\ 1 <= row.first /\ row.first <= row.seq
      /\ row.seq <= eventSeq /\ Reached(row.seq)
    BY <1>4 DEF Rows, Reached
<1> PICK pool : pool = [resume EXCEPT ![a].rows = @ \ {row}]
    OBVIOUS
<1>6. /\ pool \in Resumes /\ pool[a].rows = resume[a].rows \ {row}
      /\ \A b \in Attempt : b # a => pool[b] = resume[b]
    BY <1>3 DEF Resumes, Attempts
<1>7. Dispatch(row, pool)
    OBVIOUS
<1>8. /\ streaming' \in BOOLEAN /\ attempts' \in 0..MaxResume /\ resume' \in Resumes
      /\ outcome' \in {"none", "done", "error", "interrupted", "cancelled"}
      /\ known' \in BOOLEAN /\ lastId' \in 0..eventSeq
      /\ rendered' \in Seq(Nat)
      /\ SameRows(pool)
    BY <1>1, <1>4, <1>5, <1>6, <1>7, DispatchKeeps
<1>9. ClientTypes'
    BY <1>1, <1>2, <1>8 DEF ClientTypes, Resumes, Attempts
<1>10. ReachInv'
    BY <1>4, <1>5, <1>7, DispatchReaches
<1>11. ASSUME storeFailures = 0 PROVE InOrder' /\ UpToLast' /\ LiveInv' /\ ReplayInv'
    \* What the bubble lacks before the row would be in an older row.
    <2>1. \A i \in TextIds : i < row.first => InBubble(i)
        <3> SUFFICES ASSUME NEW i \in TextIds, i < row.first, ~InBubble(i) PROVE FALSE
            OBVIOUS
        <3>1. ReplayInv
            BY <1>11 DEF ClientInv, Whole
        <3>2. PICK s \in resume[a].rows : s.first <= i /\ i <= s.seq
            BY <3>1 DEF ReplayInv
        <3>3. s \in log /\ i \in Nat /\ s.first \in Nat /\ s.seq \in Nat
            BY <1>3, TextIsText
        <3>4. s # row
            BY <1>5, <3>2, <3>3
        <3>5. s.seq < row.first \/ row.seq < s.first
            BY <1>4, <3>3, <3>4 DEF Rows
        <3>6. row.seq <= s.seq
            OBVIOUS
        <3> QED BY ONLY <1>5, <3>2, <3>3, <3>5, <3>6, i < row.first
    <2>2. row.type # "token" => \A i \in TextIds : ~(row.first <= i /\ i <= row.seq)
        <3> SUFFICES ASSUME row.type # "token", NEW i \in TextIds, row.first <= i, i <= row.seq
                     PROVE  FALSE
            OBVIOUS
        <3>1. i \in Nat /\ IsText(i)
            BY TextIsText
        <3>2. ~(i \in 1..Len(sent) /\ sent[i] = "token")
            BY <1>4 DEF Rows
        <3>3. PICK r \in log : r.type = "token" /\ r.first <= i /\ i <= r.seq
            BY <3>1, <3>2 DEF IsText
        <3>4. r.seq < row.first \/ row.seq < r.first
            BY <1>4, <3>3 DEF Rows
        <3>5. r.first \in Nat /\ r.seq \in Nat
            OBVIOUS
        <3> QED BY ONLY <1>5, <3>1, <3>3, <3>4, <3>5, row.first <= i, i <= row.seq
    <2>3. /\ InOrder' /\ UpToLast'
          /\ \A i \in TextIds : InBubble(i) \/ i <= row.seq => InBubble(i)'
        BY <1>4, <1>5, <1>7, <1>11, <2>1, <2>2, DispatchShows DEF ClientInv, Whole
    <2>4. LiveInv'
        BY <1>2, <1>11, <2>3 DEF ClientInv, Whole, LiveInv
    <2>5. ReplayInv'
        <3> SUFFICES ASSUME NEW b \in Attempt, NEW r \in resume'[b].rows, NEW i \in TextIds,
                            i < r.first, ~InBubble(i)'
                     PROVE  \E s \in resume'[b].rows : s.type = "token" /\ s.first <= i /\ i <= s.seq
            BY <1>2 DEF ReplayInv
        <3>1. resume'[b].rows = pool[b].rows /\ pool[b].rows \subseteq resume[b].rows
            BY <1>6, <1>8 DEF SameRows
        <3>2. PICK s \in resume[b].rows : s.type = "token" /\ s.first <= i /\ i <= s.seq
            BY <1>11, <2>3, <3>1 DEF ClientInv, Whole, ReplayInv
        <3>3. s # row
            BY <2>3, <3>2
        <3> QED BY <1>6, <3>1, <3>2, <3>3
    <2> QED BY <2>3, <2>4, <2>5
<1>12. ClientTypeOK'
    BY <1>9, ClientTypesSplitNext
<1> QED BY <1>2, <1>10, <1>11, <1>12 DEF ClientInv, Whole

\* An event without a number shows nothing.
LEMMA ReadBareKeeps ==
    ASSUME ServerInv, ServerInv', ClientInv, UNCHANGED <<vars, got>>, live' \in {live, FALSE},
           NEW type \in {"error", "interrupted"}, NEW pool \in Resumes,
           \A a \in Attempt : pool[a].rows \in {resume[a].rows, {}},
           Dispatch(Unnumbered(type), pool)
    PROVE  ClientInv'
<1>1. ClientTypes /\ ClientTypeOK
    BY ClientTypesSplit DEF ClientInv
<1> PICK row : row = Unnumbered(type)
    OBVIOUS
<1>2. row \in Dispatched /\ row.seq = 0 /\ row.type = type
    BY DEF Unnumbered, Dispatched, EventTypes, LoopEvents
<1>3. row.seq <= eventSeq /\ row.type # "token"
    BY <1>1, <1>2 DEF ClientTypeOK, TypeOK
<1>4. Dispatch(row, pool)
    OBVIOUS
<1>5. /\ streaming' \in BOOLEAN /\ attempts' \in 0..MaxResume /\ resume' \in Resumes
      /\ outcome' \in {"none", "done", "error", "interrupted", "cancelled"}
      /\ known' \in BOOLEAN
      /\ SameRows(pool)
    BY <1>1, <1>2, <1>3, <1>4, DispatchKeeps
<1>6. UNCHANGED <<lastId, rendered>>
    BY <1>2, <1>3, <1>4 DEF Dispatch
<1>7. UNCHANGED <<log, sent, eventSeq>> /\ [Next]_vars
    BY DEF vars, turnVars
<1> QED BY <1>5, <1>6, <1>7, SilentReader DEF SameRows

\* The live stream breaks, or a resume fails: onError.
LEMMA FailureKeeps ==
    ASSUME ServerInv, ServerInv', ClientInv, UNCHANGED <<vars, known, lastId, got, rendered>>,
           live' \in {live, FALSE}, NEW pool \in Resumes,
           \A a \in Attempt : pool[a].rows \in {resume[a].rows, {}},
           OnError(pool)
    PROVE  ClientInv'
<1>1. ClientTypeOK
    BY DEF ClientInv
<1>2. /\ streaming' \in BOOLEAN /\ attempts' \in 0..MaxResume /\ resume' \in Resumes
      /\ outcome' \in {"none", "done", "error", "interrupted", "cancelled"}
      /\ SameRows(pool)
    BY <1>1, OnErrorKeeps
<1>3. known' \in BOOLEAN
    BY <1>1 DEF ClientTypeOK
<1>4. UNCHANGED <<log, sent, eventSeq>> /\ [Next]_vars
    BY DEF vars, turnVars
<1> QED BY <1>2, <1>3, <1>4, SilentReader DEF SameRows

\* The replay that is opened holds the rows behind the last event seen.
LEMMA ResumeOpensKeeps ==
    ASSUME ServerInv, ServerInv', ClientInv, NEW a \in Attempt, ResumeOpens(a)
    PROVE  ClientInv'
<1> USE NumberingTypes DEF ServerInv, LogInv
<1>1. ClientTypes /\ ClientTypeOK
    BY ClientTypesSplit DEF ClientInv
<1> PICK rows : rows = ReplayRows(lastId)
    OBVIOUS
<1>2. rows \subseteq log /\ \A r \in log : r \in rows <=> r.seq > lastId
    BY DEF ReplayRows
<1>3. UNCHANGED <<vars, streaming, outcome, known, lastId, attempts, live, got, rendered>>
    BY DEF ResumeOpens
<1>4. UNCHANGED <<log, sent, eventSeq, storeFailures>> /\ TextIds' = TextIds
    BY <1>3 DEF vars, turnVars, TextIds
<1> PICK attempt : attempt = [state |-> IF rows = {} THEN "probing" ELSE "open",
                              rows |-> rows,
                              marker |-> rows # {} /\ ReplayInterrupted]
    OBVIOUS
<1>5. attempt \in Attempts /\ attempt.rows = rows
    BY <1>2 DEF Attempts, ReplayInterrupted
<1>6. resume' = [resume EXCEPT ![a] = attempt]
    BY DEF ResumeOpens
<1>7. resume' \in Resumes /\ resume'[a].rows = rows
      /\ \A b \in Attempt : b # a => resume'[b].rows = resume[b].rows
    BY <1>1, <1>5, <1>6 DEF ClientTypes, Resumes
<1>8. ClientTypes'
    BY <1>1, <1>3, <1>4, <1>7 DEF ClientTypes, Resumes, Attempts
<1>9. ClientTypeOK'
    BY <1>8, ClientTypesSplitNext
<1>10. ReachInv'
    BY <1>3, <1>4 DEF ClientInv, ReachInv, Reached
<1>11. ASSUME storeFailures = 0 PROVE InOrder' /\ UpToLast' /\ LiveInv' /\ ReplayInv'
    <2>1. \A i : InBubble(i)' <=> InBubble(i)
        BY <1>3 DEF InBubble
    <2>2. InOrder' /\ UpToLast' /\ LiveInv'
        BY <1>3, <1>4, <1>11, <2>1 DEF ClientInv, Whole, InOrder, UpToLast, LiveInv
    <2>3. ASSUME NEW r \in rows, NEW i \in TextIds, i < r.first, ~InBubble(i)
          PROVE  \E s \in rows : s.type = "token" /\ s.first <= i /\ i <= s.seq
        <3>1. i \in Nat /\ IsText(i) /\ lastId \in Nat
            BY <1>1, TextIsText DEF ClientTypes
        <3>2. lastId < i
            BY <1>11, <2>3, <3>1 DEF ClientInv, Whole, UpToLast
        <3>3. r \in log /\ r.first <= r.seq
            BY <1>2, <2>3 DEF Rows
        \* Text behind the log is not before a row of it.
        <3>4. Logged(i)
            <4>1. CASE i \in 1..Len(sent)
                <5>1. conversation = "saved"
                    BY <3>3 DEF Batched
                <5>2. ASSUME ~Logged(i) PROVE r.seq < i
                    BY <1>11, <3>3, <4>1, <5>1, <5>2 DEF Unlogged
                <5>3. r.first \in Nat /\ r.seq \in Nat
                    BY <3>3
                <5> QED BY <2>3, <3>1, <3>3, <5>2, <5>3
            <4>2. CASE i \notin 1..Len(sent)
                BY <3>1, <4>2 DEF IsText, Logged
            <4> QED BY <4>1, <4>2
        <3>5. PICK s \in log : s.first <= i /\ i <= s.seq
            BY <3>4 DEF Logged
        <3>6. s.seq \in Nat /\ s.first \in Nat
            OBVIOUS
        <3>7. s.seq > lastId
            BY ONLY <3>1, <3>2, <3>5, <3>6
        <3>8. s.type = "token"
            <4>1. CASE i \in 1..Len(sent) /\ sent[i] = "token"
                BY <3>5, <4>1 DEF Rows
            <4>2. CASE ~(i \in 1..Len(sent) /\ sent[i] = "token")
                <5>1. PICK u \in log : u.type = "token" /\ u.first <= i /\ i <= u.seq
                    BY <3>1, <4>2 DEF IsText
                <5>2. u.seq \in Nat /\ u.first \in Nat
                    OBVIOUS
                <5>3. ~(u.seq < s.first \/ s.seq < u.first)
                    BY ONLY <3>1, <3>5, <3>6, <5>1, <5>2
                <5>4. u = s
                    BY <5>3 DEF Rows
                <5> QED BY <5>1, <5>4
            <4> QED BY <4>1, <4>2
        <3> QED BY <1>2, <3>5, <3>7, <3>8
    <2>4. ReplayInv'
        <3> SUFFICES ASSUME NEW b \in Attempt, NEW r \in resume'[b].rows, NEW i \in TextIds,
                            i < r.first, ~InBubble(i)
                     PROVE  \E s \in resume'[b].rows : s.type = "token" /\ s.first <= i /\ i <= s.seq
            BY <1>4, <2>1 DEF ReplayInv
        <3>1. CASE b = a
            BY <1>7, <2>3, <3>1
        <3>2. CASE b # a
            BY <1>7, <1>11, <3>2 DEF ClientInv, Whole, ReplayInv
        <3> QED BY <3>1, <3>2
    <2> QED BY <2>2, <2>4
<1> QED BY <1>4, <1>9, <1>10, <1>11 DEF ClientInv, Whole

\* A step of an attempt that keeps its rows.
LEMMA AttemptKeeps ==
    ASSUME ServerInv, ServerInv', ClientInv, NEW a \in Attempt, ReplayProbes(a) \/ EndReplay(a)
    PROVE  ClientInv'
<1>1. ClientTypes /\ ClientTypeOK
    BY ClientTypesSplit DEF ClientInv
<1>2. UNCHANGED <<vars, streaming, outcome, known, lastId, attempts, live, got, rendered>>
    BY DEF ReplayProbes, EndReplay
<1>3. UNCHANGED <<log, sent, eventSeq>> /\ [Next]_vars
    BY <1>2 DEF vars, turnVars
<1>4. resume' \in Resumes /\ \A b \in Attempt : resume'[b].rows = resume[b].rows
    BY <1>1 DEF ReplayProbes, EndReplay, ReplayInterrupted, ClientTypes, Resumes, Attempts
<1> QED BY <1>1, <1>2, <1>3, <1>4, SilentReader DEF ClientTypes

LEMMA CancelKeeps ==
    ASSUME ServerInv, ServerInv', ClientInv, [Next]_vars, CancelStream
    PROVE  ClientInv'
<1>1. ClientTypes /\ ClientTypeOK
    BY ClientTypesSplit DEF ClientInv
<1>2. UNCHANGED <<log, sent, eventSeq, known, lastId, attempts, got, rendered>>
    BY DEF CancelStream
<1>3. streaming' \in BOOLEAN /\ live' \in {live, FALSE}
      /\ outcome' \in {"none", "done", "error", "interrupted", "cancelled"}
    BY <1>1 DEF CancelStream, Conclude, ClientTypes
<1>4. Idle("closed") \in Attempts /\ Idle("closed").rows = {}
    BY DEF Idle, Attempts
<1>5. \E b : resume' = resume \/ resume' = [resume EXCEPT ![b] = Idle("closed")]
    BY DEF CancelStream
<1>6. resume' \in Resumes /\ \A a \in Attempt : resume'[a].rows \in {resume[a].rows, {}}
    BY <1>1, <1>4, <1>5 DEF ClientTypes, Resumes
<1> QED BY <1>1, <1>2, <1>3, <1>6, SilentReader DEF ClientTypes

LEMMA ClientStep ==
    ServerInv /\ ServerInv' /\ ClientInv /\ [ClientNext]_allVars => ClientInv'
<1> SUFFICES ASSUME ServerInv, ServerInv', ClientInv, [ClientNext]_allVars PROVE ClientInv'
    OBVIOUS
<1>1. [Next]_vars
    BY ClientStepsAreTurnSteps DEF ServerInv, LogInv
<1>2. ClientTypes /\ resume \in Resumes
    BY ClientTypesSplit DEF ClientInv, ClientTypes
<1>3. CASE ServerStep \/ UNCHANGED allVars
    BY <1>1, <1>3, ServerStepKeeps DEF ServerStep, allVars
<1>4. CASE ReadLive
    BY <1>4, ReadLiveKeeps
<1>5. CASE EndLive
    <2>1. CASE bareError
        BY <1>2, <1>5, <2>1, ReadBareKeeps DEF EndLive
    <2>2. CASE ~bareError
        <3>1. UNCHANGED <<log, sent, eventSeq>> /\ live' = FALSE
              /\ UNCHANGED <<streaming, outcome, known, lastId, attempts, resume, rendered, got>>
            BY <1>5, <2>2 DEF EndLive, vars, turnVars
        <3> QED BY <1>1, <1>2, <3>1, SilentReader DEF ClientTypes
    <2> QED BY <2>1, <2>2
<1>6. CASE LiveFails
    BY <1>2, <1>6, FailureKeeps DEF LiveFails
<1>7. ASSUME NEW a \in Attempt, ResumeOpens(a) \/ ReplayProbes(a) \/ EndReplay(a)
      PROVE  ClientInv'
    BY <1>7, ResumeOpensKeeps, AttemptKeeps
<1>8. ASSUME NEW a \in Attempt, ResumeFails(a) PROVE ClientInv'
    <2> PICK pool : pool = [resume EXCEPT ![a] = Idle("closed")]
        OBVIOUS
    <2>1. Idle("closed") \in Attempts /\ Idle("closed").rows = {}
        BY DEF Idle, Attempts
    <2>2. pool \in Resumes /\ \A b \in Attempt : pool[b].rows \in {resume[b].rows, {}}
        BY <1>2, <2>1 DEF Resumes
    <2> QED BY <1>8, <2>2, FailureKeeps DEF ResumeFails
<1>9. ASSUME NEW a \in Attempt, ReadReplay(a) PROVE ClientInv'
    <2>1. UNCHANGED <<vars, live, got>>
        BY <1>9 DEF ReadReplay
    <2>2. ASSUME NEW row \in resume[a].rows,
                 \A r \in resume[a].rows : row.seq <= r.seq,
                 Dispatch(row, [resume EXCEPT ![a].rows = @ \ {row}])
          PROVE  ClientInv'
        BY <2>1, <2>2, ReadRowKeeps
    <2>3. ASSUME Dispatch(Unnumbered("interrupted"), [resume EXCEPT ![a].marker = FALSE])
          PROVE  ClientInv'
        <3> PICK pool : pool = [resume EXCEPT ![a].marker = FALSE]
            OBVIOUS
        <3>1. pool \in Resumes /\ \A b \in Attempt : pool[b].rows \in {resume[b].rows, {}}
            BY <1>2 DEF Resumes, Attempts
        <3> QED BY <2>1, <2>3, <3>1, ReadBareKeeps
    <2> QED BY <1>9, <2>2, <2>3 DEF ReadReplay
<1>10. CASE CancelStream
    BY <1>1, <1>10, CancelKeeps
<1> QED BY <1>3, <1>4, <1>5, <1>6, <1>7, <1>8, <1>9, <1>10 DEF ClientNext, ReaderStep

LEMMA ClientInvariant == ClientSpec => []ClientInv
<1>1. ClientSpec => Init /\ ClientInit /\ [][ClientNext]_allVars /\ []ServerInv
    BY ClientsLeaveTheTurn, PTL DEF ClientSpec
<1> QED BY <1>1, ClientStart, ClientStep, PTL

-----------------------------------------------------------------------------
(* The theorems.                                                           *)

\* Type correctness of the client and the turn it reads: the last event seen
\* and the events read are ones that were numbered and sent, and the resume
\* attempts stay within their limit.
THEOREM ClientTyped == ClientSpec => []ClientTypeOK
    BY ClientInvariant, PTL DEF ClientInv

\* As long as the database takes the rows, the text in the bubble has no hole,
\* however often the stream breaks and however many readers run at once: text
\* is rendered only after every earlier piece, and a client that has seen an
\* event has rendered all the text before it.
THEOREM NoHoleInTheText == ClientSpec => []NoTextSkipped
<1>1. ClientInv => NoTextSkipped
    <2> SUFFICES ASSUME ClientInv PROVE NoTextSkipped
        OBVIOUS
    <2>1. DOMAIN rendered = 1..Len(rendered)
        BY DEF ClientInv, ClientTypeOK
    <2> QED BY <2>1 DEF ClientInv, Whole, InOrder, UpToLast, InBubble, NoTextSkipped
<1> QED BY <1>1, ClientInvariant, PTL

=============================================================================
