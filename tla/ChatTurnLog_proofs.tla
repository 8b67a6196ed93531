--------------------------- MODULE ChatTurnLog_proofs ---------------------------
(***************************************************************************)
(* Proof that the log of a chat turn tells the same story as its stream,   *)
(* and that only text can be missing from it.                              *)
(*                                                                         *)
(* Neither property is inductive.  The invariant LogInv adds how far the   *)
(* numbering is ahead of what was shown at each stage of an emission       *)
(* (Numbering), that the open batch holds the latest tokens and nothing    *)
(* else (Batch), that every row lies before the batch and before an event  *)
(* still to be stored (Rows), and that an event about to be shown is       *)
(* either text or in the log (Stored).                                     *)
(***************************************************************************)
EXTENDS ChatTurn_proofs

Over == gen \in {"ended", "dead"}

Numbering ==
    /\ Len(sent) <= eventSeq
    /\ stage \in {"flush", "store", "yield"} => eventSeq = Len(sent) + 1 /\ ~Over /\ ~bareError
    /\ stage \in {"idle", "age"} /\ ~Over /\ ~bareError => eventSeq = Len(sent)
    /\ bareError => gen = "closing" \/ Over
    /\ gen = "loading" => stage = "idle" /\ eventSeq = 0
    /\ stage = "age" => gen = "draining"
    /\ cancelled => gen = "ended"

Batch ==
    /\ stage \in {"flush", "age"} => tokenBuf # NoBatch
    /\ tokenBuf # NoBatch =>
        /\ 1 <= tokenBuf.first /\ tokenBuf.first <= tokenBuf.last /\ tokenBuf.last <= eventSeq
        /\ conversation # "none" /\ ~Over /\ stage # "store"
        /\ stage = "flush" => tokenBuf.last = eventSeq - 1
        /\ stage = "yield" => out = "token"
        /\ stage # "flush" /\ ~bareError => tokenBuf.last = eventSeq
        /\ \A i \in 1..Len(sent) :
              tokenBuf.first <= i /\ i <= tokenBuf.last => sent[i] = "token"

Rows ==
    /\ conversation = "none" \/ gen = "loading" => log = {}
    /\ \A r \in log :
          /\ 1 <= r.first /\ r.first <= r.seq /\ r.seq <= eventSeq
          /\ stage \in {"flush", "store"} => r.seq < eventSeq
          /\ tokenBuf # NoBatch => r.seq < tokenBuf.first
          /\ \A i \in 1..Len(sent) : r.first <= i /\ i <= r.seq => sent[i] = r.type
          /\ stage = "yield" /\ r.seq = eventSeq => r.type = out
    /\ \A r, s \in log : r # s => r.seq < s.first \/ s.seq < r.first

\* Event i is in the log.
Logged(i) == \E r \in log : r.first <= i /\ i <= r.seq

Stored ==
    conversation = "saved" /\ storeFailures = 0 =>
        /\ \A i \in 1..Len(sent) : sent[i] # "token" => Logged(i)
        /\ stage = "yield" /\ out # "token" => Logged(eventSeq)

LogInv == TypeOK /\ Numbering /\ Batch /\ Rows /\ Stored

LEMMA NumberingTypes ==
    ASSUME TypeOK
    PROVE  /\ eventSeq \in Nat /\ Len(sent) \in Nat /\ sent \in Seq(EventTypes)
           /\ tokenBuf.first \in Nat /\ tokenBuf.last \in Nat
           /\ storeFailures \in Nat
           /\ \A r \in log : r.first \in Nat /\ r.seq \in Nat
    BY TurnAssumption DEF TypeOK, Row

-----------------------------------------------------------------------------
\* Emitting an event, up to its first await.
LEMMA EmitKeeps ==
    ASSUME LogInv, NEW type \in EventTypes, Emit(type),
           ~Over, ~bareError, gen # "loading",
           gen' \notin {"ended", "dead", "loading"},
           UNCHANGED <<conversation, log, sent, bareError, cancelled, storeFailures>>
    PROVE  Numbering' /\ Batch' /\ Rows' /\ Stored'
<1> USE NumberingTypes DEF LogInv
<1>1. /\ stage = "idle" /\ eventSeq = Len(sent) /\ eventSeq' = eventSeq + 1 /\ out' = type
      /\ stage' \in {"flush", "store", "yield"}
    BY DEF Emit, Numbering
<1>2. Numbering'
    BY <1>1 DEF Numbering, Over
<1>3. Batch'
    <2>1. CASE conversation = "none"
        BY <1>1, <2>1 DEF Emit, Batch
    <2>2. CASE conversation # "none" /\ type = "token"
        <3>1. /\ tokenBuf'.first = (IF tokenBuf = NoBatch THEN eventSeq + 1 ELSE tokenBuf.first)
              /\ tokenBuf'.last = eventSeq + 1
              /\ stage' = "yield"
            BY <2>2 DEF Emit
        <3>2. CASE tokenBuf = NoBatch
            BY <1>1, <2>2, <3>1, <3>2 DEF Batch, Over
        <3>3. CASE tokenBuf # NoBatch
            BY <1>1, <2>2, <3>1, <3>3 DEF Batch, Over
        <3> QED BY <3>2, <3>3
    <2>3. CASE conversation # "none" /\ type # "token"
        BY <1>1, <2>3 DEF Emit, Batch, Over
    <2> QED BY <2>1, <2>2, <2>3
<1>4. Rows'
    <2>1. \A r \in log : r.seq < eventSeq'
        BY <1>1 DEF Rows
    <2>2. \A r \in log : tokenBuf' # NoBatch => r.seq < tokenBuf'.first
        <3>1. CASE conversation # "none" /\ type = "token"
            BY <1>1, <2>1, <3>1 DEF Emit, Rows
        <3>2. CASE conversation = "none" \/ type # "token"
            BY <3>2 DEF Emit, Rows
        <3> QED BY <3>1, <3>2
    <2> QED BY <1>1, <2>1, <2>2 DEF Rows
<1>5. Stored'
    BY <1>1 DEF Stored, Logged, Emit
<1> QED BY <1>2, <1>3, <1>4, <1>5

\* The open batch is stored, or lost for the log.
LEMMA BatchStoredKeeps ==
    ASSUME LogInv, tokenBuf # NoBatch, StoreRow(TokenRow), tokenBuf' = NoBatch,
           stage' # "yield", stage' = "store" => stage = "flush", stage' # "flush",
           gen' # "loading",
           UNCHANGED <<conversation, eventSeq, out, sent, bareError>>
    PROVE  Rows' /\ Stored'
<1> USE NumberingTypes DEF LogInv
<1> DEFINE row == TokenRow
<1>1. row.first = tokenBuf.first /\ row.seq = tokenBuf.last /\ row.type = "token"
    BY DEF TokenRow
<1>2. /\ 1 <= row.first /\ row.first <= row.seq /\ row.seq <= eventSeq
      /\ stage = "flush" => row.seq < eventSeq
      /\ \A i \in 1..Len(sent) : row.first <= i /\ i <= row.seq => sent[i] = row.type
      /\ \A r \in log : r.seq < row.first
    BY <1>1 DEF Batch, Rows
<1>3. /\ log' = log \/ log' = log \cup {row}
      /\ conversation # "saved" => log' = log
      /\ storeFailures' = storeFailures \/ storeFailures' = storeFailures + 1
    BY DEF StoreRow
<1> HIDE DEF row
<1>4. Rows'
    BY <1>2, <1>3 DEF Rows
<1>5. Stored'
    BY <1>3 DEF Stored, Logged
<1> QED BY <1>4, <1>5

\* A step that emits, stores and shows nothing; it may drop the batch, end
\* an emission, and give up.
LEMMA SilentKeeps ==
    ASSUME LogInv, stage' \in {stage, "idle"}, tokenBuf' \in {tokenBuf, NoBatch},
           gen' # "loading" \/ gen' = gen,
           UNCHANGED <<log, eventSeq, out, sent, storeFailures, conversation>>
    PROVE  Rows' /\ Stored'
<1> USE DEF LogInv
<1>1. Rows'
    BY DEF Rows
<1>2. Stored'
    BY DEF Stored, Logged
<1> QED BY <1>1, <1>2

-----------------------------------------------------------------------------
LEMMA LogInit == Init => LogInv
<1> SUFFICES ASSUME Init PROVE LogInv
    OBVIOUS
<1>1. TypeOK
    BY TypeInit DEF TypeInv
<1>2. Numbering /\ Batch /\ Rows /\ Stored
    BY DEF Init, Numbering, Batch, Rows, Stored, Over
<1> QED BY <1>1, <1>2 DEF LogInv

LEMMA LogStep == LogInv /\ TypeOK' /\ [Next]_vars => LogInv'
<1> SUFFICES ASSUME LogInv, TypeOK', [Next]_vars
             PROVE  Numbering' /\ Batch' /\ Rows' /\ Stored'
    BY DEF LogInv
<1> USE NumberingTypes DEF LogInv
<1>u. ASSUME UNCHANGED <<gen, stage, out, conversation, eventSeq, tokenBuf, log, sent,
                         bareError, cancelled, storeFailures>>
      PROVE  Numbering' /\ Batch' /\ Rows' /\ Stored'
    BY <1>u DEF Numbering, Batch, Rows, Stored, Logged, Over
<1>1. CASE Flush
    <2>1. Rows' /\ Stored'
        BY <1>1, BatchStoredKeeps DEF Flush, Batch, Numbering
    <2>2. Numbering' /\ Batch'
        BY <1>1 DEF Flush, Numbering, Batch, Over
    <2> QED BY <2>1, <2>2
<1>2. CASE Store
    <2>1. Numbering' /\ Batch'
        BY <1>2 DEF Store, Numbering, Batch, Over
    <2> DEFINE row == EventRow
    <2>2. row.first = eventSeq /\ row.seq = eventSeq /\ row.type = out
        BY DEF EventRow
    <2>3. /\ log' = log \/ log' = log \cup {row}
          /\ conversation # "saved" => log' = log
          /\ storeFailures' = storeFailures \/ storeFailures' = storeFailures + 1
          /\ conversation = "saved" /\ storeFailures' = storeFailures => row \in log'
        BY <1>2 DEF Store, StoreRow
    <2>4. /\ eventSeq = Len(sent) + 1 /\ tokenBuf = NoBatch /\ gen # "loading"
          /\ stage = "store" /\ stage' = "yield"
          /\ UNCHANGED <<gen, out, conversation, eventSeq, tokenBuf, sent>>
        BY <1>2 DEF Store, Numbering, Batch
    <2> HIDE DEF row
    <2>5. Rows'
        BY <2>2, <2>3, <2>4 DEF Rows
    <2>6. Stored'
        BY <2>2, <2>3, <2>4 DEF Stored, Logged
    <2> QED BY <2>1, <2>5, <2>6
<1>3. CASE Yield
    <2>1. /\ eventSeq = Len(sent) + 1 /\ ~Over /\ ~bareError
          /\ sent' = Append(sent, out) /\ Len(sent') = Len(sent) + 1
          /\ \A i \in 1..Len(sent) : sent'[i] = sent[i]
          /\ sent'[eventSeq] = out
          /\ stage = "yield" /\ stage' \in {"idle", "age"}
          /\ stage' = "age" => gen = "draining"
          /\ stage' = "age" => tokenBuf # NoBatch
          /\ UNCHANGED <<gen, out, conversation, eventSeq, tokenBuf, log, bareError, cancelled,
                         storeFailures>>
        BY <1>3 DEF Yield, Numbering, TypeOK
    <2>2. Numbering'
        BY <2>1 DEF Numbering, Over
    <2>3. Batch'
        <3>1. CASE tokenBuf = NoBatch
            BY <2>1, <3>1 DEF Batch
        <3>2. CASE tokenBuf # NoBatch
            <4>1. \A i \in 1..Len(sent') :
                     tokenBuf.first <= i /\ i <= tokenBuf.last => sent'[i] = "token"
                BY <2>1, <3>2 DEF Batch
            <4> QED BY <2>1, <3>2, <4>1 DEF Batch, Over
        <3> QED BY <3>1, <3>2
    <2>4. Rows'
        BY <2>1 DEF Rows
    <2>5. Stored'
        BY <2>1 DEF Stored, Logged
    <2> QED BY <2>2, <2>3, <2>4, <2>5
<1>4. CASE CheckAge
    <2>1. Numbering' /\ Batch'
        BY <1>4 DEF CheckAge, Numbering, Batch, Over
    <2>2. CASE StoreRow(TokenRow) /\ tokenBuf' = NoBatch
        BY <1>4, <2>1, <2>2, BatchStoredKeeps DEF CheckAge, Batch, Numbering
    <2>3. CASE UNCHANGED <<log, storeFailures, tokenBuf>>
        BY <1>4, <2>1, <2>3, SilentKeeps DEF CheckAge
    <2> QED BY <1>4, <2>2, <2>3 DEF CheckAge
<1>5. CASE Load
    <2>1. /\ gen = "loading" /\ stage = "idle" /\ eventSeq = 0 /\ Len(sent) = 0
          /\ log = {} /\ tokenBuf = NoBatch /\ ~bareError /\ gen' # "loading"
          /\ bareError' => gen' = "closing"
          /\ gen' \notin {"ended", "dead"}
          /\ UNCHANGED <<stage, out, eventSeq, tokenBuf, log, sent, cancelled, storeFailures>>
        BY <1>5 DEF Load, Numbering, Batch, Rows, Over
    <2> QED BY <2>1 DEF Numbering, Batch, Rows, Stored, Over
<1>6. CASE Announce
    <2>1. "conversation_id" \in EventTypes
        BY DEF EventTypes
    <2> QED BY <1>6, <2>1, EmitKeeps DEF Announce, Numbering, Over
<1>7. CASE Launch
    <2>1. Rows' /\ Stored'
        BY <1>7, SilentKeeps DEF Launch
    <2>2. Numbering' /\ Batch'
        BY <1>7 DEF Launch, Numbering, Batch, Over
    <2> QED BY <2>1, <2>2
<1>8. CASE LaunchWithoutKey
    <2>1. "error" \in EventTypes
        BY DEF EventTypes, LoopEvents
    <2> QED BY <1>8, <2>1, EmitKeeps DEF LaunchWithoutKey, Numbering, Over
<1>9. CASE Drain
    <2>1. CASE Head(queue) \in LoopEvents
        <3>1. Head(queue) \in EventTypes
            BY <2>1 DEF EventTypes
        <3> QED BY <1>9, <2>1, <3>1, EmitKeeps DEF Drain, Numbering, Over
    <2>2. CASE Head(queue) \notin LoopEvents
        <3>1. Rows' /\ Stored'
            BY <1>9, <2>2, SilentKeeps DEF Drain
        <3>2. Numbering' /\ Batch'
            BY <1>9, <2>2 DEF Drain, Numbering, Batch, Over
        <3> QED BY <3>1, <3>2
    <2> QED BY <2>1, <2>2
<1>10. CASE Persist \/ Raise
    <2>1. Rows' /\ Stored'
        BY <1>10, SilentKeeps DEF Persist, Raise
    <2>2. Numbering' /\ Batch'
        BY <1>10 DEF Persist, Raise, Numbering, Batch, Over
    <2> QED BY <2>1, <2>2
<1>11. CASE Report
    <2>1. {"experiment_created", "simulator_created"} \subseteq EventTypes
        BY DEF EventTypes
    <2>2. CASE \E type \in EventTypes : Emit(type) /\ UNCHANGED gen
        BY <1>11, <2>2, EmitKeeps DEF Report, Numbering, Over
    <2>3. CASE stage = "idle" /\ gen' = "closing" /\ UNCHANGED <<stage, out, eventSeq, tokenBuf>>
        <3>1. Rows' /\ Stored'
            BY <1>11, <2>3, SilentKeeps DEF Report
        <3>2. Numbering' /\ Batch'
            BY <1>11, <2>3 DEF Report, Numbering, Batch, Over
        <3> QED BY <3>1, <3>2
    <2> QED BY <1>11, <2>1, <2>2, <2>3 DEF Report
<1>12. CASE Fail
    <2>1. "error" \in EventTypes
        BY DEF EventTypes, LoopEvents
    <2>2. CASE Emit("error") /\ UNCHANGED bareError
        BY <1>12, <2>1, <2>2, EmitKeeps DEF Fail, Numbering, Over
    <2>3. CASE eventSeq' = eventSeq + 1 /\ bareError' = TRUE /\ UNCHANGED <<stage, out, tokenBuf>>
        BY <1>12, <2>3 DEF Fail, Numbering, Batch, Rows, Stored, Logged, Over
    <2> QED BY <1>12, <2>2, <2>3 DEF Fail
<1>13. CASE Close
    <2>1. Numbering' /\ Batch'
        BY <1>13 DEF Close, Numbering, Batch, Over
    <2>2. CASE tokenBuf # NoBatch /\ StoreRow(TokenRow)
        BY <1>13, <2>1, <2>2, BatchStoredKeeps DEF Close
    <2>3. CASE UNCHANGED <<log, storeFailures>>
        BY <1>13, <2>1, <2>3, SilentKeeps DEF Close
    <2> QED BY <1>13, <2>2, <2>3 DEF Close
<1>14. CASE Disconnect \/ WorkerStep \/ UNCHANGED vars
    BY <1>14, <1>u DEF Disconnect, WorkerStep, vars, turnVars
<1>15. CASE Cancel
    <2>1. Numbering' /\ Batch'
        BY <1>15 DEF Cancel, Numbering, Batch, Over
    <2>2. CASE tokenBuf # NoBatch /\ StoreRow(TokenRow)
        BY <1>15, <2>1, <2>2, BatchStoredKeeps DEF Cancel
    <2>3. CASE UNCHANGED <<log, storeFailures>>
        BY <1>15, <2>1, <2>3, SilentKeeps DEF Cancel
    <2> QED BY <1>15, <2>2, <2>3 DEF Cancel
<1>16. CASE Crash
    <2>1. Rows' /\ Stored'
        BY <1>16, SilentKeeps DEF Crash
    <2>2. Numbering' /\ Batch'
        BY <1>16 DEF Crash, Numbering, Batch, Over
    <2> QED BY <2>1, <2>2
<1> QED BY <1>1, <1>2, <1>3, <1>4, <1>5, <1>6, <1>7, <1>8, <1>9, <1>10, <1>11, <1>12,
           <1>13, <1>14, <1>15, <1>16 DEF Next, GenStep

\* The invariant of the log holds in every reachable state.
THEOREM LogInvariant == Spec => []LogInv
    BY TypeCorrect, LogInit, LogStep, PTL DEF Spec

-----------------------------------------------------------------------------
\* No event of a turn is in two rows of chat_events, so the order of the rows
\* is the order of the stream and the unique constraint refuses none of them;
\* and a replayed row shows what the live stream showed.
THEOREM LogTellsTheStream == Spec => []LogMatchesStream
<1>1. LogInv => LogMatchesStream
    <2> SUFFICES ASSUME LogInv PROVE LogMatchesStream
        OBVIOUS
    <2> USE NumberingTypes DEF LogInv
    <2>1. \A r \in log : \A i \in r.first..r.seq : i <= Len(sent) => i \in 1..Len(sent)
        BY DEF Rows
    <2> QED BY <2>1 DEF LogMatchesStream, Rows
<1> QED BY <1>1, LogInvariant, PTL

\* Whatever disconnection, cancellation or crash cuts a turn short: as long
\* as the database took the rows, an event that was shown and is missing from
\* the log is a piece of text.
THEOREM OnlyTextCanBeLost == Spec => []OnlyTextIsLost
<1>1. LogInv => OnlyTextIsLost
    <2> SUFFICES ASSUME LogInv, conversation = "saved", storeFailures = 0,
                        NEW i \in 1..Len(sent), sent[i] # "token"
                 PROVE  i \in Covered
        BY DEF OnlyTextIsLost
    <2> USE NumberingTypes DEF LogInv
    <2>1. Logged(i)
        BY DEF Stored
    <2>2. i \in 1..eventSeq
        BY DEF Numbering
    <2>3. PICK r \in log : r.first <= i /\ i <= r.seq
        BY <2>1 DEF Logged
    <2>4. i \in r.first..r.seq
        BY <2>3
    <2> QED BY <2>2, <2>4 DEF Covered
<1> QED BY <1>1, LogInvariant, PTL

-----------------------------------------------------------------------------
(* A chat turn implements the abstract stream of events.                   *)

\* Issuing an event does not change what is in the log.
LEMMA CoveredSame ==
    ASSUME LogInv, log' = log, eventSeq' \in {eventSeq, eventSeq + 1}
    PROVE  Covered' = Covered
<1> USE NumberingTypes DEF LogInv
<1>1. \A r \in log : \A i \in r.first..r.seq : i \in 1..eventSeq
    BY DEF Rows
<1> QED BY <1>1 DEF Covered

\* Storing the batch adds its events to the log, or the row is lost.
LEMMA CoveredBatch ==
    ASSUME LogInv, tokenBuf # NoBatch, StoreRow(TokenRow), eventSeq' = eventSeq
    PROVE  Covered' \in {Covered, Covered \cup tokenBuf.first..tokenBuf.last}
<1> USE NumberingTypes DEF LogInv
<1> DEFINE row == TokenRow
<1>1. /\ row.first = tokenBuf.first /\ row.seq = tokenBuf.last
      /\ 1 <= row.first /\ row.seq <= eventSeq
    BY DEF TokenRow, Batch
<1>2. log' = log \/ log' = log \cup {row}
    BY DEF StoreRow
<1> HIDE DEF row
<1>3. CASE log' = log
    BY <1>3 DEF Covered
<1>4. CASE log' = log \cup {row}
    <2>1. Covered' = Covered \cup row.first..row.seq
        BY <1>1, <1>4 DEF Covered
    <2> QED BY <1>1, <2>1
<1> QED BY <1>2, <1>3, <1>4

LEMMA SettledBounds == ASSUME LogInv PROVE Settled \in Nat /\ Settled <= eventSeq
    BY NumberingTypes DEF LogInv, Settled, Batch, Numbering

\* Emitting an event issues it.
LEMMA EmitIssues ==
    ASSUME LogInv, NEW type \in EventTypes, Emit(type), ~Over, ~bareError,
           gen' \notin {"ended", "dead"}, UNCHANGED <<log, sent, cancelled>>
    PROVE  Stream!Issue
<1> USE NumberingTypes DEF LogInv
<1>1. eventSeq = Len(sent) /\ ~cancelled /\ stage = "idle" /\ eventSeq' = eventSeq + 1
    BY DEF Emit, Numbering, Over
<1>2. Covered' = Covered
    BY <1>1, CoveredSame
<1>3. /\ Settled' \in {Settled, eventSeq'}
      /\ Settled' = eventSeq' => Settled = eventSeq
    <2>1. CASE conversation = "none"
        BY <1>1, <2>1 DEF Emit, Settled, Batch
    <2>2. CASE conversation # "none" /\ type = "token" /\ tokenBuf = NoBatch
        <3>1. tokenBuf'.first = eventSeq + 1 /\ tokenBuf' # NoBatch
            BY <1>1, <2>2 DEF Emit, NoBatch
        <3> QED BY <1>1, <2>2, <3>1 DEF Settled
    <2>3. CASE conversation # "none" /\ type = "token" /\ tokenBuf # NoBatch
        <3>1. tokenBuf'.first = tokenBuf.first /\ tokenBuf' # NoBatch
            BY <1>1, <2>3 DEF Emit, NoBatch
        <3> QED BY <1>1, <2>3, <3>1, SettledBounds DEF Settled
    <2>4. CASE conversation # "none" /\ type # "token"
        BY <1>1, <2>4, SettledBounds DEF Emit, Settled
    <2> QED BY <2>1, <2>2, <2>3, <2>4
<1> QED BY <1>1, <1>2, <1>3 DEF Stream!Issue, Over

LEMMA StreamInit == Init => Stream!Init
    BY DEF Init, Stream!Init, Settled, Covered

LEMMA StreamStep == LogInv /\ LogInv' /\ [Next]_vars => [Stream!Next]_(Stream!vars)
<1> SUFFICES ASSUME LogInv, LogInv', [Next]_vars
             PROVE  Stream!Next \/ UNCHANGED Stream!vars
    BY DEF Stream!vars
<1> USE NumberingTypes, SettledBounds DEF LogInv
<1>s. ASSUME UNCHANGED <<log, eventSeq, tokenBuf, sent, out, cancelled>>,
             Settled' = Settled,
             (gen' \notin {"ended", "dead"} /\ ~Over) \/ gen' = gen
      PROVE  UNCHANGED Stream!vars
    BY <1>s, CoveredSame DEF Stream!vars, Over
<1>1. CASE Flush
    <2>1. /\ tokenBuf # NoBatch /\ tokenBuf.last = eventSeq - 1 /\ ~Over /\ ~cancelled
          /\ Settled = tokenBuf.first - 1 /\ Settled' = eventSeq - 1
          /\ 1 <= tokenBuf.first /\ tokenBuf.first <= tokenBuf.last
        BY <1>1 DEF Flush, Batch, Numbering, Settled, Over
    <2>2. Covered' \in {Covered, Covered \cup tokenBuf.first..tokenBuf.last}
        BY <1>1, <2>1, CoveredBatch DEF Flush
    <2> QED BY <1>1, <2>1, <2>2 DEF Flush, Stream!Next, Stream!Settle, Stream!LogUpTo, Over
<1>2. CASE Store
    <2>1. /\ tokenBuf = NoBatch /\ ~Over /\ ~cancelled /\ eventSeq = Len(sent) + 1
          /\ Settled = eventSeq - 1 /\ Settled' = eventSeq
        BY <1>2 DEF Store, Batch, Numbering, Settled, Over
    <2> DEFINE row == EventRow
    <2>2. row.first = eventSeq /\ row.seq = eventSeq
        BY DEF EventRow
    <2>3. log' = log \/ log' = log \cup {row}
        BY <1>2 DEF Store, StoreRow
    <2> HIDE DEF row
    <2>4. Covered' \in {Covered, Covered \cup eventSeq..eventSeq}
        <3>1. CASE log' = log
            BY <1>2, <3>1 DEF Store, Covered
        <3>2. CASE log' = log \cup {row}
            BY <1>2, <2>1, <2>2, <3>2 DEF Store, Covered
        <3> QED BY <2>3, <3>1, <3>2
    <2> QED BY <1>2, <2>1, <2>4 DEF Store, Stream!Next, Stream!Settle, Stream!LogUpTo, Over
<1>3. CASE Yield
    <2>1. /\ eventSeq = Len(sent) + 1 /\ ~Over /\ ~cancelled /\ Len(sent') = Len(sent) + 1
          /\ out = "token" \/ tokenBuf = NoBatch
        BY <1>3 DEF Yield, Batch, Numbering, Over
    <2>2. Settled' = Settled /\ (out = "token" \/ Settled = eventSeq)
        BY <1>3, <2>1 DEF Yield, Settled
    <2>3. Covered' = Covered
        BY <1>3, CoveredSame DEF Yield
    <2> QED BY <1>3, <2>1, <2>2, <2>3 DEF Yield, Stream!Next, Stream!Show, Over
<1>4. CASE CheckAge
    <2>1. tokenBuf # NoBatch /\ Settled = tokenBuf.first - 1 /\ stage' = "idle" /\ ~Over /\ ~cancelled
          /\ 1 <= tokenBuf.first /\ tokenBuf.first <= tokenBuf.last
        BY <1>4 DEF CheckAge, Batch, Settled, Numbering, Over
    <2>2. CASE StoreRow(TokenRow) /\ tokenBuf' = NoBatch
        <3>1. Covered' \in {Covered, Covered \cup tokenBuf.first..tokenBuf.last}
            BY <1>4, <2>1, <2>2, CoveredBatch DEF CheckAge
        <3>2. Settled' = eventSeq /\ (bareError \/ tokenBuf.last = eventSeq)
            BY <1>4, <2>1, <2>2 DEF CheckAge, Batch, Settled
        <3>3. ~bareError
            BY <1>4 DEF CheckAge, Numbering, Over
        <3> QED BY <1>4, <2>1, <2>2, <3>1, <3>2, <3>3
                DEF CheckAge, Stream!Next, Stream!Settle, Stream!LogUpTo, Over
    <2>3. CASE UNCHANGED <<log, storeFailures, tokenBuf>>
        BY <1>4, <1>s, <2>1, <2>3 DEF CheckAge, Settled
    <2> QED BY <1>4, <2>2, <2>3 DEF CheckAge
<1>5. CASE Load \/ Launch \/ Persist \/ Raise \/ Disconnect \/ WorkerStep \/ UNCHANGED vars
    <2>1. (gen' \notin {"ended", "dead"} /\ ~Over) \/ gen' = gen
        BY <1>5 DEF Load, Launch, Persist, Raise, Disconnect, WorkerStep, vars, turnVars, Over
    <2>2. UNCHANGED <<stage, log, eventSeq, tokenBuf, sent, out, cancelled>>
        BY <1>5 DEF Load, Launch, Persist, Raise, Disconnect, WorkerStep, vars, turnVars
    <2> QED BY <1>s, <2>1, <2>2 DEF Settled
<1>6. CASE Announce \/ LaunchWithoutKey
    <2>1. "conversation_id" \in EventTypes /\ "error" \in EventTypes
        BY DEF EventTypes, LoopEvents
    <2> QED BY <1>6, <2>1, EmitIssues DEF Announce, LaunchWithoutKey, Numbering, Over, Stream!Next
<1>7. CASE Drain
    <2>1. CASE Head(queue) \in LoopEvents
        <3>1. Head(queue) \in EventTypes
            BY <2>1 DEF EventTypes
        <3> QED BY <1>7, <2>1, <3>1, EmitIssues DEF Drain, Numbering, Over, Stream!Next
    <2>2. CASE Head(queue) \notin LoopEvents
        <3>1. /\ gen' \notin {"ended", "dead"} /\ ~Over
              /\ UNCHANGED <<stage, log, eventSeq, tokenBuf, sent, out, cancelled>>
            BY <1>7, <2>2 DEF Drain, Over
        <3> QED BY <1>s, <3>1 DEF Settled
    <2> QED BY <2>1, <2>2
<1>8. CASE Report
    <2>1. {"experiment_created", "simulator_created"} \subseteq EventTypes
        BY DEF EventTypes
    <2>2. CASE \E type \in EventTypes : Emit(type) /\ UNCHANGED gen
        BY <1>8, <2>2, EmitIssues DEF Report, Numbering, Over, Stream!Next
    <2>3. CASE gen' = "closing" /\ UNCHANGED <<stage, out, eventSeq, tokenBuf>>
        BY <1>8, <1>s, <2>3 DEF Report, Settled, Over
    <2> QED BY <1>8, <2>1, <2>2, <2>3 DEF Report
<1>9. CASE Fail
    <2>1. "error" \in EventTypes
        BY DEF EventTypes, LoopEvents
    <2>2. CASE Emit("error") /\ UNCHANGED bareError
        BY <1>9, <2>1, <2>2, EmitIssues DEF Fail, Numbering, Over, Stream!Next
    <2>3. CASE eventSeq' = eventSeq + 1 /\ bareError' = TRUE /\ UNCHANGED <<stage, out, tokenBuf>>
        <3>1. /\ eventSeq = Len(sent) /\ ~Over /\ ~cancelled /\ stage = "idle"
              /\ UNCHANGED <<log, sent, cancelled>> /\ gen' = "closing"
            BY <1>9, <2>3 DEF Fail, Numbering, Over
        <3>2. Settled' \in {Settled, eventSeq'} /\ (Settled' = eventSeq' => Settled = eventSeq)
            BY <2>3, <3>1 DEF Settled
        <3>3. Covered' = Covered
            BY <2>3, <3>1, CoveredSame
        <3> QED BY <2>3, <3>1, <3>2, <3>3 DEF Stream!Next, Stream!Issue, Over
    <2> QED BY <1>9, <2>2, <2>3 DEF Fail
<1>10. CASE Close \/ Cancel
    <2>1. /\ ~Over /\ ~cancelled /\ gen' = "ended" /\ UNCHANGED <<eventSeq, out, sent>>
          /\ Settled' = eventSeq
          /\ cancelled' \in BOOLEAN
        BY <1>10 DEF Close, Cancel, Numbering, Settled, Over, TypeOK
    <2>2. \E k \in Settled..eventSeq : Covered' \in {Covered, Covered \cup (Settled + 1)..k}
        <3>1. CASE tokenBuf # NoBatch /\ StoreRow(TokenRow)
            <4>1. Covered' \in {Covered, Covered \cup tokenBuf.first..tokenBuf.last}
                BY <2>1, <3>1, CoveredBatch
            <4>2. Settled = tokenBuf.first - 1 /\ tokenBuf.last \in Settled..eventSeq
                BY <3>1 DEF Settled, Batch
            <4> QED BY <4>1, <4>2, SMTT(60)
        <3>2. CASE log' = log
            BY <2>1, <3>2, CoveredSame
        <3> QED BY <1>10, <3>1, <3>2 DEF Close, Cancel
    <2> QED BY <2>1, <2>2
            DEF Stream!Next, Stream!Finish, Stream!Break, Stream!Close, Stream!LogUpTo, Over
<1>11. CASE Crash
    <2>1. /\ ~Over /\ ~cancelled /\ gen' = "dead" /\ UNCHANGED <<eventSeq, out, sent>>
          /\ Settled' = eventSeq
        BY <1>11 DEF Crash, Numbering, Settled, Over
    <2>2. Covered' = Covered
        BY <1>11, CoveredSame DEF Crash
    <2> QED BY <2>1, <2>2 DEF Stream!Next, Stream!Break, Stream!Close, Stream!LogUpTo, Over
<1> QED BY <1>1, <1>2, <1>3, <1>4, <1>5, <1>6, <1>7, <1>8, <1>9, <1>10, <1>11
        DEF Next, GenStep

\* A chat turn is a stream of events backed by a log: nothing but text is
\* shown before its fate in the log is settled, the log grows in the order of
\* the stream, and it grows no more once the turn is over.
THEOREM TurnImplementsStream == Spec => ImplementsEventStream
    BY LogInvariant, StreamInit, StreamStep, PTL DEF Spec, ImplementsEventStream, Stream!Spec
=============================================================================
