------------------------- MODULE Conversation_proofs -------------------------
(***************************************************************************)
(* Proofs about the turns of a conversation and its simulators, for any    *)
(* number of turns, simulators and blocks.  However turns overlap, abort   *)
(* and fail, rows are numbered causally and message_count never claims     *)
(* more rows than there are; turns that follow one another number and      *)
(* count exactly, read well paired histories, and reveal a hidden model only *)
(* at every second request that is kept.                                   *)
(***************************************************************************)
EXTENDS Simulators, FiniteSetTheorems, TLAPS

\* The turns that have read the rows and may still write some.
Numbering == {t \in Turns : phase[t] \in {"read", "asked", "running", "finished"}}

\* A turn numbers its rows after all it has read and all it has written, and
\* it writes nothing before its question.
NumberInv ==
    /\ \A t \in Numbering : /\ \A r \in history[t] : r.seq < next_seq[t]
                            /\ \A r \in RowsOf(t) : r.seq < next_seq[t]
    /\ \A t \in Turns : phase[t] \in {"idle", "opened"} => history[t] = {}
    /\ \A t \in Turns : phase[t] \in {"idle", "opened", "read"} => RowsOf(t) = {}

\* No copy of message_count claims more rows than there are.
CountInv ==
    /\ IsFiniteSet(rows)
    /\ message_count <= Cardinality(rows)
    /\ \A t \in Turns : count[t] <= Cardinality(rows)

OrderInv == ConversationTypeOK /\ NumberInv /\ CausalOrder

-----------------------------------------------------------------------------
\* The blocks of a reply are blocks.
LEMMA BlocksType ==
    ASSUME NEW role \in {"user", "assistant"}, NEW first \in Nat, NEW n \in Nat
    PROVE  Blocks(role, first, n) \in Seq(Block)
<1>1. \A i \in 1..n : [role |-> role, call |-> first + i] \in Block
    BY DEF Block
<1> QED BY <1>1 DEF Blocks

\* The calls of an answer can be counted.
LEMMA CallsType ==
    ASSUME ConversationTypeOK, NEW t \in Turns
    PROVE  Calls(t) \in Nat
<1> DEFINE uses == {i \in DOMAIN answer[t] :
                        answer[t][i].role = "assistant" /\ answer[t][i].call # 0}
<1>1. answer[t] \in Seq(Block)
    BY DEF ConversationTypeOK
<1>2. DOMAIN answer[t] = 1..Len(answer[t]) /\ Len(answer[t]) \in Nat
    BY <1>1
<1>3. IsFiniteSet(DOMAIN answer[t])
    BY <1>2, FS_Interval
<1>4. uses \in SUBSET DOMAIN answer[t]
    OBVIOUS
<1>5. IsFiniteSet(uses)
    BY <1>3, <1>4, FS_Subset
<1> QED BY <1>5, FS_CardinalityType DEF Calls

\* A block that is saved becomes a row.
LEMMA RowType ==
    ASSUME NEW t \in Turns, NEW seq \in Nat, NEW block \in Block
    PROVE  RowAt(t, seq, block) \in Row
    BY DEF RowAt, Row, Block

\* An answer that grows by a reply is a sequence of blocks.
LEMMA RepliesAreBlocks ==
    ASSUME ConversationTypeOK, NEW t \in Turns, NEW text \in Texts, NEW n \in 0..MaxBlocks
    PROVE  /\ answer[t] \o text \o Blocks("assistant", Calls(t), n) \in Seq(Block)
           /\ answer[t] \o text \o Blocks("assistant", Calls(t), n)
                        \o Blocks("user", Calls(t), n) \in Seq(Block)
<1>1. n \in Nat /\ Calls(t) \in Nat
    BY CallsType, ConversationAssumption
<1>2. Blocks("assistant", Calls(t), n) \in Seq(Block) /\ Blocks("user", Calls(t), n) \in Seq(Block)
    BY <1>1, BlocksType
<1>3. text \in Seq(Block)
    <2>1. Text \in Block
        BY DEF Text, Block
    <2>2. <<>> \in Seq(Block) /\ <<Text>> \in Seq(Block)
        BY <2>1
    <2> QED BY <2>2 DEF Texts
<1>4. answer[t] \in Seq(Block)
    BY DEF ConversationTypeOK
<1> HIDE DEF Blocks, Calls
<1> QED BY <1>2, <1>3, <1>4

-----------------------------------------------------------------------------
\* The first state is well typed and nothing is numbered.
LEMMA OrderInit == ConversationInit => OrderInv
<1> SUFFICES ASSUME ConversationInit PROVE OrderInv
    OBVIOUS
<1>1. ConversationTypeOK
    <2>1. <<>> \in Seq(Block)
        OBVIOUS
    <2> QED BY <2>1 DEF ConversationInit, ConversationTypeOK
<1>2. NumberInv
    BY DEF ConversationInit, NumberInv, Numbering, RowsOf
<1>3. CausalOrder
    BY DEF ConversationInit, CausalOrder, RowsOf
<1> QED BY <1>1, <1>2, <1>3 DEF OrderInv

\* Every step keeps the types.
LEMMA TypeStep ==
    ASSUME ConversationTypeOK, [ConversationNext]_convVars
    PROVE  ConversationTypeOK'
<1> USE DEF ConversationTypeOK
<1>1. ASSUME NEW t \in Turns, Create(t) PROVE ConversationTypeOK'
    <2>1. RowAt(t, 1, Question) \in Row
        BY RowType DEF Question, Block
    <2> QED BY <1>1, <2>1 DEF Create
<1>2. ASSUME NEW t \in Turns, Open(t) PROVE ConversationTypeOK'
    BY <1>2 DEF Open
<1>3. ASSUME NEW t \in Turns, ReadHistory(t) PROVE ConversationTypeOK'
    <2>1. PICK last \in {r.seq : r \in rows} : next_seq' = [next_seq EXCEPT ![t] = last + 1]
        BY <1>3 DEF ReadHistory
    <2>2. last + 1 \in Nat
        BY DEF Row
    <2> QED BY <1>3, <2>1, <2>2 DEF ReadHistory
<1>4. ASSUME NEW t \in Turns, Ask(t) PROVE ConversationTypeOK'
    <2>1. RowAt(t, next_seq[t], Question) \in Row
        BY RowType DEF Question, Block
    <2> QED BY <1>4, <2>1 DEF Ask
<1>5. ASSUME NEW t \in Turns, Start(t) PROVE ConversationTypeOK'
    BY <1>5 DEF Start
<1>6. ASSUME NEW t \in Turns, NEW text \in Texts, NEW n \in 0..MaxBlocks, ToolReply(t, text, n)
      PROVE  ConversationTypeOK'
    BY <1>6, RepliesAreBlocks DEF ToolReply
<1>7. ASSUME NEW t \in Turns, NEW text \in Texts, NEW n \in 0..MaxBlocks, LastReply(t, text, n)
      PROVE  ConversationTypeOK'
    BY <1>7, RepliesAreBlocks DEF LastReply
<1>8. ASSUME NEW t \in Turns, LoopFails(t) PROVE ConversationTypeOK'
    BY <1>8 DEF LoopFails
<1>9. ASSUME NEW t \in Turns, Save(t) PROVE ConversationTypeOK'
    <2>1. answer[t] \in Seq(Block)
        OBVIOUS
    <2>2. \A i \in DOMAIN answer[t] : answer[t][i] \in Block /\ next_seq[t] + i - 1 \in Nat
        BY <2>1
    <2>3. \A i \in DOMAIN answer[t] : RowAt(t, next_seq[t] + i - 1, answer[t][i]) \in Row
        BY <2>2, RowType
    <2>4. rows' \subseteq Row /\ message_count' \in Nat
        BY <1>9, <2>1, <2>3 DEF Save
    <2> QED BY <1>9, <2>4 DEF Save, End
<1>10. ASSUME NEW t \in Turns, Abort(t) PROVE ConversationTypeOK'
    BY <1>10 DEF Abort, End
<1>11. CASE UNCHANGED convVars
    BY <1>11 DEF convVars
<1> QED
    BY <1>1, <1>2, <1>3, <1>4, <1>5, <1>6, <1>7, <1>8, <1>9, <1>10, <1>11 DEF ConversationNext

\* Steps that leave the rows alone, and number nothing, keep the order.
LEMMA QuietStep ==
    ASSUME OrderInv, UNCHANGED <<rows, history, next_seq>>,
           \A t \in Turns : \/ phase'[t] = phase[t]
                            \/ phase'[t] \in {"running", "finished"} /\ t \in Numbering
                            \/ phase'[t] = "opened" /\ phase[t] = "idle"
    PROVE  NumberInv' /\ CausalOrder'
    BY DEF OrderInv, NumberInv, Numbering, CausalOrder, RowsOf

\* The end of a turn.
LEMMA EndStep ==
    ASSUME OrderInv, NEW t \in Turns, End(t), UNCHANGED <<rows, history>>
    PROVE  NumberInv' /\ CausalOrder'
    BY DEF OrderInv, ConversationTypeOK, NumberInv, Numbering, CausalOrder, RowsOf, End

\* Every step keeps the order.
LEMMA OrderStep ==
    ASSUME OrderInv, [ConversationNext]_convVars
    PROVE  OrderInv'
<1>t. ConversationTypeOK'
    BY TypeStep DEF OrderInv
<1> SUFFICES NumberInv' /\ CausalOrder'
    BY <1>t DEF OrderInv
<1>1. ASSUME NEW t \in Turns, Create(t) PROVE NumberInv' /\ CausalOrder'
    BY <1>1 DEF Create, OrderInv, ConversationTypeOK, NumberInv, Numbering, CausalOrder, RowsOf,
                RowAt
<1>2. ASSUME NEW t \in Turns, Open(t) PROVE NumberInv' /\ CausalOrder'
    BY <1>2, QuietStep DEF Open, OrderInv, ConversationTypeOK
<1>3. ASSUME NEW t \in Turns, ReadHistory(t) PROVE NumberInv' /\ CausalOrder'
    <2>1. PICK last \in {r.seq : r \in rows} :
              /\ \A r \in rows : r.seq <= last
              /\ next_seq' = [next_seq EXCEPT ![t] = last + 1]
        BY <1>3 DEF ReadHistory
    <2>2. last \in Nat /\ \A r \in rows : r.seq \in Nat
        BY DEF Row, OrderInv, ConversationTypeOK
    <2>3. \A r \in rows : r.seq < next_seq'[t]
        BY <2>1, <2>2 DEF OrderInv, ConversationTypeOK
    <2>4. RowsOf(t) = {}
        BY <1>3 DEF ReadHistory, OrderInv, NumberInv
    <2> QED
        BY <1>3, <2>1, <2>3, <2>4 DEF ReadHistory, OrderInv, ConversationTypeOK, NumberInv,
                                      Numbering, CausalOrder, RowsOf
<1>4. ASSUME NEW t \in Turns, Ask(t) PROVE NumberInv' /\ CausalOrder'
    <2> DEFINE question == RowAt(t, next_seq[t], Question)
    <2>1. question.turn = t /\ question.seq = next_seq[t] /\ next_seq[t] \in Nat
        BY DEF RowAt, OrderInv, ConversationTypeOK
    <2>2. rows' = rows \cup {question} /\ next_seq'[t] = next_seq[t] + 1
        BY <1>4 DEF Ask, OrderInv, ConversationTypeOK
    <2>3. t \in Numbering /\ RowsOf(t) = {}
        BY <1>4 DEF Ask, OrderInv, NumberInv, Numbering
    <2>4. \A r \in history[t] : r.seq \in Nat /\ r.seq < next_seq[t]
        BY <2>3 DEF OrderInv, NumberInv, ConversationTypeOK, Row
    <2> HIDE DEF question
    <2> QED
        BY <1>4, <2>1, <2>2, <2>3, <2>4 DEF Ask, OrderInv, ConversationTypeOK, NumberInv, Numbering,
                                       CausalOrder, RowsOf
<1>5. ASSUME NEW t \in Turns, Start(t) PROVE NumberInv' /\ CausalOrder'
    BY <1>5, QuietStep DEF Start, OrderInv, ConversationTypeOK, Numbering
<1>6. ASSUME NEW t \in Turns, NEW text \in Texts, NEW n \in 0..MaxBlocks, ToolReply(t, text, n)
      PROVE  NumberInv' /\ CausalOrder'
    BY <1>6, QuietStep DEF ToolReply
<1>7. ASSUME NEW t \in Turns, NEW text \in Texts, NEW n \in 0..MaxBlocks, LastReply(t, text, n)
      PROVE  NumberInv' /\ CausalOrder'
    BY <1>7, QuietStep DEF LastReply, OrderInv, ConversationTypeOK, Numbering
<1>8. ASSUME NEW t \in Turns, LoopFails(t) PROVE NumberInv' /\ CausalOrder'
    BY <1>8, QuietStep DEF LoopFails, OrderInv, ConversationTypeOK, Numbering
<1>9. ASSUME NEW t \in Turns, Save(t) PROVE NumberInv' /\ CausalOrder'
    <2> DEFINE new(i) == RowAt(t, next_seq[t] + i - 1, answer[t][i])
    <2>1. DOMAIN answer[t] \subseteq Nat \ {0} /\ next_seq[t] \in Nat
        BY DEF OrderInv, ConversationTypeOK
    <2>2. \A i \in DOMAIN answer[t] : new(i).turn = t /\ new(i).seq = next_seq[t] + i - 1
        BY DEF RowAt
    <2>3. rows' = rows \cup {new(i) : i \in DOMAIN answer[t]}
        BY <1>9 DEF Save
    <2> HIDE DEF new
    <2>4. t \in Numbering /\ Numbering' = Numbering \ {t}
        BY <1>9 DEF Save, End, Numbering, OrderInv, ConversationTypeOK
    <2>5. /\ \A r \in history[t] : r.seq \in Nat /\ r.seq < next_seq[t]
          /\ \A r \in RowsOf(t) : r.seq \in Nat /\ r.seq < next_seq[t]
        BY <2>4 DEF OrderInv, NumberInv, ConversationTypeOK, Row, RowsOf
    <2>6. \A u \in Turns : u # t => RowsOf(u)' = RowsOf(u)
        BY <2>2, <2>3 DEF RowsOf
    <2>7. NumberInv'
        BY <1>9, <2>4, <2>6 DEF Save, End, NumberInv, Numbering, OrderInv, ConversationTypeOK
    <2>8. \A u \in Turns : \A r \in history'[u], s \in RowsOf(u)' : r.seq < s.seq
        <3>1. \A i \in DOMAIN answer[t], r \in history[t] : r.seq < new(i).seq
            BY <2>1, <2>2, <2>5
        <3> QED
            BY <1>9, <2>2, <2>3, <2>6, <3>1 DEF Save, OrderInv, CausalOrder, RowsOf
    <2>9. \A r, s \in rows' : r.turn = s.turn /\ r.seq = s.seq => r = s
        <3>1. \A r \in rows, i \in DOMAIN answer[t] : r.turn = t => r.seq # new(i).seq
            BY <2>1, <2>2, <2>5 DEF RowsOf
        <3>2. \A i, j \in DOMAIN answer[t] : new(i).seq = new(j).seq => i = j
            BY <2>1, <2>2
        <3> QED BY <2>2, <2>3, <3>1, <3>2 DEF OrderInv, CausalOrder
    <2> QED BY <2>7, <2>8, <2>9 DEF CausalOrder
<1>10. ASSUME NEW t \in Turns, Abort(t) PROVE NumberInv' /\ CausalOrder'
    BY <1>10, EndStep DEF Abort
<1>11. CASE UNCHANGED convVars
    BY <1>11, QuietStep DEF convVars
<1> QED
    BY <1>1, <1>2, <1>3, <1>4, <1>5, <1>6, <1>7, <1>8, <1>9, <1>10, <1>11 DEF ConversationNext

\* Rows are numbered causally in every conversation: what a turn writes comes
\* after all it had read, and in the order it was made.
THEOREM RowsAreCausal == ConversationSpec => []CausalOrder
<1>1. ConversationInit => OrderInv
    BY OrderInit
<1>2. OrderInv /\ [ConversationNext]_convVars => OrderInv'
    BY OrderStep
<1>3. OrderInv => CausalOrder
    BY DEF OrderInv
<1> QED BY <1>1, <1>2, <1>3, PTL DEF ConversationSpec
-----------------------------------------------------------------------------
\* The rows that saving a turn adds are new, and as many as its blocks.
LEMMA SavedRows ==
    ASSUME OrderInv, IsFiniteSet(rows), NEW t \in Turns, Save(t)
    PROVE  /\ IsFiniteSet(rows')
           /\ Cardinality(rows') = Cardinality(rows) + Len(answer[t])
<1> DEFINE new(i) == RowAt(t, next_seq[t] + i - 1, answer[t][i])
           f == [i \in DOMAIN answer[t] |-> new(i)]
           added == {new(i) : i \in DOMAIN answer[t]}
<1>1. /\ DOMAIN answer[t] = 1..Len(answer[t])
      /\ Len(answer[t]) \in Nat
      /\ next_seq[t] \in Nat
    <2>1. answer[t] \in Seq(Block)
        BY DEF OrderInv, ConversationTypeOK
    <2> QED BY <2>1 DEF OrderInv, ConversationTypeOK
<1>2. \A i \in DOMAIN answer[t] : new(i).turn = t /\ new(i).seq = next_seq[t] + i - 1
    BY DEF RowAt
<1>3. rows' = rows \cup added
    BY DEF Save
<1> HIDE DEF new
<1>4. IsFiniteSet(DOMAIN answer[t]) /\ Cardinality(DOMAIN answer[t]) = Len(answer[t])
    <2> PICK n \in Nat : n = Len(answer[t])
        BY <1>1
    <2>1. IsFiniteSet(1..n) /\ Cardinality(1..n) = n
        BY ONLY n \in Nat, FS_Interval
    <2>2. DOMAIN answer[t] = 1..n
        BY <1>1
    <2> QED BY ONLY <2>1, <2>2, n = Len(answer[t])
<1>5. f \in Bijection(DOMAIN answer[t], added)
    <2>1. ASSUME NEW i \in DOMAIN answer[t], NEW j \in DOMAIN answer[t], f[i] = f[j]
          PROVE  i = j
        <3>1. new(i).seq = new(j).seq
            BY <2>1
        <3>2. next_seq[t] + i - 1 = next_seq[t] + j - 1
            BY <1>2, <3>1
        <3>3. i \in Nat /\ j \in Nat
            BY <1>1
        <3> QED BY ONLY <1>1, <3>2, <3>3
    <2>2. f \in [DOMAIN answer[t] -> added] /\ \A x \in added : \E i \in DOMAIN answer[t] : f[i] = x
        OBVIOUS
    <2> HIDE DEF f, added
    <2>3. f \in Injection(DOMAIN answer[t], added)
        BY <2>1, <2>2 DEF Injection, IsInjective
    <2>4. f \in Surjection(DOMAIN answer[t], added)
        BY <2>2 DEF Surjection
    <2> QED BY <2>3, <2>4 DEF Bijection
<1>6. IsFiniteSet(added) /\ Cardinality(added) = Len(answer[t])
    BY <1>4, <1>5, FS_Bijection DEF ExistsBijection
<1>7. rows \cap added = {}
    <2>1. t \in Numbering
        BY DEF Save, Numbering
    <2>2. \A r \in rows : r.turn = t => r.seq \in Nat /\ r.seq < next_seq[t]
        BY <2>1 DEF OrderInv, NumberInv, RowsOf, ConversationTypeOK, Row
    <2>3. \A i \in DOMAIN answer[t] : new(i) \notin rows
        BY <1>1, <1>2, <2>2
    <2> QED BY <2>3
<1> HIDE DEF added
<1>8. /\ IsFiniteSet(rows \cup added)
      /\ Cardinality(rows \cup added)
             = Cardinality(rows) + Cardinality(added) - Cardinality(rows \cap added)
    BY <1>6, FS_Union
<1>9. Cardinality(rows \cap added) = 0
    BY <1>7, FS_EmptySet
<1>10. Cardinality(rows) \in Nat
    BY FS_CardinalityType
<1>11. Cardinality(rows \cup added) = Cardinality(rows) + Len(answer[t])
    BY <1>1, <1>6, <1>8, <1>9, <1>10
<1> QED BY <1>3, <1>8, <1>11

\* A question is a row that was not there.
LEMMA AskedRow ==
    ASSUME OrderInv, IsFiniteSet(rows), NEW t \in Turns, NEW seq,
           RowsOf(t) = {}, rows' = rows \cup {RowAt(t, seq, Question)}
    PROVE  IsFiniteSet(rows') /\ Cardinality(rows') = Cardinality(rows) + 1
<1> DEFINE question == RowAt(t, seq, Question)
<1>1. question \notin rows
    BY DEF RowsOf, RowAt
<1> HIDE DEF question
<1>2. /\ IsFiniteSet(rows \cup {question})
      /\ Cardinality(rows \cup {question}) = Cardinality(rows) + 1
    BY <1>1, FS_AddElement
<1>3. rows' = rows \cup {question}
    BY DEF question
<1> QED BY <1>2, <1>3

\* A step that adds no row counts none.
LEMMA UncountedStep ==
    ASSUME OrderInv, CountInv, UNCHANGED <<rows, message_count>>,
           \A t \in Turns : count'[t] \in {count[t], message_count, 0}
    PROVE  CountInv'
<1>1. Cardinality(rows) \in Nat
    BY FS_CardinalityType DEF CountInv
<1>2. Cardinality(rows') = Cardinality(rows) /\ (IsFiniteSet(rows') <=> IsFiniteSet(rows))
    OBVIOUS
<1>3. ASSUME NEW t \in Turns PROVE count'[t] <= Cardinality(rows)
    <2>1. /\ 0 <= Cardinality(rows)
          /\ message_count <= Cardinality(rows)
          /\ count[t] <= Cardinality(rows)
        BY <1>1 DEF CountInv
    <2>2. CASE count'[t] = count[t]
        BY <2>1, <2>2
    <2>3. CASE count'[t] = message_count
        BY <2>1, <2>3
    <2>4. CASE count'[t] = 0
        BY <2>1, <2>4
    <2> QED BY <2>2, <2>3, <2>4
<1> QED BY <1>2, <1>3 DEF CountInv

\* Every step keeps the counts below the number of rows.
LEMMA CountStep ==
    ASSUME OrderInv, CountInv, [ConversationNext]_convVars
    PROVE  CountInv'
<1>n. Cardinality(rows) \in Nat
    BY FS_CardinalityType DEF CountInv
<1> USE DEF ConversationTypeOK
<1>1. ASSUME NEW t \in Turns, Create(t) PROVE CountInv'
    <2>1. RowsOf(t) = {} /\ rows' = rows \cup {RowAt(t, 1, Question)}
        BY <1>1 DEF Create, RowsOf
    <2>2. IsFiniteSet(rows') /\ Cardinality(rows') = Cardinality(rows) + 1
        BY <2>1, AskedRow DEF CountInv
    <2>3. \A u \in Turns : count'[u] \in {count[u], 1} /\ count[u] \in Nat
        BY <1>1 DEF Create, OrderInv
    <2>4. \A u \in Turns : count'[u] <= Cardinality(rows) + 1
        BY <1>n, <2>3 DEF CountInv
    <2>5. message_count' <= Cardinality(rows) + 1
        BY <1>1, <1>n DEF Create
    <2> QED BY <2>2, <2>4, <2>5 DEF CountInv
<1>2. ASSUME NEW t \in Turns, Open(t) PROVE CountInv'
    BY <1>2, UncountedStep DEF Open, OrderInv
<1>3. ASSUME NEW t \in Turns, ReadHistory(t) PROVE CountInv'
    BY <1>3, UncountedStep DEF ReadHistory
<1>4. ASSUME NEW t \in Turns, Ask(t) PROVE CountInv'
    <2>1. RowsOf(t) = {} /\ rows' = rows \cup {RowAt(t, next_seq[t], Question)}
        BY <1>4 DEF Ask, OrderInv, NumberInv
    <2>2. IsFiniteSet(rows') /\ Cardinality(rows') = Cardinality(rows) + 1
        BY <2>1, AskedRow DEF CountInv
    <2>3. /\ \A u \in Turns : count'[u] \in {count[u], count[u] + 1} /\ count[u] \in Nat
          /\ message_count' = count[t] + 1
        BY <1>4 DEF Ask, OrderInv
    <2>4. \A u \in Turns : count'[u] <= Cardinality(rows) + 1
        BY <1>n, <2>3 DEF CountInv
    <2>5. message_count' <= Cardinality(rows) + 1
        BY <1>n, <2>3 DEF CountInv
    <2> QED BY <2>2, <2>4, <2>5 DEF CountInv
<1>5. ASSUME NEW t \in Turns, Start(t) PROVE CountInv'
    BY <1>5, UncountedStep DEF Start
<1>6. ASSUME NEW t \in Turns, NEW text \in Texts, NEW n \in 0..MaxBlocks,
             ToolReply(t, text, n) \/ LastReply(t, text, n)
      PROVE  CountInv'
    BY <1>6, UncountedStep DEF ToolReply, LastReply
<1>7. ASSUME NEW t \in Turns, LoopFails(t) PROVE CountInv'
    BY <1>7, UncountedStep DEF LoopFails
<1>8. ASSUME NEW t \in Turns, Save(t) PROVE CountInv'
    <2>1. IsFiniteSet(rows') /\ Cardinality(rows') = Cardinality(rows) + Len(answer[t])
        BY <1>8, SavedRows DEF CountInv
    <2>2. Len(answer[t]) \in Nat
        BY DEF OrderInv
    <2>3. \A u \in Turns : count'[u] <= Cardinality(rows')
        BY <1>8, <1>n, <2>1, <2>2 DEF Save, End, CountInv, OrderInv
    <2>4. message_count' <= Cardinality(rows')
        BY <1>8, <1>n, <2>1, <2>2 DEF Save, CountInv, OrderInv
    <2> QED BY <2>1, <2>3, <2>4 DEF CountInv
<1>9. ASSUME NEW t \in Turns, Abort(t) PROVE CountInv'
    BY <1>9, UncountedStep DEF Abort, End, OrderInv
<1>10. CASE UNCHANGED convVars
    BY <1>10, UncountedStep DEF convVars
<1> QED
    BY <1>1, <1>2, <1>3, <1>4, <1>5, <1>6, <1>7, <1>8, <1>9, <1>10 DEF ConversationNext

\* Overlapping turns may lose updates of message_count, and never add any.
THEOREM CountsNoMore == ConversationSpec => []CountNeverOvercounts
<1>1. ConversationInit => OrderInv /\ CountInv
    BY OrderInit, FS_EmptySet DEF ConversationInit, CountInv
<1>2. OrderInv /\ CountInv /\ [ConversationNext]_convVars => (OrderInv /\ CountInv)'
    BY OrderStep, CountStep
<1>3. CountInv => CountNeverOvercounts
    BY DEF CountInv, CountNeverOvercounts
<1> QED BY <1>1, <1>2, <1>3, PTL DEF ConversationSpec

-----------------------------------------------------------------------------
\* Every tool use of an answer is followed by its result, with nothing between
\* them but other uses and results of the reply, or has no result at all.
Uses(a) == {i \in DOMAIN a : a[i].role = "assistant" /\ a[i].call # 0}
Answered(a) ==
    \A i \in Uses(a) :
        \/ \A j \in DOMAIN a : a[j].call = a[i].call => j = i
        \/ \E j \in DOMAIN a :
              /\ i < j /\ a[j].call = a[i].call /\ a[j].role = "user"
              /\ \A k \in (i + 1)..j : a[k].call # 0
              /\ \A k, l \in (i + 1)..j : k < l /\ a[k].role = "user" => a[l].role = "user"

\* b is a with one more reply: d texts, n uses and m results.
IsReply(b, a, d, c, n, m) ==
    /\ b \in Seq(Block) /\ Len(b) = Len(a) + d + n + m
    /\ \A i \in 1..Len(a) : b[i] = a[i]
    /\ \A i \in (Len(a) + 1)..(Len(a) + d) : b[i].call = 0
    /\ \A i \in (Len(a) + d + 1)..(Len(a) + d + n) :
          b[i].role = "assistant" /\ b[i].call = c + (i - Len(a) - d)
    /\ \A i \in (Len(a) + d + n + 1)..(Len(a) + d + n + m) :
          b[i].role = "user" /\ b[i].call = c + (i - Len(a) - d - n)

\* The blocks of n tool calls, numbered after first.
AreBlocks(u, role, first, n) ==
    /\ u \in Seq(Block) /\ Len(u) = n
    /\ \A i \in 1..n : u[i].role = role /\ u[i].call = first + i

\* Blocks(role, first, n) are such.
LEMMA BlocksAre ==
    ASSUME NEW role \in {"user", "assistant"}, NEW first \in Nat, NEW n \in Nat
    PROVE  AreBlocks(Blocks(role, first, n), role, first, n)
<1> PICK f : f = [i \in 1..n |-> [role |-> role, call |-> first + i]]
    OBVIOUS
<1>1. f = Blocks(role, first, n)
    BY DEF Blocks
<1>2. Len(f) = n
    OBVIOUS
<1>3. \A i \in 1..n : f[i].role = role /\ f[i].call = first + i
    OBVIOUS
<1>4. f \in Seq(Block)
    BY <1>1, BlocksType
<1> QED BY <1>1, <1>2, <1>3, <1>4 DEF AreBlocks

\* A reply has one text or none.
LEMMA TextsAre ==
    ASSUME NEW text \in Texts
    PROVE  /\ text \in Seq(Block) /\ Len(text) \in 0..1
           /\ \A i \in 1..Len(text) : text[i].call = 0
<1>1. Text \in Block /\ Text.call = 0
    BY DEF Text, Block
<1>2. CASE text = <<>>
    BY <1>2
<1>3. CASE text = <<Text>>
    BY <1>1, <1>3
<1> QED BY <1>2, <1>3 DEF Texts

\* What joining two sequences of blocks gives, position by position.
LEMMA Joined ==
    ASSUME NEW a \in Seq(Block), NEW b \in Seq(Block)
    PROVE  /\ a \o b \in Seq(Block) /\ Len(a \o b) = Len(a) + Len(b)
           /\ \A i \in 1..Len(a) : (a \o b)[i] = a[i]
           /\ \A i \in (Len(a) + 1)..(Len(a) + Len(b)) : (a \o b)[i] = b[i - Len(a)]
OBVIOUS

\* A reply without tool calls, or whose tool calls are not answered.
LEMMA UsesFollow ==
    ASSUME NEW a \in Seq(Block), NEW text \in Texts, NEW c \in Nat, NEW n \in Nat,
           NEW b, b = a \o text \o Blocks("assistant", c, n)
    PROVE  IsReply(b, a, Len(text), c, n, 0)
<1> PICK u : u = Blocks("assistant", c, n)
    OBVIOUS
<1>1. /\ u \in Seq(Block) /\ Len(u) = n
      /\ \A i \in 1..n : u[i].role = "assistant" /\ u[i].call = c + i
    <2>1. AreBlocks(u, "assistant", c, n)
        BY BlocksAre
    <2> QED BY <2>1 DEF AreBlocks
<1>2. /\ text \in Seq(Block) /\ Len(text) \in 0..1
      /\ \A i \in 1..Len(text) : text[i].call = 0
    BY TextsAre
<1> PICK x : x = a \o text
    OBVIOUS
<1> PICK L \in Nat : L = Len(a)
    OBVIOUS
<1> PICK d \in 0..1 : d = Len(text)
    BY <1>2
<1> PICK D \in Nat : D = L + d
    OBVIOUS
<1>3. /\ x \in Seq(Block) /\ Len(x) = D
      /\ \A i \in 1..L : x[i] = a[i]
      /\ \A i \in (L + 1)..D : x[i] = text[i - L]
    BY <1>2, Joined
<1>0. b = x \o u
    OBVIOUS
<1>4. /\ b \in Seq(Block) /\ Len(b) = D + n
      /\ \A i \in 1..D : b[i] = x[i]
      /\ \A i \in (D + 1)..(D + n) : b[i] = u[i - D]
    <2>1. Len(x) = D /\ Len(u) = n
        BY <1>1, <1>3
    <2>2. /\ x \o u \in Seq(Block) /\ Len(x \o u) = Len(x) + Len(u)
          /\ \A i \in 1..Len(x) : (x \o u)[i] = x[i]
          /\ \A i \in (Len(x) + 1)..(Len(x) + Len(u)) : (x \o u)[i] = u[i - Len(x)]
        BY <1>1, <1>3, Joined, Zenon
    <2> QED BY <1>0, <2>1, <2>2, Zenon
<1>5. \A i \in 1..L : b[i] = a[i]
    BY <1>3, <1>4
<1>6. \A i \in (L + 1)..D : b[i].call = 0
    <2> SUFFICES ASSUME NEW i \in (L + 1)..D PROVE b[i].call = 0
        OBVIOUS
    <2>1. i \in 1..D /\ i - L \in 1..Len(text)
        OBVIOUS
    <2>2. b[i] = text[i - L]
        BY <2>1, <1>3, <1>4
    <2> QED BY <2>1, <2>2, <1>2
<1>7. \A i \in (D + 1)..(D + n) : b[i].role = "assistant" /\ b[i].call = c + (i - D)
    <2> SUFFICES ASSUME NEW i \in (D + 1)..(D + n)
                 PROVE  b[i].role = "assistant" /\ b[i].call = c + (i - D)
        OBVIOUS
    <2>1. i - D \in 1..n
        OBVIOUS
    <2> QED BY <2>1, <1>1, <1>4
<1>8. IsReply(b, a, d, c, n, 0)
    <2>1. Len(b) = L + d + n + 0
        BY <1>4
    <2>2. \A i \in (L + d + 1)..(L + d + n) :
             b[i].role = "assistant" /\ b[i].call = c + (i - L - d)
        <3> SUFFICES ASSUME NEW i \in (L + d + 1)..(L + d + n)
                     PROVE  b[i].role = "assistant" /\ b[i].call = c + (i - L - d)
            OBVIOUS
        <3>1. i - L - d = i - D /\ i \in (D + 1)..(D + n)
            BY ONLY D = L + d, L \in Nat, d \in 0..1, n \in Nat, i \in (L + d + 1)..(L + d + n)
        <3> QED BY <3>1, <1>7
    <2>3. \A i \in (L + d + n + 1)..(L + d + n + 0) : FALSE
        OBVIOUS
    <2> QED BY <1>4, <1>5, <1>6, <2>1, <2>2, <2>3 DEF IsReply
<1> QED BY <1>8

\* A reply whose tool calls are answered.
LEMMA ResultsFollow ==
    ASSUME NEW a \in Seq(Block), NEW text \in Texts, NEW c \in Nat, NEW n \in Nat,
           NEW b, b = a \o text \o Blocks("assistant", c, n) \o Blocks("user", c, n)
    PROVE  IsReply(b, a, Len(text), c, n, n)
<1> PICK x : x = a \o text \o Blocks("assistant", c, n)
    OBVIOUS
<1> PICK v : v = Blocks("user", c, n)
    OBVIOUS
<1> PICK L \in Nat : L = Len(a)
    OBVIOUS
<1> PICK d \in 0..1 : d = Len(text)
    BY TextsAre
<1>1. IsReply(x, a, d, c, n, 0)
    BY UsesFollow
<1>2. /\ v \in Seq(Block) /\ Len(v) = n
      /\ \A i \in 1..n : v[i].role = "user" /\ v[i].call = c + i
    <2>1. AreBlocks(v, "user", c, n)
        BY BlocksAre
    <2> QED BY <2>1 DEF AreBlocks
<1> PICK E \in Nat : E = L + d + n
    OBVIOUS
<1>3. /\ x \in Seq(Block) /\ Len(x) = E
      /\ \A i \in 1..L : x[i] = a[i]
      /\ \A i \in (L + 1)..(L + d) : x[i].call = 0
      /\ \A i \in (L + d + 1)..E :
            x[i].role = "assistant" /\ x[i].call = c + (i - L - d)
    <2>1. /\ x \in Seq(Block) /\ Len(x) = L + d + n + 0
          /\ \A i \in 1..L : x[i] = a[i]
          /\ \A i \in (L + 1)..(L + d) : x[i].call = 0
          /\ \A i \in (L + d + 1)..(L + d + n) :
                x[i].role = "assistant" /\ x[i].call = c + (i - L - d)
        BY ONLY <1>1, L = Len(a) DEF IsReply
    <2>2. L + d + n + 0 = E
        BY ONLY E = L + d + n, L \in Nat, d \in 0..1, n \in Nat
    <2> QED BY ONLY <2>1, <2>2, E = L + d + n
<1>0. b = x \o v
    OBVIOUS
<1>4. /\ b \in Seq(Block) /\ Len(b) = E + n
      /\ \A i \in 1..E : b[i] = x[i]
      /\ \A i \in (E + 1)..(E + n) : b[i] = v[i - E]
    <2>1. Len(x) = E /\ Len(v) = n
        BY <1>2, <1>3
    <2>2. /\ x \o v \in Seq(Block) /\ Len(x \o v) = Len(x) + Len(v)
          /\ \A i \in 1..Len(x) : (x \o v)[i] = x[i]
          /\ \A i \in (Len(x) + 1)..(Len(x) + Len(v)) : (x \o v)[i] = v[i - Len(x)]
        BY <1>2, <1>3, Joined, Zenon
    <2> QED BY <1>0, <2>1, <2>2, Zenon
<1>5. \A i \in 1..L : b[i] = a[i]
    BY <1>3, <1>4
<1>6. \A i \in (L + 1)..(L + d) : b[i].call = 0
    <2> SUFFICES ASSUME NEW i \in (L + 1)..(L + d) PROVE b[i].call = 0
        OBVIOUS
    <2>1. i \in 1..E
        BY ONLY E = L + d + n, L \in Nat, d \in 0..1, n \in Nat, i \in (L + 1)..(L + d)
    <2> QED BY <2>1, <1>3, <1>4
<1>7. \A i \in (L + d + 1)..E : b[i].role = "assistant" /\ b[i].call = c + (i - L - d)
    <2>1. \A i \in (L + d + 1)..E : i \in 1..E
        OBVIOUS
    <2>2. \A i \in (L + d + 1)..E : b[i] = x[i]
        BY <1>4, <2>1
    <2> QED BY <1>3, <2>2
<1>8. \A i \in (E + 1)..(E + n) : b[i].role = "user" /\ b[i].call = c + (i - E)
    <2> SUFFICES ASSUME NEW i \in (E + 1)..(E + n)
                 PROVE  b[i].role = "user" /\ b[i].call = c + (i - E)
        OBVIOUS
    <2>1. i - E \in 1..n
        OBVIOUS
    <2> QED BY <2>1, <1>2, <1>4
<1>9. IsReply(b, a, d, c, n, n)
    <2>1. ASSUME NEW i \in (L + d + n + 1)..(L + d + n + n)
          PROVE  b[i].role = "user" /\ b[i].call = c + (i - L - d - n)
        <3>1. i - E = i - L - d - n /\ i \in (E + 1)..(E + n)
            BY ONLY E = L + d + n, L \in Nat, d \in 0..1, n \in Nat,
                    i \in (L + d + n + 1)..(L + d + n + n)
        <3> QED BY <1>8, <3>1
    <2>2. Len(b) = L + d + n + n
        BY ONLY <1>4, E = L + d + n
    <2>3. \A i \in (L + d + 1)..(L + d + n) :
             b[i].role = "assistant" /\ b[i].call = c + (i - L - d)
        BY ONLY <1>7, E = L + d + n
    <2> QED BY ONLY <1>4, <1>5, <1>6, <2>1, <2>2, <2>3, L = Len(a) DEF IsReply
<1> QED BY <1>9

\* The uses of a sequence of blocks, counted.
LEMMA UsesType ==
    ASSUME NEW a \in Seq(Block)
    PROVE  IsFiniteSet(Uses(a)) /\ Cardinality(Uses(a)) \in Nat
<1>1. DOMAIN a = 1..Len(a) /\ Len(a) \in Nat
    OBVIOUS
<1>2. IsFiniteSet(DOMAIN a)
    BY <1>1, FS_Interval
<1>3. Uses(a) \in SUBSET DOMAIN a
    BY DEF Uses
<1>4. IsFiniteSet(Uses(a))
    BY <1>2, <1>3, FS_Subset
<1> QED BY <1>4, FS_CardinalityType

\* What a reply is made of, position by position.
PartOf(b, a, L, d, c, n, m, i) ==
    \/ i \in DOMAIN a /\ i <= L /\ b[i] = a[i]
    \/ i > L /\ i <= L + d /\ b[i].call = 0
    \/ /\ i > L + d /\ i <= L + d + n
       /\ b[i].role = "assistant" /\ b[i].call = c + (i - L - d)
    \/ /\ i > L + d + n /\ i <= L + d + n + m
       /\ b[i].role = "user" /\ b[i].call = c + (i - L - d - n)

\* Every position of a reply is of one of those kinds.
LEMMA ReplyParts ==
    ASSUME NEW a \in Seq(Block), NEW b, NEW d \in Nat, NEW c \in Nat, NEW n \in Nat, NEW m \in Nat,
           IsReply(b, a, d, c, n, m), NEW i \in DOMAIN b
    PROVE  i \in Nat /\ PartOf(b, a, Len(a), d, c, n, m, i)
<1> PICK L \in Nat : L = Len(a)
    OBVIOUS
<1>1. b \in Seq(Block) /\ Len(b) = L + d + n + m
    BY DEF IsReply
<1>2. i \in Nat /\ i >= 1 /\ i <= L + d + n + m
    BY <1>1
<1>3. CASE i <= L
    <2>1. i \in 1..L
        BY <1>2, <1>3
    <2> QED BY <1>2, <1>3, <2>1 DEF IsReply, PartOf
<1>4. CASE i > L /\ i <= L + d
    <2>1. i \in (L + 1)..(L + d)
        BY <1>2, <1>4
    <2> QED BY <1>2, <1>4, <2>1 DEF IsReply, PartOf
<1>5. CASE i > L + d /\ i <= L + d + n
    <2>1. i \in (L + d + 1)..(L + d + n)
        BY <1>2, <1>5
    <2> QED BY <1>2, <1>5, <2>1 DEF IsReply, PartOf
<1>6. CASE i > L + d + n
    <2>1. i \in (L + d + n + 1)..(L + d + n + m)
        BY <1>2, <1>6
    <2> QED BY <1>2, <1>6, <2>1 DEF IsReply, PartOf
<1> QED BY <1>2, <1>3, <1>4, <1>5, <1>6

\* A reply with n tool calls has n uses more.
LEMMA UsesGrow ==
    ASSUME NEW a \in Seq(Block), NEW b, NEW d \in Nat, NEW c \in Nat, NEW n \in Nat, NEW m \in Nat,
           IsReply(b, a, d, c, n, m)
    PROVE  Cardinality(Uses(b)) = Cardinality(Uses(a)) + n
<1> PICK L \in Nat : L = Len(a)
    OBVIOUS
<1> PICK D \in Nat : D = L + d
    OBVIOUS
<1> PICK new : new = (D + 1)..(D + n)
    OBVIOUS
<1>1. b \in Seq(Block) /\ Len(b) = D + n + m
    BY DEF IsReply
<1>2. \A i \in 1..L : b[i] = a[i]
    BY DEF IsReply
<1>3. \A i \in new : b[i].role = "assistant" /\ b[i].call \in Nat \ {0}
    <2>1. \A i \in (L + d + 1)..(L + d + n) :
             b[i].role = "assistant" /\ b[i].call = c + (i - L - d)
        BY DEF IsReply
    <2>2. \A i \in (L + d + 1)..(L + d + n) : c + (i - L - d) \in Nat \ {0}
        OBVIOUS
    <2> QED BY <2>1, <2>2
<1>4. new \subseteq Uses(b)
    BY <1>1, <1>3 DEF Uses
<1>5. Uses(a) \subseteq Uses(b)
    <2>1. \A i \in DOMAIN a : i \in 1..L /\ i \in DOMAIN b
        BY <1>1
    <2> QED BY <1>2, <2>1 DEF Uses
<1>6. Uses(b) \subseteq Uses(a) \cup new
    <2> SUFFICES ASSUME NEW i \in Uses(b) PROVE i \in Uses(a) \cup new
        OBVIOUS
    <2>1. i \in DOMAIN b /\ b[i].role = "assistant" /\ b[i].call # 0
        BY DEF Uses
    <2>2. /\ i \in Nat
          /\ \/ i \in DOMAIN a /\ b[i] = a[i]
             \/ i > L + d /\ i <= L + d + n
             \/ b[i].call = 0
             \/ b[i].role = "user"
        BY <2>1, ReplyParts DEF PartOf
    <2>3. CASE i \in DOMAIN a /\ b[i] = a[i]
        BY <2>1, <2>3 DEF Uses
    <2>4. CASE i > L + d /\ i <= L + d + n
        BY <2>2, <2>4
    <2> QED BY <2>1, <2>2, <2>3, <2>4
<1>7. Uses(b) = Uses(a) \cup new
    BY <1>4, <1>5, <1>6
<1>8. Uses(a) \cap new = {}
    BY DEF Uses
<1>9. IsFiniteSet(new) /\ Cardinality(new) = n
    <2> PICK x \in Int : x = D + 1
        OBVIOUS
    <2> PICK y \in Int : y = D + n
        OBVIOUS
    <2>1. IsFiniteSet(x..y) /\ Cardinality(x..y) = IF x > y THEN 0 ELSE y - x + 1
        BY FS_Interval
    <2>2. Cardinality(x..y) = n
        BY <2>1
    <2> QED BY <2>1, <2>2
<1>10. IsFiniteSet(Uses(a)) /\ Cardinality(Uses(a)) \in Nat
    BY UsesType
<1>11. Cardinality(Uses(a) \cup new)
           = Cardinality(Uses(a)) + Cardinality(new) - Cardinality(Uses(a) \cap new)
    BY <1>9, <1>10, FS_Union
<1>12. Cardinality(Uses(a) \cap new) = 0
    BY <1>8, FS_EmptySet
<1> QED BY <1>7, <1>9, <1>10, <1>11, <1>12

\* The tool calls of an answer are numbered from 1, and answered if at all right
\* after the reply that made them.
AnswerOK(a) == Answered(a) /\ \A i \in DOMAIN a : a[i].call <= Cardinality(Uses(a))

\* A reply keeps that, whether its tool calls are answered or not.
LEMMA ReplyAnswered ==
    ASSUME NEW a \in Seq(Block), NEW b, NEW d \in Nat, NEW n \in Nat, NEW m \in {0, n},
           AnswerOK(a), IsReply(b, a, d, Cardinality(Uses(a)), n, m)
    PROVE  AnswerOK(b)
<1> PICK c \in Nat : c = Cardinality(Uses(a))
    BY UsesType
<1> PICK L \in Nat : L = Len(a)
    OBVIOUS
<1>r. IsReply(b, a, d, c, n, m) /\ m \in Nat
    OBVIOUS
<1>0. DOMAIN a = 1..L /\ \A i \in DOMAIN a : a[i].call \in Nat /\ a[i].call <= c
    <2>1. DOMAIN a = 1..L /\ \A i \in DOMAIN a : a[i] \in Block
        OBVIOUS
    <2>2. \A i \in DOMAIN a : a[i].call <= c
        BY DEF AnswerOK
    <2> QED BY <2>1, <2>2 DEF Block
<1>1. b \in Seq(Block) /\ DOMAIN b = 1..(L + d + n + m)
    BY <1>r DEF IsReply
<1>2. \A i \in DOMAIN b :
        /\ i \in Nat
        /\ \/ i \in DOMAIN a /\ i <= L /\ b[i] = a[i]
           \/ i > L /\ i <= L + d /\ b[i].call = 0
           \/ /\ i > L + d /\ i <= L + d + n
              /\ b[i].role = "assistant" /\ b[i].call = c + (i - L - d)
           \/ /\ i > L + d + n /\ i <= L + d + n + m
              /\ b[i].role = "user" /\ b[i].call = c + (i - L - d - n)
    <2> TAKE i \in DOMAIN b
    <2>1. i \in Nat /\ PartOf(b, a, L, d, c, n, m, i)
        BY <1>r, ReplyParts
    <2> QED BY <2>1 DEF PartOf
<1>3. Cardinality(Uses(b)) = c + n
    BY <1>r, UsesGrow
<1>4. \A i \in DOMAIN b : b[i].call <= c + n
    <2> SUFFICES ASSUME NEW i \in DOMAIN b PROVE b[i].call <= c + n
        OBVIOUS
    <2> PICK k : k = b[i].call
        OBVIOUS
    <2>1. CASE i \in DOMAIN a /\ b[i] = a[i]
        <3>1. k \in Nat /\ k <= c
            BY <1>0, <2>1
        <3> QED BY ONLY <3>1, c \in Nat, n \in Nat, k = b[i].call
    <2>2. CASE i > L + d /\ i <= L + d + n /\ k = c + (i - L - d)
        <3>1. i \in Nat
            BY <1>2
        <3> QED BY ONLY <2>2, <3>1, c \in Nat, n \in Nat, L \in Nat, d \in Nat, k = b[i].call
    <2>3. CASE i > L + d + n /\ i <= L + d + n + m /\ k = c + (i - L - d - n)
        <3>1. i \in Nat
            BY <1>2
        <3> QED BY ONLY <2>3, <3>1, c \in Nat, n \in Nat, L \in Nat, d \in Nat, m \in {0, n},
                        k = b[i].call
    <2>4. CASE k = 0
        BY ONLY <2>4, c \in Nat, n \in Nat, k = b[i].call
    <2> QED BY <1>2, <2>1, <2>2, <2>3, <2>4
<1>5. ASSUME NEW i \in Uses(b)
      PROVE  \/ \A j \in DOMAIN b : b[j].call = b[i].call => j = i
             \/ \E j \in DOMAIN b :
                   /\ i < j /\ b[j].call = b[i].call /\ b[j].role = "user"
                   /\ \A k \in (i + 1)..j : b[k].call # 0
                   /\ \A k, l \in (i + 1)..j : k < l /\ b[k].role = "user" => b[l].role = "user"
    <2>1. i \in DOMAIN b /\ b[i].role = "assistant" /\ b[i].call # 0
        BY <1>5 DEF Uses
    <2>2. CASE i \in DOMAIN a /\ b[i] = a[i]
        <3>1. i \in Uses(a) /\ a[i].call \in 1..c
            BY <1>0, <2>1, <2>2 DEF Uses
        <3>2. CASE \A j \in DOMAIN a : a[j].call = a[i].call => j = i
            <4>1. \A j \in DOMAIN b : b[j].call = b[i].call => j = i
                <5> SUFFICES ASSUME NEW j \in DOMAIN b, b[j].call = b[i].call PROVE j = i
                    OBVIOUS
                <5>1. b[j].call \in 1..c /\ j \in Nat
                    BY <1>2, <2>2, <3>1
                <5>2. ~(j > L + d /\ b[j].call = c + (j - L - d))
                    BY ONLY <5>1, L \in Nat, d \in Nat, c \in Nat
                <5>3. ~(j > L + d + n /\ b[j].call = c + (j - L - d - n))
                    BY ONLY <5>1, L \in Nat, d \in Nat, c \in Nat, n \in Nat
                <5>4. ~(b[j].call = 0)
                    BY ONLY <5>1, c \in Nat
                <5>5. j \in DOMAIN a /\ b[j] = a[j]
                    BY <1>2, <5>2, <5>3, <5>4
                <5> QED BY <2>2, <3>2, <5>5
            <4> QED BY <4>1
        <3>3. CASE \E j \in DOMAIN a :
                      /\ i < j /\ a[j].call = a[i].call /\ a[j].role = "user"
                      /\ \A k \in (i + 1)..j : a[k].call # 0
                      /\ \A k, l \in (i + 1)..j : k < l /\ a[k].role = "user" => a[l].role = "user"
            <4> PICK j \in DOMAIN a :
                      /\ i < j /\ a[j].call = a[i].call /\ a[j].role = "user"
                      /\ \A k \in (i + 1)..j : a[k].call # 0
                      /\ \A k, l \in (i + 1)..j : k < l /\ a[k].role = "user" => a[l].role = "user"
                BY <3>3
            <4>1. \A k \in 1..L : b[k] = a[k]
                BY <1>r DEF IsReply
            <4>2. j \in 1..L /\ j \in DOMAIN b /\ \A k \in (i + 1)..j : k \in 1..L
                BY <1>0, <1>1, <2>2
            <4>3. b[j] = a[j] /\ \A k \in (i + 1)..j : b[k] = a[k]
                BY <4>1, <4>2
            <4> QED BY <2>2, <4>2, <4>3
        <3> QED BY <3>1, <3>2, <3>3 DEF AnswerOK, Answered
    <2>3. CASE i > L + d /\ i <= L + d + n /\ b[i].call = c + (i - L - d)
        <3>1. CASE m = 0
            <4> SUFFICES ASSUME NEW j \in DOMAIN b, b[j].call = b[i].call PROVE j = i
                OBVIOUS
            <4>1. i \in Nat
                BY <2>1, <1>2
            <4> PICK k : k = b[i].call
                OBVIOUS
            <4>2. k \in Nat /\ k > c /\ k = c + (i - L - d)
                BY ONLY <2>3, <4>1, k = b[i].call, c \in Nat, L \in Nat, d \in Nat
            <4>3. ~(j \in DOMAIN a /\ b[j] = a[j])
                <5>1. j \in DOMAIN a => a[j].call \in Nat /\ a[j].call <= c
                    BY <1>0
                <5> QED BY <4>2, <5>1
            <4>4. j \in Nat
                BY <1>2
            <4>5. CASE b[j].call = 0
                BY ONLY <4>2, <4>5, k = b[i].call, b[j].call = b[i].call, c \in Nat
            <4>6. CASE j > L + d /\ b[j].call = c + (j - L - d)
                BY ONLY <4>1, <4>2, <4>4, <4>6, k = b[i].call, b[j].call = b[i].call,
                        c \in Nat, L \in Nat, d \in Nat
            <4>7. CASE j > L + d + n /\ j <= L + d + n + m
                BY ONLY <3>1, <4>4, <4>7, n \in Nat, L \in Nat, d \in Nat
            <4> QED BY <1>2, <4>3, <4>5, <4>6, <4>7
        <3>2. CASE m = n
            <4>0. i \in Nat
                BY <1>2, <2>1
            <4>1. i \in Nat /\ i + n \in DOMAIN b /\ i < i + n
                <5>1. i + n \in 1..(L + d + n + m) /\ i < i + n
                    BY ONLY <2>3, <3>2, <4>0, n \in Nat, L \in Nat, d \in Nat
                <5> QED BY <1>1, <4>0, <5>1
            <4> PICK j \in Nat : j = i + n
                BY <4>1
            <4>2. b[j].role = "user" /\ b[j].call = c + (i - L - d)
                <5>1. j \in (L + d + n + 1)..(L + d + n + m) /\ j - L - d - n = i - L - d
                    BY ONLY <2>3, <3>2, <4>0, j = i + n, n \in Nat, L \in Nat, d \in Nat
                <5> QED BY <1>r, <5>1 DEF IsReply
            <4>3. \A k \in (i + 1)..j : /\ k \in DOMAIN b /\ b[k].call # 0
                                        /\ b[k].role = "user" <=> k > L + d + n
                <5> SUFFICES ASSUME NEW k \in (i + 1)..j
                             PROVE  /\ k \in DOMAIN b /\ b[k].call # 0
                                    /\ b[k].role = "user" <=> k > L + d + n
                    OBVIOUS
                <5>0. k \in 1..(L + d + n + m) /\ k \in Nat /\ k > L + d
                    BY ONLY <2>3, <3>2, <4>0, j = i + n, k \in (i + 1)..j,
                            n \in Nat, L \in Nat, d \in Nat
                <5>1. k \in DOMAIN b /\ ~(k <= L) /\ ~(k <= L + d)
                    <6>1. ~(k <= L) /\ ~(k <= L + d)
                        BY ONLY <5>0, L \in Nat, d \in Nat
                    <6> QED BY <1>1, <5>0, <6>1
                <5>2. CASE /\ k <= L + d + n
                           /\ b[k].role = "assistant" /\ b[k].call = c + (k - L - d)
                    <6>1. c + (k - L - d) # 0 /\ ~(k > L + d + n)
                        BY ONLY <5>0, <5>2, c \in Nat, n \in Nat, L \in Nat, d \in Nat
                    <6> QED BY <5>1, <5>2, <6>1
                <5>3. CASE /\ k > L + d + n
                           /\ b[k].role = "user" /\ b[k].call = c + (k - L - d - n)
                    <6>1. c + (k - L - d - n) # 0
                        BY ONLY <5>0, <5>3, c \in Nat, n \in Nat, L \in Nat, d \in Nat
                    <6> QED BY <5>1, <5>3, <6>1
                <5> QED BY <1>2, <5>1, <5>2, <5>3
            <4>4. ASSUME NEW k \in (i + 1)..j, NEW l \in (i + 1)..j, k < l, b[k].role = "user"
                  PROVE  b[l].role = "user"
                <5>1. k > L + d + n
                    BY <4>3, <4>4
                <5>2. l > L + d + n
                    BY ONLY <4>0, <4>4, <5>1, j \in Nat, n \in Nat, L \in Nat, d \in Nat
                <5> QED BY <4>3, <5>2
            <4>5. j \in DOMAIN b /\ i < j /\ b[j].call = b[i].call
                BY <2>3, <4>1, <4>2
            <4> QED BY <4>2, <4>3, <4>4, <4>5
        <3> QED BY <3>1, <3>2
    <2> QED BY <1>2, <2>1, <2>2, <2>3
<1> QED BY <1>3, <1>4, <1>5 DEF AnswerOK, Answered

AnswerInv == \A t \in Turns : AnswerOK(answer[t])

\* Every step keeps the answers so.
LEMMA AnswerStep ==
    ASSUME ConversationTypeOK, AnswerInv, [ConversationNext]_convVars
    PROVE  AnswerInv'
<1>0. AnswerOK(<<>>)
    BY DEF AnswerOK, Answered, Uses
<1>1. ASSUME NEW t \in Turns, \/ answer' = answer
                              \/ answer' = [answer EXCEPT ![t] = <<>>]
                              \/ AnswerOK(answer'[t]) /\ \A u \in Turns \ {t} : answer'[u] = answer[u]
      PROVE  AnswerInv'
    BY <1>0, <1>1 DEF AnswerInv, ConversationTypeOK
<1>2. ASSUME NEW t \in Turns, NEW text \in Texts, NEW n \in 0..MaxBlocks,
             ToolReply(t, text, n) \/ LastReply(t, text, n)
      PROVE  AnswerInv'
    <2> PICK a \in Seq(Block) : a = answer[t]
        BY DEF ConversationTypeOK
    <2>1. Calls(t) = Cardinality(Uses(a))
        BY DEF Calls, Uses
    <2> PICK c \in Nat : c = Calls(t)
        BY CallsType
    <2>2. n \in Nat /\ Len(text) \in Nat /\ AnswerOK(a)
        BY ConversationAssumption, TextsAre DEF AnswerInv
    <2>3. CASE ToolReply(t, text, n)
        <3>1. answer'[t] = a \o text \o Blocks("assistant", c, n) \o Blocks("user", c, n)
            BY <2>3 DEF ToolReply, ConversationTypeOK
        <3>2. IsReply(answer'[t], a, Len(text), Cardinality(Uses(a)), n, n)
            BY <2>1, <2>2, <3>1, ResultsFollow
        <3>3. AnswerOK(answer'[t])
            BY <2>2, <3>2, ReplyAnswered
        <3> QED BY <1>1, <2>3, <3>3 DEF ToolReply, ConversationTypeOK
    <2>4. CASE LastReply(t, text, n)
        <3>1. answer'[t] = a \o text \o Blocks("assistant", c, n)
            BY <2>4 DEF LastReply, ConversationTypeOK
        <3>2. IsReply(answer'[t], a, Len(text), Cardinality(Uses(a)), n, 0)
            BY <2>1, <2>2, <3>1, UsesFollow
        <3>3. AnswerOK(answer'[t])
            BY <2>2, <3>2, ReplyAnswered
        <3> QED BY <1>1, <2>4, <3>3 DEF LastReply, ConversationTypeOK
    <2> QED BY <1>2, <2>3, <2>4
<1>3. CASE UNCHANGED convVars
    BY <1>3 DEF AnswerInv, convVars
<1> QED
    BY <1>1, <1>2, <1>3 DEF ConversationNext, Create, Open, ReadHistory, Ask, Start, LoopFails,
                            Save, Abort, End

-----------------------------------------------------------------------------
\* Nobody is under way before the first question, and an active turn has
\* written nothing but its question.
QuestionInv ==
    /\ rows = {} => Active = {}
    /\ \A t \in Active : \A r \in RowsOf(t) : r.call = 0

\* Every step keeps that.
LEMMA QuestionStep ==
    ASSUME OrderInv, QuestionInv, [ConversationNext]_convVars
    PROVE  QuestionInv'
<1> USE DEF QuestionInv, Active, RowsOf, OrderInv, ConversationTypeOK
<1>1. ASSUME NEW t \in Turns, Create(t) PROVE QuestionInv'
    <2>1. \A r \in rows' : r.call = 0
        BY <1>1 DEF Create, RowAt, Question
    <2> QED BY <1>1, <2>1 DEF Create
<1>2. ASSUME NEW t \in Turns, Open(t) PROVE QuestionInv'
    BY <1>2 DEF Open, NumberInv
<1>3. ASSUME NEW t \in Turns, Ask(t) PROVE QuestionInv'
    <2> PICK question : question = RowAt(t, next_seq[t], Question)
        OBVIOUS
    <2>1. question.call = 0
        BY DEF RowAt, Question
    <2>2. Active' = Active /\ rows' = rows \cup {question}
        BY <1>3 DEF Ask
    <2> QED BY <2>1, <2>2
<1>4. ASSUME NEW t \in Turns, Save(t) PROVE QuestionInv'
    <2>1. \A r \in rows' : r \in rows \/ r.turn = t
        BY <1>4 DEF Save, RowAt
    <2>2. Active' = Active \ {t} /\ rows \subseteq rows'
        BY <1>4 DEF Save, End
    <2> QED BY <2>1, <2>2
<1>5. ASSUME NEW t \in Turns, Abort(t) PROVE QuestionInv'
    <2>1. Active' = Active \ {t} /\ rows' = rows
        BY <1>5 DEF Abort, End
    <2> QED BY <2>1
<1>6. ASSUME rows' = rows, Active' = Active PROVE QuestionInv'
    BY <1>6
<1>7. ASSUME NEW t \in Turns, ReadHistory(t) \/ Start(t) \/ LoopFails(t) PROVE QuestionInv'
    BY <1>7, <1>6 DEF ReadHistory, Start, LoopFails
<1>8. ASSUME NEW t \in Turns, NEW text \in Texts, NEW n \in 0..MaxBlocks,
             ToolReply(t, text, n) \/ LastReply(t, text, n)
      PROVE  QuestionInv'
    BY <1>8, <1>6 DEF ToolReply, LastReply
<1>9. CASE UNCHANGED convVars
    BY <1>9, <1>6 DEF convVars
<1> QED
    BY <1>1, <1>2, <1>3, <1>4, <1>5, <1>7, <1>8, <1>9 DEF ConversationNext

-----------------------------------------------------------------------------
\* Rows that come after those of a well paired history, and answer none of its
\* tool uses, make a well paired history with it if they are one.
LEMMA PairedGrows ==
    ASSUME NEW h, NEW g, WellPaired(h), WellPaired(g), h \subseteq Row, g \subseteq Row,
           \A r \in h, s \in g : r.seq < s.seq /\ (r.turn = s.turn => r.call = 0)
    PROVE  WellPaired(h \cup g)
<1>0. \A r \in h \cup g : r.seq \in Nat
    BY DEF Row
<1> SUFFICES ASSUME NEW r \in (h \cup g) \ Dangling(h \cup g), r.role = "assistant", r.call # 0
             PROVE  \E s \in h \cup g :
                       /\ s.turn = r.turn /\ s.call = r.call /\ s.role = "user"
                       /\ r.seq < s.seq
                       /\ \A x \in h \cup g : r.seq < x.seq /\ x.seq < s.seq => x.call # 0
                       /\ \A x, y \in h \cup g :
                             r.seq < x.seq /\ x.seq < y.seq /\ y.seq <= s.seq /\ x.role = "user"
                                 => y.role = "user"
    BY DEF WellPaired
<1>1. PICK z \in h \cup g : z.turn = r.turn /\ z.call = r.call /\ z # r
    BY DEF Dangling
<1>2. CASE r \in h
    <2>1. z \in h
        BY <1>1, <1>2
    <2>2. r \in h \ Dangling(h)
        BY <1>1, <1>2, <2>1 DEF Dangling
    <2> PICK s \in h :
            /\ s.turn = r.turn /\ s.call = r.call /\ s.role = "user"
            /\ r.seq < s.seq
            /\ \A x \in h : r.seq < x.seq /\ x.seq < s.seq => x.call # 0
            /\ \A x, y \in h : r.seq < x.seq /\ x.seq < y.seq /\ y.seq <= s.seq /\ x.role = "user"
                                   => y.role = "user"
        BY <2>2 DEF WellPaired
    <2>3. \A x \in h \cup g : x.seq <= s.seq => x \in h
        BY <1>0
    <2>4. \A x, y \in h \cup g : x.seq < y.seq /\ y.seq <= s.seq => x.seq <= s.seq
        BY <1>0
    <2>5. \A x \in h \cup g : x.seq < s.seq => x.seq <= s.seq
        BY <1>0
    <2> QED BY <2>3, <2>4, <2>5
<1>3. CASE r \in g
    <2>1. z \in g
        BY <1>1, <1>3
    <2>2. r \in g \ Dangling(g)
        BY <1>1, <1>3, <2>1 DEF Dangling
    <2> PICK s \in g :
            /\ s.turn = r.turn /\ s.call = r.call /\ s.role = "user"
            /\ r.seq < s.seq
            /\ \A x \in g : r.seq < x.seq /\ x.seq < s.seq => x.call # 0
            /\ \A x, y \in g : r.seq < x.seq /\ x.seq < y.seq /\ y.seq <= s.seq /\ x.role = "user"
                                   => y.role = "user"
        BY <2>2 DEF WellPaired
    <2>3. \A x \in h \cup g : r.seq < x.seq => x \in g
        <3> SUFFICES ASSUME NEW x \in h, r.seq < x.seq PROVE FALSE
            OBVIOUS
        <3>1. x.seq < r.seq
            BY <1>3
        <3> QED BY <1>0, <3>1
    <2>4. \A x, y \in h \cup g : r.seq < x.seq /\ x.seq < y.seq => r.seq < y.seq
        BY <1>0
    <2> QED BY <2>3, <2>4
<1> QED BY <1>2, <1>3

\* The rows that an answer becomes are well paired.
LEMMA AnswerPaired ==
    ASSUME NEW a \in Seq(Block), Answered(a), NEW t \in Turns, NEW first \in Nat
    PROVE  WellPaired({RowAt(t, first + i - 1, a[i]) : i \in DOMAIN a})
<1> DEFINE new(i) == RowAt(t, first + i - 1, a[i])
           g == {new(i) : i \in DOMAIN a}
<1>1. \A i \in DOMAIN a : /\ i \in Nat /\ i >= 1 /\ a[i] \in Block
                          /\ \A k : i <= k /\ k \in Nat /\ k <= Len(a) => k \in DOMAIN a
    OBVIOUS
<1>2. \A i \in DOMAIN a : /\ new(i).turn = t /\ new(i).seq = first + i - 1
                          /\ new(i).role = a[i].role /\ new(i).call = a[i].call
    BY DEF RowAt
<1>g. \A r : r \in g <=> \E i \in DOMAIN a : r = new(i)
    OBVIOUS
<1> HIDE DEF new, g
<1>3. \A i, j \in DOMAIN a : new(i).seq < new(j).seq <=> i < j
    BY <1>1, <1>2
<1>4. \A i, j \in DOMAIN a : new(i).seq <= new(j).seq <=> i <= j
    BY <1>1, <1>2
<1>5. ASSUME NEW r \in g \ Dangling(g), r.role = "assistant", r.call # 0
      PROVE  \E s \in g :
                /\ s.turn = r.turn /\ s.call = r.call /\ s.role = "user"
                /\ r.seq < s.seq
                /\ \A x \in g : r.seq < x.seq /\ x.seq < s.seq => x.call # 0
                /\ \A x, y \in g :
                      r.seq < x.seq /\ x.seq < y.seq /\ y.seq <= s.seq /\ x.role = "user"
                          => y.role = "user"
    <2> PICK i \in DOMAIN a : r = new(i)
        BY <1>5, <1>g
    <2>1. i \in Uses(a)
        BY <1>2, <1>5 DEF Uses
    <2>2. PICK z \in g : z.turn = r.turn /\ z.call = r.call /\ z # r
        BY <1>5 DEF Dangling
    <2>3. \E j \in DOMAIN a : a[j].call = a[i].call /\ j # i
        BY <1>2, <1>g, <2>2
    <2> PICK j \in DOMAIN a :
            /\ i < j /\ a[j].call = a[i].call /\ a[j].role = "user"
            /\ \A k \in (i + 1)..j : a[k].call # 0
            /\ \A k, l \in (i + 1)..j : k < l /\ a[k].role = "user" => a[l].role = "user"
        BY <2>1, <2>3 DEF Answered
    <2>4. \A k \in DOMAIN a : i < k /\ k <= j => k \in (i + 1)..j
        BY <1>1
    <2>5. new(j) \in g
        BY <1>g
    <2>6. \A x \in g : r.seq < x.seq /\ x.seq < new(j).seq => x.call # 0
        <3> SUFFICES ASSUME NEW x \in g, r.seq < x.seq, x.seq < new(j).seq PROVE x.call # 0
            OBVIOUS
        <3> PICK k \in DOMAIN a : x = new(k)
            BY <1>g
        <3>1. i < k /\ k < j
            BY <1>3
        <3>2. k \in (i + 1)..j
            BY <1>1, <2>4, <3>1
        <3> QED BY <1>2, <3>2
    <2>7. \A x, y \in g :
             r.seq < x.seq /\ x.seq < y.seq /\ y.seq <= new(j).seq /\ x.role = "user"
                 => y.role = "user"
        <3> SUFFICES ASSUME NEW x \in g, NEW y \in g, r.seq < x.seq, x.seq < y.seq,
                            y.seq <= new(j).seq, x.role = "user"
                     PROVE  y.role = "user"
            OBVIOUS
        <3> PICK k \in DOMAIN a : x = new(k)
            BY <1>g
        <3> PICK l \in DOMAIN a : y = new(l)
            BY <1>g
        <3>1. i < k /\ k < l /\ l <= j
            BY <1>3, <1>4
        <3>2. k \in (i + 1)..j /\ l \in (i + 1)..j
            BY <1>1, <2>4, <3>1
        <3>3. a[k].role = "user"
            BY <1>2
        <3>4. a[l].role = "user"
            BY <3>1, <3>2, <3>3
        <3> QED BY <1>2, <3>4
    <2>8. /\ new(j).turn = r.turn /\ new(j).call = r.call /\ new(j).role = "user"
          /\ r.seq < new(j).seq
        BY <1>2, <1>3
    <2> QED BY <2>5, <2>6, <2>7, <2>8
<1>6. WellPaired(g)
    BY <1>5 DEF WellPaired
<1> QED BY <1>6 DEF g, new

\* A question alone is well paired, and so is nothing.
LEMMA QuestionPaired ==
    ASSUME NEW t, NEW seq
    PROVE  WellPaired({RowAt(t, seq, Question)}) /\ WellPaired({})
    BY DEF WellPaired, Dangling, RowAt, Question

-----------------------------------------------------------------------------
\* While turns follow one another there are C rows, numbered 1 to C, every copy
\* of message_count is C, and the next number is C + 1.
Exact(C) ==
    /\ {r.seq : r \in rows} = 1..C
    /\ message_count = C
    /\ \A t \in Active : count[t] = C
    /\ \A t \in Numbering : next_seq[t] = C + 1

SerialInv ==
    ~overlapped =>
        /\ \A t, u \in Active : t = u
        /\ Exact(Cardinality(rows))
        /\ WellPaired(rows)
        /\ \A t \in Turns : WellPaired(history[t])

TurnsInv == OrderInv /\ CountInv /\ AnswerInv /\ QuestionInv /\ SerialInv

\* The question a turn adds is numbered next, and keeps the rows well paired.
LEMMA QuestionAdded ==
    ASSUME OrderInv, CountInv, NEW t \in Turns, NEW C \in Nat, C = Cardinality(rows),
           {r.seq : r \in rows} = 1..C, WellPaired(rows), RowsOf(t) = {},
           rows' = rows \cup {RowAt(t, C + 1, Question)}
    PROVE  /\ Cardinality(rows') = C + 1
           /\ {r.seq : r \in rows'} = 1..(C + 1)
           /\ WellPaired(rows')
<1>1. Cardinality(rows') = C + 1
    BY AskedRow DEF CountInv
<1> PICK q : q = RowAt(t, C + 1, Question)
    OBVIOUS
<1>2. q.seq = C + 1 /\ q.turn = t /\ q \in Row
    <2>1. Question \in Block /\ C + 1 \in Nat
        BY DEF Question, Block
    <2>2. q \in Row
        BY <2>1, RowType
    <2>3. q.seq = C + 1 /\ q.turn = t
        BY DEF RowAt
    <2> QED BY <2>2, <2>3
<1>3. rows' = rows \cup {q}
    OBVIOUS
<1>4. \A r \in rows : r.seq \in 1..C /\ r.turn # t
    BY DEF RowsOf
<1>5. {r.seq : r \in rows'} = 1..(C + 1)
    <2>1. {r.seq : r \in rows'} = {r.seq : r \in rows} \cup {q.seq}
        BY <1>3
    <2>2. 1..(C + 1) = (1..C) \cup {C + 1}
        OBVIOUS
    <2> QED BY <1>2, <2>1, <2>2
<1>6. WellPaired(rows')
    <2>1. WellPaired({q})
        BY QuestionPaired
    <2>2. \A r \in rows, s \in {q} : r.seq < s.seq /\ (r.turn = s.turn => r.call = 0)
        BY <1>2, <1>4
    <2>3. rows \subseteq Row /\ {q} \subseteq Row
        BY <1>2 DEF OrderInv, ConversationTypeOK
    <2>4. WellPaired(rows \cup {q})
        BY <2>1, <2>2, <2>3, PairedGrows
    <2> QED BY <1>3, <2>4
<1> QED BY <1>1, <1>5, <1>6

\* So are the rows of an answer.
LEMMA AnswerAdded ==
    ASSUME OrderInv, CountInv, AnswerInv, QuestionInv, NEW t \in Turns, Save(t),
           NEW C \in Nat, C = Cardinality(rows),
           {r.seq : r \in rows} = 1..C, WellPaired(rows), next_seq[t] = C + 1
    PROVE  /\ Cardinality(rows') = C + Len(answer[t])
           /\ {r.seq : r \in rows'} = 1..(C + Len(answer[t]))
           /\ WellPaired(rows')
<1>1. Cardinality(rows') = C + Len(answer[t])
    BY SavedRows DEF CountInv
<1> PICK a \in Seq(Block) : a = answer[t]
    BY DEF OrderInv, ConversationTypeOK
<1> PICK L \in Nat : L = Len(a)
    OBVIOUS
<1> DEFINE new(i) == RowAt(t, (C + 1) + i - 1, a[i])
           g == {new(i) : i \in DOMAIN a}
<1>2. \A i \in DOMAIN a : new(i).turn = t /\ new(i).seq = C + i /\ new(i) \in Row
    <2>1. \A i \in DOMAIN a : a[i] \in Block /\ (C + 1) + i - 1 = C + i /\ C + i \in Nat
        OBVIOUS
    <2> QED BY <2>1, RowType DEF RowAt
<1>3. rows' = rows \cup g
    BY DEF Save
<1>4. WellPaired(g)
    <2>1. Answered(a) /\ C + 1 \in Nat
        BY DEF AnswerInv, AnswerOK
    <2> QED BY <2>1, AnswerPaired
<1>g. DOMAIN a = 1..L /\ \A r : r \in g <=> \E i \in 1..L : r = new(i)
    OBVIOUS
<1> HIDE DEF new, g
<1>5. {r.seq : r \in rows'} = 1..(C + L)
    <2>1. {r.seq : r \in rows'} = (1..C) \cup {C + i : i \in 1..L}
        BY <1>2, <1>3, <1>g
    <2>2. 1..(C + L) = (1..C) \cup {C + i : i \in 1..L}
        <3>1. \A x \in 1..(C + L) : x \in 1..C \/ (x - C \in 1..L /\ x = C + (x - C))
            OBVIOUS
        <3> QED BY <3>1
    <2> QED BY <2>1, <2>2
<1>6. WellPaired(rows')
    <2>1. t \in Active
        BY DEF Save, Active
    <2>2. \A r \in rows : r.seq \in 1..C /\ (r.turn = t => r.call = 0)
        BY <2>1 DEF QuestionInv, RowsOf
    <2>3. \A s \in g : s.turn = t /\ s.seq > C /\ s \in Row
        BY <1>2, <1>g
    <2>4. \A r \in rows, s \in g : r.seq < s.seq /\ (r.turn = s.turn => r.call = 0)
        BY <1>2, <1>g, <2>2, <2>3
    <2>5. rows \subseteq Row /\ g \subseteq Row
        BY <2>3 DEF OrderInv, ConversationTypeOK
    <2>6. WellPaired(rows \cup g)
        BY <1>4, <2>4, <2>5, PairedGrows
    <2> QED BY <1>3, <2>6
<1> QED BY <1>1, <1>5, <1>6

\* Every step of turns that do not overlap keeps the numbers exact.
LEMMA SerialStep ==
    ASSUME TurnsInv, [ConversationNext]_convVars
    PROVE  SerialInv'
<1> PICK C \in Nat : C = Cardinality(rows)
    BY FS_CardinalityType DEF TurnsInv, CountInv
<1> USE DEF TurnsInv, OrderInv, ConversationTypeOK, Active, Numbering
<1>s. ASSUME ~overlapped
      PROVE  /\ \A t, u \in Active : t = u
             /\ Exact(C) /\ WellPaired(rows)
             /\ \A t \in Turns : WellPaired(history[t])
    BY <1>s DEF SerialInv
<1>1. ASSUME UNCHANGED <<rows, message_count, history, count, overlapped>>,
             Active' \subseteq Active,
             \A t \in Numbering' : t \in Numbering /\ next_seq'[t] = next_seq[t]
      PROVE  SerialInv'
    <2> SUFFICES ASSUME ~overlapped
                 PROVE  /\ \A t, u \in Active' : t = u
                        /\ Exact(Cardinality(rows))'
                        /\ WellPaired(rows')
                        /\ \A t \in Turns : WellPaired(history'[t])
        BY <1>1 DEF SerialInv
    <2>1. Cardinality(rows') = C
        BY <1>1
    <2>2. Exact(C)
        BY <1>s
    <2>3. /\ {r.seq : r \in rows'} = 1..C
          /\ message_count' = C
          /\ \A t \in Active' : count'[t] = C
          /\ \A t \in Numbering' : next_seq'[t] = C + 1
        BY <1>1, <2>2 DEF Exact
    <2>4. Exact(Cardinality(rows))'
        BY <2>1, <2>3 DEF Exact
    <2> QED BY <1>1, <1>s, <2>4
<1>2. ASSUME NEW t \in Turns, Create(t) PROVE SerialInv'
    <2> SUFFICES ASSUME ~overlapped'
                 PROVE  /\ \A u, w \in Active' : u = w
                        /\ Exact(Cardinality(rows))'
                        /\ WellPaired(rows')
                        /\ \A u \in Turns : WellPaired(history'[u])
        BY DEF SerialInv
    <2>1. rows = {} /\ Active = {} /\ ~overlapped
        BY <1>2 DEF Create, QuestionInv
    <2>2. Active' = {t} /\ Numbering' = {t}
        BY <1>2, <2>1 DEF Create
    <2>3. C = 0 /\ {r.seq : r \in rows} = 1..C /\ RowsOf(t) = {} /\ WellPaired(rows)
        <3>1. C = 0
            BY <2>1, FS_EmptySet
        <3>2. {r.seq : r \in rows} = 1..C /\ RowsOf(t) = {}
            BY <2>1, <3>1 DEF RowsOf
        <3> QED BY <2>1, <3>1, <3>2, QuestionPaired
    <2>4. rows' = rows \cup {RowAt(t, C + 1, Question)}
        BY <1>2, <2>1, <2>3 DEF Create
    <2>5. /\ Cardinality(rows') = 1 /\ {r.seq : r \in rows'} = 1..1 /\ WellPaired(rows')
        <3>1. /\ Cardinality(rows') = C + 1
              /\ {r.seq : r \in rows'} = 1..(C + 1)
              /\ WellPaired(rows')
            BY <2>3, <2>4, QuestionAdded
        <3>2. C + 1 = 1
            BY <2>3
        <3> QED BY <3>1, <3>2, Zenon
    <2>6. message_count' = 1 /\ count'[t] = 1 /\ next_seq'[t] = 1 + 1
        BY <1>2 DEF Create
    <2>7. Exact(Cardinality(rows))'
        BY <2>2, <2>5, <2>6 DEF Exact
    <2>8. history' = history
        BY <1>2 DEF Create
    <2> QED BY <1>s, <2>1, <2>2, <2>5, <2>7, <2>8
<1>3. ASSUME NEW t \in Turns, Open(t) PROVE SerialInv'
    <2> SUFFICES ASSUME ~overlapped'
                 PROVE  /\ \A u, w \in Active' : u = w
                        /\ Exact(Cardinality(rows))'
                        /\ WellPaired(rows')
                        /\ \A u \in Turns : WellPaired(history'[u])
        BY DEF SerialInv
    <2>1. Active = {} /\ ~overlapped
        BY <1>3 DEF Open
    <2>2. Active' = {t} /\ Numbering' = {}
        BY <1>3, <2>1 DEF Open
    <2>3. /\ UNCHANGED <<rows, message_count, history>>
          /\ count'[t] = message_count
        BY <1>3 DEF Open
    <2>4. Exact(C) /\ WellPaired(rows) /\ \A u \in Turns : WellPaired(history[u])
        BY <1>s, <2>1
    <2>5. Cardinality(rows') = C
        BY <2>3
    <2>6. Exact(Cardinality(rows))'
        BY <2>2, <2>3, <2>4, <2>5 DEF Exact
    <2> QED BY <2>2, <2>3, <2>4, <2>6
<1>4. ASSUME NEW t \in Turns, ReadHistory(t) PROVE SerialInv'
    <2> SUFFICES ASSUME ~overlapped'
                 PROVE  /\ \A u, w \in Active' : u = w
                        /\ Exact(Cardinality(rows))'
                        /\ WellPaired(rows')
                        /\ \A u \in Turns : WellPaired(history'[u])
        BY DEF SerialInv
    <2>1. ~overlapped /\ t \in Active
        BY <1>4 DEF ReadHistory
    <2>2. /\ Exact(C) /\ WellPaired(rows) /\ \A u \in Turns : WellPaired(history[u])
          /\ \A u, w \in Active : u = w
        BY <1>s, <2>1
    <2>3. /\ UNCHANGED <<rows, message_count, count>> /\ Active' = Active
          /\ history' = [history EXCEPT ![t] = rows]
          /\ \A u \in Numbering' : u = t
        BY <1>4, <2>1, <2>2 DEF ReadHistory
    <2>4. next_seq'[t] = C + 1
        <3> PICK last \in {r.seq : r \in rows} :
                /\ \A r \in rows : r.seq <= last
                /\ next_seq' = [next_seq EXCEPT ![t] = last + 1]
            BY <1>4 DEF ReadHistory
        <3>1. last \in 1..C /\ \A x \in 1..C : x <= last
            BY <2>2 DEF Exact
        <3>2. last \in Nat /\ last <= C /\ C \in 1..C
            BY <3>1
        <3>3. C <= last
            BY <3>1, <3>2
        <3>4. last = C
            BY <3>2, <3>3
        <3> QED BY <3>4
    <2>5. Cardinality(rows') = C
        BY <2>3
    <2>6. Exact(Cardinality(rows))'
        BY <2>2, <2>3, <2>4, <2>5 DEF Exact
    <2>7. \A u \in Turns : WellPaired(history'[u])
        BY <2>2, <2>3
    <2> QED BY <2>2, <2>3, <2>6, <2>7
<1>5. ASSUME NEW t \in Turns, Ask(t) PROVE SerialInv'
    <2> SUFFICES ASSUME ~overlapped'
                 PROVE  /\ \A u, w \in Active' : u = w
                        /\ Exact(Cardinality(rows))'
                        /\ WellPaired(rows')
                        /\ \A u \in Turns : WellPaired(history'[u])
        BY DEF SerialInv
    <2>1. ~overlapped /\ t \in Active /\ t \in Numbering
        BY <1>5 DEF Ask
    <2>2. /\ Exact(C) /\ WellPaired(rows) /\ \A u \in Turns : WellPaired(history[u])
          /\ \A u, w \in Active : u = w
        BY <1>s, <2>1
    <2>3. next_seq[t] = C + 1 /\ count[t] = C /\ {r.seq : r \in rows} = 1..C
        BY <2>1, <2>2 DEF Exact
    <2>4. RowsOf(t) = {}
        BY <1>5 DEF Ask, NumberInv
    <2>5. rows' = rows \cup {RowAt(t, C + 1, Question)}
        BY <1>5, <2>3 DEF Ask
    <2>6. Cardinality(rows') = C + 1 /\ {r.seq : r \in rows'} = 1..(C + 1) /\ WellPaired(rows')
        BY <2>2, <2>3, <2>4, <2>5, QuestionAdded
    <2>7. /\ message_count' = C + 1 /\ count'[t] = C + 1 /\ next_seq'[t] = (C + 1) + 1
          /\ Active' = Active /\ Numbering' \subseteq Active /\ history' = history
        BY <1>5, <2>3 DEF Ask
    <2>8. Exact(Cardinality(rows))'
        BY <2>1, <2>2, <2>6, <2>7 DEF Exact
    <2> QED BY <2>2, <2>6, <2>7, <2>8
<1>6. ASSUME NEW t \in Turns, Start(t) \/ LoopFails(t) PROVE SerialInv'
    BY <1>1, <1>6 DEF Start, LoopFails
<1>7. ASSUME NEW t \in Turns, NEW text \in Texts, NEW n \in 0..MaxBlocks,
             ToolReply(t, text, n) \/ LastReply(t, text, n)
      PROVE  SerialInv'
    BY <1>1, <1>7 DEF ToolReply, LastReply
<1>8. ASSUME NEW t \in Turns, Save(t) PROVE SerialInv'
    <2> SUFFICES ASSUME ~overlapped'
                 PROVE  /\ \A u, w \in Active' : u = w
                        /\ Exact(Cardinality(rows))'
                        /\ WellPaired(rows')
                        /\ \A u \in Turns : WellPaired(history'[u])
        BY DEF SerialInv
    <2>1. ~overlapped /\ t \in Active /\ t \in Numbering
        BY <1>8 DEF Save
    <2>2. /\ Exact(C) /\ WellPaired(rows) /\ \A u \in Turns : WellPaired(history[u])
          /\ \A u, w \in Active : u = w
        BY <1>s, <2>1
    <2>3. next_seq[t] = C + 1 /\ count[t] = C /\ message_count = C /\ {r.seq : r \in rows} = 1..C
        BY <2>1, <2>2 DEF Exact
    <2> PICK D : D = C + Len(answer[t])
        OBVIOUS
    <2>4. Cardinality(rows') = D /\ {r.seq : r \in rows'} = 1..D /\ WellPaired(rows')
        BY <1>8, <2>2, <2>3, AnswerAdded
    <2>5. Active' = {} /\ Numbering' = {} /\ history' = history
        BY <1>8, <2>1, <2>2 DEF Save, End
    <2>6. message_count' = D
        BY <1>8, <2>3 DEF Save
    <2>7. Exact(Cardinality(rows))'
        BY <2>4, <2>5, <2>6 DEF Exact
    <2> QED BY <2>2, <2>4, <2>5, <2>7
<1>9. ASSUME NEW t \in Turns, Abort(t) PROVE SerialInv'
    <2> SUFFICES ASSUME ~overlapped'
                 PROVE  /\ \A u, w \in Active' : u = w
                        /\ Exact(Cardinality(rows))'
                        /\ WellPaired(rows')
                        /\ \A u \in Turns : WellPaired(history'[u])
        BY DEF SerialInv
    <2>1. ~overlapped /\ t \in Active
        BY <1>9 DEF Abort
    <2>2. /\ Exact(C) /\ WellPaired(rows) /\ \A u \in Turns : WellPaired(history[u])
          /\ \A u, w \in Active : u = w
        BY <1>s, <2>1
    <2>3. Active' = {} /\ Numbering' = {} /\ UNCHANGED <<rows, history, message_count>>
        BY <1>9, <2>1, <2>2 DEF Abort, End
    <2>4. Cardinality(rows') = C
        BY <2>3
    <2>5. Exact(Cardinality(rows))'
        BY <2>2, <2>3, <2>4 DEF Exact
    <2> QED BY <2>2, <2>3, <2>5
<1>10. CASE UNCHANGED convVars
    BY <1>1, <1>10 DEF convVars
<1> QED
    BY <1>2, <1>3, <1>4, <1>5, <1>6, <1>7, <1>8, <1>9, <1>10 DEF ConversationNext

\* The invariant of the turns holds at first,
LEMMA TurnsInit == ConversationInit => TurnsInv
<1> SUFFICES ASSUME ConversationInit PROVE TurnsInv
    OBVIOUS
<1>1. OrderInv /\ CountInv
    BY OrderInit, FS_EmptySet DEF ConversationInit, CountInv
<1>2. AnswerInv
    <2>1. AnswerOK(<<>>)
        BY DEF AnswerOK, Answered, Uses
    <2> QED BY <2>1 DEF ConversationInit, AnswerInv
<1>3. Active = {} /\ Numbering = {} /\ rows = {}
    BY DEF ConversationInit, Active, Numbering
<1>4. QuestionInv
    BY <1>3 DEF QuestionInv
<1>5. SerialInv
    <2>1. Cardinality(rows) = 0 /\ WellPaired(rows)
        BY <1>3, FS_EmptySet, QuestionPaired
    <2>2. Exact(0)
        BY <1>3 DEF Exact, ConversationInit
    <2>3. \A t \in Turns : WellPaired(history[t])
        BY QuestionPaired DEF ConversationInit
    <2> QED BY <1>3, <2>1, <2>2, <2>3 DEF SerialInv
<1> QED BY <1>1, <1>2, <1>4, <1>5 DEF TurnsInv

\* and every step keeps it.
LEMMA TurnsStep ==
    ASSUME TurnsInv, [ConversationNext]_convVars
    PROVE  TurnsInv'
<1>1. OrderInv' /\ CountInv'
    BY OrderStep, CountStep DEF TurnsInv
<1>2. AnswerInv' /\ QuestionInv'
    BY AnswerStep, QuestionStep DEF TurnsInv, OrderInv
<1>3. SerialInv'
    BY SerialStep
<1> QED BY <1>1, <1>2, <1>3 DEF TurnsInv

\* Turns that follow one another number their rows 1, 2, 3, ..., count them
\* exactly and read histories in which no use is parted from its result (those
\* saved without a result apart), however many turns there are, how long their
\* answers are, and wherever they failed.
THEOREM SerialTurns == ConversationSpec => []SerialTurnsAreExact
<1>1. TurnsInv => SerialTurnsAreExact
    BY DEF TurnsInv, SerialInv, Exact, SerialTurnsAreExact
<1> QED BY <1>1, TurnsInit, TurnsStep, PTL DEF ConversationSpec

-----------------------------------------------------------------------------
\* The simulators do not disturb the turns: each of their steps is a step of
\* the conversation.
LEMMA StepIsTurn == [Next]_allVars => [ConversationNext]_convVars
    BY DEF Next, ConversationNext, allVars

\* A conversation with simulators is a conversation: what is proved of its turns
\* holds with them too.
THEOREM SimulatorsAreTurns == Spec => ConversationSpec
<1>1. Init => ConversationInit
    BY DEF Init
<1> QED BY <1>1, StepIsTurn, PTL DEF Spec, ConversationSpec

\* The variables of the simulators hold values of their types.
SimTypes ==
    /\ stored \subseteq Sims
    /\ reveal_request_count \in [Sims -> 0..1]
    /\ existing \in [Turns -> SUBSET Sims]
    /\ previous \in [Turns -> [Sims -> 0..1]]
    /\ states \in [Turns -> SUBSET Sims]
    /\ reveal_counts \in [Turns -> [Sims -> 0..1]]
    /\ newly_created \in [Turns -> SUBSET Sims]
    /\ requests \in [Sims -> Seq([turn : Turns, outcome : Outcomes])]

\* NoRequests is a table of counts.
LEMMA NoneRequested == NoRequests \in [Sims -> 0..1]
    BY DEF NoRequests

\* The types hold at first,
LEMMA SimTypesInit == SimulatorsInit => SimTypes
    BY NoneRequested DEF SimulatorsInit, SimTypes

\* and every step keeps them.
LEMMA SimTypesStep ==
    ASSUME SimTypes, [Next]_allVars
    PROVE  SimTypes'
<1>1. ASSUME UNCHANGED simVars PROVE SimTypes'
    BY <1>1 DEF SimTypes, simVars
<1>2. ASSUME NEW t \in Turns, LoadSimulators(t) PROVE SimTypes'
    BY <1>2 DEF SimTypes, LoadSimulators
<1>3. ASSUME NEW t \in Turns, NEW s \in Sims, CreateSimulator(t, s) PROVE SimTypes'
    BY <1>3 DEF SimTypes, CreateSimulator
<1>4. ASSUME NEW t \in Turns, NEW s \in Sims, RequestReveal(t, s) PROVE SimTypes'
    <2> PICK counts \in [Sims -> 0..1] : counts = reveal_counts[t]
        BY DEF SimTypes
    <2> PICK n : n = IF ForceReveal \/ counts[s] >= 1 THEN 0 ELSE counts[s] + 1
        OBVIOUS
    <2>1. n \in 0..1 /\ reveal_counts' = [reveal_counts EXCEPT ![t][s] = n]
        BY <1>4 DEF RequestReveal, SimTypes
    <2>2. reveal_counts' \in [Turns -> [Sims -> 0..1]]
        BY <2>1 DEF SimTypes
    <2>3. requests' \in [Sims -> Seq([turn : Turns, outcome : Outcomes])]
        <3> PICK outcome \in Outcomes :
                requests' = [requests EXCEPT ![s] = Append(@, [turn |-> t, outcome |-> outcome])]
            BY <1>4 DEF RequestReveal, Respond, Outcomes
        <3> PICK made : made = [turn |-> t, outcome |-> outcome]
            OBVIOUS
        <3> PICK Made : Made = [turn : Turns, outcome : Outcomes]
            OBVIOUS
        <3>0. made \in Made /\ requests \in [Sims -> Seq(Made)]
            BY DEF SimTypes
        <3>1. Append(requests[s], made) \in Seq(Made)
            BY ONLY <3>0, s \in Sims
        <3>2. requests' \in [Sims -> Seq(Made)]
            BY <3>0, <3>1
        <3> QED BY <3>2
    <2> QED BY <1>4, <2>2, <2>3 DEF RequestReveal, SimTypes
<1>5. ASSUME NEW t \in Turns, Forget(t),
             \/ StoreSimulators(t)
             \/ UNCHANGED <<stored, reveal_request_count>>
      PROVE  SimTypes'
    <2>1. CASE StoreSimulators(t)
        <3>1. stored' \subseteq Sims
            BY <2>1 DEF SimTypes, StoreSimulators
        <3>2. \A s \in Sims : (IF s \in existing[t] /\ reveal_counts[t][s] # previous[t][s]
                               THEN reveal_counts[t][s] ELSE reveal_request_count[s]) \in 0..1
            BY DEF SimTypes
        <3>3. reveal_request_count' \in [Sims -> 0..1]
            BY <2>1, <3>2 DEF StoreSimulators
        <3> QED BY <1>5, <3>1, <3>3, NoneRequested DEF SimTypes, Forget
    <2>2. CASE UNCHANGED <<stored, reveal_request_count>>
        BY <1>5, <2>2, NoneRequested DEF SimTypes, Forget
    <2> QED BY <1>5, <2>1, <2>2
<1>6. CASE UNCHANGED allVars
    BY <1>1, <1>6 DEF allVars, simVars
<1>7. ASSUME NEW t \in Turns, SimulatorCall(t) PROVE SimTypes'
    BY <1>1, <1>3, <1>4, <1>7 DEF SimulatorCall
<1> QED
    BY <1>1, <1>2, <1>5, <1>6, <1>7 DEF Next, StoreSimulators

\* Types are kept in every conversation with simulators; a count never exceeds
\* one, though turns write it back without having read the others' changes.
THEOREM SimulatorsTyped == Spec => []SimulatorsTypeOK
<1>1. Init => OrderInv /\ SimTypes
    BY OrderInit, SimTypesInit DEF Init
<1>2. OrderInv /\ SimTypes /\ [Next]_allVars => (OrderInv /\ SimTypes)'
    BY StepIsTurn, OrderStep, SimTypesStep
<1>3. OrderInv /\ SimTypes => SimulatorsTypeOK
    BY DEF OrderInv, SimTypes, SimulatorsTypeOK
<1> QED BY <1>1, <1>2, <1>3, PTL DEF Spec

-----------------------------------------------------------------------------
\* The turns whose agent loop is at work or waits to be saved.
Running == {t \in Turns : phase[t] \in {"running", "finished"}}

\* An answer, and the rows of a turn, that hold tool calls.
HasCall(a) == \E j \in DOMAIN a : a[j].call # 0
WithCalls(t) == \E r \in RowsOf(t) : r.call # 0

\* The requests that are in the count column, those of turns saved.
Saved(s) == {i \in DOMAIN requests[s] : WithCalls(requests[s][i].turn)}

\* Requests are tool calls of turns that have reached their agent loop, and a
\* simulator nobody asked for has no count.
RequestsInv ==
    /\ \A s \in Sims : \A i \in DOMAIN requests[s] :
          LET t == requests[s][i].turn
          IN  /\ t \in Running \/ phase[t] = "over"
              /\ t \in Running => HasCall(answer[t])
    /\ \A s \in Sims : requests[s] = <<>> =>
          reveal_request_count[s] = 0 /\ \A t \in Turns : reveal_counts[t][s] = 0
    /\ ~ForceReveal => \A s \in Sims : 1 \notin Revealed(s)

\* What a turn does to its answer and its phase while simulators are called.
LEMMA ReplyEffect ==
    ASSUME OrderInv, NEW t \in Turns, NEW text \in Texts, NEW n \in 0..MaxBlocks,
           ToolReply(t, text, n) \/ LastReply(t, text, n)
    PROVE  /\ phase[t] = "running" /\ phase'[t] \in {"running", "finished"}
           /\ \A u \in Turns \ {t} : phase'[u] = phase[u] /\ answer'[u] = answer[u]
           /\ HasCall(answer[t]) \/ n # 0 => HasCall(answer'[t])
           /\ UNCHANGED <<rows, history, overlapped>>
<1> PICK a \in Seq(Block) : a = answer[t]
    BY DEF OrderInv, ConversationTypeOK
<1> PICK c \in Nat : c = Calls(t)
    BY CallsType DEF OrderInv
<1> PICK b : b = answer'[t]
    OBVIOUS
<1>n. n \in Nat /\ Len(text) \in Nat
    BY ConversationAssumption, TextsAre
<1>1. IsReply(b, a, Len(text), c, n, n) \/ IsReply(b, a, Len(text), c, n, 0)
    <2>1. CASE ToolReply(t, text, n)
        <3>1. b = a \o text \o Blocks("assistant", c, n) \o Blocks("user", c, n)
            BY <2>1 DEF ToolReply, OrderInv, ConversationTypeOK
        <3> QED BY <1>n, <3>1, ResultsFollow
    <2>2. CASE LastReply(t, text, n)
        <3>1. b = a \o text \o Blocks("assistant", c, n)
            BY <2>2 DEF LastReply, OrderInv, ConversationTypeOK
        <3> QED BY <1>n, <3>1, UsesFollow
    <2> QED BY <2>1, <2>2
<1>2. HasCall(a) \/ n # 0 => HasCall(b)
    <2> PICK L \in Nat : L = Len(a)
        OBVIOUS
    <2> PICK d \in Nat : d = Len(text)
        BY <1>n
    <2>1. /\ b \in Seq(Block) /\ Len(b) >= L + d + n
          /\ \A i \in 1..L : b[i] = a[i]
          /\ \A i \in (L + d + 1)..(L + d + n) : b[i].call = c + (i - L - d)
        BY <1>1, <1>n DEF IsReply
    <2>2. ASSUME HasCall(a) PROVE HasCall(b)
        <3> PICK j \in DOMAIN a : a[j].call # 0
            BY <2>2 DEF HasCall
        <3>1. j \in 1..L /\ j \in DOMAIN b
            BY <1>n, <2>1
        <3> QED BY <2>1, <3>1 DEF HasCall
    <2>3. ASSUME n # 0 PROVE HasCall(b)
        <3> PICK j \in Nat : j = L + d + 1
            OBVIOUS
        <3>1. j \in (L + d + 1)..(L + d + n) /\ j \in DOMAIN b /\ c + (j - L - d) # 0
            BY <1>n, <2>1, <2>3
        <3> QED BY <2>1, <3>1 DEF HasCall
    <2> QED BY <2>2, <2>3
<1> QED BY <1>2 DEF ToolReply, LastReply, OrderInv, ConversationTypeOK

\* What saving a turn does to its rows.
LEMMA SavedCalls ==
    ASSUME OrderInv, QuestionInv, NEW t \in Turns, Save(t)
    PROVE  /\ WithCalls(t)' <=> HasCall(answer[t])
           /\ \A u \in Turns \ {t} : WithCalls(u)' <=> WithCalls(u)
<1> DEFINE new(i) == RowAt(t, next_seq[t] + i - 1, answer[t][i])
<1>1. rows' = rows \cup {new(i) : i \in DOMAIN answer[t]}
    BY DEF Save
<1>2. \A i \in DOMAIN answer[t] : new(i).turn = t /\ new(i).call = answer[t][i].call
    BY DEF RowAt
<1> HIDE DEF new
<1>3. \A r \in rows : r.turn = t => r.call = 0
    BY DEF Save, QuestionInv, Active, RowsOf
<1>4. WithCalls(t)' <=> HasCall(answer[t])
    BY <1>1, <1>2, <1>3 DEF WithCalls, RowsOf, HasCall
<1>5. \A u \in Turns \ {t} : WithCalls(u)' <=> WithCalls(u)
    BY <1>1, <1>2 DEF WithCalls, RowsOf
<1> QED BY <1>4, <1>5

\* A question is not a tool call.
LEMMA AskedCalls ==
    ASSUME NEW seq, NEW t, rows' = rows \cup {RowAt(t, seq, Question)}
    PROVE  \A u : WithCalls(u)' <=> WithCalls(u)
<1> PICK q : q = RowAt(t, seq, Question)
    OBVIOUS
<1>1. q.call = 0
    BY DEF RowAt, Question
<1> QED BY <1>1 DEF WithCalls, RowsOf

\* The steps that neither read, count nor write back requests.
Counts == <<stored, reveal_request_count, existing, previous, reveal_counts, requests>>
Quiet ==
    /\ UNCHANGED Counts
    /\ \A t \in Turns : /\ t \in Running' <=> t \in Running
                        /\ phase'[t] = "over" <=> phase[t] = "over"
                        /\ WithCalls(t)' <=> WithCalls(t)
                        /\ HasCall(answer[t]) => HasCall(answer'[t])

\* A reply calls a tool on a simulator.
Call(t, s) ==
    /\ RequestReveal(t, s)
    /\ phase[t] = "running" /\ phase'[t] \in {"running", "finished"}
    /\ \A u \in Turns \ {t} : phase'[u] = phase[u] /\ answer'[u] = answer[u]
    /\ HasCall(answer'[t])
    /\ UNCHANGED <<rows, history, overlapped>>

\* So every step starts a turn, is a quiet one, a request, or the end of a turn.
LEMMA Kinds ==
    ASSUME OrderInv, QuestionInv, [Next]_allVars
    PROVE  \/ Quiet
           \/ \E t \in Turns : Start(t) /\ LoadSimulators(t)
           \/ \E t \in Turns, s \in Sims : Call(t, s)
           \/ \E t \in Turns : Save(t) /\ StoreSimulators(t)
           \/ \E t \in Turns : Abort(t) /\ Forget(t) /\ UNCHANGED <<stored, reveal_request_count>>
<1>1. ASSUME NEW t \in Turns, Create(t), UNCHANGED simVars PROVE Quiet
    <2>1. rows' = rows \cup {RowAt(t, 1, Question)}
        BY <1>1 DEF Create
    <2>2. \A u : WithCalls(u)' <=> WithCalls(u)
        BY <2>1, AskedCalls
    <2> QED
        BY <1>1, <2>2 DEF Create, Quiet, Counts, simVars, Running, OrderInv, ConversationTypeOK
<1>2. ASSUME NEW t \in Turns, Ask(t), UNCHANGED simVars PROVE Quiet
    <2>1. rows' = rows \cup {RowAt(t, next_seq[t], Question)}
        BY <1>2 DEF Ask
    <2>2. \A u : WithCalls(u)' <=> WithCalls(u)
        BY <2>1, AskedCalls
    <2> QED
        BY <1>2, <2>2 DEF Ask, Quiet, Counts, simVars, Running, OrderInv, ConversationTypeOK
<1>3. ASSUME NEW t \in Turns, Open(t) \/ ReadHistory(t) \/ LoopFails(t), UNCHANGED simVars
      PROVE  Quiet
    <2>1. \A u : WithCalls(u)' <=> WithCalls(u)
        BY <1>3 DEF Open, ReadHistory, LoopFails, WithCalls, RowsOf
    <2> QED
        BY <1>3, <2>1 DEF Open, ReadHistory, LoopFails, Quiet, Counts, simVars, Running, OrderInv,
                          ConversationTypeOK
<1>4. ASSUME NEW t \in Turns, NEW text \in Texts, NEW n \in 0..MaxBlocks,
             ToolReply(t, text, n) \/ LastReply(t, text, n), UNCHANGED Counts
      PROVE  Quiet
    <2>1. /\ phase[t] = "running" /\ phase'[t] \in {"running", "finished"}
          /\ \A u \in Turns \ {t} : phase'[u] = phase[u] /\ answer'[u] = answer[u]
          /\ HasCall(answer[t]) => HasCall(answer'[t])
          /\ rows' = rows
        BY <1>4, ReplyEffect
    <2>2. \A u : WithCalls(u)' <=> WithCalls(u)
        BY <2>1 DEF WithCalls, RowsOf
    <2> QED BY <1>4, <2>1, <2>2 DEF Quiet, Running
<1>5. ASSUME NEW t \in Turns, NEW text \in Texts, NEW n \in 0..MaxBlocks,
             ToolReply(t, text, n) \/ LastReply(t, text, n), n # 0, NEW s \in Sims,
             RequestReveal(t, s)
      PROVE  Call(t, s)
    BY <1>5, ReplyEffect DEF Call
<1>6. CASE UNCHANGED allVars
    BY <1>6 DEF allVars, convVars, simVars, Quiet, Counts, Running, WithCalls, RowsOf
<1>7. ASSUME NEW t \in Turns, NEW text \in Texts, NEW n \in 0..MaxBlocks,
             ToolReply(t, text, n) \/ LastReply(t, text, n),
             IF n = 0 THEN UNCHANGED simVars ELSE SimulatorCall(t)
      PROVE  Quiet \/ \E s \in Sims : Call(t, s)
    <2>1. CASE UNCHANGED Counts
        BY <1>4, <1>7, <2>1
    <2>2. ASSUME NEW s \in Sims, n # 0, RequestReveal(t, s) PROVE Call(t, s)
        BY <1>5, <1>7, <2>2
    <2> QED BY <1>7, <2>1, <2>2 DEF SimulatorCall, CreateSimulator, simVars, Counts
<1> QED BY <1>1, <1>2, <1>3, <1>6, <1>7 DEF Next

\* Requests are made by turns.
LEMMA RequestTurns ==
    ASSUME SimTypes, NEW s \in Sims, NEW i \in DOMAIN requests[s]
    PROVE  requests[s][i].turn \in Turns /\ requests[s][i].outcome \in Outcomes
<1> PICK Made : Made = [turn : Turns, outcome : Outcomes]
    OBVIOUS
<1> PICK r : r = requests[s]
    OBVIOUS
<1>1. r \in Seq(Made) /\ i \in DOMAIN r
    BY DEF SimTypes
<1>2. r[i] \in Made
    BY ONLY <1>1
<1> QED BY <1>2

\* The request that a call adds to the history, and what it does to the count.
Adds(t, s, last, outcome) ==
    /\ last \in Nat /\ last = Len(requests[s]) + 1
    /\ DOMAIN requests[s] = 1..(last - 1) /\ DOMAIN requests'[s] = 1..last
    /\ \A i \in 1..(last - 1) : requests'[s][i] = requests[s][i]
    /\ requests'[s][last] = [turn |-> t, outcome |-> outcome]
    /\ \A q \in Sims \ {s} : requests'[q] = requests[q]
    /\ requests'[s] # <<>>

\* What a call adds, and whether it is confirmed.
LEMMA CallEffect ==
    ASSUME SimTypes, NEW t \in Turns, NEW s \in Sims, Call(t, s)
    PROVE  \E last \in Nat \ {0}, outcome \in Outcomes :
              /\ Adds(t, s, last, outcome)
              /\ outcome = "revealed" <=> outcome \notin {"failed", "refused"}
              /\ outcome = "revealed" => ForceReveal \/ reveal_counts[t][s] >= 1
              /\ outcome = "refused" => ~ForceReveal /\ reveal_counts[t][s] = 0
              /\ reveal_counts'[t][s] = IF ForceReveal \/ reveal_counts[t][s] >= 1 THEN 0 ELSE 1
<1> PICK outcome \in Outcomes :
        /\ requests' = [requests EXCEPT ![s] = Append(@, [turn |-> t, outcome |-> outcome])]
        /\ outcome = "revealed" => ForceReveal \/ reveal_counts[t][s] >= 1
        /\ outcome = "refused" => ~(ForceReveal \/ reveal_counts[t][s] >= 1)
    BY DEF Call, RequestReveal, Respond, Outcomes
<1> PICK made : made = [turn |-> t, outcome |-> outcome]
    OBVIOUS
<1> PICK Made : Made = [turn : Turns, outcome : Outcomes]
    OBVIOUS
<1> PICK old : old = requests[s]
    OBVIOUS
<1> PICK new : new = Append(old, made)
    OBVIOUS
<1>1. old \in Seq(Made) /\ made \in Made /\ requests' = [requests EXCEPT ![s] = new]
    BY DEF SimTypes
<1>2. requests'[s] = new /\ \A q \in Sims \ {s} : requests'[q] = requests[q]
    BY <1>1 DEF SimTypes
<1> PICK last \in Nat \ {0} : last = Len(old) + 1
    BY <1>1
<1>3. /\ DOMAIN old = 1..(last - 1) /\ DOMAIN new = 1..last
      /\ \A i \in 1..(last - 1) : new[i] = old[i]
      /\ new[last] = made /\ new # <<>>
    BY ONLY <1>1, new = Append(old, made), last \in Nat, last = Len(old) + 1
<1>4. Adds(t, s, last, outcome)
    BY <1>2, <1>3 DEF Adds
<1>5. reveal_counts[t][s] \in 0..1
    BY DEF SimTypes
<1>6. reveal_counts'[t][s] = IF ForceReveal \/ reveal_counts[t][s] >= 1 THEN 0 ELSE 1
    BY <1>5 DEF Call, RequestReveal, SimTypes
<1>7. outcome = "revealed" <=> outcome \notin {"failed", "refused"}
    BY DEF Outcomes
<1> QED BY <1>4, <1>5, <1>6, <1>7

\* A call counts for its simulator in its turn and nowhere else.
LEMMA CallFrame ==
    ASSUME SimTypes, NEW t \in Turns, NEW s \in Sims, Call(t, s)
    PROVE  /\ \A u \in Turns, q \in Sims : u # t \/ q # s =>
                  reveal_counts'[u][q] = reveal_counts[u][q]
           /\ UNCHANGED <<stored, reveal_request_count, existing, previous>>
    BY DEF Call, RequestReveal, SimTypes

\* Every step keeps what is known of the requests.
LEMMA RequestsStep ==
    ASSUME OrderInv, QuestionInv, SimTypes, RequestsInv, [Next]_allVars
    PROVE  RequestsInv'
<1> USE DEF Revealed
<1>1. CASE Quiet
    <2>1. \A s \in Sims : \A i \in DOMAIN requests[s] : requests[s][i].turn \in Turns
        BY RequestTurns
    <2> QED BY <1>1, <2>1 DEF RequestsInv, Quiet, Counts
<1>2. ASSUME NEW t \in Turns, Start(t), LoadSimulators(t) PROVE RequestsInv'
    <2>1. t \notin Running /\ phase[t] # "over"
        BY <1>2 DEF Start, Running
    <2>2. \A u \in Turns \ {t} : phase'[u] = phase[u] /\ (u \in Running' <=> u \in Running)
        BY <1>2 DEF Start, Running, OrderInv, ConversationTypeOK
    <2>3. /\ UNCHANGED <<requests, answer, reveal_request_count>>
          /\ reveal_counts' = [reveal_counts EXCEPT ![t] = reveal_request_count]
        BY <1>2 DEF Start, LoadSimulators
    <2>4. \A s \in Sims : \A i \in DOMAIN requests[s] : requests[s][i].turn \in Turns \ {t}
        BY <2>1, RequestTurns DEF RequestsInv
    <2> QED BY <2>2, <2>3, <2>4 DEF RequestsInv, SimTypes
<1>3. ASSUME NEW t \in Turns, NEW s \in Sims, Call(t, s) PROVE RequestsInv'
    <2> PICK last \in Nat \ {0}, outcome \in Outcomes :
              /\ Adds(t, s, last, outcome)
              /\ outcome = "revealed" => ForceReveal \/ reveal_counts[t][s] >= 1
        BY <1>3, CallEffect
    <2>1. t \in Running /\ t \in Running' /\ HasCall(answer'[t])
        BY <1>3 DEF Call, Running
    <2>2. \A u \in Turns \ {t} : /\ phase'[u] = phase[u] /\ answer'[u] = answer[u]
                                 /\ u \in Running' <=> u \in Running
        BY <1>3 DEF Call, Running
    <2>3. \A q \in Sims : \A i \in DOMAIN requests[q] : requests[q][i].turn \in Turns
        BY RequestTurns
    <2>4. \A q \in Sims : \A i \in DOMAIN requests'[q] :
             \/ q = s /\ requests'[q][i].turn = t
             \/ i \in DOMAIN requests[q] /\ requests'[q][i] = requests[q][i]
        BY DEF Adds
    <2>5. \A q \in Sims : \A i \in DOMAIN requests'[q] :
              LET u == requests'[q][i].turn
              IN  /\ u \in Running' \/ phase'[u] = "over"
                  /\ u \in Running' => HasCall(answer'[u])
        <3> SUFFICES ASSUME NEW q \in Sims, NEW i \in DOMAIN requests'[q], NEW u,
                            u = requests'[q][i].turn
                     PROVE  /\ u \in Running' \/ phase'[u] = "over"
                            /\ u \in Running' => HasCall(answer'[u])
            OBVIOUS
        <3>1. CASE u = t
            BY <2>1, <3>1
        <3>2. CASE u # t
            BY <2>2, <2>3, <2>4, <3>2 DEF RequestsInv
        <3> QED BY <3>1, <3>2
    <2>6. \A q \in Sims : requests'[q] = <<>> => q # s /\ requests[q] = <<>>
        BY DEF Adds
    <2>7. \A q \in Sims : requests'[q] = <<>> =>
             reveal_request_count'[q] = 0 /\ \A u \in Turns : reveal_counts'[u][q] = 0
        BY <1>3, <2>6, CallFrame DEF RequestsInv
    <2>8. ~ForceReveal => \A q \in Sims : 1 \notin Revealed(q)'
        <3> SUFFICES ASSUME ~ForceReveal, NEW q \in Sims, 1 \in DOMAIN requests'[q],
                            requests'[q][1].outcome = "revealed"
                     PROVE  FALSE
            OBVIOUS
        <3>1. CASE 1 \in DOMAIN requests[q] /\ requests'[q][1] = requests[q][1]
            BY <3>1 DEF RequestsInv
        <3>2. CASE q = s /\ 1 \notin DOMAIN requests[q]
            <4>1. last = 1 /\ outcome = "revealed"
                BY <3>2 DEF Adds
            <4>2. requests[s] = <<>>
                BY <4>1 DEF Adds, SimTypes
            <4> QED BY <4>1, <4>2 DEF RequestsInv
        <3>3. q # s => requests'[q] = requests[q]
            BY DEF Adds
        <3>4. q = s /\ 1 \in DOMAIN requests[q] => requests'[q][1] = requests[q][1]
            BY DEF Adds
        <3> QED BY <3>1, <3>2, <3>3, <3>4
    <2> QED BY <2>5, <2>7, <2>8 DEF RequestsInv
<1>4. ASSUME NEW t \in Turns, Forget(t), End(t),
             \/ StoreSimulators(t)
             \/ UNCHANGED <<stored, reveal_request_count>>
      PROVE  RequestsInv'
    <2>1. phase'[t] = "over" /\ \A u \in Turns \ {t} : phase'[u] = phase[u] /\ answer'[u] = answer[u]
        BY <1>4 DEF End, OrderInv, ConversationTypeOK
    <2>2. t \notin Running' /\ \A u \in Turns \ {t} : u \in Running' <=> u \in Running
        BY <2>1 DEF Running
    <2>3. /\ requests' = requests
          /\ \A u \in Turns, s \in Sims : reveal_counts'[u][s] \in {0, reveal_counts[u][s]}
        BY <1>4 DEF Forget, NoRequests, SimTypes
    <2>4. \A s \in Sims : \E u \in Turns :
             reveal_request_count'[s] \in {reveal_request_count[s], reveal_counts[u][s]}
        BY <1>4 DEF StoreSimulators
    <2>5. \A s \in Sims : \A i \in DOMAIN requests[s] : requests[s][i].turn \in Turns
        BY RequestTurns
    <2>6. \A s \in Sims : requests[s] = <<>> =>
             reveal_request_count'[s] = 0 /\ \A u \in Turns : reveal_counts'[u][s] = 0
        BY <2>3, <2>4 DEF RequestsInv
    <2> QED BY <2>1, <2>2, <2>3, <2>5, <2>6 DEF RequestsInv
<1> QED BY <1>1, <1>2, <1>3, <1>4, Kinds DEF Save, Abort, StoreSimulators

-----------------------------------------------------------------------------
\* While turns follow one another: a running turn has read the simulators and
\* counts that are stored;
ReadInv(s) ==
    /\ s \notin stored => reveal_request_count[s] = 0
    /\ \A t \in Running : existing[t] = stored /\ previous[t][s] = reveal_request_count[s]

\* each reveal has taken two requests, of those that are counted, and an open
\* request is one that no reveal has taken;
BalanceInv(s) ==
    ~ForceReveal =>
        /\ 2 * Cardinality(Revealed(s) \cap Saved(s)) + reveal_request_count[s]
               <= Cardinality(Saved(s))
        /\ \A t \in Running :
              2 * Cardinality(Revealed(s) \cap Known(s)) + reveal_counts[t][s]
                  <= Cardinality(Known(s))

\* and a refusal is counted, first by the turn that was refused, then, when it
\* is saved, in the database and by the turns that follow.
LastInv(s) ==
    \A i \in DOMAIN requests[s] :
        LET last == requests[s][i]
        IN  i + 1 \notin DOMAIN requests[s] /\ last.outcome = "refused" =>
              /\ last.turn \in Running => reveal_counts[last.turn][s] = 1
              /\ WithCalls(last.turn) /\ s \in existing[last.turn] =>
                    /\ reveal_request_count[s] = 1
                    /\ \A t \in Running : reveal_counts[t][s] = 1
PairInv(s) ==
    \A i, j \in DOMAIN requests[s] :
        ~(/\ j = i + 1
          /\ requests[s][i].outcome = "refused" /\ requests[s][j].outcome = "refused"
          /\ Kept(requests[s][i].turn) /\ s \in existing[requests[s][i].turn])

SimInv(s) == ReadInv(s) /\ BalanceInv(s) /\ LastInv(s) /\ PairInv(s)
SerialSims == ~overlapped => \A s \in Sims : SimInv(s)

SimsInv == TurnsInv /\ SimTypes /\ RequestsInv /\ SerialSims

\* The requests of a simulator can be counted.
LEMMA RequestsFinite ==
    ASSUME SimTypes, NEW s \in Sims, NEW S, S \subseteq DOMAIN requests[s]
    PROVE  IsFiniteSet(S) /\ Cardinality(S) \in Nat
<1> PICK r : r = requests[s]
    OBVIOUS
<1>1. DOMAIN r = 1..Len(r) /\ Len(r) \in Nat
    BY DEF SimTypes
<1>2. IsFiniteSet(DOMAIN r)
    BY <1>1, FS_Interval
<1>3. IsFiniteSet(S)
    BY <1>2, FS_Subset
<1> QED BY <1>3, FS_CardinalityType

\* Of turns that follow one another one runs at most, and none of its rows is a
\* tool call.
LEMMA RunsAlone ==
    ASSUME TurnsInv, ~overlapped, NEW t \in Running
    PROVE  /\ \A u \in Turns \ {t} : phase[u] \in {"idle", "over"} /\ u \notin Running
           /\ ~WithCalls(t) /\ t \in Turns /\ phase[t] # "over"
<1>1. t \in Active
    BY DEF Running, Active
<1>2. \A u \in Active : u = t
    BY <1>1 DEF TurnsInv, SerialInv
<1>3. \A r \in RowsOf(t) : r.call = 0
    BY <1>1 DEF TurnsInv, QuestionInv
<1> QED BY <1>1, <1>2, <1>3 DEF Active, Running, WithCalls

\* The requests that are known are those saved and those of the running turn.
LEMMA KnownAre ==
    ASSUME TurnsInv, SimTypes, RequestsInv, ~overlapped, NEW s \in Sims
    PROVE  /\ Running = {} => Known(s) = Saved(s)
           /\ \A t \in Turns : t \notin Running /\ phase[t] # "over" =>
                 \A i \in DOMAIN requests[s] : requests[s][i].turn # t
           /\ Saved(s) \subseteq Known(s)
<1>1. \A i \in DOMAIN requests[s] :
         LET t == requests[s][i].turn
         IN  t \in Turns /\ (t \in Running \/ phase[t] = "over")
    BY RequestTurns DEF RequestsInv
<1> QED BY <1>1 DEF Known, Saved, Kept, WithCalls

\* Quiet steps.
LEMMA QuietSims ==
    ASSUME SimsInv, ~overlapped, Quiet, NEW s \in Sims
    PROVE  SimInv(s)'
<1>1. \A i \in DOMAIN requests[s] : requests[s][i].turn \in Turns
    BY RequestTurns DEF SimsInv
<1>2. /\ Running' = Running /\ \A t \in Turns : WithCalls(t)' <=> WithCalls(t)
      /\ UNCHANGED Counts
    BY DEF Quiet, Running
<1>3. \A t \in Turns : Kept(t)' <=> Kept(t)
    BY DEF Quiet, Kept, WithCalls
<1>4. /\ Known(s)' = Known(s) /\ Saved(s)' = Saved(s) /\ Revealed(s)' = Revealed(s)
    BY <1>1, <1>2, <1>3 DEF Known, Saved, Revealed, Counts
<1>5. SimInv(s)
    BY DEF SimsInv, SerialSims
<1>6. ReadInv(s)'
    BY <1>2, <1>5 DEF SimInv, ReadInv, Counts
<1>7. BalanceInv(s)'
    BY <1>2, <1>4, <1>5 DEF SimInv, BalanceInv, Counts
<1>8. LastInv(s)'
    BY <1>1, <1>2, <1>5 DEF SimInv, LastInv, Counts
<1>9. PairInv(s)'
    BY <1>1, <1>2, <1>3, <1>5 DEF SimInv, PairInv, Counts
<1> QED BY <1>6, <1>7, <1>8, <1>9 DEF SimInv

\* A turn starts.
LEMMA StartSims ==
    ASSUME SimsInv, ~overlapped, NEW t \in Turns, Start(t), LoadSimulators(t), NEW s \in Sims
    PROVE  SimInv(s)'
<1>0. SimInv(s) /\ TurnsInv /\ SimTypes /\ RequestsInv
    BY DEF SimsInv, SerialSims
<1>1. /\ t \notin Running /\ phase[t] # "over" /\ phase'[t] = "running"
      /\ \A u \in Turns \ {t} : phase'[u] = phase[u]
    BY <1>0 DEF Start, Running, TurnsInv, OrderInv, ConversationTypeOK
<1>2. Running = {} /\ Running' = {t}
    <2>1. \A u \in Running : FALSE
        BY <1>0, <1>1, RunsAlone DEF Start
    <2> QED BY <1>1, <2>1 DEF Running
<1>3. \A i \in DOMAIN requests[s] : requests[s][i].turn \in Turns \ {t}
    BY <1>0, <1>1, KnownAre, RequestTurns
<1>4. /\ UNCHANGED <<stored, reveal_request_count, requests, rows>>
      /\ existing'[t] = stored /\ \A u \in Turns \ {t} : existing'[u] = existing[u]
      /\ previous'[t] = reveal_request_count /\ reveal_counts'[t] = reveal_request_count
    BY <1>0 DEF Start, LoadSimulators, SimTypes
<1>5. /\ \A u \in Turns : WithCalls(u)' <=> WithCalls(u)
      /\ \A u \in Turns \ {t} : Kept(u)' <=> Kept(u)
    BY <1>1, <1>4 DEF WithCalls, RowsOf, Kept
<1>6. /\ Known(s)' = Known(s) /\ Saved(s)' = Saved(s) /\ Revealed(s)' = Revealed(s)
      /\ Known(s) = Saved(s)
    BY <1>0, <1>2, <1>3, <1>4, <1>5, KnownAre DEF Known, Saved, Revealed
<1>7. ReadInv(s)'
    BY <1>0, <1>2, <1>4 DEF SimInv, ReadInv
<1>8. BalanceInv(s)'
    BY <1>0, <1>2, <1>4, <1>6 DEF SimInv, BalanceInv
<1>9. LastInv(s)'
    BY <1>0, <1>2, <1>3, <1>4, <1>5 DEF SimInv, LastInv
<1>10. PairInv(s)'
    BY <1>0, <1>3, <1>4, <1>5 DEF SimInv, PairInv
<1> QED BY <1>7, <1>8, <1>9, <1>10 DEF SimInv

\* A request, for the simulator it concerns and for the others.
LEMMA CallSims ==
    ASSUME SimsInv, ~overlapped, NEW t \in Turns, NEW s \in Sims, Call(t, s), NEW q \in Sims
    PROVE  SimInv(q)'
<1>0. SimInv(q) /\ SimInv(s) /\ TurnsInv /\ SimTypes /\ RequestsInv
    BY DEF SimsInv, SerialSims
<1>1. /\ t \in Running /\ phase[t] # "over" /\ phase'[t] # "over" /\ t \in Running'
      /\ \A u \in Turns \ {t} : phase'[u] = phase[u]
    BY DEF Call, Running
<1>2. Running = {t} /\ Running' = {t} /\ ~WithCalls(t)
    <2>1. \A u \in Turns \ {t} : u \notin Running
        BY <1>0, <1>1, RunsAlone
    <2> QED BY <1>0, <1>1, <2>1, RunsAlone DEF Running
<1>3. /\ UNCHANGED <<stored, reveal_request_count, existing, previous, rows>>
      /\ \A u \in Turns, p \in Sims : u # t \/ p # s => reveal_counts'[u][p] = reveal_counts[u][p]
    BY <1>0, CallFrame DEF Call
<1>4. \A u \in Turns : /\ WithCalls(u)' <=> WithCalls(u)
                       /\ Kept(u)' <=> Kept(u)
    BY <1>1, <1>3 DEF WithCalls, RowsOf, Kept
<1>5. ReadInv(q)'
    BY <1>0, <1>2, <1>3 DEF SimInv, ReadInv
<1>6. \A p \in Sims : \A i \in DOMAIN requests[p] : requests[p][i].turn \in Turns
    BY <1>0, RequestTurns
<1>7. CASE q # s
    <2>1. requests'[q] = requests[q]
        BY <1>0, <1>7, CallEffect DEF Adds
    <2>2. Known(q)' = Known(q) /\ Saved(q)' = Saved(q) /\ Revealed(q)' = Revealed(q)
        BY <1>4, <1>6, <2>1 DEF Known, Saved, Revealed
    <2>3. BalanceInv(q)'
        BY <1>0, <1>2, <1>3, <1>7, <2>2 DEF SimInv, BalanceInv
    <2>4. LastInv(q)'
        <3>1. t \in Turns /\ \A u \in Turns : reveal_counts'[u][q] = reveal_counts[u][q]
            BY <1>3, <1>7
        <3> QED BY <1>0, <1>2, <1>3, <1>4, <1>6, <2>1, <3>1 DEF SimInv, LastInv
    <2>5. PairInv(q)'
        BY <1>0, <1>3, <1>4, <1>6, <2>1 DEF SimInv, PairInv
    <2> QED BY <1>5, <2>3, <2>4, <2>5 DEF SimInv
<1>8. CASE q = s
    <2> PICK last \in Nat \ {0}, outcome \in Outcomes :
              /\ Adds(t, s, last, outcome)
              /\ outcome = "revealed" <=> outcome \notin {"failed", "refused"}
              /\ outcome = "revealed" => ForceReveal \/ reveal_counts[t][s] >= 1
              /\ outcome = "refused" => ~ForceReveal /\ reveal_counts[t][s] = 0
              /\ reveal_counts'[t][s] = IF ForceReveal \/ reveal_counts[t][s] >= 1 THEN 0 ELSE 1
        BY <1>0, CallEffect
    <2>1. /\ DOMAIN requests[s] = 1..(last - 1) /\ DOMAIN requests'[s] = 1..last
          /\ \A i \in 1..(last - 1) : requests'[s][i] = requests[s][i]
          /\ requests'[s][last].turn = t /\ requests'[s][last].outcome = outcome
        BY DEF Adds
    <2>2. /\ 1..last = (1..(last - 1)) \cup {last} /\ last \notin 1..(last - 1)
        OBVIOUS
    <2>3. Saved(s)' = Saved(s)
        BY <1>2, <1>4, <1>6, <2>1, <2>2 DEF Saved
    <2>4. Known(s)' = Known(s) \cup {last}
        BY <1>1, <1>4, <1>6, <2>1, <2>2 DEF Known, Kept
    <2>5. Revealed(s)' = IF outcome = "revealed" THEN Revealed(s) \cup {last} ELSE Revealed(s)
        BY <2>1, <2>2 DEF Revealed
    <2>6. Known(s) \subseteq 1..(last - 1) /\ Saved(s) \subseteq 1..(last - 1)
          /\ Revealed(s) \subseteq 1..(last - 1)
        BY <2>1 DEF Known, Saved, Revealed
    <2>7. BalanceInv(s)'
        <3> SUFFICES ASSUME ~ForceReveal
                     PROVE  /\ 2 * Cardinality(Revealed(s)' \cap Saved(s)')
                                   + reveal_request_count'[s] <= Cardinality(Saved(s)')
                            /\ 2 * Cardinality(Revealed(s)' \cap Known(s)')
                                   + reveal_counts'[t][s] <= Cardinality(Known(s)')
            BY <1>2 DEF BalanceInv
        <3> PICK K : K = Known(s)
            OBVIOUS
        <3> PICK R : R = Revealed(s) \cap K
            OBVIOUS
        <3>1. /\ IsFiniteSet(K) /\ Cardinality(K) \in Nat /\ IsFiniteSet(R) /\ Cardinality(R) \in Nat
              /\ last \notin K /\ last \notin R
            BY <1>0, <2>1, <2>2, <2>6, RequestsFinite
        <3>2. Cardinality(Known(s)') = Cardinality(K) + 1
            BY <2>4, <3>1, FS_AddElement
        <3>3. 2 * Cardinality(R) + reveal_counts[t][s] <= Cardinality(K)
            BY <1>0, <1>2 DEF SimInv, BalanceInv
        <3>4. reveal_counts[t][s] \in 0..1
            BY <1>0 DEF SimTypes
        <3> PICK k \in Nat : k = Cardinality(K)
            BY <3>1
        <3> PICK r \in Nat : r = Cardinality(R)
            BY <3>1
        <3> PICK x \in 0..1 : x = reveal_counts[t][s]
            BY <3>4
        <3> PICK y : y = reveal_counts'[t][s]
            OBVIOUS
        <3>7. 2 * r + x <= k /\ y = IF x >= 1 THEN 0 ELSE 1
            BY <3>3
        <3>5. CASE outcome = "revealed"
            <4>1. Revealed(s)' \cap Known(s)' = R \cup {last}
                BY <2>4, <2>5, <3>5
            <4>2. Cardinality(R \cup {last}) = Cardinality(R) + 1
                BY <3>1, FS_AddElement
            <4>5. x >= 1
                BY <3>5
            <4>6. 2 * (r + 1) + y <= k + 1
                BY ONLY <3>7, <4>5, k \in Nat, r \in Nat, x \in 0..1
            <4>3. 2 * Cardinality(Revealed(s)' \cap Known(s)') + reveal_counts'[t][s]
                      <= Cardinality(Known(s)')
                BY <3>2, <4>1, <4>2, <4>6, Zenon
            <4>4. Revealed(s)' \cap Saved(s)' = Revealed(s) \cap Saved(s)
                BY <2>2, <2>3, <2>5, <2>6
            <4> QED BY <1>0, <1>3, <2>3, <4>3, <4>4 DEF SimInv, BalanceInv
        <3>6. CASE outcome # "revealed"
            <4>1. Revealed(s)' \cap Known(s)' = R
                BY <2>2, <2>4, <2>5, <2>6, <3>6
            <4>4. 2 * r + y <= k + 1
                BY ONLY <3>7, k \in Nat, r \in Nat, x \in 0..1
            <4>2. 2 * Cardinality(Revealed(s)' \cap Known(s)') + reveal_counts'[t][s]
                      <= Cardinality(Known(s)')
                BY <3>2, <4>1, <4>4, Zenon
            <4>3. Revealed(s)' = Revealed(s)
                BY <2>5, <3>6
            <4> QED BY <1>0, <1>3, <2>3, <4>2, <4>3 DEF SimInv, BalanceInv
        <3> QED BY <3>5, <3>6
    <2>8. LastInv(s)'
        <3> SUFFICES ASSUME NEW i \in DOMAIN requests'[s], i + 1 \notin DOMAIN requests'[s],
                            requests'[s][i].outcome = "refused", NEW u, u = requests'[s][i].turn
                     PROVE  /\ u \in Running' => reveal_counts'[u][s] = 1
                            /\ WithCalls(u)' /\ s \in existing'[u] =>
                                  /\ reveal_request_count'[s] = 1
                                  /\ \A w \in Running' : reveal_counts'[w][s] = 1
            BY DEF LastInv
        <3>1. i = last
            BY <2>1
        <3>2. u = t /\ outcome = "refused"
            BY <2>1, <3>1
        <3> QED BY <1>2, <1>4, <3>2
    <2>9. PairInv(s)'
        <3> SUFFICES ASSUME NEW i \in DOMAIN requests'[s], NEW j \in DOMAIN requests'[s], j = i + 1,
                            requests'[s][i].outcome = "refused", requests'[s][j].outcome = "refused",
                            NEW u, u = requests'[s][i].turn, Kept(u)', s \in existing'[u]
                     PROVE  FALSE
            BY DEF PairInv
        <3>1. i \in 1..(last - 1)
            BY <2>1
        <3>2. requests[s][i].outcome = "refused" /\ u = requests[s][i].turn /\ u \in Turns
            BY <1>6, <2>1, <3>1
        <3>3. Kept(u) /\ s \in existing[u]
            BY <1>3, <1>4, <3>2
        <3>4. CASE j # last
            <4>1. j \in 1..(last - 1)
                BY <2>1, <3>4
            <4>2. requests[s][j].outcome = "refused"
                BY <2>1, <4>1
            <4> QED BY <1>0, <2>1, <3>1, <3>2, <3>3, <4>1, <4>2 DEF SimInv, PairInv
        <3>5. CASE j = last
            <4>1. outcome = "refused" /\ i + 1 \notin DOMAIN requests[s] /\ i \in DOMAIN requests[s]
                BY <2>1, <3>1, <3>5
            <4>2. /\ u \in Running => reveal_counts[u][s] = 1
                  /\ WithCalls(u) => reveal_counts[t][s] = 1
                BY <1>0, <1>1, <3>2, <3>3, <4>1 DEF SimInv, LastInv
            <4>3. u \in Running \/ phase[u] = "over"
                BY <1>0, <3>2, <4>1 DEF RequestsInv
            <4>4. u = t \/ WithCalls(u)
                BY <1>2, <3>3, <4>3 DEF Kept, WithCalls
            <4> QED BY <1>1, <4>1, <4>2, <4>4
        <3> QED BY <3>4, <3>5
    <2> QED BY <1>5, <1>8, <2>7, <2>8, <2>9 DEF SimInv
<1> QED BY <1>7, <1>8

\* The end of a turn: its counts are what it leaves in the database, or nothing
\* of it is left.
LEMMA EndSims ==
    ASSUME SimsInv, ~overlapped, NEW t \in Turns, End(t), t \in Active, Forget(t),
           UNCHANGED <<history, overlapped>>, NEW s \in Sims,
           \/ Save(t) /\ StoreSimulators(t)
           \/ UNCHANGED <<rows, stored, reveal_request_count>>
    PROVE  SimInv(s)'
<1>0. SimInv(s) /\ TurnsInv /\ OrderInv /\ QuestionInv /\ SimTypes /\ RequestsInv
    BY DEF SimsInv, SerialSims, TurnsInv
<1>1. /\ phase'[t] = "over" /\ \A u \in Turns \ {t} : phase'[u] = phase[u]
      /\ \A u \in Turns \ {t} : u \notin Running
    <2>1. phase'[t] = "over" /\ \A u \in Turns \ {t} : phase'[u] = phase[u]
        BY <1>0 DEF End, OrderInv, ConversationTypeOK
    <2>2. \A u \in Active : u = t
        BY <1>0 DEF TurnsInv, SerialInv
    <2> QED BY <2>1, <2>2 DEF Active, Running
<1>2. Running' = {}
    BY <1>1 DEF Running
<1>3. /\ UNCHANGED <<existing, requests>>
      /\ \A i \in DOMAIN requests[s] : requests[s][i].turn \in Turns
    BY <1>0, RequestTurns DEF Forget
<1>4. ~WithCalls(t) /\ phase[t] # "over"
    BY <1>0 DEF Active, QuestionInv, WithCalls
<1>5. \A u \in Turns \ {t} : /\ WithCalls(u)' <=> WithCalls(u)
                             /\ Kept(u)' <=> Kept(u)
    <2>1. \A u \in Turns \ {t} : WithCalls(u)' <=> WithCalls(u)
        BY <1>0, SavedCalls DEF WithCalls, RowsOf
    <2>2. \A u \in Turns : Kept(u) <=> (phase[u] # "over" \/ WithCalls(u))
        BY DEF Kept, WithCalls
    <2>3. \A u \in Turns : Kept(u)' <=> (phase'[u] # "over" \/ WithCalls(u)')
        BY DEF Kept, WithCalls
    <2> QED BY <1>1, <2>1, <2>2, <2>3
<1>6. Kept(t) /\ (Kept(t)' <=> WithCalls(t)')
    BY <1>1, <1>4 DEF Kept, WithCalls
<1>7. PairInv(s)'
    BY <1>0, <1>3, <1>5, <1>6 DEF SimInv, PairInv
<1>8. Revealed(s)' = Revealed(s)
    BY <1>3 DEF Revealed
<1>9. CASE UNCHANGED <<rows, stored, reveal_request_count>>
    <2>1. ReadInv(s)'
        BY <1>0, <1>2, <1>9 DEF SimInv, ReadInv
    <2>2. WithCalls(t)' <=> WithCalls(t)
        BY <1>9 DEF WithCalls, RowsOf
    <2>3. Saved(s)' = Saved(s)
        BY <1>3, <1>5, <2>2 DEF Saved
    <2>4. BalanceInv(s)'
        BY <1>0, <1>2, <1>8, <1>9, <2>3 DEF SimInv, BalanceInv
    <2>5. LastInv(s)'
        BY <1>0, <1>2, <1>3, <1>5, <1>9, <2>2 DEF SimInv, LastInv
    <2> QED BY <1>7, <2>1, <2>4, <2>5 DEF SimInv
<1>10. CASE Save(t) /\ StoreSimulators(t)
    <2>1. t \in Running /\ Running = {t}
        BY <1>1, <1>10 DEF Save, Running
    <2>2. /\ reveal_request_count'[s] = IF s \in existing[t] /\ reveal_counts[t][s] # previous[t][s]
                                        THEN reveal_counts[t][s] ELSE reveal_request_count[s]
          /\ stored \subseteq stored'
        BY <1>10 DEF StoreSimulators
    <2>3. /\ existing[t] = stored /\ previous[t][s] = reveal_request_count[s]
          /\ s \notin stored => reveal_request_count[s] = 0
        BY <1>0, <2>1 DEF SimInv, ReadInv
    <2>4. /\ s \in existing[t] => reveal_request_count'[s] = reveal_counts[t][s]
          /\ s \notin existing[t] => reveal_request_count'[s] = 0
        BY <2>2, <2>3
    <2>5. ReadInv(s)'
        BY <1>2, <2>2, <2>3, <2>4 DEF ReadInv
    <2>6. \A i \in DOMAIN requests[s] : requests[s][i].turn = t => WithCalls(t)'
        <3>1. \A i \in DOMAIN requests[s] : requests[s][i].turn = t => HasCall(answer[t])
            BY <1>0, <2>1 DEF RequestsInv
        <3> QED BY <1>0, <1>10, <3>1, SavedCalls
    <2>7. Saved(s)' = Known(s)
        <3>1. \A i \in DOMAIN requests[s] : \A u :
                 u = requests[s][i].turn => (WithCalls(u)' <=> Kept(u))
            <4> SUFFICES ASSUME NEW i \in DOMAIN requests[s], NEW u, u = requests[s][i].turn
                         PROVE  WithCalls(u)' <=> Kept(u)
                OBVIOUS
            <4>1. CASE u = t
                BY <1>6, <2>6, <4>1
            <4>2. CASE u # t
                <5>1. u \in Turns /\ phase[u] = "over"
                    BY <1>0, <1>3, <2>1, <4>2 DEF RequestsInv
                <5>2. WithCalls(u)' <=> WithCalls(u)
                    BY <1>5, <4>2, <5>1
                <5> QED BY <5>1, <5>2 DEF Kept, WithCalls
            <4> QED BY <4>1, <4>2
        <3> QED BY <1>3, <3>1 DEF Saved, Known
    <2>8. BalanceInv(s)'
        <3> SUFFICES ASSUME ~ForceReveal
                     PROVE  2 * Cardinality(Revealed(s)' \cap Saved(s)')
                                + reveal_request_count'[s] <= Cardinality(Saved(s)')
            BY <1>2 DEF BalanceInv
        <3>1. 2 * Cardinality(Revealed(s) \cap Known(s)) + reveal_counts[t][s]
                  <= Cardinality(Known(s))
            BY <1>0, <2>1 DEF SimInv, BalanceInv
        <3> PICK k \in Nat : k = Cardinality(Known(s))
            BY <1>0, RequestsFinite DEF Known
        <3> PICK r \in Nat : r = Cardinality(Revealed(s) \cap Known(s))
            BY <1>0, RequestsFinite DEF Known
        <3> PICK x \in 0..1 : x = reveal_counts[t][s]
            BY <1>0 DEF SimTypes
        <3> PICK y : y = reveal_request_count'[s]
            OBVIOUS
        <3>2. 2 * r + x <= k /\ (y = x \/ y = 0)
            BY <2>4, <3>1
        <3>3. 2 * r + y <= k
            BY ONLY <3>2, k \in Nat, r \in Nat, x \in 0..1
        <3> QED BY <1>8, <2>7, <3>3, Zenon
    <2>9. LastInv(s)'
        <3> SUFFICES ASSUME NEW i \in DOMAIN requests[s], i + 1 \notin DOMAIN requests[s],
                            requests[s][i].outcome = "refused", NEW u, u = requests[s][i].turn,
                            WithCalls(u)', s \in existing[u]
                     PROVE  reveal_request_count'[s] = 1
            BY <1>2, <1>3 DEF LastInv
        <3>1. reveal_counts[t][s] = 1
            <4>1. CASE u = t
                BY <1>0, <2>1, <4>1 DEF SimInv, LastInv
            <4>2. CASE u # t
                <5>1. WithCalls(u)
                    BY <1>3, <1>5, <4>2
                <5> QED BY <1>0, <2>1, <5>1 DEF SimInv, LastInv
            <4> QED BY <4>1, <4>2
        <3>2. reveal_request_count'[s] = reveal_counts[t][s]
            <4>1. CASE u = t
                BY <2>4, <4>1
            <4>2. CASE u # t
                <5>1. WithCalls(u)
                    BY <1>3, <1>5, <4>2
                <5>2. reveal_request_count[s] = 1
                    BY <1>0, <5>1 DEF SimInv, LastInv
                <5> QED BY <2>2, <3>1, <5>2
            <4> QED BY <4>1, <4>2
        <3> QED BY <3>1, <3>2
    <2> QED BY <1>7, <2>5, <2>8, <2>9 DEF SimInv
<1> QED BY <1>9, <1>10

\* Every step of turns that follow one another keeps the reveal policy's invariant.
LEMMA SerialSimsStep ==
    ASSUME SimsInv, [Next]_allVars
    PROVE  SerialSims'
<1> SUFFICES ASSUME ~overlapped', NEW s \in Sims PROVE SimInv(s)'
    BY DEF SerialSims
<1>1. ~overlapped
    BY DEF Next, allVars, convVars, Create, Open, ReadHistory, Ask, Start, ToolReply, LastReply,
           LoopFails, Save, Abort
<1>2. CASE Quiet
    BY <1>1, <1>2, QuietSims
<1>3. ASSUME NEW t \in Turns, Start(t) /\ LoadSimulators(t) PROVE SimInv(s)'
    BY <1>1, <1>3, StartSims
<1>4. ASSUME NEW t \in Turns, NEW q \in Sims, Call(t, q) PROVE SimInv(s)'
    BY <1>1, <1>4, CallSims
<1>5. ASSUME NEW t \in Turns, Save(t), StoreSimulators(t) PROVE SimInv(s)'
    <2>1. End(t) /\ t \in Active /\ Forget(t) /\ UNCHANGED <<history, overlapped>>
        BY <1>5 DEF Save, StoreSimulators, Active
    <2> QED BY <1>1, <1>5, <2>1, EndSims
<1>6. ASSUME NEW t \in Turns, Abort(t), Forget(t), UNCHANGED <<stored, reveal_request_count>>
      PROVE  SimInv(s)'
    <2>1. End(t) /\ t \in Active /\ UNCHANGED <<history, overlapped, rows>>
        BY <1>6 DEF Abort
    <2> QED BY <1>1, <1>6, <2>1, EndSims
<1> QED BY <1>2, <1>3, <1>4, <1>5, <1>6, Kinds DEF SimsInv, TurnsInv

\* The invariant of the simulators holds at first,
LEMMA SimsInit == Init => SimsInv
<1> SUFFICES ASSUME Init PROVE SimsInv
    OBVIOUS
<1>1. TurnsInv /\ SimTypes
    BY TurnsInit, SimTypesInit DEF Init
<1>2. Running = {} /\ \A s \in Sims : requests[s] = <<>> /\ DOMAIN requests[s] = {}
    BY DEF Init, ConversationInit, SimulatorsInit, Running
<1>3. \A s \in Sims : reveal_request_count[s] = 0 /\ \A t \in Turns : reveal_counts[t][s] = 0
    BY DEF Init, SimulatorsInit, NoRequests
<1>4. RequestsInv
    BY <1>2, <1>3 DEF RequestsInv, Revealed
<1>5. \A s \in Sims : SimInv(s)
    <2> SUFFICES ASSUME NEW s \in Sims PROVE SimInv(s)
        OBVIOUS
    <2>1. Saved(s) = {} /\ Revealed(s) \cap Saved(s) = {}
        BY <1>2 DEF Saved
    <2>2. Cardinality(Saved(s)) = 0 /\ Cardinality(Revealed(s) \cap Saved(s)) = 0
        BY <2>1, FS_EmptySet
    <2>3. BalanceInv(s)
        BY <1>2, <1>3, <2>2 DEF BalanceInv
    <2> QED BY <1>2, <1>3, <2>3 DEF SimInv, ReadInv, LastInv, PairInv
<1> QED BY <1>1, <1>4, <1>5 DEF SimsInv, SerialSims

\* and every step keeps it.
LEMMA SimsStep ==
    ASSUME SimsInv, [Next]_allVars
    PROVE  SimsInv'
<1>1. TurnsInv'
    BY StepIsTurn, TurnsStep DEF SimsInv
<1>2. SimTypes' /\ RequestsInv'
    BY SimTypesStep, RequestsStep DEF SimsInv, TurnsInv
<1>3. SerialSims'
    BY SerialSimsStep
<1> QED BY <1>1, <1>2, <1>3 DEF SimsInv

\* No hidden model is revealed at the first request, however turns overlap or
\* fail; and in turns that follow one another a reveal takes two requests, those
\* of aborted turns apart.
THEOREM RevealsNeedTwo == Spec => []RevealNeedsTwoRequests
<1>1. SimsInv => RevealNeedsTwoRequests
    <2> SUFFICES ASSUME SimsInv, ~ForceReveal, NEW s \in Sims
                 PROVE  /\ 1 \notin Revealed(s)
                        /\ ~overlapped => 2 * Cardinality(Revealed(s) \cap Known(s))
                                              <= Cardinality(Known(s))
        BY DEF RevealNeedsTwoRequests
    <2>1. 1 \notin Revealed(s)
        BY DEF SimsInv, RequestsInv
    <2>2. ASSUME ~overlapped
          PROVE  2 * Cardinality(Revealed(s) \cap Known(s)) <= Cardinality(Known(s))
        <3>0. SimInv(s) /\ TurnsInv /\ SimTypes /\ RequestsInv
            BY <2>2 DEF SimsInv, SerialSims
        <3> PICK k \in Nat : k = Cardinality(Known(s))
            BY <3>0, RequestsFinite DEF Known
        <3> PICK r \in Nat : r = Cardinality(Revealed(s) \cap Known(s))
            BY <3>0, RequestsFinite DEF Known
        <3>1. \E x \in 0..1 : 2 * r + x <= k
            <4>1. CASE Running = {}
                <5>1. Known(s) = Saved(s)
                    BY <2>2, <3>0, <4>1, KnownAre
                <5>2. 2 * r + reveal_request_count[s] <= k
                    BY <3>0, <5>1 DEF SimInv, BalanceInv
                <5> QED BY <3>0, <5>2 DEF SimTypes
            <4>2. ASSUME NEW t \in Running PROVE \E x \in 0..1 : 2 * r + x <= k
                <5>1. 2 * r + reveal_counts[t][s] <= k
                    BY <3>0 DEF SimInv, BalanceInv
                <5> QED BY <3>0, <5>1 DEF SimTypes, Running
            <4> QED BY <4>1, <4>2
        <3>2. 2 * r <= k
            BY ONLY <3>1, k \in Nat, r \in Nat
        <3> QED BY <3>2
    <2> QED BY <2>1, <2>2
<1> QED BY <1>1, SimsInit, SimsStep, PTL DEF Spec

\* In turns that follow one another nobody is refused twice running, when the
\* turn of the first refusal has been saved and had read the simulator.
THEOREM SecondReveals == Spec => []SecondRequestReveals
<1>1. SimsInv => SecondRequestReveals
    <2> SUFFICES ASSUME SimsInv, ~overlapped, NEW s \in Sims, NEW j \in DOMAIN requests[s] \ {1},
                        requests[s][j - 1].outcome = "refused", requests[s][j].outcome = "refused",
                        \E r \in RowsOf(requests[s][j - 1].turn) : r.call # 0,
                        s \in existing[requests[s][j - 1].turn]
                 PROVE  FALSE
        BY DEF SecondRequestReveals
    <2> PICK r : r = requests[s]
        OBVIOUS
    <2>1. DOMAIN r = 1..Len(r) /\ Len(r) \in Nat
        BY DEF SimsInv, SimTypes
    <2>2. j - 1 \in DOMAIN r /\ j = (j - 1) + 1
        BY <2>1
    <2>3. PairInv(s)
        BY DEF SimsInv, SerialSims, SimInv
    <2>4. Kept(requests[s][j - 1].turn)
        BY DEF Kept
    <2> QED BY <2>2, <2>3, <2>4 DEF PairInv
<1> QED BY <1>1, SimsInit, SimsStep, PTL DEF Spec

=============================================================================
