------------------------- MODULE Operations_proofs --------------------------
(***************************************************************************)
(* Proofs about the operation of a host: the schema that alembic's          *)
(* revisions run up and down, the colours that serve through deploys, and   *)
(* the backups and restores of the database.                                *)
(***************************************************************************)
EXTENDS Operations, WellFoundedInduction, TLAPS

-----------------------------------------------------------------------------
\* Induction over the naturals, for a set: 0 is in it, and with a number the
\* next one.
Before == {p \in Nat \X Nat : p[1] < p[2]}

LEMMA BeforeIsWellFounded == IsWellFoundedOn(Before, Nat)
<1>1. Before = OpToRel(<, Nat)  BY DEF OpToRel, Before
<1> QED  BY <1>1, NatLessThanWellFounded

LEMMA LeastOne ==
  ASSUME NEW T \in SUBSET Nat, T # {}
  PROVE  \E n \in T : \A m \in T : n <= m
<1>1. \E n \in T : \A m \in T : <<m, n>> \notin Before
  BY BeforeIsWellFounded, WFMin
<1>2. \A m, n \in Nat : m < n => <<m, n>> \in Before
  BY DEF Before
<1>3. \A m, n \in Nat : <<m, n>> \notin Before => n <= m
  BY ONLY <1>2
<1> QED  BY ONLY <1>1, <1>3, T \in SUBSET Nat

LEMMA Induction ==
  ASSUME NEW S \in SUBSET Nat, 0 \in S, \A n \in S : n + 1 \in S
  PROVE  S = Nat
<1> SUFFICES ASSUME S # Nat PROVE FALSE  OBVIOUS
<1>1. PICK n \in Nat \ S : \A m \in Nat \ S : n <= m  BY LeastOne
<1> QED  BY <1>1

-----------------------------------------------------------------------------
\* What UpgradeHead computes, revision by revision.
IsAfter(f, d, head) ==
  f = [r \in d.rev..head |-> IF r = d.rev THEN d ELSE UpOne(f[r - 1])]

LEMMA AfterExists ==
  ASSUME NEW d, d.rev \in Nat, NEW head \in Nat, d.rev <= head
  PROVE  \E f : IsAfter(f, d, head)
<1> DEFINE S == {n \in Nat : \E f : IsAfter(f, d, d.rev + n)}
<1>1. 0 \in S
  <2> PICK f : f = [r \in d.rev..d.rev |-> d]  OBVIOUS
  <2>1. IsAfter(f, d, d.rev + 0)  BY DEF IsAfter
  <2> QED  BY <2>1
<1>2. \A n \in S : n + 1 \in S
  <2> SUFFICES ASSUME NEW n \in S PROVE n + 1 \in S  OBVIOUS
  <2>1. PICK f : IsAfter(f, d, d.rev + n)  OBVIOUS
  <2> PICK from \in Nat : from = d.rev  OBVIOUS
  <2> PICK g : g = [r \in from..(from + n + 1) |->
                      IF r = from + n + 1 THEN UpOne(f[from + n]) ELSE f[r]]  OBVIOUS
  <2>2. f = [r \in from..(from + n) |-> IF r = from THEN d ELSE UpOne(f[r - 1])]
    BY <2>1 DEF IsAfter
  <2>3. \A r \in from..(from + n) : g[r] = f[r]  OBVIOUS
  <2>4. \A r \in from..(from + n + 1) :
          g[r] = IF r = from THEN d ELSE UpOne(g[r - 1])
    <3> SUFFICES ASSUME NEW r \in from..(from + n + 1)
                 PROVE  g[r] = IF r = from THEN d ELSE UpOne(g[r - 1])
      OBVIOUS
    <3>1. CASE r = from + n + 1
      <4>1. r - 1 = from + n /\ from + n \in from..(from + n) /\ r # from  BY <3>1
      <4> QED  BY <3>1, <4>1, <2>3
    <3>2. CASE r # from + n + 1 /\ r # from
      <4>1. r - 1 \in from..(from + n) /\ r \in from..(from + n)  BY <3>2
      <4>2. f[r] = UpOne(f[r - 1])  BY <2>2, <3>2, <4>1
      <4> QED  BY <3>2, <4>1, <4>2, <2>3
    <3>3. CASE r = from
      <4>1. r \in from..(from + n)  BY <3>3
      <4>2. f[r] = d  BY <2>2, <3>3, <4>1
      <4> QED  BY <3>3, <4>1, <4>2, <2>3
    <3> QED  BY <3>1, <3>2, <3>3
  <2>5. IsAfter(g, d, d.rev + (n + 1))
    <3>1. g = [r \in from..(from + n + 1) |-> IF r = from THEN d ELSE UpOne(g[r - 1])]
      BY <2>4
    <3>2. from + n + 1 = d.rev + (n + 1)  OBVIOUS
    <3> QED  BY <3>1, <3>2 DEF IsAfter
  <2> QED  BY <2>5
<1>3. S = Nat  BY <1>1, <1>2, Induction
<1>4. head - d.rev \in S  BY <1>3
<1>5. d.rev + (head - d.rev) = head  OBVIOUS
<1> QED  BY <1>4, <1>5

LEMMA UpgradeIsAfter ==
  ASSUME NEW d, d.rev \in Nat, NEW head \in Nat, d.rev <= head
  PROVE  \E f : IsAfter(f, d, head) /\ UpgradeHead(d, head) = f[head]
<1> PICK f : f = CHOOSE g : IsAfter(g, d, head)  OBVIOUS
<1>1. IsAfter(f, d, head)  BY AfterExists
<1>2. UpgradeHead(d, head) = f[head]  BY DEF UpgradeHead, IsAfter
<1> QED  BY <1>1, <1>2

LEMMA AfterIsUnique ==
  ASSUME NEW d, d.rev \in Nat, NEW h \in Nat, NEW k \in Nat, h <= k,
         NEW f, IsAfter(f, d, h), NEW g, IsAfter(g, d, k),
         NEW r \in d.rev..h
  PROVE  f[r] = g[r]
<1> DEFINE S == {n \in Nat : d.rev + n <= h => f[d.rev + n] = g[d.rev + n]}
<1> PICK from \in Nat : from = d.rev  OBVIOUS
<1>1. \A i \in from..h : f[i] = IF i = from THEN d ELSE UpOne(f[i - 1])  BY DEF IsAfter
<1>2. \A i \in from..k : g[i] = IF i = from THEN d ELSE UpOne(g[i - 1])  BY DEF IsAfter
<1>3. 0 \in S
  <2>1. from <= h => f[from] = g[from]  BY <1>1, <1>2
  <2> QED  BY <2>1
<1>4. \A n \in S : n + 1 \in S
  <2> SUFFICES ASSUME NEW n \in Nat, from + n <= h => f[from + n] = g[from + n],
                      from + (n + 1) <= h
               PROVE  f[from + (n + 1)] = g[from + (n + 1)]
    OBVIOUS
  <2> PICK i : i = from + (n + 1)  OBVIOUS
  <2>1. i \in from..h /\ i # from /\ i - 1 = from + n /\ from + n <= h  OBVIOUS
  <2>3. i \in from..k  OBVIOUS
  <2>2. f[i] = UpOne(f[i - 1]) /\ g[i] = UpOne(g[i - 1])  BY <2>1, <2>3, <1>1, <1>2
  <2> QED  BY <2>1, <2>2
<1>5. S = Nat  BY <1>3, <1>4, Induction
<1>6. r - from \in Nat /\ from + (r - from) = r  OBVIOUS
<1> QED  BY <1>5, <1>6

\* The upgrade of a database runs its missing revisions one after the other.
LEMMA UpgradeSteps ==
  ASSUME NEW d, d.rev \in Nat
  PROVE  /\ UpgradeHead(d, d.rev) = d
         /\ \A head \in Nat : d.rev <= head =>
              UpgradeHead(d, head + 1) = UpOne(UpgradeHead(d, head))
<1>1. UpgradeHead(d, d.rev) = d
  <2>1. PICK f : IsAfter(f, d, d.rev) /\ UpgradeHead(d, d.rev) = f[d.rev]  BY UpgradeIsAfter
  <2> QED  BY <2>1 DEF IsAfter
<1>2. \A head \in Nat : d.rev <= head =>
        UpgradeHead(d, head + 1) = UpOne(UpgradeHead(d, head))
  <2> SUFFICES ASSUME NEW head \in Nat, d.rev <= head
               PROVE  UpgradeHead(d, head + 1) = UpOne(UpgradeHead(d, head))
    OBVIOUS
  <2>1. PICK f : IsAfter(f, d, head) /\ UpgradeHead(d, head) = f[head]  BY UpgradeIsAfter
  <2>2. PICK g : IsAfter(g, d, head + 1) /\ UpgradeHead(d, head + 1) = g[head + 1]
    <3>1. head + 1 \in Nat /\ d.rev <= head + 1  OBVIOUS
    <3> QED  BY <3>1, UpgradeIsAfter
  <2>3. f[head] = g[head]
    <3>1. head + 1 \in Nat /\ head <= head + 1 /\ head \in d.rev..head  OBVIOUS
    <3> QED  BY <3>1, <2>1, <2>2, AfterIsUnique
  <2>4. g[head + 1] = UpOne(g[head])
    <3>1. head + 1 \in d.rev..(head + 1) /\ head + 1 # d.rev /\ head + 1 - 1 = head  OBVIOUS
    <3> QED  BY <3>1, <2>2 DEF IsAfter
  <2> QED  BY <2>1, <2>2, <2>3, <2>4
<1> QED  BY <1>1, <1>2

\* The schema of a revision is that of the one before it with this one run up.
LEMMA SchemaSteps ==
  /\ SchemaAt[0] = Empty
  /\ \A r \in 0..(Newest - 1) : SchemaAt[r + 1] = UpOne(SchemaAt[r])
<1>1. Empty.rev = 0  BY DEF Empty
<1>2. \A r \in 0..Newest : SchemaAt[r] = UpgradeHead(Empty, r)  BY DEF SchemaAt
<1>3. UpgradeHead(Empty, 0) = Empty  BY <1>1, UpgradeSteps
<1>4. \A r \in Nat : UpgradeHead(Empty, r + 1) = UpOne(UpgradeHead(Empty, r))
  BY <1>1, UpgradeSteps
<1> QED  BY <1>2, <1>3, <1>4 DEF Newest

LEMMA SchemaRev == \A r \in 0..Newest : SchemaAt[r].rev = r
<1> DEFINE S == {n \in Nat : n <= Newest => SchemaAt[n].rev = n}
<1>1. 0 \in S  BY SchemaSteps DEF Empty
<1>2. \A n \in S : n + 1 \in S
  <2> SUFFICES ASSUME NEW n \in Nat, n <= Newest => SchemaAt[n].rev = n, n + 1 <= Newest
               PROVE  SchemaAt[n + 1].rev = n + 1
    OBVIOUS
  <2>1. n \in 0..(Newest - 1) /\ SchemaAt[n].rev = n  BY DEF Newest
  <2>2. SchemaAt[n + 1] = UpOne(SchemaAt[n])  BY <2>1, SchemaSteps
  <2> QED  BY <2>1, <2>2 DEF UpOne
<1>3. S = Nat  BY <1>1, <1>2, Induction
<1> QED  BY <1>3 DEF Newest

-----------------------------------------------------------------------------
\* Tables and columns that a revision adds, and that its downgrade drops.
IsFcn(f) == f = [k \in DOMAIN f |-> f[k]]
IsSchema(ts) == IsFcn(ts) /\ \A t \in DOMAIN ts : IsFcn(ts[t])
\* Code that works on the older schema works on the newer one.
Keeps(new, old) ==
  \A t \in DOMAIN old :
    /\ t \in DOMAIN new
    /\ DOMAIN old[t] \subseteq DOMAIN new[t]
    /\ \A c \in DOMAIN old[t] : new[t][c] = old[t][c]
    /\ \A c \in DOMAIN new[t] \ DOMAIN old[t] : ~new[t][c]

LEMMA TablesAdded ==
  ASSUME NEW ts, IsSchema(ts), NEW g, IsSchema(g), DOMAIN ts \cap DOMAIN g = {}
  PROVE  /\ IsSchema(Plus(ts, g))
         /\ DOMAIN Plus(ts, g) = DOMAIN ts \cup DOMAIN g
         /\ \A t \in DOMAIN ts : Plus(ts, g)[t] = ts[t]
         /\ \A t \in DOMAIN g : Plus(ts, g)[t] = g[t]
         /\ Without(Plus(ts, g), DOMAIN g) = ts
         /\ Keeps(Plus(ts, g), ts)
<1> PICK new : new = Plus(ts, g)  OBVIOUS
<1>1. new = [k \in DOMAIN ts \cup DOMAIN g |-> IF k \in DOMAIN ts THEN ts[k] ELSE g[k]]
  BY Zenon DEF Plus
<1>2. /\ DOMAIN new = DOMAIN ts \cup DOMAIN g
      /\ \A t \in DOMAIN ts : new[t] = ts[t]
      /\ \A t \in DOMAIN g : new[t] = g[t]
  BY <1>1
<1>3. IsFcn(new)  BY <1>1 DEF IsFcn
<1>4. IsSchema(new)  BY <1>2, <1>3 DEF IsSchema
<1>5. Without(new, DOMAIN g) = ts  BY <1>2 DEF Without, IsSchema, IsFcn
<1>6. Keeps(new, ts)  BY <1>2 DEF Keeps
<1> QED  BY <1>2, <1>4, <1>5, <1>6

LEMMA ColumnsAdded ==
  ASSUME NEW ts, IsSchema(ts), NEW t \in DOMAIN ts, NEW columns, IsFcn(columns),
         DOMAIN ts[t] \cap DOMAIN columns = {}
  PROVE  LET new == AddColumns(ts, t, columns)
         IN  /\ IsSchema(new)
             /\ DOMAIN new = DOMAIN ts
             /\ new[t] = Plus(columns, ts[t])
             /\ \A u \in DOMAIN ts \ {t} : new[u] = ts[u]
             /\ DropColumns(new, t, DOMAIN columns) = ts
             /\ (\A c \in DOMAIN columns : ~columns[c]) => Keeps(new, ts)
<1> PICK new : new = AddColumns(ts, t, columns)  OBVIOUS
<1> PICK row : row = Plus(columns, ts[t])  OBVIOUS
<1>1. new = [ts EXCEPT ![t] = row]  BY DEF AddColumns
<1>2. /\ DOMAIN new = DOMAIN ts
      /\ new[t] = row
      /\ \A u \in DOMAIN ts \ {t} : new[u] = ts[u]
  BY <1>1
<1>3. row = [k \in DOMAIN columns \cup DOMAIN ts[t] |->
               IF k \in DOMAIN columns THEN columns[k] ELSE ts[t][k]]
  BY Zenon DEF Plus
<1>4. IsFcn(row)  BY <1>3 DEF IsFcn
<1>5. IsFcn(new)  BY <1>1, <1>2 DEF IsFcn
<1>6. IsSchema(new)  BY <1>2, <1>4, <1>5 DEF IsSchema
<1>7. DropColumns(new, t, DOMAIN columns) = ts
  <2> PICK old : old = Without(row, DOMAIN columns)  OBVIOUS
  <2>1. old = ts[t]
    <3>1. DOMAIN row \ DOMAIN columns = DOMAIN ts[t]  BY <1>3
    <3>2. \A k \in DOMAIN ts[t] : row[k] = ts[t][k]  BY <1>3
    <3>3. ts[t] = [k \in DOMAIN ts[t] |-> ts[t][k]]  BY DEF IsSchema, IsFcn
    <3> QED  BY <3>1, <3>2, <3>3 DEF Without
  <2>2. DropColumns(new, t, DOMAIN columns) = [new EXCEPT ![t] = old]
    BY <1>2 DEF DropColumns
  <2>3. ts = [u \in DOMAIN ts |-> ts[u]]  BY DEF IsSchema, IsFcn
  <2> QED  BY <2>1, <2>2, <2>3, <1>2
<1>8. ASSUME \A c \in DOMAIN columns : ~columns[c] PROVE Keeps(new, ts)
  <2>1. /\ \A c \in DOMAIN row \ DOMAIN ts[t] : ~row[c]
        /\ \A c \in DOMAIN ts[t] : row[c] = ts[t][c]
    BY <1>3, <1>8
  <2>2. DOMAIN ts[t] \subseteq DOMAIN row  BY <1>3
  <2> QED  BY <1>2, <2>1, <2>2 DEF Keeps
<1> QED  BY <1>2, <1>6, <1>7, <1>8

LEMMA KeepsAll ==
  ASSUME NEW a, NEW b, NEW c, Keeps(b, a), Keeps(c, b)
  PROVE  Keeps(c, a)
<1> SUFFICES ASSUME NEW t \in DOMAIN a
             PROVE  /\ t \in DOMAIN c
                    /\ DOMAIN a[t] \subseteq DOMAIN c[t]
                    /\ \A k \in DOMAIN a[t] : c[t][k] = a[t][k]
                    /\ \A k \in DOMAIN c[t] \ DOMAIN a[t] : ~c[t][k]
  BY DEF Keeps
<1>1. /\ t \in DOMAIN b
      /\ DOMAIN a[t] \subseteq DOMAIN b[t]
      /\ \A k \in DOMAIN a[t] : b[t][k] = a[t][k]
      /\ \A k \in DOMAIN b[t] \ DOMAIN a[t] : ~b[t][k]
  BY DEF Keeps
<1>2. /\ t \in DOMAIN c
      /\ DOMAIN b[t] \subseteq DOMAIN c[t]
      /\ \A k \in DOMAIN b[t] : c[t][k] = b[t][k]
      /\ \A k \in DOMAIN c[t] \ DOMAIN b[t] : ~c[t][k]
  BY <1>1 DEF Keeps
<1>3. ASSUME NEW k \in DOMAIN c[t] \ DOMAIN a[t] PROVE ~c[t][k]
  <2>1. CASE k \in DOMAIN b[t]
    <3>1. ~b[t][k] /\ c[t][k] = b[t][k]  BY <2>1, <1>1, <1>2, <1>3
    <3> QED  BY <3>1
  <2>2. CASE k \notin DOMAIN b[t]  BY <2>2, <1>2, <1>3
  <2> QED  BY <2>1, <2>2
<1> QED  BY <1>1, <1>2, <1>3

\* A table that a revision drops and its downgrade creates again.
LEMMA TableDropped ==
  ASSUME NEW ts, IsSchema(ts), NEW g, IsFcn(g), DOMAIN g \subseteq DOMAIN ts,
         \A t \in DOMAIN g : g[t] = ts[t]
  PROVE  LET new == Without(ts, DOMAIN g)
         IN  /\ IsSchema(new)
             /\ DOMAIN new = DOMAIN ts \ DOMAIN g
             /\ \A t \in DOMAIN ts \ DOMAIN g : new[t] = ts[t]
             /\ Plus(new, g) = ts
<1> PICK new : new = Without(ts, DOMAIN g)  OBVIOUS
<1>1. new = [k \in DOMAIN ts \ DOMAIN g |-> ts[k]]  BY Zenon DEF Without
<1>2. /\ DOMAIN new = DOMAIN ts \ DOMAIN g
      /\ \A t \in DOMAIN ts \ DOMAIN g : new[t] = ts[t]
  BY <1>1
<1>3. IsSchema(new)  BY <1>1, <1>2 DEF IsSchema, IsFcn
<1>4. Plus(new, g) = ts
  <2> PICK all : all = Plus(new, g)  OBVIOUS
  <2>1. all = [k \in DOMAIN new \cup DOMAIN g |-> IF k \in DOMAIN new THEN new[k] ELSE g[k]]
    BY Zenon DEF Plus
  <2>2. DOMAIN new \cup DOMAIN g = DOMAIN ts  BY <1>2
  <2>3. \A k \in DOMAIN ts : all[k] = ts[k]  BY <2>1, <1>2
  <2>4. ts = [k \in DOMAIN ts |-> ts[k]]  BY DEF IsSchema, IsFcn
  <2> QED  BY <2>1, <2>2, <2>3, <2>4
<1> QED  BY <1>2, <1>3, <1>4

-----------------------------------------------------------------------------
\* The schema of each revision, from that of the one before.
TablesAt(r) == SchemaAt[r].tables

LEMMA NextTables ==
  /\ TablesAt(0) = << >>
  /\ \A r \in 1..Newest : TablesAt(r) = TablesUp(r, TablesAt(r - 1))
<1>1. TablesAt(0) = << >>  BY SchemaSteps DEF TablesAt, Empty
<1>2. ASSUME NEW r \in 1..Newest PROVE TablesAt(r) = TablesUp(r, TablesAt(r - 1))
  <2> PICK q : q = r - 1  OBVIOUS
  <2>1. q \in 0..(Newest - 1) /\ r = q + 1  BY DEF Newest
  <2>2. SchemaAt[r] = UpOne(SchemaAt[q])  BY <2>1, SchemaSteps
  <2>3. SchemaAt[q].rev = q
    <3>1. q \in 0..Newest  BY <2>1 DEF Newest
    <3> QED  BY <3>1, SchemaRev
  <2>4. UpOne(SchemaAt[q]).tables = TablesUp(q + 1, SchemaAt[q].tables)
    BY <2>3 DEF UpOne
  <2> QED  BY <2>1, <2>2, <2>4 DEF TablesAt
<1> QED  BY <1>1, <1>2

LEMMA InitialTablesAre ==
  /\ IsSchema(InitialTables)
  /\ DOMAIN InitialTables =
       {"tool_usage", "experiment_shares", "experiments", "tool_calls", "messages",
        "conversations", "setup_tokens", "signup_requests", "users", "roles"}
  /\ \A t \in DOMAIN AccountTables : InitialTables[t] = AccountTables[t]
  /\ \A t \in DOMAIN ChatTables : InitialTables[t] = ChatTables[t]
  /\ \A t \in DOMAIN ExperimentTables : InitialTables[t] = ExperimentTables[t]
  /\ InitialTables["tool_usage"] = ToolUsage["tool_usage"]
<1>1. IsSchema(AccountTables)
  <2>1. IsFcn(AccountTables)  BY DEF AccountTables, IsFcn
  <2>2. \A t \in DOMAIN AccountTables : IsFcn(AccountTables[t])
    BY DEF AccountTables, Table, IsFcn
  <2> QED  BY <2>1, <2>2 DEF IsSchema
<1>2. IsSchema(ChatTables)
  <2>1. IsFcn(ChatTables)  BY DEF ChatTables, IsFcn
  <2>2. \A t \in DOMAIN ChatTables : IsFcn(ChatTables[t])
    BY DEF ChatTables, Table, IsFcn
  <2> QED  BY <2>1, <2>2 DEF IsSchema
<1>3. IsSchema(ExperimentTables)
  <2>1. IsFcn(ExperimentTables)  BY DEF ExperimentTables, IsFcn
  <2>2. \A t \in DOMAIN ExperimentTables : IsFcn(ExperimentTables[t])
    BY DEF ExperimentTables, Table, IsFcn
  <2> QED  BY <2>1, <2>2 DEF IsSchema
<1>4. IsSchema(ToolUsage)
  <2>1. IsFcn(ToolUsage)  BY DEF ToolUsage, IsFcn
  <2>2. \A t \in DOMAIN ToolUsage : IsFcn(ToolUsage[t])
    BY DEF ToolUsage, Table, IsFcn
  <2> QED  BY <2>1, <2>2 DEF IsSchema
<1>5. /\ DOMAIN AccountTables = {"roles", "users", "signup_requests", "setup_tokens"}
      /\ DOMAIN ChatTables = {"conversations", "messages", "tool_calls"}
      /\ DOMAIN ExperimentTables = {"experiments", "experiment_shares"}
      /\ DOMAIN ToolUsage = {"tool_usage"}
  BY DEF AccountTables, ChatTables, ExperimentTables, ToolUsage
<1> PICK a : a = Plus(AccountTables, ChatTables)  OBVIOUS
<1> PICK b : b = Plus(ExperimentTables, ToolUsage)  OBVIOUS
<1>6. /\ IsSchema(a) /\ DOMAIN a = DOMAIN AccountTables \cup DOMAIN ChatTables
      /\ \A t \in DOMAIN AccountTables : a[t] = AccountTables[t]
      /\ \A t \in DOMAIN ChatTables : a[t] = ChatTables[t]
  <2>1. DOMAIN AccountTables \cap DOMAIN ChatTables = {}  BY <1>5
  <2> QED  BY <2>1, <1>1, <1>2, TablesAdded
<1>7. /\ IsSchema(b) /\ DOMAIN b = DOMAIN ExperimentTables \cup DOMAIN ToolUsage
      /\ \A t \in DOMAIN ExperimentTables : b[t] = ExperimentTables[t]
      /\ \A t \in DOMAIN ToolUsage : b[t] = ToolUsage[t]
  <2>1. DOMAIN ExperimentTables \cap DOMAIN ToolUsage = {}  BY <1>5
  <2> QED  BY <2>1, <1>3, <1>4, TablesAdded
<1>8. DOMAIN a \cap DOMAIN b = {}  BY <1>5, <1>6, <1>7
<1>9. /\ IsSchema(Plus(a, b)) /\ DOMAIN Plus(a, b) = DOMAIN a \cup DOMAIN b
      /\ \A t \in DOMAIN a : Plus(a, b)[t] = a[t]
      /\ \A t \in DOMAIN b : Plus(a, b)[t] = b[t]
  BY <1>6, <1>7, <1>8, TablesAdded
<1>10. InitialTables = Plus(a, b)  BY DEF InitialTables
<1> QED  BY <1>5, <1>6, <1>7, <1>9, <1>10

LEMMA FirstRevision ==
  /\ TablesAt(1) = InitialTables
  /\ TablesDown(1, TablesAt(1)) = TablesAt(0)
<1>1. IsSchema(<< >>) /\ DOMAIN << >> = {}  BY DEF IsSchema, IsFcn
<1>2. TablesAt(1) = Plus(<< >>, InitialTables)
  <2>1. 1 \in 1..Newest /\ 1 - 1 = 0  BY DEF Newest
  <2>2. TablesAt(1) = TablesUp(1, << >>)  BY <2>1, NextTables
  <2> QED  BY <2>2 DEF TablesUp, UpInitial
<1>3. Without(Plus(<< >>, InitialTables), DOMAIN InitialTables) = << >>
  BY <1>1, InitialTablesAre, TablesAdded
<1>4. Plus(<< >>, InitialTables) = InitialTables
  <2> PICK new : new = Plus(<< >>, InitialTables)  OBVIOUS
  <2>1. new = [k \in DOMAIN << >> \cup DOMAIN InitialTables |->
                 IF k \in DOMAIN << >> THEN << >>[k] ELSE InitialTables[k]]
    BY Zenon DEF Plus
  <2>2. new = [k \in DOMAIN InitialTables |-> InitialTables[k]]  BY <2>1, <1>1
  <2> QED  BY <2>2, InitialTablesAre DEF IsSchema, IsFcn
<1>5. TablesDown(1, TablesAt(1)) = DownInitial(TablesAt(1))  BY DEF TablesDown
<1>6. DownInitial(TablesAt(1)) = Without(TablesAt(1), DOMAIN InitialTables)
  BY InitialTablesAre DEF DownInitial
<1> QED  BY <1>2, <1>3, <1>4, <1>5, <1>6, NextTables

\* Revision r adds the tables of g; or columns to table t.  Its downgrade
\* leaves the schema of the revision before.
Adds(r, g) ==
  /\ IsSchema(TablesAt(r))
  /\ DOMAIN TablesAt(r) = DOMAIN TablesAt(r - 1) \cup DOMAIN g
  /\ \A t \in DOMAIN TablesAt(r - 1) : TablesAt(r)[t] = TablesAt(r - 1)[t]
  /\ \A t \in DOMAIN g : TablesAt(r)[t] = g[t]
  /\ TablesDown(r, TablesAt(r)) = TablesAt(r - 1)
  /\ Keeps(TablesAt(r), TablesAt(r - 1))
Widens(r, t, columns) ==
  /\ IsSchema(TablesAt(r))
  /\ DOMAIN TablesAt(r) = DOMAIN TablesAt(r - 1)
  /\ TablesAt(r)[t] = Plus(columns, TablesAt(r - 1)[t])
  /\ \A u \in DOMAIN TablesAt(r - 1) \ {t} : TablesAt(r)[u] = TablesAt(r - 1)[u]
  /\ TablesDown(r, TablesAt(r)) = TablesAt(r - 1)
  /\ Keeps(TablesAt(r), TablesAt(r - 1))

LEMMA RevisionAdds ==
  ASSUME NEW r \in 1..Newest, IsSchema(TablesAt(r - 1)),
         NEW g, IsSchema(g), DOMAIN TablesAt(r - 1) \cap DOMAIN g = {},
         \A ts : TablesUp(r, ts) = Plus(ts, g),
         \A ts : TablesDown(r, ts) = Without(ts, DOMAIN g)
  PROVE  Adds(r, g)
<1> PICK old : old = TablesAt(r - 1)  OBVIOUS
<1>1. TablesAt(r) = Plus(old, g)  BY NextTables
<1>2. IsSchema(old) /\ DOMAIN old \cap DOMAIN g = {}  OBVIOUS
<1>3. /\ IsSchema(Plus(old, g))
      /\ DOMAIN Plus(old, g) = DOMAIN old \cup DOMAIN g
      /\ \A t \in DOMAIN old : Plus(old, g)[t] = old[t]
      /\ \A t \in DOMAIN g : Plus(old, g)[t] = g[t]
      /\ Without(Plus(old, g), DOMAIN g) = old
      /\ Keeps(Plus(old, g), old)
  BY <1>2, TablesAdded
<1> QED  BY <1>1, <1>3 DEF Adds

LEMMA RevisionWidens ==
  ASSUME NEW r \in 1..Newest, IsSchema(TablesAt(r - 1)),
         NEW t \in DOMAIN TablesAt(r - 1), NEW columns,
         DOMAIN TablesAt(r - 1)[t] \cap columns = {},
         \A ts : TablesUp(r, ts) = AddColumns(ts, t, Table({}, columns)),
         \A ts : TablesDown(r, ts) = DropColumns(ts, t, columns)
  PROVE  Widens(r, t, Table({}, columns))
<1> PICK old : old = TablesAt(r - 1)  OBVIOUS
<1> PICK added : added = Table({}, columns)  OBVIOUS
<1>1. TablesAt(r) = AddColumns(old, t, added)  BY NextTables
<1>2. IsFcn(added) /\ DOMAIN added = columns /\ \A c \in DOMAIN added : ~added[c]
  <2>1. added = [c \in columns |-> c \in {}]  BY DEF Table
  <2> QED  BY ONLY <2>1 DEF IsFcn
<1>3. /\ IsSchema(AddColumns(old, t, added))
      /\ DOMAIN AddColumns(old, t, added) = DOMAIN old
      /\ AddColumns(old, t, added)[t] = Plus(added, old[t])
      /\ \A u \in DOMAIN old \ {t} : AddColumns(old, t, added)[u] = old[u]
      /\ DropColumns(AddColumns(old, t, added), t, DOMAIN added) = old
      /\ Keeps(AddColumns(old, t, added), old)
  BY <1>2, ColumnsAdded
<1> QED  BY <1>1, <1>2, <1>3 DEF Widens

InitialNames ==
  {"tool_usage", "experiment_shares", "experiments", "tool_calls", "messages",
   "conversations", "setup_tokens", "signup_requests", "users", "roles"}

LEMMA Revision2 ==
  /\ Adds(2, AdminEvents)
  /\ DOMAIN TablesAt(2) = InitialNames \cup {"admin_events"}
<1>1. IsSchema(TablesAt(1)) /\ DOMAIN TablesAt(1) = InitialNames
  BY FirstRevision, InitialTablesAre DEF InitialNames
<1>2. DOMAIN AdminEvents = {"admin_events"}  BY DEF AdminEvents
<1>3. IsSchema(AdminEvents)
  <2>1. IsFcn(AdminEvents)  BY DEF AdminEvents, IsFcn
  <2>2. \A t \in DOMAIN AdminEvents : IsFcn(AdminEvents[t])  BY DEF AdminEvents, Table, IsFcn
  <2> QED  BY <2>1, <2>2 DEF IsSchema
<1>4. DOMAIN TablesAt(1) \cap DOMAIN AdminEvents = {}  BY <1>1, <1>2 DEF InitialNames
<1>5. \A ts : TablesUp(2, ts) = Plus(ts, AdminEvents)  BY DEF TablesUp, UpAdminEvents
<1>6. \A ts : TablesDown(2, ts) = Without(ts, DOMAIN AdminEvents)
  BY <1>2 DEF TablesDown, DownAdminEvents
<1>7. 2 \in 1..Newest /\ 2 - 1 = 1  BY DEF Newest
<1>8. Adds(2, AdminEvents)
  BY <1>1, <1>3, <1>4, <1>5, <1>6, <1>7, RevisionAdds
<1>9. DOMAIN TablesAt(2) = DOMAIN TablesAt(1) \cup DOMAIN AdminEvents
  BY <1>7, <1>8 DEF Adds
<1> QED  BY <1>1, <1>2, <1>8, <1>9

LEMMA Revision3 ==
  /\ Adds(3, ChatEvents)
  /\ DOMAIN TablesAt(3) = InitialNames \cup {"admin_events", "chat_events"}
<1>1. IsSchema(TablesAt(2)) /\ DOMAIN TablesAt(2) = InitialNames \cup {"admin_events"}
  BY Revision2 DEF Adds
<1>2. DOMAIN ChatEvents = {"chat_events"}  BY DEF ChatEvents
<1>3. IsSchema(ChatEvents)
  <2>1. IsFcn(ChatEvents)  BY DEF ChatEvents, IsFcn
  <2>2. \A t \in DOMAIN ChatEvents : IsFcn(ChatEvents[t])  BY DEF ChatEvents, Table, IsFcn
  <2> QED  BY <2>1, <2>2 DEF IsSchema
<1>4. DOMAIN TablesAt(2) \cap DOMAIN ChatEvents = {}  BY <1>1, <1>2 DEF InitialNames
<1>5. \A ts : TablesUp(3, ts) = Plus(ts, ChatEvents)  BY DEF TablesUp, UpChatEvents
<1>6. \A ts : TablesDown(3, ts) = Without(ts, DOMAIN ChatEvents)
  BY <1>2 DEF TablesDown, DownChatEvents
<1>7. 3 \in 1..Newest /\ 3 - 1 = 2  BY DEF Newest
<1>8. Adds(3, ChatEvents)
  BY <1>1, <1>3, <1>4, <1>5, <1>6, <1>7, RevisionAdds
<1>9. DOMAIN TablesAt(3) = DOMAIN TablesAt(2) \cup DOMAIN ChatEvents
  BY <1>7, <1>8 DEF Adds
<1> QED  BY <1>1, <1>2, <1>8, <1>9

\* The tables of the first revision that the next three leave as they were.
LEMMA UntouchedTables ==
  /\ TablesAt(3)["tool_calls"] = ChatTables["tool_calls"]
  /\ \A t \in InitialNames : TablesAt(3)[t] = InitialTables[t]
<1>1. \A t \in InitialNames : TablesAt(1)[t] = InitialTables[t]  BY FirstRevision
<1>2. \A t \in InitialNames : TablesAt(2)[t] = TablesAt(1)[t]
  <2>1. DOMAIN TablesAt(1) = InitialNames  BY FirstRevision, InitialTablesAre DEF InitialNames
  <2>2. 2 - 1 = 1  OBVIOUS
  <2> QED  BY <2>1, <2>2, Revision2 DEF Adds
<1>3. \A t \in InitialNames : TablesAt(3)[t] = TablesAt(2)[t]
  <2>1. 3 - 1 = 2  OBVIOUS
  <2> QED  BY <2>1, Revision2, Revision3 DEF Adds
<1>4. "tool_calls" \in InitialNames /\ "tool_calls" \in DOMAIN ChatTables
  BY DEF InitialNames, ChatTables
<1>5. InitialTables["tool_calls"] = ChatTables["tool_calls"]  BY <1>4, InitialTablesAre
<1> QED  BY <1>1, <1>2, <1>3, <1>4, <1>5

TelemetryColumns ==
  {"turn_id", "model_key", "rss_bytes",
    "cpu_percent", "input_bytes", "output_bytes", "output_truncated", "tool_version"}

LEMMA Revision4 ==
  /\ Widens(4, "tool_calls", Table({}, TelemetryColumns))
  /\ DOMAIN TablesAt(4) = InitialNames \cup {"admin_events", "chat_events"}
<1>1. /\ IsSchema(TablesAt(3))
      /\ DOMAIN TablesAt(3) = InitialNames \cup {"admin_events", "chat_events"}
  BY Revision3 DEF Adds
<1>2. "tool_calls" \in DOMAIN TablesAt(3)  BY <1>1 DEF InitialNames
<1>3. TablesAt(3)["tool_calls"] = ChatTables["tool_calls"]
  BY UntouchedTables
<1>4. DOMAIN TablesAt(3)["tool_calls"] \cap TelemetryColumns = {}
  BY <1>3 DEF ChatTables, TelemetryColumns, Table, Stamps
<1>5. \A ts : TablesUp(4, ts) = AddColumns(ts, "tool_calls", Table({}, TelemetryColumns))
  BY DEF TablesUp, UpToolCallTelemetry, TelemetryColumns
<1>6. \A ts : TablesDown(4, ts) = DropColumns(ts, "tool_calls", TelemetryColumns)
  <2>1. \A ts : TablesDown(4, ts) = DownToolCallTelemetry(ts)  BY DEF TablesDown
  <2> QED  BY <2>1 DEF DownToolCallTelemetry, TelemetryColumns
<1>7. 4 \in 1..Newest /\ 4 - 1 = 3  BY DEF Newest
<1>8. Widens(4, "tool_calls", Table({}, TelemetryColumns))
  BY <1>1, <1>2, <1>4, <1>5, <1>6, <1>7, RevisionWidens
<1> QED  BY <1>1, <1>7, <1>8 DEF Widens

LEMMA KeptByRevision4 ==
  /\ \A t \in InitialNames \ {"tool_calls"} : TablesAt(4)[t] = InitialTables[t]
  /\ TablesAt(4)["tool_calls"] = Plus(Table({}, TelemetryColumns), ChatTables["tool_calls"])
  /\ TablesAt(4)["admin_events"] = AdminEvents["admin_events"]
  /\ TablesAt(4)["chat_events"] = ChatEvents["chat_events"]
<1>1. 4 - 1 = 3 /\ 3 - 1 = 2 /\ 2 - 1 = 1  OBVIOUS
<1>2. /\ DOMAIN TablesAt(3) = InitialNames \cup {"admin_events", "chat_events"}
      /\ DOMAIN TablesAt(2) = InitialNames \cup {"admin_events"}
  BY Revision2, Revision3
<1>3. /\ TablesAt(4)["tool_calls"] = Plus(Table({}, TelemetryColumns), TablesAt(3)["tool_calls"])
      /\ \A t \in DOMAIN TablesAt(3) \ {"tool_calls"} : TablesAt(4)[t] = TablesAt(3)[t]
  BY <1>1, Revision4 DEF Widens
<1>4. TablesAt(3)["admin_events"] = AdminEvents["admin_events"]
  <2>1. "admin_events" \in DOMAIN AdminEvents  BY DEF AdminEvents
  <2>2. TablesAt(2)["admin_events"] = AdminEvents["admin_events"]  BY <2>1, Revision2 DEF Adds
  <2> QED  BY <1>1, <1>2, <2>2, Revision3 DEF Adds
<1>5. TablesAt(3)["chat_events"] = ChatEvents["chat_events"]
  <2>1. "chat_events" \in DOMAIN ChatEvents  BY DEF ChatEvents
  <2> QED  BY <2>1, Revision3 DEF Adds
<1> QED  BY <1>2, <1>3, <1>4, <1>5, UntouchedTables DEF InitialNames

DisclaimerColumns == {"accepted_disclaimers", "disclaimers_accepted_at"}

LEMMA Revision5 ==
  /\ Widens(5, "signup_requests", Table({}, DisclaimerColumns))
  /\ DOMAIN TablesAt(5) = InitialNames \cup {"admin_events", "chat_events"}
<1>1. /\ IsSchema(TablesAt(4))
      /\ DOMAIN TablesAt(4) = InitialNames \cup {"admin_events", "chat_events"}
  BY Revision4 DEF Widens
<1>2. "signup_requests" \in DOMAIN TablesAt(4)  BY <1>1 DEF InitialNames
<1>3. TablesAt(4)["signup_requests"] = AccountTables["signup_requests"]
  <2>1. "signup_requests" \in DOMAIN AccountTables  BY DEF AccountTables
  <2> QED  BY <2>1, KeptByRevision4, InitialTablesAre DEF InitialNames
<1>4. DOMAIN TablesAt(4)["signup_requests"] \cap DisclaimerColumns = {}
  BY <1>3 DEF AccountTables, DisclaimerColumns, Table, Stamps
<1>5. \A ts : TablesUp(5, ts) = AddColumns(ts, "signup_requests", Table({}, DisclaimerColumns))
  BY DEF TablesUp, UpSignupDisclaimers, DisclaimerColumns
<1>6. \A ts : TablesDown(5, ts) = DropColumns(ts, "signup_requests", DisclaimerColumns)
  <2>1. \A ts : TablesDown(5, ts) = DownSignupDisclaimers(ts)  BY DEF TablesDown
  <2> QED  BY <2>1 DEF DownSignupDisclaimers, DisclaimerColumns
<1>7. 5 \in 1..Newest /\ 5 - 1 = 4  BY DEF Newest
<1>8. Widens(5, "signup_requests", Table({}, DisclaimerColumns))
  BY <1>1, <1>2, <1>4, <1>5, <1>6, <1>7, RevisionWidens
<1> QED  BY <1>1, <1>7, <1>8 DEF Widens

LEMMA Revision6 ==
  /\ Adds(6, UserFeedback)
  /\ DOMAIN TablesAt(6) = InitialNames \cup {"admin_events", "chat_events", "user_feedback"}
<1>1. IsSchema(TablesAt(5)) /\ DOMAIN TablesAt(5) = InitialNames \cup {"admin_events", "chat_events"}
  BY Revision5 DEF Widens
<1>2. DOMAIN UserFeedback = {"user_feedback"}  BY DEF UserFeedback
<1>3. IsSchema(UserFeedback)
  <2>1. IsFcn(UserFeedback)  BY DEF UserFeedback, IsFcn
  <2>2. \A t \in DOMAIN UserFeedback : IsFcn(UserFeedback[t])  BY DEF UserFeedback, Table, IsFcn
  <2> QED  BY <2>1, <2>2 DEF IsSchema
<1>4. DOMAIN TablesAt(5) \cap DOMAIN UserFeedback = {}  BY <1>1, <1>2 DEF InitialNames
<1>5. \A ts : TablesUp(6, ts) = Plus(ts, UserFeedback)  BY DEF TablesUp, UpUserFeedback
<1>6. \A ts : TablesDown(6, ts) = Without(ts, DOMAIN UserFeedback)
  BY <1>2 DEF TablesDown, DownUserFeedback
<1>7. 6 \in 1..Newest /\ 6 - 1 = 5  BY DEF Newest
<1>8. Adds(6, UserFeedback)
  BY <1>1, <1>3, <1>4, <1>5, <1>6, <1>7, RevisionAdds
<1>9. DOMAIN TablesAt(6) = DOMAIN TablesAt(5) \cup DOMAIN UserFeedback
  BY <1>7, <1>8 DEF Adds
<1> QED  BY <1>1, <1>2, <1>8, <1>9

LEMMA KeptByRevision6 ==
  /\ \A t \in InitialNames \ {"tool_calls", "signup_requests"} : TablesAt(6)[t] = InitialTables[t]
  /\ TablesAt(6)["tool_calls"] = Plus(Table({}, TelemetryColumns), ChatTables["tool_calls"])
  /\ TablesAt(6)["signup_requests"] =
       Plus(Table({}, DisclaimerColumns), AccountTables["signup_requests"])
  /\ TablesAt(6)["admin_events"] = AdminEvents["admin_events"]
  /\ TablesAt(6)["chat_events"] = ChatEvents["chat_events"]
  /\ TablesAt(6)["user_feedback"] = UserFeedback["user_feedback"]
<1>1. 6 - 1 = 5 /\ 5 - 1 = 4  OBVIOUS
<1>2. /\ DOMAIN TablesAt(4) = InitialNames \cup {"admin_events", "chat_events"}
      /\ DOMAIN TablesAt(5) = InitialNames \cup {"admin_events", "chat_events"}
  BY Revision4, Revision5
<1>3. \A t \in DOMAIN TablesAt(5) : TablesAt(6)[t] = TablesAt(5)[t]
  BY <1>1, Revision6 DEF Adds
<1>4. /\ \A t \in DOMAIN TablesAt(4) \ {"signup_requests"} : TablesAt(5)[t] = TablesAt(4)[t]
      /\ TablesAt(5)["signup_requests"] =
           Plus(Table({}, DisclaimerColumns), TablesAt(4)["signup_requests"])
  BY <1>1, Revision5 DEF Widens
<1>5. TablesAt(4)["signup_requests"] = AccountTables["signup_requests"]
  <2>1. "signup_requests" \in DOMAIN AccountTables  BY DEF AccountTables
  <2> QED  BY <2>1, KeptByRevision4, InitialTablesAre DEF InitialNames
<1>6. TablesAt(6)["user_feedback"] = UserFeedback["user_feedback"]
  <2>1. "user_feedback" \in DOMAIN UserFeedback  BY DEF UserFeedback
  <2> QED  BY <2>1, Revision6 DEF Adds
<1>7. \A t \in DOMAIN TablesAt(4) \ {"signup_requests"} : TablesAt(6)[t] = TablesAt(4)[t]
  BY <1>2, <1>3, <1>4
<1>8. TablesAt(6)["signup_requests"] = TablesAt(5)["signup_requests"]
  BY <1>2, <1>3 DEF InitialNames
<1>9. "admin_events" \notin InitialNames /\ "chat_events" \notin InitialNames
  BY DEF InitialNames
<1>10. \A t \in InitialNames \ {"tool_calls", "signup_requests"} : TablesAt(6)[t] = InitialTables[t]
  BY <1>2, <1>7, KeptByRevision4
<1>11. /\ TablesAt(6)["tool_calls"] = TablesAt(4)["tool_calls"]
       /\ TablesAt(6)["admin_events"] = TablesAt(4)["admin_events"]
       /\ TablesAt(6)["chat_events"] = TablesAt(4)["chat_events"]
  BY <1>2, <1>7 DEF InitialNames
<1> QED  BY <1>4, <1>5, <1>6, <1>8, <1>10, <1>11, KeptByRevision4

ActivityColumns == {"last_login_at", "last_login_ip", "country", "timezone"}

LEMMA Revision7 ==
  /\ IsSchema(TablesAt(7))
  /\ DOMAIN TablesAt(7) = InitialNames \cup
       {"admin_events", "chat_events", "user_feedback", "user_balances"}
  /\ \A t \in DOMAIN TablesAt(6) \ {"users"} : TablesAt(7)[t] = TablesAt(6)[t]
  /\ TablesAt(7)["users"] = Plus(Table({}, ActivityColumns), AccountTables["users"])
  /\ TablesAt(7)["user_balances"] = UserBalances["user_balances"]
  /\ TablesDown(7, TablesAt(7)) = TablesAt(6)
  /\ Keeps(TablesAt(7), TablesAt(6))
<1> PICK old : old = TablesAt(6)  OBVIOUS
<1> PICK added : added = Table({}, ActivityColumns)  OBVIOUS
<1> PICK mid : mid = AddColumns(old, "users", added)  OBVIOUS
<1>1. /\ IsSchema(old)
      /\ DOMAIN old = InitialNames \cup {"admin_events", "chat_events", "user_feedback"}
  BY Revision6 DEF Adds
<1>2. "users" \in DOMAIN old  BY <1>1 DEF InitialNames
<1>3. old["users"] = AccountTables["users"]
  <2>1. "users" \in DOMAIN AccountTables  BY DEF AccountTables
  <2> QED  BY <2>1, KeptByRevision6, InitialTablesAre DEF InitialNames
<1>4. IsFcn(added) /\ DOMAIN added = ActivityColumns /\ \A c \in DOMAIN added : ~added[c]
  <2>1. added = [c \in ActivityColumns |-> c \in {}]  BY DEF Table
  <2> QED  BY ONLY <2>1 DEF IsFcn
<1>5. DOMAIN old["users"] \cap DOMAIN added = {}
  <2>1. DOMAIN old["users"] \cap ActivityColumns = {}
    BY <1>3 DEF AccountTables, ActivityColumns, Table, Stamps
  <2> QED  BY <2>1, <1>4
<1>6. /\ IsSchema(mid)
      /\ DOMAIN mid = DOMAIN old
      /\ mid["users"] = Plus(added, old["users"])
      /\ \A u \in DOMAIN old \ {"users"} : mid[u] = old[u]
      /\ DropColumns(mid, "users", DOMAIN added) = old
      /\ Keeps(mid, old)
  BY <1>1, <1>2, <1>4, <1>5, ColumnsAdded
<1>7. DOMAIN UserBalances = {"user_balances"}  BY DEF UserBalances
<1>8. IsSchema(UserBalances)
  <2>1. IsFcn(UserBalances)  BY DEF UserBalances, IsFcn
  <2>2. \A t \in DOMAIN UserBalances : IsFcn(UserBalances[t])  BY DEF UserBalances, Table, IsFcn
  <2> QED  BY <2>1, <2>2 DEF IsSchema
<1>9. DOMAIN mid \cap DOMAIN UserBalances = {}  BY <1>1, <1>6, <1>7 DEF InitialNames
<1>10. /\ IsSchema(Plus(mid, UserBalances))
       /\ DOMAIN Plus(mid, UserBalances) = DOMAIN mid \cup DOMAIN UserBalances
       /\ \A t \in DOMAIN mid : Plus(mid, UserBalances)[t] = mid[t]
       /\ \A t \in DOMAIN UserBalances : Plus(mid, UserBalances)[t] = UserBalances[t]
       /\ Without(Plus(mid, UserBalances), DOMAIN UserBalances) = mid
       /\ Keeps(Plus(mid, UserBalances), mid)
  BY <1>6, <1>8, <1>9, TablesAdded
<1>11. TablesAt(7) = Plus(mid, UserBalances)
  <2>1. 7 \in 1..Newest /\ 7 - 1 = 6  BY DEF Newest
  <2>2. TablesAt(7) = TablesUp(7, old)  BY <2>1, NextTables
  <2>3. TablesUp(7, old) = UpActivityBalance(old)  BY DEF TablesUp
  <2> QED  BY <2>2, <2>3 DEF UpActivityBalance, ActivityColumns
<1>12. TablesDown(7, TablesAt(7)) = old
  <2>1. TablesDown(7, TablesAt(7)) = DownActivityBalance(TablesAt(7))  BY DEF TablesDown
  <2>2. DownActivityBalance(TablesAt(7)) =
          DropColumns(Without(TablesAt(7), {"user_balances"}), "users", ActivityColumns)
    <3>1. ActivityColumns = {"timezone", "country", "last_login_ip", "last_login_at"}
      BY DEF ActivityColumns
    <3> QED  BY <3>1 DEF DownActivityBalance
  <2> QED  BY <2>1, <2>2, <1>4, <1>6, <1>7, <1>10, <1>11
<1>13. Keeps(TablesAt(7), old)  BY <1>6, <1>10, <1>11, KeepsAll
<1>14. DOMAIN TablesAt(7) = InitialNames \cup
         {"admin_events", "chat_events", "user_feedback", "user_balances"}
  BY <1>1, <1>6, <1>7, <1>10, <1>11
<1>15. TablesAt(7)["user_balances"] = UserBalances["user_balances"]  BY <1>7, <1>10, <1>11
<1>16. \A t \in DOMAIN old : TablesAt(7)[t] = mid[t]  BY <1>6, <1>10, <1>11
<1> QED  BY <1>2, <1>3, <1>6, <1>10, <1>11, <1>12, <1>13, <1>14, <1>15, <1>16

LEMMA Revision8 ==
  /\ Adds(8, SimulatorTable)
  /\ DOMAIN TablesAt(8) = InitialNames \cup {"admin_events", "chat_events", "user_feedback", "user_balances", "simulators"}
<1>1. IsSchema(TablesAt(7)) /\ DOMAIN TablesAt(7) = InitialNames \cup {"admin_events", "chat_events", "user_feedback", "user_balances"}
  BY Revision7
<1>2. DOMAIN SimulatorTable = {"simulators"}  BY DEF SimulatorTable
<1>3. IsSchema(SimulatorTable)
  <2>1. IsFcn(SimulatorTable)  BY DEF SimulatorTable, IsFcn
  <2>2. \A t \in DOMAIN SimulatorTable : IsFcn(SimulatorTable[t])  BY DEF SimulatorTable, Table, IsFcn
  <2> QED  BY <2>1, <2>2 DEF IsSchema
<1>4. DOMAIN TablesAt(7) \cap DOMAIN SimulatorTable = {}  BY <1>1, <1>2 DEF InitialNames
<1>5. \A ts : TablesUp(8, ts) = Plus(ts, SimulatorTable)  BY DEF TablesUp, UpSimulators
<1>6. \A ts : TablesDown(8, ts) = Without(ts, DOMAIN SimulatorTable)
  BY <1>2 DEF TablesDown, DownSimulators
<1>7. 8 \in 1..Newest /\ 8 - 1 = 7  BY DEF Newest
<1>8. Adds(8, SimulatorTable)
  BY <1>1, <1>3, <1>4, <1>5, <1>6, <1>7, RevisionAdds
<1>9. DOMAIN TablesAt(8) = DOMAIN TablesAt(7) \cup DOMAIN SimulatorTable
  BY <1>7, <1>8 DEF Adds
<1> QED  BY <1>1, <1>2, <1>8, <1>9

LEMMA Revision9 ==
  /\ Adds(9, SessionTable)
  /\ DOMAIN TablesAt(9) = InitialNames \cup {"admin_events", "chat_events", "user_feedback", "user_balances", "simulators", "sessions"}
<1>1. IsSchema(TablesAt(8)) /\ DOMAIN TablesAt(8) = InitialNames \cup {"admin_events", "chat_events", "user_feedback", "user_balances", "simulators"}
  BY Revision8 DEF Adds
<1>2. DOMAIN SessionTable = {"sessions"}  BY DEF SessionTable
<1>3. IsSchema(SessionTable)
  <2>1. IsFcn(SessionTable)  BY DEF SessionTable, IsFcn
  <2>2. \A t \in DOMAIN SessionTable : IsFcn(SessionTable[t])  BY DEF SessionTable, Table, IsFcn
  <2> QED  BY <2>1, <2>2 DEF IsSchema
<1>4. DOMAIN TablesAt(8) \cap DOMAIN SessionTable = {}  BY <1>1, <1>2 DEF InitialNames
<1>5. \A ts : TablesUp(9, ts) = Plus(ts, SessionTable)  BY DEF TablesUp, UpSessions
<1>6. \A ts : TablesDown(9, ts) = Without(ts, DOMAIN SessionTable)
  BY <1>2 DEF TablesDown, DownSessions
<1>7. 9 \in 1..Newest /\ 9 - 1 = 8  BY DEF Newest
<1>8. Adds(9, SessionTable)
  BY <1>1, <1>3, <1>4, <1>5, <1>6, <1>7, RevisionAdds
<1>9. DOMAIN TablesAt(9) = DOMAIN TablesAt(8) \cup DOMAIN SessionTable
  BY <1>7, <1>8 DEF Adds
<1> QED  BY <1>1, <1>2, <1>8, <1>9

LEMMA Revision10 ==
  /\ TablesAt(10) = TablesAt(9)
  /\ TablesDown(10, TablesAt(10)) = TablesAt(9)
<1>1. 10 \in 1..Newest /\ 10 - 1 = 9  BY DEF Newest
<1>2. TablesAt(10) = TablesUp(10, TablesAt(9))  BY <1>1, NextTables
<1> QED  BY <1>2 DEF TablesUp, TablesDown

\* The schema before the revisions that are taken back later.
LEMMA SchemaAt10 ==
  /\ IsSchema(TablesAt(10))
  /\ DOMAIN TablesAt(10) = InitialNames \cup
       {"admin_events", "chat_events", "user_feedback", "user_balances", "simulators", "sessions"}
  /\ \A t \in InitialNames \ {"tool_calls", "signup_requests", "users"} :
       TablesAt(10)[t] = InitialTables[t]
  /\ TablesAt(10)["tool_calls"] = Plus(Table({}, TelemetryColumns), ChatTables["tool_calls"])
  /\ TablesAt(10)["signup_requests"] =
       Plus(Table({}, DisclaimerColumns), AccountTables["signup_requests"])
  /\ TablesAt(10)["users"] = Plus(Table({}, ActivityColumns), AccountTables["users"])
  /\ TablesAt(10)["admin_events"] = AdminEvents["admin_events"]
  /\ TablesAt(10)["chat_events"] = ChatEvents["chat_events"]
  /\ TablesAt(10)["user_feedback"] = UserFeedback["user_feedback"]
  /\ TablesAt(10)["user_balances"] = UserBalances["user_balances"]
  /\ TablesAt(10)["simulators"] = SimulatorTable["simulators"]
  /\ TablesAt(10)["sessions"] = SessionTable["sessions"]
<1>1. 9 - 1 = 8 /\ 8 - 1 = 7  OBVIOUS
<1>2. /\ DOMAIN TablesAt(6) = InitialNames \cup {"admin_events", "chat_events", "user_feedback"}
      /\ DOMAIN TablesAt(7) = DOMAIN TablesAt(6) \cup {"user_balances"}
      /\ DOMAIN TablesAt(8) = DOMAIN TablesAt(7) \cup {"simulators"}
      /\ DOMAIN TablesAt(9) = DOMAIN TablesAt(8) \cup {"sessions"}
  BY Revision6, Revision7, Revision8, Revision9
<1>3. /\ IsSchema(TablesAt(9))
      /\ \A t \in DOMAIN TablesAt(8) : TablesAt(9)[t] = TablesAt(8)[t]
      /\ \A t \in DOMAIN SessionTable : TablesAt(9)[t] = SessionTable[t]
  BY <1>1, Revision9 DEF Adds
<1>4. /\ \A t \in DOMAIN TablesAt(7) : TablesAt(8)[t] = TablesAt(7)[t]
      /\ \A t \in DOMAIN SimulatorTable : TablesAt(8)[t] = SimulatorTable[t]
  BY <1>1, Revision8 DEF Adds
<1>5. \A t \in DOMAIN TablesAt(7) : TablesAt(9)[t] = TablesAt(7)[t]  BY <1>2, <1>3, <1>4
<1>6. \A t \in DOMAIN TablesAt(6) \ {"users"} : TablesAt(9)[t] = TablesAt(6)[t]
  BY <1>2, <1>5, Revision7
<1>7. "sessions" \in DOMAIN SessionTable /\ "simulators" \in DOMAIN SimulatorTable
  BY DEF SessionTable, SimulatorTable
<1>8. /\ TablesAt(9)["sessions"] = SessionTable["sessions"]
      /\ TablesAt(9)["simulators"] = SimulatorTable["simulators"]
      /\ TablesAt(9)["user_balances"] = UserBalances["user_balances"]
      /\ TablesAt(9)["users"] = Plus(Table({}, ActivityColumns), AccountTables["users"])
  <2>1. TablesAt(9)["sessions"] = SessionTable["sessions"]  BY <1>3, <1>7
  <2>2. TablesAt(9)["simulators"] = SimulatorTable["simulators"]  BY <1>2, <1>3, <1>4, <1>7
  <2>3. "users" \in DOMAIN TablesAt(7) /\ "user_balances" \in DOMAIN TablesAt(7)
    BY <1>2 DEF InitialNames
  <2> QED  BY <2>1, <2>2, <2>3, <1>5, Revision7
<1>9. /\ \A t \in InitialNames \ {"tool_calls", "signup_requests", "users"} :
           TablesAt(9)[t] = InitialTables[t]
      /\ TablesAt(9)["tool_calls"] = TablesAt(6)["tool_calls"]
      /\ TablesAt(9)["signup_requests"] = TablesAt(6)["signup_requests"]
      /\ TablesAt(9)["admin_events"] = TablesAt(6)["admin_events"]
      /\ TablesAt(9)["chat_events"] = TablesAt(6)["chat_events"]
      /\ TablesAt(9)["user_feedback"] = TablesAt(6)["user_feedback"]
  <2>1. \A t \in InitialNames \ {"tool_calls", "signup_requests", "users"} :
          TablesAt(9)[t] = InitialTables[t]
    BY <1>2, <1>6, KeptByRevision6
  <2>2. {"tool_calls", "signup_requests", "admin_events", "chat_events", "user_feedback"}
          \subseteq DOMAIN TablesAt(6) \ {"users"}
    BY <1>2 DEF InitialNames
  <2> QED  BY <2>1, <2>2, <1>6
<1>10. DOMAIN TablesAt(9) = InitialNames \cup
         {"admin_events", "chat_events", "user_feedback", "user_balances", "simulators", "sessions"}
  BY <1>2
<1> QED  BY <1>3, <1>8, <1>9, <1>10, KeptByRevision6, Revision10

LEMMA FreshColumns ==
  ASSUME NEW columns
  PROVE  LET added == Table({}, columns)
         IN  IsFcn(added) /\ DOMAIN added = columns /\ \A c \in DOMAIN added : ~added[c]
<1> PICK added : added = Table({}, columns)  OBVIOUS
<1>1. added = [c \in columns |-> c \in {}]  BY DEF Table
<1>2. IsFcn(added) /\ DOMAIN added = columns /\ \A c \in DOMAIN added : ~added[c]
  BY ONLY <1>1 DEF IsFcn
<1> QED  BY <1>2

LEMMA PlusDomain ==
  ASSUME NEW f, NEW g PROVE DOMAIN Plus(f, g) = DOMAIN f \cup DOMAIN g
BY DEF Plus

ByokUserColumns ==
  {"byok_token_ciphertext", "byok_dek_wrapped", "byok_kek_salt", "byok_kdf_params",
   "byok_token_last_verified_at", "byok_token_status"}
ByokSessionColumns == {"byok_session_key_encrypted", "byok_dek_session_wrapped"}
ByokMessageColumns == {"byok_used"}

LEMMA Revision11 ==
  /\ TablesAt(11) = UpByok(TablesAt(10))
  /\ DownByok(TablesAt(11)) = TablesAt(10)
  /\ Keeps(TablesAt(11), TablesAt(10))
<1> PICK old : old = TablesAt(10)  OBVIOUS
<1> PICK u : u = Table({}, ByokUserColumns)  OBVIOUS
<1> PICK s : s = Table({}, ByokSessionColumns)  OBVIOUS
<1> PICK m : m = Table({}, ByokMessageColumns)  OBVIOUS
<1> PICK users : users = AddColumns(old, "users", u)  OBVIOUS
<1> PICK sessions : sessions = AddColumns(users, "sessions", s)  OBVIOUS
<1> PICK messages : messages = AddColumns(sessions, "messages", m)  OBVIOUS
<1> PICK new : new = Plus(messages, CredentialsHistory)  OBVIOUS
<1>1. /\ IsFcn(u) /\ DOMAIN u = ByokUserColumns /\ \A c \in DOMAIN u : ~u[c]
      /\ IsFcn(s) /\ DOMAIN s = ByokSessionColumns /\ \A c \in DOMAIN s : ~s[c]
      /\ IsFcn(m) /\ DOMAIN m = ByokMessageColumns /\ \A c \in DOMAIN m : ~m[c]
  BY FreshColumns
<1>2. /\ IsSchema(old)
      /\ {"users", "sessions", "messages"} \subseteq DOMAIN old
      /\ "byok_credentials_history" \notin DOMAIN old
  BY SchemaAt10 DEF InitialNames
<1>3. DOMAIN old["users"] \cap DOMAIN u = {}
  <2>1. DOMAIN old["users"] = ActivityColumns \cup DOMAIN AccountTables["users"]
    <3> PICK a : a = Table({}, ActivityColumns)  OBVIOUS
    <3> PICK b : b = AccountTables["users"]  OBVIOUS
    <3>1. DOMAIN a = ActivityColumns  BY FreshColumns
    <3>2. old["users"] = Plus(a, b)  BY SchemaAt10
    <3>3. DOMAIN Plus(a, b) = DOMAIN a \cup DOMAIN b  BY PlusDomain
    <3> QED  BY <3>1, <3>2, <3>3
  <2>2. (ActivityColumns \cup DOMAIN AccountTables["users"]) \cap ByokUserColumns = {}
    BY DEF ActivityColumns, AccountTables, Table, Stamps, ByokUserColumns
  <2> QED  BY <2>1, <2>2, <1>1
<1>4. DOMAIN old["sessions"] \cap DOMAIN s = {}
  <2>1. old["sessions"] = SessionTable["sessions"]  BY SchemaAt10
  <2>2. DOMAIN SessionTable["sessions"] \cap ByokSessionColumns = {}
    BY DEF SessionTable, Table, ByokSessionColumns
  <2> QED  BY <2>1, <2>2, <1>1
<1>5. DOMAIN old["messages"] \cap DOMAIN m = {}
  <2>1. old["messages"] = ChatTables["messages"]
    <3>1. "messages" \in InitialNames \ {"tool_calls", "signup_requests", "users"}
      BY DEF InitialNames
    <3>2. "messages" \in DOMAIN ChatTables  BY DEF ChatTables
    <3> QED  BY <3>1, <3>2, SchemaAt10, InitialTablesAre
  <2>2. DOMAIN ChatTables["messages"] \cap ByokMessageColumns = {}
    BY DEF ChatTables, Table, ByokMessageColumns
  <2> QED  BY <2>1, <2>2, <1>1
<1>6. /\ IsSchema(users)
      /\ DOMAIN users = DOMAIN old
      /\ \A t \in DOMAIN old \ {"users"} : users[t] = old[t]
      /\ DropColumns(users, "users", DOMAIN u) = old
      /\ Keeps(users, old)
  <2>1. "users" \in DOMAIN old  BY <1>2
  <2> QED  BY <2>1, <1>1, <1>2, <1>3, ColumnsAdded
<1>7. /\ IsSchema(sessions)
      /\ DOMAIN sessions = DOMAIN users
      /\ \A t \in DOMAIN users \ {"sessions"} : sessions[t] = users[t]
      /\ DropColumns(sessions, "sessions", DOMAIN s) = users
      /\ Keeps(sessions, users)
  <2>1. "sessions" \in DOMAIN users /\ users["sessions"] = old["sessions"]  BY <1>2, <1>6
  <2>2. DOMAIN users["sessions"] \cap DOMAIN s = {}  BY <2>1, <1>4
  <2> QED  BY <2>1, <2>2, <1>1, <1>6, ColumnsAdded
<1>8. /\ IsSchema(messages)
      /\ DOMAIN messages = DOMAIN sessions
      /\ DropColumns(messages, "messages", DOMAIN m) = sessions
      /\ Keeps(messages, sessions)
  <2>1. "messages" \in DOMAIN sessions /\ sessions["messages"] = old["messages"]
    BY <1>2, <1>6, <1>7
  <2>2. DOMAIN sessions["messages"] \cap DOMAIN m = {}  BY <2>1, <1>5
  <2> QED  BY <2>1, <2>2, <1>1, <1>7, ColumnsAdded
<1>9. DOMAIN CredentialsHistory = {"byok_credentials_history"}  BY DEF CredentialsHistory
<1>10. IsSchema(CredentialsHistory)
  <2>1. IsFcn(CredentialsHistory)  BY DEF CredentialsHistory, IsFcn
  <2>2. \A t \in DOMAIN CredentialsHistory : IsFcn(CredentialsHistory[t])
    BY DEF CredentialsHistory, Table, IsFcn
  <2> QED  BY <2>1, <2>2 DEF IsSchema
<1>11. DOMAIN messages \cap DOMAIN CredentialsHistory = {}
  BY <1>2, <1>6, <1>7, <1>8, <1>9
<1>12. /\ Without(new, DOMAIN CredentialsHistory) = messages
       /\ Keeps(new, messages)
  BY <1>8, <1>10, <1>11, TablesAdded
<1>13. UpByok(old) = new
  <2>1. /\ users = AddColumns(old, "users", Table({}, {"byok_token_ciphertext",
             "byok_dek_wrapped", "byok_kek_salt", "byok_kdf_params",
             "byok_token_last_verified_at", "byok_token_status"}))
        /\ sessions = AddColumns(users, "sessions",
             Table({}, {"byok_session_key_encrypted", "byok_dek_session_wrapped"}))
        /\ messages = AddColumns(sessions, "messages", Table({}, {"byok_used"}))
    BY DEF ByokUserColumns, ByokSessionColumns, ByokMessageColumns
  <2> QED  BY <2>1 DEF UpByok
<1>14. TablesAt(11) = new
  <2>1. 11 \in 1..Newest /\ 11 - 1 = 10  BY DEF Newest
  <2>2. TablesAt(11) = TablesUp(11, old)  BY <2>1, NextTables
  <2> QED  BY <2>2, <1>13 DEF TablesUp
<1>15. DownByok(new) = old
  <2>1. Without(new, {"byok_credentials_history"}) = messages  BY <1>9, <1>12
  <2>2. DropColumns(messages, "messages", {"byok_used"}) = sessions
    BY <1>1, <1>8 DEF ByokMessageColumns
  <2>3. DropColumns(sessions, "sessions",
          {"byok_dek_session_wrapped", "byok_session_key_encrypted"}) = users
    <3>1. ByokSessionColumns = {"byok_dek_session_wrapped", "byok_session_key_encrypted"}
      BY DEF ByokSessionColumns
    <3> QED  BY <3>1, <1>1, <1>7
  <2>4. DropColumns(users, "users", {"byok_token_status", "byok_token_last_verified_at",
          "byok_kdf_params", "byok_kek_salt", "byok_dek_wrapped", "byok_token_ciphertext"}) = old
    <3>1. ByokUserColumns = {"byok_token_status", "byok_token_last_verified_at",
            "byok_kdf_params", "byok_kek_salt", "byok_dek_wrapped", "byok_token_ciphertext"}
      BY DEF ByokUserColumns
    <3> QED  BY <3>1, <1>1, <1>6
  <2> QED  BY <2>1, <2>2, <2>3, <2>4 DEF DownByok
<1>16. Keeps(new, old)
  <2>1. Keeps(sessions, old)  BY <1>6, <1>7, KeepsAll
  <2>2. Keeps(messages, old)  BY <2>1, <1>8, KeepsAll
  <2> QED  BY <2>2, <1>12, KeepsAll
<1> QED  BY <1>13, <1>14, <1>15, <1>16

LEMMA Revision12 ==
  /\ TablesAt(12) = TablesAt(10)
  /\ TablesDown(12, TablesAt(12)) = TablesAt(11)
<1>1. 12 \in 1..Newest /\ 12 - 1 = 11  BY DEF Newest
<1>2. TablesAt(12) = TablesUp(12, TablesAt(11))  BY <1>1, NextTables
<1>3. TablesAt(12) = TablesAt(10)  BY <1>2, Revision11 DEF TablesUp, UpDropByok
<1>4. TablesDown(12, TablesAt(12)) = UpByok(TablesAt(12))  BY DEF TablesDown, DownDropByok
<1> QED  BY <1>3, <1>4, Revision11

LEMMA Revision13 ==
  /\ IsSchema(TablesAt(13))
  /\ DOMAIN TablesAt(13) = DOMAIN TablesAt(10) \ {"tool_usage"}
  /\ \A t \in DOMAIN TablesAt(10) \ {"tool_usage"} : TablesAt(13)[t] = TablesAt(10)[t]
  /\ TablesDown(13, TablesAt(13)) = TablesAt(12)
<1>1. 13 \in 1..Newest /\ 13 - 1 = 12  BY DEF Newest
<1>2. TablesAt(13) = TablesUp(13, TablesAt(10))  BY <1>1, NextTables, Revision12
<1> PICK old : old = TablesAt(10)  OBVIOUS
<1>3. DOMAIN ToolUsage = {"tool_usage"} /\ IsFcn(ToolUsage)  BY DEF ToolUsage, IsFcn
<1>4. TablesAt(13) = Without(old, DOMAIN ToolUsage)
  BY <1>2, <1>3 DEF TablesUp, UpDropToolUsage
<1>5. "tool_usage" \in DOMAIN old /\ old["tool_usage"] = ToolUsage["tool_usage"]
  <2>1. "tool_usage" \in InitialNames \ {"tool_calls", "signup_requests", "users"}
    BY DEF InitialNames
  <2> QED  BY <2>1, SchemaAt10, InitialTablesAre
<1>6. /\ IsSchema(TablesAt(13))
      /\ DOMAIN TablesAt(13) = DOMAIN old \ DOMAIN ToolUsage
      /\ \A t \in DOMAIN old \ DOMAIN ToolUsage : TablesAt(13)[t] = old[t]
      /\ Plus(TablesAt(13), ToolUsage) = old
  <2>1. IsSchema(old)  BY SchemaAt10
  <2>2. DOMAIN ToolUsage \subseteq DOMAIN old /\ \A t \in DOMAIN ToolUsage : ToolUsage[t] = old[t]
    BY <1>3, <1>5
  <2> QED  BY <2>1, <2>2, <1>3, <1>4, TableDropped
<1>7. TablesDown(13, TablesAt(13)) = Plus(TablesAt(13), ToolUsage)
  <2>1. TablesDown(13, TablesAt(13)) = DownDropToolUsage(TablesAt(13))  BY DEF TablesDown
  <2> QED  BY <2>1 DEF DownDropToolUsage, ToolUsage
<1> QED  BY <1>3, <1>6, <1>7, Revision12

LEMMA Revision14 ==
  /\ DOMAIN TablesAt(14) = DOMAIN TablesAt(10) \ {"tool_usage", "user_balances"}
  /\ \A t \in DOMAIN TablesAt(10) \ {"tool_usage", "user_balances"} :
       TablesAt(14)[t] = TablesAt(10)[t]
  /\ TablesDown(14, TablesAt(14)) = TablesAt(13)
<1>1. 14 \in 1..Newest /\ 14 - 1 = 13  BY DEF Newest
<1> PICK old : old = TablesAt(13)  OBVIOUS
<1>2. TablesAt(14) = TablesUp(14, old)  BY <1>1, NextTables
<1>3. DOMAIN UserBalances = {"user_balances"} /\ IsFcn(UserBalances)  BY DEF UserBalances, IsFcn
<1>4. TablesAt(14) = Without(old, DOMAIN UserBalances)
  BY <1>2, <1>3 DEF TablesUp, UpDropUserBalances
<1>5. "user_balances" \in DOMAIN old /\ old["user_balances"] = UserBalances["user_balances"]
  <2>1. "user_balances" \in DOMAIN TablesAt(10) \ {"tool_usage"}  BY SchemaAt10
  <2> QED  BY <2>1, SchemaAt10, Revision13
<1>6. /\ DOMAIN TablesAt(14) = DOMAIN old \ DOMAIN UserBalances
      /\ \A t \in DOMAIN old \ DOMAIN UserBalances : TablesAt(14)[t] = old[t]
      /\ Plus(TablesAt(14), UserBalances) = old
  <2>1. IsSchema(old)  BY Revision13
  <2>2. /\ DOMAIN UserBalances \subseteq DOMAIN old
        /\ \A t \in DOMAIN UserBalances : UserBalances[t] = old[t]
    BY <1>3, <1>5
  <2> QED  BY <2>1, <2>2, <1>3, <1>4, TableDropped
<1>7. TablesDown(14, TablesAt(14)) = Plus(TablesAt(14), UserBalances)
  <2>1. TablesDown(14, TablesAt(14)) = DownDropUserBalances(TablesAt(14))  BY DEF TablesDown
  <2> QED  BY <2>1 DEF DownDropUserBalances, UserBalances
<1>8. DOMAIN old = DOMAIN TablesAt(10) \ {"tool_usage"}  BY Revision13
<1>9. \A t \in DOMAIN TablesAt(10) \ {"tool_usage"} : old[t] = TablesAt(10)[t]  BY Revision13
<1> QED  BY <1>3, <1>6, <1>7, <1>8, <1>9

\* Every downgrade undoes its upgrade.
LEMMA DownUndoesUp ==
  \A r \in 1..Newest : TablesDown(r, TablesAt(r)) = TablesAt(r - 1)
<1>1. /\ 1 - 1 = 0 /\ 2 - 1 = 1 /\ 3 - 1 = 2 /\ 4 - 1 = 3 /\ 5 - 1 = 4 /\ 6 - 1 = 5
      /\ 7 - 1 = 6 /\ 8 - 1 = 7 /\ 9 - 1 = 8 /\ 10 - 1 = 9 /\ 11 - 1 = 10 /\ 12 - 1 = 11
      /\ 13 - 1 = 12 /\ 14 - 1 = 13
  OBVIOUS
<1>2. /\ TablesDown(2, TablesAt(2)) = TablesAt(2 - 1)
      /\ TablesDown(3, TablesAt(3)) = TablesAt(3 - 1)
      /\ TablesDown(6, TablesAt(6)) = TablesAt(6 - 1)
      /\ TablesDown(8, TablesAt(8)) = TablesAt(8 - 1)
      /\ TablesDown(9, TablesAt(9)) = TablesAt(9 - 1)
  BY Revision2, Revision3, Revision6, Revision8, Revision9 DEF Adds
<1>3. /\ TablesDown(4, TablesAt(4)) = TablesAt(4 - 1)
      /\ TablesDown(5, TablesAt(5)) = TablesAt(5 - 1)
  BY Revision4, Revision5 DEF Widens
<1>4. TablesDown(11, TablesAt(11)) = TablesAt(10)  BY Revision11 DEF TablesDown
<1>5. \A r \in 1..Newest : r \in {1, 2, 3, 4, 5, 6, 7, 8, 9, 10, 11, 12, 13, 14}
  BY DEF Newest
<1> QED
  BY <1>1, <1>2, <1>3, <1>4, <1>5, FirstRevision, Revision7, Revision10, Revision12,
     Revision13, Revision14

-----------------------------------------------------------------------------
\* The code of a release works on the schema of a later one while no revision
\* between them takes something away.
LEMMA KeepsSelf == ASSUME NEW ts PROVE Keeps(ts, ts)
BY DEF Keeps

LEMMA ExpandingRevisions == \A r \in 2..11 : Keeps(TablesAt(r), TablesAt(r - 1))
<1>1. /\ 2 - 1 = 1 /\ 3 - 1 = 2 /\ 4 - 1 = 3 /\ 5 - 1 = 4 /\ 6 - 1 = 5
      /\ 7 - 1 = 6 /\ 8 - 1 = 7 /\ 9 - 1 = 8 /\ 10 - 1 = 9 /\ 11 - 1 = 10
  OBVIOUS
<1>2. /\ Keeps(TablesAt(2), TablesAt(2 - 1)) /\ Keeps(TablesAt(3), TablesAt(3 - 1))
      /\ Keeps(TablesAt(6), TablesAt(6 - 1)) /\ Keeps(TablesAt(8), TablesAt(8 - 1))
      /\ Keeps(TablesAt(9), TablesAt(9 - 1))
  BY Revision2, Revision3, Revision6, Revision8, Revision9 DEF Adds
<1>3. Keeps(TablesAt(4), TablesAt(4 - 1)) /\ Keeps(TablesAt(5), TablesAt(5 - 1))
  BY Revision4, Revision5 DEF Widens
<1>4. Keeps(TablesAt(10), TablesAt(9))  BY Revision10, KeepsSelf
<1>5. \A r \in 2..11 : r \in {2, 3, 4, 5, 6, 7, 8, 9, 10, 11}  OBVIOUS
<1> QED  BY <1>1, <1>2, <1>3, <1>4, <1>5, Revision7, Revision11

LEMMA KeepsThrough ==
  ASSUME NEW r \in 1..Newest, NEW q \in 1..Newest, r <= q, ExpandOnly(r, q)
  PROVE  Keeps(TablesAt(q), TablesAt(r))
<1>1. CASE q <= 11
  <2> DEFINE S == {n \in Nat : r + n <= 11 => Keeps(TablesAt(r + n), TablesAt(r))}
  <2>1. 0 \in S
    <3>1. r + 0 = r  BY DEF Newest
    <3> QED  BY <3>1, KeepsSelf
  <2>2. \A n \in S : n + 1 \in S
    <3> SUFFICES ASSUME NEW n \in Nat, r + n <= 11 => Keeps(TablesAt(r + n), TablesAt(r)),
                        r + (n + 1) <= 11
                 PROVE  Keeps(TablesAt(r + (n + 1)), TablesAt(r))
      OBVIOUS
    <3> PICK i : i = r + (n + 1)  OBVIOUS
    <3>1. i \in 2..11 /\ i - 1 = r + n /\ r + n <= 11  BY DEF Newest
    <3>2. Keeps(TablesAt(i), TablesAt(i - 1))  BY <3>1, ExpandingRevisions
    <3>3. Keeps(TablesAt(i - 1), TablesAt(r))  BY <3>1
    <3> QED  BY <3>2, <3>3, KeepsAll
  <2>3. S = Nat  BY <2>1, <2>2, Induction
  <2>4. q - r \in Nat /\ r + (q - r) = q  BY DEF Newest
  <2> QED  BY <1>1, <2>3, <2>4
<1>2. CASE q > 11
  <2>1. r = q
    <3>1. q \in {12, 13, 14} /\ r \in 1..14  BY <1>2 DEF Newest
    <3> QED  BY <3>1 DEF ExpandOnly, Contract
  <2> QED  BY <2>1, KeepsSelf
<1>3. q <= 11 \/ q > 11  BY DEF Newest
<1> QED  BY <1>1, <1>2, <1>3

\* What code that maps these columns needs of a table.
Fits(columns, table) ==
  /\ columns \subseteq DOMAIN table
  /\ \A c \in DOMAIN table \ columns : ~table[c]

LEMMA FitsPlus ==
  ASSUME NEW columns, NEW added, NEW table,
         added \cap DOMAIN table = {}, columns = added \cup DOMAIN table
  PROVE  Fits(columns, Plus(Table({}, added), table))
<1> PICK a : a = Table({}, added)  OBVIOUS
<1>1. DOMAIN a = added  BY FreshColumns
<1>2. DOMAIN Plus(a, table) = DOMAIN a \cup DOMAIN table  BY PlusDomain
<1> QED  BY <1>1, <1>2 DEF Fits

\* The models of this release fit the newest schema.
LEMMA ModelsFit ==
  \A t \in DOMAIN Models : t \in DOMAIN TablesAt(14) /\ Fits(Models[t], TablesAt(14)[t])
<1>1. DOMAIN TablesAt(14) = (InitialNames \cup
        {"admin_events", "chat_events", "user_feedback", "user_balances", "simulators",
         "sessions"}) \ {"tool_usage", "user_balances"}
  BY SchemaAt10, Revision14
<1>2. \A t \in DOMAIN TablesAt(14) : TablesAt(14)[t] = TablesAt(10)[t]
  BY SchemaAt10, Revision14
<1>3. DOMAIN Models \subseteq DOMAIN TablesAt(14)
  BY <1>1 DEF Models, InitialNames
<1>4. \A t \in DOMAIN Models : TablesAt(14)[t] = TablesAt(10)[t]  BY <1>2, <1>3
<1>5. \A t \in InitialNames \ {"tool_calls", "signup_requests", "users"} :
        TablesAt(10)[t] = InitialTables[t]
  BY SchemaAt10
<1>6. Fits(Models["roles"], TablesAt(10)["roles"])
  <2>1. "roles" \in DOMAIN AccountTables /\ "roles" \in InitialNames \ {"tool_calls", "signup_requests", "users"}
    BY DEF AccountTables, InitialNames
  <2>2. TablesAt(10)["roles"] = AccountTables["roles"]  BY <2>1, <1>5, InitialTablesAre
  <2>3. Models["roles"] = RoleColumns  BY DEF Models
  <2>4. Fits(RoleColumns, AccountTables["roles"])  BY DEF Fits, AccountTables, RoleColumns, Table, Stamps
  <2> QED  BY <2>2, <2>3, <2>4
<1>7. Fits(Models["setup_tokens"], TablesAt(10)["setup_tokens"])
  <2>1. "setup_tokens" \in DOMAIN AccountTables /\ "setup_tokens" \in InitialNames \ {"tool_calls", "signup_requests", "users"}
    BY DEF AccountTables, InitialNames
  <2>2. TablesAt(10)["setup_tokens"] = AccountTables["setup_tokens"]  BY <2>1, <1>5, InitialTablesAre
  <2>3. Models["setup_tokens"] = SetupTokenColumns  BY DEF Models
  <2>4. Fits(SetupTokenColumns, AccountTables["setup_tokens"])  BY DEF Fits, AccountTables, SetupTokenColumns, Table, Stamps
  <2> QED  BY <2>2, <2>3, <2>4
<1>8. Fits(Models["conversations"], TablesAt(10)["conversations"])
  <2>1. "conversations" \in DOMAIN ChatTables /\ "conversations" \in InitialNames \ {"tool_calls", "signup_requests", "users"}
    BY DEF ChatTables, InitialNames
  <2>2. TablesAt(10)["conversations"] = ChatTables["conversations"]  BY <2>1, <1>5, InitialTablesAre
  <2>3. Models["conversations"] = ConversationColumns  BY DEF Models
  <2>4. Fits(ConversationColumns, ChatTables["conversations"])  BY DEF Fits, ChatTables, ConversationColumns, Table, Stamps
  <2> QED  BY <2>2, <2>3, <2>4
<1>9. Fits(Models["messages"], TablesAt(10)["messages"])
  <2>1. "messages" \in DOMAIN ChatTables /\ "messages" \in InitialNames \ {"tool_calls", "signup_requests", "users"}
    BY DEF ChatTables, InitialNames
  <2>2. TablesAt(10)["messages"] = ChatTables["messages"]  BY <2>1, <1>5, InitialTablesAre
  <2>3. Models["messages"] = MessageColumns  BY DEF Models
  <2>4. Fits(MessageColumns, ChatTables["messages"])  BY DEF Fits, ChatTables, MessageColumns, Table, Stamps
  <2> QED  BY <2>2, <2>3, <2>4
<1>10. Fits(Models["experiments"], TablesAt(10)["experiments"])
  <2>1. "experiments" \in DOMAIN ExperimentTables /\ "experiments" \in InitialNames \ {"tool_calls", "signup_requests", "users"}
    BY DEF ExperimentTables, InitialNames
  <2>2. TablesAt(10)["experiments"] = ExperimentTables["experiments"]  BY <2>1, <1>5, InitialTablesAre
  <2>3. Models["experiments"] = ExperimentColumns  BY DEF Models
  <2>4. Fits(ExperimentColumns, ExperimentTables["experiments"])  BY DEF Fits, ExperimentTables, ExperimentColumns, Table, Stamps
  <2> QED  BY <2>2, <2>3, <2>4
<1>11. Fits(Models["experiment_shares"], TablesAt(10)["experiment_shares"])
  <2>1. "experiment_shares" \in DOMAIN ExperimentTables /\ "experiment_shares" \in InitialNames \ {"tool_calls", "signup_requests", "users"}
    BY DEF ExperimentTables, InitialNames
  <2>2. TablesAt(10)["experiment_shares"] = ExperimentTables["experiment_shares"]  BY <2>1, <1>5, InitialTablesAre
  <2>3. Models["experiment_shares"] = ShareColumns  BY DEF Models
  <2>4. Fits(ShareColumns, ExperimentTables["experiment_shares"])  BY DEF Fits, ExperimentTables, ShareColumns, Table, Stamps
  <2> QED  BY <2>2, <2>3, <2>4
<1>12. Fits(Models["chat_events"], TablesAt(10)["chat_events"])
  <2>1. Models["chat_events"] = ChatEventColumns  BY DEF Models
  <2>2. Fits(ChatEventColumns, ChatEvents["chat_events"])  BY DEF Fits, ChatEvents, ChatEventColumns, Table, Stamps
  <2> QED  BY <2>1, <2>2, SchemaAt10
<1>13. Fits(Models["simulators"], TablesAt(10)["simulators"])
  <2>1. Models["simulators"] = SimulatorColumns  BY DEF Models
  <2>2. Fits(SimulatorColumns, SimulatorTable["simulators"])  BY DEF Fits, SimulatorTable, SimulatorColumns, Table, Stamps
  <2> QED  BY <2>1, <2>2, SchemaAt10
<1>14. Fits(Models["sessions"], TablesAt(10)["sessions"])
  <2>1. Models["sessions"] = SessionColumns  BY DEF Models
  <2>2. Fits(SessionColumns, SessionTable["sessions"])  BY DEF Fits, SessionTable, SessionColumns, Table, Stamps
  <2> QED  BY <2>1, <2>2, SchemaAt10
<1>15. Fits(Models["user_feedback"], TablesAt(10)["user_feedback"])
  <2>1. Models["user_feedback"] = FeedbackColumns  BY DEF Models
  <2>2. Fits(FeedbackColumns, UserFeedback["user_feedback"])  BY DEF Fits, UserFeedback, FeedbackColumns, Table, Stamps
  <2> QED  BY <2>1, <2>2, SchemaAt10
<1>16. Fits(Models["admin_events"], TablesAt(10)["admin_events"])
  <2>1. Models["admin_events"] = EventColumns  BY DEF Models
  <2>2. Fits(EventColumns, AdminEvents["admin_events"])  BY DEF Fits, AdminEvents, EventColumns, Table, Stamps
  <2> QED  BY <2>1, <2>2, SchemaAt10
<1>17. Fits(Models["users"], TablesAt(10)["users"])
  <2>1. Models["users"] = UserColumns  BY DEF Models
  <2>2. ActivityColumns \cap DOMAIN AccountTables["users"] = {}  BY DEF ActivityColumns, AccountTables, Table, Stamps
  <2>3. UserColumns = ActivityColumns \cup DOMAIN AccountTables["users"]
    BY DEF ActivityColumns, AccountTables, UserColumns, Table, Stamps
  <2>4. Fits(UserColumns, Plus(Table({}, ActivityColumns), AccountTables["users"]))
    BY <2>2, <2>3, FitsPlus
  <2> QED  BY <2>1, <2>4, SchemaAt10
<1>18. Fits(Models["signup_requests"], TablesAt(10)["signup_requests"])
  <2>1. Models["signup_requests"] = SignupColumns  BY DEF Models
  <2>2. DisclaimerColumns \cap DOMAIN AccountTables["signup_requests"] = {}  BY DEF DisclaimerColumns, AccountTables, Table, Stamps
  <2>3. SignupColumns = DisclaimerColumns \cup DOMAIN AccountTables["signup_requests"]
    BY DEF DisclaimerColumns, AccountTables, SignupColumns, Table, Stamps
  <2>4. Fits(SignupColumns, Plus(Table({}, DisclaimerColumns), AccountTables["signup_requests"]))
    BY <2>2, <2>3, FitsPlus
  <2> QED  BY <2>1, <2>4, SchemaAt10
<1>19. Fits(Models["tool_calls"], TablesAt(10)["tool_calls"])
  <2>1. Models["tool_calls"] = ToolCallColumns  BY DEF Models
  <2>2. TelemetryColumns \cap DOMAIN ChatTables["tool_calls"] = {}  BY DEF TelemetryColumns, ChatTables, Table, Stamps
  <2>3. ToolCallColumns = TelemetryColumns \cup DOMAIN ChatTables["tool_calls"]
    BY DEF TelemetryColumns, ChatTables, ToolCallColumns, Table, Stamps
  <2>4. Fits(ToolCallColumns, Plus(Table({}, TelemetryColumns), ChatTables["tool_calls"]))
    BY <2>2, <2>3, FitsPlus
  <2> QED  BY <2>1, <2>4, SchemaAt10
<1>20. DOMAIN Models =
        {"roles", "setup_tokens", "conversations", "messages", "experiments",
         "experiment_shares", "chat_events", "simulators", "sessions", "user_feedback",
         "admin_events", "users", "signup_requests", "tool_calls"}
  BY DEF Models
<1>21. \A t \in DOMAIN Models : Fits(Models[t], TablesAt(10)[t])
  BY <1>6, <1>7, <1>8, <1>9, <1>10, <1>11, <1>12, <1>13,
     <1>14, <1>15, <1>16, <1>17, <1>18, <1>19, <1>20
<1> QED  BY <1>3, <1>4, <1>21

LEMMA NewerSchemaWorks ==
  ASSUME NEW r \in 1..Newest, NEW d, d.rev \in r..Newest, ExpandOnly(r, d.rev),
         d.tables = TablesAt(d.rev)
  PROVE  Works(r, d)
<1> PICK ts : ts = d.tables  OBVIOUS
<1>1. d.rev \in 1..Newest /\ r <= d.rev  BY DEF Newest
<1>2. Keeps(ts, TablesAt(r))  BY <1>1, KeepsThrough
<1>3. CASE r = Newest
  <2>1. d.rev = 14 /\ r = 14  BY <1>1, <1>3 DEF Newest
  <2>2. ts = TablesAt(14)  BY <2>1
  <2>3. Mapped(r) = Models  BY <1>3 DEF Mapped
  <2> QED  BY <2>2, <2>3, ModelsFit DEF Works, Fits
<1>4. CASE r # Newest
  <2> PICK old : old = TablesAt(r)  OBVIOUS
  <2>1. Mapped(r) = [t \in DOMAIN old |-> DOMAIN old[t]]  BY <1>4 DEF Mapped, TablesAt
  <2>2. \A t \in DOMAIN old : t \in DOMAIN ts /\ DOMAIN old[t] \subseteq DOMAIN ts[t]
                             /\ \A c \in DOMAIN ts[t] \ DOMAIN old[t] : ~ts[t][c]
    BY <1>2 DEF Keeps
  <2> QED  BY <2>1, <2>2 DEF Works
<1> QED  BY <1>3, <1>4

-----------------------------------------------------------------------------
\* What the host is made of: the schemas that the revisions reach, the rows
\* of a table of events, what a dump holds, the objects of the store.
Schemas ==
  {d \in [tables : {TablesAt(r) : r \in 0..Newest}, roles : SUBSET (SeededRoles \cup {"other"}),
          rev : 0..Newest] :
     d.tables = TablesAt(d.rev)}
Data == [writes : 0..MaxWrites, whole : BOOLEAN]
Row == [type : Types, status : {"in_progress", "success", "failed"}, key : 0..MaxObjects]
RowTables == UNION {[ids -> Row] : ids \in SUBSET (1..MaxRuns)}
Dumps == [db : Schemas, data : Data, events : RowTables]
Objects == [dump : Dumps, bytes : Bytes, by : 1..MaxRuns]

Backup ==
  [pc : {"idle", "opened", "dumped", "uploaded"}, id : 0..MaxRuns, dump : Dumps \cup {<< >>}]
Restore ==
  [pc : {"idle", "opened", "verified", "stopped", "dropped", "loaded", "started"},
   id : 0..MaxRuns, key : 0..MaxObjects, target : {"primary", "scratch"},
   by : {"operator", "drill"}]
Drill == [pc : {"idle", "opened", "restored"}, id : 0..MaxRuns, key : 0..MaxObjects]

HostTyped ==
  /\ app \in {"up", "down", "gone"}
  /\ db \in Schemas
  /\ data \in Data
  /\ events \in RowTables
  /\ opened \in 0..MaxRuns
  /\ store \in Seq(Objects) /\ Len(store) <= MaxObjects
  /\ backup \in Backup
  /\ restore \in Restore
  /\ drill \in Drill

\* The rows that are, or may be put back: in the database, in the dump that
\* waits for its upload and in the stored ones.
AllRows ==
  {events} \cup (IF backup.pc = "dumped" THEN {backup.dump.events} ELSE {})
    \cup {store[k].dump.events : k \in DOMAIN store}

\* What a success says of the objects.
Backed(i, row, objects) ==
  /\ row.key \in DOMAIN objects
  /\ row.type = "postgres_backup" =>
       /\ objects[row.key].by = i /\ objects[row.key].bytes # "short"
       /\ objects[row.key].dump.data.whole
          \/ \E k \in DOMAIN objects : k < row.key /\ ~objects[k].dump.data.whole
  /\ row.type # "postgres_backup" => objects[row.key].bytes = "intact"
\* Rows whose ids were handed out, in which the rows of the scripts under way
\* have the type these opened them with.
RowsFit(rows, objects, ids, backing, restoring, drilling) ==
  /\ DOMAIN rows \subseteq 1..ids
  /\ backing \in DOMAIN rows => rows[backing].type = "postgres_backup"
  /\ restoring \in DOMAIN rows => rows[restoring].type = "postgres_restore"
  /\ drilling \in DOMAIN rows => rows[drilling].type = "restore_drill"
  /\ \A i \in DOMAIN rows : rows[i].status = "success" => Backed(i, rows[i], objects)

EveryRowFits == \A rows \in AllRows : RowsFit(rows, store, opened, backup.id, restore.id, drill.id)

\* A database that was dropped, with no partial object to blame, has no rows.
DroppedInv == ~data.whole /\ BackupsAreWhole => events = << >>

\* The objects that were stored before that of the backup under way.
Older == IF backup.pc = "uploaded" THEN 1..Len(store) - 1 ELSE DOMAIN store
\* The backup has dumped a database in mid-restore.
Torn ==
  /\ backup.pc \in {"dumped", "uploaded"} /\ ~backup.dump.data.whole
  /\ \A k \in Older : store[k].dump.data.whole
\* The row of the backup is in no object before its own, and a torn one has
\* lost its row for good.
BackupInv ==
  /\ backup.id \in 0..opened
  /\ backup.pc # "idle" =>
       /\ backup.id \in 1..opened
       /\ \A k \in Older : backup.id \notin DOMAIN store[k].dump.events
  /\ backup.pc \in {"dumped", "uploaded"} => backup.dump \in Dumps
  /\ Torn => backup.id \notin DOMAIN events /\ backup.id \notin DOMAIN backup.dump.events
  /\ backup.pc = "uploaded" =>
       /\ Len(store) > 0
       /\ store[Len(store)].by = backup.id /\ store[Len(store)].dump = backup.dump

RestoreInv ==
  /\ restore.id \in 0..opened
  /\ restore.pc # "idle" => restore.key \in DOMAIN store
  /\ restore.pc \notin {"idle", "opened"} => store[restore.key].bytes = "intact"
  /\ restore.target = "primary" =>
       /\ restore.pc \in {"stopped", "dropped", "loaded"} => app = "down"
       /\ restore.pc = "loaded" => data.whole \/ ~BackupsAreWhole
  /\ restore.by = "drill" /\ restore.pc # "idle" =>
       drill.pc = "opened" /\ drill.key = restore.key

DrillInv ==
  /\ drill.id \in 0..opened
  /\ drill.pc = "restored" => drill.key \in DOMAIN store /\ store[drill.key].bytes = "intact"

HostInv ==
  /\ HostTyped /\ EveryRowFits /\ DroppedInv
  /\ BackupInv /\ RestoreInv /\ DrillInv
  /\ WholeWhileServed

-----------------------------------------------------------------------------
\* A colour that serves: it answers, and no revision since its own takes away
\* what it reads.
Serves(c) ==
  /\ color[c].state = "healthy"
  /\ color[c].release <= db.rev
  /\ ExpandOnly(color[c].release, db.rev)

\* Whatever Caddy has loaded, or would load after a restart, serves.
FilesServe == ~window => Serves(upstream) /\ Serves(snippet)
WindowInv == window => FilesAgree /\ NoneRuns

\* A deploy that runs has no other script beside it.
ScriptInv(script) ==
  /\ rollback.pc = "idle" /\ script.from # script.to
  /\ script.pc \in {"started", "starting", "healthy", "migrated"} =>
       upstream = script.from /\ snippet = script.from
  /\ script.pc \in {"starting", "healthy"} => ExpandOnly(db.rev, color[script.to].release)
  /\ script.pc = "healthy" => color[script.to].state = "healthy"
  /\ script.pc \in {"migrated", "written", "reloaded", "draining"} => Serves(script.to)
  /\ script.pc \in {"written", "reloaded", "draining"} => snippet = script.to
  /\ script.pc \in {"reloaded", "draining"} => upstream = script.to
DeployInv ==
  /\ \A d \in Running : ScriptInv(deploy[d])
  /\ \A d, e \in Running : d = e
RollbackInv ==
  rollback.pc # "idle" =>
    /\ Serves(rollback.to)
    /\ rollback.pc \in {"written", "reloaded"} => snippet = rollback.to

ColorInv == app = "gone" => FilesServe /\ WindowInv /\ DeployInv /\ RollbackInv

-----------------------------------------------------------------------------
\* The schemas are closed under the revisions.
LEMMA SchemaOfRevision ==
  ASSUME NEW d, d \in Schemas
  PROVE  /\ d.rev \in 0..Newest /\ d.tables = TablesAt(d.rev)
         /\ d.roles \in SUBSET (SeededRoles \cup {"other"})
         /\ d = [tables |-> d.tables, roles |-> d.roles, rev |-> d.rev]
BY DEF Schemas

LEMMA IsASchema ==
  ASSUME NEW r \in 0..Newest, NEW roles \in SUBSET (SeededRoles \cup {"other"})
  PROVE  [tables |-> TablesAt(r), roles |-> roles, rev |-> r] \in Schemas
BY DEF Schemas

LEMMA UpOneIsASchema ==
  ASSUME NEW d, d \in Schemas, d.rev # Newest
  PROVE  UpOne(d) \in Schemas /\ UpOne(d).rev = d.rev + 1
<1> PICK r : r = d.rev + 1  OBVIOUS
<1>1. d.rev \in 0..Newest  BY SchemaOfRevision
<1>2. r \in 1..Newest /\ r \in 0..Newest /\ r - 1 = d.rev  BY <1>1 DEF Newest
<1>3. TablesUp(r, d.tables) = TablesAt(r)  BY <1>2, NextTables, SchemaOfRevision
<1>4. RolesUp(r, d.roles) \in SUBSET (SeededRoles \cup {"other"})
  <2>1. d.roles \in SUBSET (SeededRoles \cup {"other"})  BY SchemaOfRevision
  <2> QED  BY <2>1 DEF RolesUp
<1>5. UpOne(d) = [tables |-> TablesAt(r), roles |-> RolesUp(r, d.roles), rev |-> r]
  BY <1>3 DEF UpOne
<1>6. UpOne(d) \in Schemas  BY <1>2, <1>4, <1>5, IsASchema
<1> QED  BY <1>5, <1>6

LEMMA DownOneIsASchema ==
  ASSUME NEW d, d \in Schemas, d.rev # 0
  PROVE  DownOne(d) \in Schemas
<1> PICK r : r = d.rev  OBVIOUS
<1>1. r \in 0..Newest  BY SchemaOfRevision
<1>2. r \in 1..Newest /\ r - 1 \in 0..Newest  BY <1>1 DEF Newest
<1>3. TablesDown(r, d.tables) = TablesAt(r - 1)  BY <1>2, DownUndoesUp, SchemaOfRevision
<1>4. RolesDown(r, d.roles) \in SUBSET (SeededRoles \cup {"other"})
  <2>1. d.roles \in SUBSET (SeededRoles \cup {"other"})  BY SchemaOfRevision
  <2> QED  BY <2>1 DEF RolesDown
<1>5. DownOne(d) = [tables |-> TablesAt(r - 1), roles |-> RolesDown(r, d.roles), rev |-> r - 1]
  BY <1>3 DEF DownOne
<1> QED  BY <1>2, <1>4, <1>5, IsASchema

LEMMA EmptyIsASchema == Empty \in Schemas /\ Empty.rev = 0
<1>1. 0 \in 0..Newest /\ TablesAt(0) = << >>  BY NextTables DEF Newest
<1>2. Empty = [tables |-> TablesAt(0), roles |-> {}, rev |-> 0]  BY <1>1 DEF Empty
<1> QED  BY <1>1, <1>2, IsASchema

LEMMA UpgradeIsASchema ==
  ASSUME NEW d, d \in Schemas, NEW head \in 0..Newest, d.rev <= head
  PROVE  UpgradeHead(d, head) \in Schemas /\ UpgradeHead(d, head).rev = head
<1> DEFINE S == {n \in Nat : d.rev + n <= Newest =>
                   /\ UpgradeHead(d, d.rev + n) \in Schemas
                   /\ UpgradeHead(d, d.rev + n).rev = d.rev + n}
<1> PICK from : from = d.rev  OBVIOUS
<1>1. from \in Nat
  <2>1. from \in 0..Newest  BY SchemaOfRevision
  <2> QED  BY <2>1 DEF Newest
<1>2. UpgradeHead(d, from) = d  BY <1>1, UpgradeSteps
<1>3. \A h \in Nat : from <= h => UpgradeHead(d, h + 1) = UpOne(UpgradeHead(d, h))
  BY <1>1, UpgradeSteps
<1>4. 0 \in S
  <2>1. from + 0 = from  BY <1>1
  <2> QED  BY <2>1, <1>2
<1>5. \A n \in S : n + 1 \in S
  <2> SUFFICES ASSUME NEW n \in Nat, from + (n + 1) <= Newest,
                      from + n <= Newest => /\ UpgradeHead(d, from + n) \in Schemas
                                            /\ UpgradeHead(d, from + n).rev = from + n
               PROVE  /\ UpgradeHead(d, from + (n + 1)) \in Schemas
                      /\ UpgradeHead(d, from + (n + 1)).rev = from + (n + 1)
    OBVIOUS
  <2> PICK h : h = from + n  OBVIOUS
  <2>1. h \in Nat /\ from <= h /\ h + 1 = from + (n + 1) /\ h <= Newest /\ h # Newest
    BY <1>1 DEF Newest
  <2> PICK e : e = UpgradeHead(d, h)  OBVIOUS
  <2>2. e \in Schemas /\ e.rev = h  BY <2>1
  <2>3. UpgradeHead(d, h + 1) = UpOne(e)  BY <2>1, <1>3
  <2>4. UpOne(e) \in Schemas /\ UpOne(e).rev = h + 1  BY <2>1, <2>2, UpOneIsASchema
  <2> QED  BY <2>1, <2>3, <2>4
<1>6. S = Nat  BY <1>4, <1>5, Induction
<1>7. head - from \in Nat /\ from + (head - from) = head /\ head <= Newest
  BY <1>1 DEF Newest
<1> QED  BY <1>6, <1>7

LEMMA SchemaAtIsASchema == \A r \in 0..Newest : SchemaAt[r] \in Schemas /\ SchemaAt[r].rev = r
<1>1. \A r \in 0..Newest : SchemaAt[r] = UpgradeHead(Empty, r)  BY DEF SchemaAt
<1>2. \A r \in 0..Newest : 0 <= r  BY DEF Newest
<1> QED  BY <1>1, <1>2, EmptyIsASchema, UpgradeIsASchema

LEMMA NewestNat == Newest \in Nat /\ 0 \in 0..Newest /\ Newest \in 0..Newest  BY DEF Newest

-----------------------------------------------------------------------------
\* Rows that are opened, closed and looked at later.
LEMMA RowTable ==
  ASSUME NEW rows
  PROVE  rows \in RowTables <=>
           /\ DOMAIN rows \subseteq 1..MaxRuns
           /\ rows = [i \in DOMAIN rows |-> rows[i]]
           /\ \A i \in DOMAIN rows : rows[i] \in Row
BY DEF RowTables

Grows(objects, later) ==
  \A k \in DOMAIN objects : k \in DOMAIN later /\ later[k] = objects[k]

LEMMA RowsFitLater ==
  ASSUME NEW rows, NEW objects, NEW ids \in Nat, NEW backing, NEW restoring, NEW drilling,
         RowsFit(rows, objects, ids, backing, restoring, drilling),
         NEW later, Grows(objects, later), NEW more \in Nat, ids <= more,
         NEW b, b = backing \/ b \notin 1..ids,
         NEW r, r = restoring \/ r \notin 1..ids,
         NEW d, d = drilling \/ d \notin 1..ids
  PROVE  RowsFit(rows, later, more, b, r, d)
<1>1. DOMAIN rows \subseteq 1..ids  BY DEF RowsFit
<1>2. DOMAIN rows \subseteq 1..more  BY <1>1
<1>3. r \in DOMAIN rows => rows[r].type = "postgres_restore"  BY <1>1 DEF RowsFit
<1>4. d \in DOMAIN rows => rows[d].type = "restore_drill"  BY <1>1 DEF RowsFit
<1>6. b \in DOMAIN rows => rows[b].type = "postgres_backup"  BY <1>1 DEF RowsFit
<1>5. ASSUME NEW i \in DOMAIN rows, rows[i].status = "success"
      PROVE  Backed(i, rows[i], later)
  <2>1. Backed(i, rows[i], objects)  BY <1>5 DEF RowsFit
  <2> QED  BY <2>1 DEF Backed, Grows
<1> QED  BY <1>2, <1>3, <1>4, <1>5, <1>6 DEF RowsFit

LEMMA ClosedRow ==
  ASSUME NEW old \in Row, NEW status, NEW key
  PROVE  [[old EXCEPT !.status = status] EXCEPT !.key = key] =
           [type |-> old.type, status |-> status, key |-> key]
<1>1. old = [type |-> old.type, status |-> old.status, key |-> old.key]  BY DEF Row
<1> PICK t, s, k : t = old.type /\ s = old.status /\ k = old.key  OBVIOUS
<1>2. old = [type |-> t, status |-> s, key |-> k]  BY <1>1
<1>3. [old EXCEPT !.status = status] = [type |-> t, status |-> status, key |-> k]
  BY ONLY <1>2
<1>4. [[type |-> t, status |-> status, key |-> k] EXCEPT !.key = key] =
        [type |-> t, status |-> status, key |-> key]
  OBVIOUS
<1> QED  BY ONLY <1>3, <1>4, t = old.type

LEMMA ClosedRows ==
  ASSUME NEW rows \in RowTables, NEW objects, NEW ids, NEW backing, NEW restoring, NEW drilling,
         RowsFit(rows, objects, ids, backing, restoring, drilling),
         NEW id, NEW status \in {"in_progress", "success", "failed"}, NEW key \in 0..MaxObjects,
         status = "success" /\ id \in DOMAIN rows =>
           Backed(id, [type |-> rows[id].type, status |-> status, key |-> key], objects)
  PROVE  /\ Closed(rows, id, status, key) \in RowTables
         /\ RowsFit(Closed(rows, id, status, key), objects, ids, backing, restoring, drilling)
<1> PICK new : new = Closed(rows, id, status, key)  OBVIOUS
<1>1. CASE id \notin DOMAIN rows
  <2>1. new = rows  BY <1>1 DEF Closed
  <2> QED  BY <2>1
<1>2. CASE id \in DOMAIN rows
  <2>1. /\ DOMAIN rows \subseteq 1..MaxRuns
        /\ \A i \in DOMAIN rows : rows[i] \in Row
    BY RowTable
  <2> PICK row : row = [type |-> rows[id].type, status |-> status, key |-> key]  OBVIOUS
  <2>2. row \in Row /\ row.type = rows[id].type /\ row.status = status /\ row.key = key
    BY <1>2, <2>1 DEF Row
  <2>3. new = [i \in DOMAIN rows |-> IF i = id THEN row ELSE rows[i]]
    <3>1. new = [rows EXCEPT ![id].status = status, ![id].key = key]  BY <1>2 DEF Closed
    <3>2. rows[id] \in Row  BY <1>2, <2>1
    <3> PICK mid : mid = [rows EXCEPT ![id].status = status]  OBVIOUS
    <3> PICK half : half = [rows[id] EXCEPT !.status = status]  OBVIOUS
    <3>3. mid = [rows EXCEPT ![id] = half]  OBVIOUS
    <3>4. new = [mid EXCEPT ![id].key = key]  BY <3>1
    <3>5. mid[id] = half /\ DOMAIN mid = DOMAIN rows  BY <1>2, <3>3
    <3>6. [half EXCEPT !.key = key] = row  BY <3>2, ClosedRow
    <3>7. new = [mid EXCEPT ![id] = row]  BY <3>4, <3>5, <3>6
    <3> QED  BY <3>3, <3>7
  <2>4. DOMAIN new = DOMAIN rows /\ new[id] = row
        /\ \A i \in DOMAIN rows : i # id => new[i] = rows[i]
    BY <1>2, <2>3
  <2>5. new \in RowTables
    <3>1. \A i \in DOMAIN new : new[i] \in Row  BY <2>1, <2>2, <2>4
    <3>2. new = [i \in DOMAIN new |-> new[i]]  BY <2>3, <2>4
    <3> QED  BY <2>1, <2>4, <3>1, <3>2, RowTable
  <2>6. \A i \in DOMAIN rows : new[i].type = rows[i].type  BY <2>2, <2>4
  <2>7. ASSUME NEW i \in DOMAIN new, new[i].status = "success"
        PROVE  Backed(i, new[i], objects)
    <3>1. CASE i = id  BY <1>2, <2>2, <2>4, <2>7, <3>1 DEF Backed
    <3>2. CASE i # id  BY <2>4, <2>7, <3>2 DEF RowsFit
    <3> QED  BY <3>1, <3>2
  <2>8. RowsFit(new, objects, ids, backing, restoring, drilling)
    BY <2>4, <2>6, <2>7 DEF RowsFit
  <2> QED  BY <2>5, <2>8
<1> QED  BY <1>1, <1>2

\* A row is opened with an id that nobody had.
OpenRow(type) == [type |-> type, status |-> "in_progress", key |-> 0]

LEMMA OpenedRows ==
  ASSUME NEW rows \in RowTables, NEW objects, NEW ids \in Nat, ids + 1 \in 1..MaxRuns,
         NEW backing, NEW restoring, NEW drilling, RowsFit(rows, objects, ids, backing, restoring, drilling),
         NEW type \in Types,
         NEW b, (b = backing /\ b \in 0..ids) \/ (b = ids + 1 /\ type = "postgres_backup"),
         NEW r, (r = restoring /\ r \in 0..ids) \/ (r = ids + 1 /\ type = "postgres_restore"),
         NEW d, (d = drilling /\ d \in 0..ids) \/ (d = ids + 1 /\ type = "restore_drill"),
         NEW new, IsFcn(new), DOMAIN new = DOMAIN rows \cup {ids + 1},
         \A i \in DOMAIN rows : new[i] = rows[i],
         ids + 1 \notin DOMAIN rows =>
           new[ids + 1] = OpenRow(type)
  PROVE  new \in RowTables /\ RowsFit(new, objects, ids + 1, b, r, d)
<1> PICK n : n = ids + 1  OBVIOUS
<1> PICK row : row = OpenRow(type)  OBVIOUS
<1>1. DOMAIN rows \subseteq 1..ids  BY DEF RowsFit
<1>2. n \notin DOMAIN rows  BY <1>1
<1>3. /\ DOMAIN new = DOMAIN rows \cup {n} /\ new[n] = row
      /\ \A i \in DOMAIN rows : new[i] = rows[i]
  BY <1>2
<1>4. row \in Row /\ row.type = type /\ row.status = "in_progress"
  <2>1. 0 \in 0..MaxObjects  BY BackupsAssumption
  <2>2. row = [type |-> type, status |-> "in_progress", key |-> 0]  BY DEF OpenRow
  <2> QED  BY <2>1, <2>2 DEF Row
<1>5. new \in RowTables
  <2>1. DOMAIN rows \subseteq 1..MaxRuns /\ \A i \in DOMAIN rows : rows[i] \in Row  BY RowTable
  <2>2. DOMAIN new \subseteq 1..MaxRuns  BY <2>1, <1>3
  <2>3. \A i \in DOMAIN new : new[i] \in Row  BY <2>1, <1>3, <1>4
  <2>4. new = [i \in DOMAIN new |-> new[i]]  BY DEF IsFcn
  <2> QED  BY <2>2, <2>3, <2>4, RowTable
<1>6. DOMAIN new \subseteq 1..n  BY <1>1, <1>3
<1>7. r \in DOMAIN new => new[r].type = "postgres_restore"
  <2>1. CASE r = restoring /\ r \in 0..ids
    <3>1. r # n  BY <2>1
    <3> QED  BY <2>1, <3>1, <1>3 DEF RowsFit
  <2>2. CASE r = n /\ type = "postgres_restore"  BY <2>2, <1>3, <1>4
  <2> QED  BY <2>1, <2>2
<1>8. d \in DOMAIN new => new[d].type = "restore_drill"
  <2>1. CASE d = drilling /\ d \in 0..ids
    <3>1. d # n  BY <2>1
    <3> QED  BY <2>1, <3>1, <1>3 DEF RowsFit
  <2>2. CASE d = n /\ type = "restore_drill"  BY <2>2, <1>3, <1>4
  <2> QED  BY <2>1, <2>2
<1>10. b \in DOMAIN new => new[b].type = "postgres_backup"
  <2>1. CASE b = backing /\ b \in 0..ids
    <3>1. b # n  BY <2>1
    <3> QED  BY <2>1, <3>1, <1>3 DEF RowsFit
  <2>2. CASE b = n /\ type = "postgres_backup"  BY <2>2, <1>3, <1>4
  <2> QED  BY <2>1, <2>2
<1>9. ASSUME NEW i \in DOMAIN new, new[i].status = "success"
      PROVE  Backed(i, new[i], objects)
  <2>1. i \in DOMAIN rows  BY <1>3, <1>4, <1>9
  <2> QED  BY <2>1, <1>3, <1>9 DEF RowsFit
<1> QED  BY <1>5, <1>6, <1>7, <1>8, <1>9, <1>10 DEF RowsFit

-----------------------------------------------------------------------------
\* What the steps of the scripts have in common.
LEMMA RowsStay ==
  ASSUME HostTyped, EveryRowFits,
         Grows(store, store'), opened' \in Nat, opened <= opened',
         backup'.id = backup.id \/ backup'.id \notin 1..opened,
         restore'.id = restore.id \/ restore'.id \notin 1..opened,
         drill'.id = drill.id \/ drill'.id \notin 1..opened,
         \A rows \in AllRows' :
           rows \in AllRows \/ RowsFit(rows, store', opened', backup'.id, restore'.id, drill'.id)
  PROVE  EveryRowFits'
<1> SUFFICES ASSUME NEW rows \in AllRows'
             PROVE  RowsFit(rows, store', opened', backup'.id, restore'.id, drill'.id)
  BY DEF EveryRowFits
<1>1. CASE rows \in AllRows
  <2>1. RowsFit(rows, store, opened, backup.id, restore.id, drill.id)  BY <1>1 DEF EveryRowFits
  <2>2. opened \in Nat  BY BackupsAssumption DEF HostTyped
  <2> PICK b, r, d, n, s :
        b = backup'.id /\ r = restore'.id /\ d = drill'.id /\ n = opened' /\ s = store'
    OBVIOUS
  <2>3. RowsFit(rows, s, n, b, r, d)  BY <2>1, <2>2, RowsFitLater
  <2> QED  BY <2>3
<1>2. CASE RowsFit(rows, store', opened', backup'.id, restore'.id, drill'.id)  BY <1>2
<1> QED  BY <1>1, <1>2

LEMMA SameStore == ASSUME store' = store PROVE Grows(store, store')
BY DEF Grows

\* A step that writes no row: the scripts move on, or give up.
LEMMA NoRowWritten ==
  ASSUME HostTyped, EveryRowFits, UNCHANGED <<events, opened, store>>,
         backup'.pc = "dumped" => backup'.dump.events \in AllRows,
         backup'.id = backup.id \/ backup'.id = 0,
         restore'.id = restore.id \/ restore'.id = 0,
         drill'.id = drill.id \/ drill'.id = 0
  PROVE  EveryRowFits'
<1>1. opened' \in Nat /\ opened <= opened'  BY BackupsAssumption DEF HostTyped
<1>2. 0 \notin 1..opened  OBVIOUS
<1>3. AllRows' \subseteq AllRows  BY DEF AllRows
<1> QED  BY <1>1, <1>2, <1>3, SameStore, RowsStay

\* A step that closes a row at most.
LEMMA RowClosed ==
  ASSUME HostTyped, EveryRowFits, UNCHANGED <<opened, store>>,
         NEW id, NEW status \in {"in_progress", "success", "failed"}, NEW key \in 0..MaxObjects,
         events' = events \/ events' = Closed(events, id, status, key),
         status = "success" /\ id \in DOMAIN events =>
           Backed(id, [type |-> events[id].type, status |-> status, key |-> key], store),
         backup' = backup \/ (backup'.pc = "idle" /\ backup'.id = 0),
         restore'.id = restore.id \/ restore'.id = 0,
         drill'.id = drill.id \/ drill'.id = 0
  PROVE  EveryRowFits' /\ events' \in RowTables
<1>1. opened' \in Nat /\ opened <= opened' /\ opened \in Nat
  BY BackupsAssumption DEF HostTyped
<1>2. 0 \notin 1..opened  OBVIOUS
<1>3. events \in RowTables /\ RowsFit(events, store, opened, backup.id, restore.id, drill.id)
  BY DEF HostTyped, EveryRowFits, AllRows
<1>4. events' \in RowTables /\ RowsFit(events', store, opened, backup.id, restore.id, drill.id)
  <2>1. CASE events' = events  BY <2>1, <1>3
  <2>2. CASE events' = Closed(events, id, status, key)
    <3>1. /\ Closed(events, id, status, key) \in RowTables
          /\ RowsFit(Closed(events, id, status, key), store, opened, backup.id, restore.id, drill.id)
      BY <1>3, ClosedRows
    <3> QED  BY <2>2, <3>1
  <2> QED  BY <2>1, <2>2
<1>5. RowsFit(events', store', opened', backup'.id, restore'.id, drill'.id)
  <2> PICK rows, b, r, d :
        rows = events' /\ b = backup'.id /\ r = restore'.id /\ d = drill'.id
    OBVIOUS
  <2>1. Grows(store, store)  BY DEF Grows
  <2>2. RowsFit(rows, store, opened, b, r, d)
    BY <1>1, <1>2, <1>4, <2>1, RowsFitLater
  <2> QED  BY <2>2
<1>6. \A rows \in AllRows' : rows \in AllRows \/ rows = events'
  <2>1. backup'.pc = "dumped" => backup.pc = "dumped" /\ backup'.dump = backup.dump
    OBVIOUS
  <2> QED  BY <2>1 DEF AllRows
<1>7. \A rows \in AllRows' :
        rows \in AllRows \/ RowsFit(rows, store', opened', backup'.id, restore'.id, drill'.id)
  BY <1>5, <1>6
<1>8. EveryRowFits'  BY <1>1, <1>2, <1>7, SameStore, RowsStay
<1> QED  BY <1>4, <1>8

\* A step that opens a row, and a script with it.
LEMMA RowOpened ==
  ASSUME HostTyped, EveryRowFits, NEW type \in Types, Open(type), store' = store,
         backup'.pc = "dumped" => backup' = backup,
         \/ backup'.id = backup.id /\ backup.id \in 0..opened
         \/ backup'.id = opened' /\ type = "postgres_backup",
         \/ restore'.id = restore.id /\ restore.id \in 0..opened
         \/ restore'.id = opened' /\ type = "postgres_restore",
         \/ drill'.id = drill.id /\ drill.id \in 0..opened
         \/ drill'.id = opened' /\ type = "restore_drill"
  PROVE  EveryRowFits' /\ events' \in RowTables /\ opened' \in 1..MaxRuns
<1>1. opened \in Nat /\ opened' = opened + 1 /\ opened' \in 1..MaxRuns /\ MaxRuns \in Nat
  BY BackupsAssumption DEF HostTyped, Open
<1>2. events' = [i \in DOMAIN events \cup {opened + 1} |->
                   IF i \in DOMAIN events THEN events[i]
                   ELSE [type |-> type, status |-> "in_progress", key |-> 0]]
  BY DEF Open
<1>3. events \in RowTables /\ RowsFit(events, store, opened, backup.id, restore.id, drill.id)
  BY DEF HostTyped, EveryRowFits, AllRows
<1> PICK rows, n, b, r, d :
      rows = events' /\ n = opened' /\ b = backup'.id /\ r = restore'.id /\ d = drill'.id
  OBVIOUS
<1>14. \/ b = backup.id /\ b \in 0..opened
       \/ b = opened + 1 /\ type = "postgres_backup"
  BY <1>1
<1>4. \/ r = restore.id /\ r \in 0..opened
      \/ r = opened + 1 /\ type = "postgres_restore"
  BY <1>1
<1>5. \/ d = drill.id /\ d \in 0..opened
      \/ d = opened + 1 /\ type = "restore_drill"
  BY <1>1
<1>12. /\ IsFcn(rows) /\ DOMAIN rows = DOMAIN events \cup {opened + 1}
       /\ \A i \in DOMAIN events : rows[i] = events[i]
       /\ opened + 1 \notin DOMAIN events =>
            rows[opened + 1] = OpenRow(type)
  BY <1>2 DEF IsFcn, OpenRow
<1>13. opened + 1 \in 1..MaxRuns  BY <1>1
<1>6. rows \in RowTables /\ RowsFit(rows, store, opened + 1, b, r, d)
  <2> PICK objects, ids, b0, r0, d0, old :
        /\ objects = store /\ ids = opened /\ b0 = backup.id /\ r0 = restore.id
        /\ d0 = drill.id /\ old = events
    OBVIOUS
  <2>1. old \in RowTables /\ RowsFit(old, objects, ids, b0, r0, d0)  BY <1>3
  <2>7. \/ b = b0 /\ b \in 0..ids
        \/ b = ids + 1 /\ type = "postgres_backup"
    BY <1>14
  <2>2. \/ r = r0 /\ r \in 0..ids
        \/ r = ids + 1 /\ type = "postgres_restore"
    BY <1>4
  <2>3. \/ d = d0 /\ d \in 0..ids
        \/ d = ids + 1 /\ type = "restore_drill"
    BY <1>5
  <2>4. /\ IsFcn(rows) /\ DOMAIN rows = DOMAIN old \cup {ids + 1}
        /\ \A i \in DOMAIN old : rows[i] = old[i]
        /\ ids + 1 \notin DOMAIN old =>
             rows[ids + 1] = OpenRow(type)
    BY <1>12
  <2>5. ids \in Nat /\ ids + 1 \in 1..MaxRuns  BY <1>1
  <2>6. rows \in RowTables /\ RowsFit(rows, objects, ids + 1, b, r, d)
    BY ONLY <2>1, <2>7, <2>2, <2>3, <2>4, <2>5, OpenedRows, type \in Types
  <2> QED  BY <2>6
<1>7. \A other \in AllRows' : other \in AllRows \/ other = rows
  <2>1. backup'.pc = "dumped" => backup.pc = "dumped" /\ backup'.dump = backup.dump
    OBVIOUS
  <2> QED  BY <2>1 DEF AllRows
<1>8. \A other \in AllRows' :
        other \in AllRows \/ RowsFit(other, store', opened', backup'.id, restore'.id, drill'.id)
  BY <1>1, <1>6, <1>7
<1>9. /\ backup'.id = backup.id \/ backup'.id \notin 1..opened
      /\ restore'.id = restore.id \/ restore'.id \notin 1..opened
      /\ drill'.id = drill.id \/ drill'.id \notin 1..opened
  BY <1>1
<1>10. opened' \in Nat /\ opened <= opened'  BY <1>1
<1>11. EveryRowFits'  BY <1>8, <1>9, <1>10, SameStore, RowsStay
<1> QED  BY <1>1, <1>6, <1>11

LEMMA RestoreMoves ==
  ASSUME HostTyped,
         NEW pc \in {"idle", "opened", "verified", "stopped", "dropped", "loaded", "started"},
         restore' = [restore EXCEPT !.pc = pc]
  PROVE  /\ restore' \in Restore /\ restore'.pc = pc /\ restore'.id = restore.id
         /\ restore'.key = restore.key /\ restore'.target = restore.target
         /\ restore'.by = restore.by
BY DEF HostTyped, Restore

LEMMA RestoreStops ==
  ASSUME HostTyped, restore' = [restore EXCEPT !.pc = "idle", !.id = 0]
  PROVE  /\ restore' \in Restore /\ restore'.pc = "idle" /\ restore'.id = 0
         /\ restore'.key = restore.key /\ restore'.target = restore.target
         /\ restore'.by = restore.by
<1>1. 0 \in 0..MaxRuns  BY BackupsAssumption
<1> QED  BY <1>1 DEF HostTyped, Restore

LEMMA ScriptsIdle ==
  /\ NoBackup \in Backup /\ NoBackup.pc = "idle" /\ NoBackup.id = 0
  /\ NoRestore \in Restore /\ NoRestore.pc = "idle" /\ NoRestore.id = 0
  /\ NoRestore.target = "scratch" /\ NoRestore.by = "operator"
  /\ NoDrill \in Drill /\ NoDrill.pc = "idle" /\ NoDrill.id = 0 /\ NoDrill.key = 0
<1>1. 0 \in 0..MaxRuns /\ 0 \in 0..MaxObjects  BY BackupsAssumption
<1>2. /\ NoBackup = [pc |-> "idle", id |-> 0, dump |-> << >>]
      /\ NoDrill = [pc |-> "idle", id |-> 0, key |-> 0]
      /\ NoRestore = [pc |-> "idle", id |-> 0, key |-> 0, target |-> "scratch", by |-> "operator"]
  BY DEF NoBackup, NoDrill, NoRestore
<1>3. NoBackup \in Backup  BY <1>1, <1>2 DEF Backup
<1>4. NoRestore \in Restore  BY <1>1, <1>2 DEF Restore
<1>5. NoDrill \in Drill  BY <1>1, <1>2 DEF Drill
<1> QED  BY <1>2, <1>3, <1>4, <1>5

LEMMA StoreTyped ==
  ASSUME HostTyped
  PROVE  /\ Len(store) \in Nat /\ DOMAIN store = 1..Len(store)
         /\ \A k \in DOMAIN store : store[k] \in Objects /\ k \in 0..MaxObjects
<1>1. store \in Seq(Objects) /\ Len(store) <= MaxObjects  BY DEF HostTyped
<1>2. Len(store) \in Nat /\ DOMAIN store = 1..Len(store)  BY <1>1
<1>3. MaxObjects \in Nat  BY BackupsAssumption
<1>4. \A k \in DOMAIN store : k \in 0..MaxObjects  BY <1>1, <1>2, <1>3
<1> QED  BY <1>1, <1>2, <1>4

\* Closing a row takes none away and adds none.
LEMMA ClosedDomain ==
  ASSUME NEW rows, NEW id, NEW status, NEW key
  PROVE  /\ DOMAIN Closed(rows, id, status, key) = DOMAIN rows
         /\ rows = << >> => Closed(rows, id, status, key) = << >>
<1>1. DOMAIN << >> = {}  OBVIOUS
<1> QED  BY <1>1 DEF Closed

\* A step that leaves the store and what the database holds alone.
LEMMA DroppedStays ==
  ASSUME HostInv, store' = store, data'.whole = data.whole,
         events = << >> => events' = << >> \/ app = "up"
  PROVE  DroppedInv'
<1>1. BackupsAreWhole' <=> BackupsAreWhole  BY DEF BackupsAreWhole
<1> QED  BY <1>1 DEF HostInv, DroppedInv, WholeWhileServed

\* The backup waits while another script takes a step: the rows that are there
\* afterwards are new, or come from the database or a stored dump.
LEMMA BackupStays ==
  ASSUME HostInv, UNCHANGED <<backup, store>>, opened' \in Nat, opened <= opened',
         \A i \in 1..opened : i \in DOMAIN events' =>
           \/ i \in DOMAIN events
           \/ \E k \in DOMAIN store : i \in DOMAIN store[k].dump.events
  PROVE  BackupInv'
<1>1. BackupInv /\ opened \in Nat  BY BackupsAssumption DEF HostInv, HostTyped
<1>2. Older' = Older /\ Torn' = Torn  BY DEF Older, Torn
<1>3. 1..opened \subseteq 1..opened' /\ 0..opened \subseteq 0..opened'  BY <1>1
<1>4. ASSUME Torn PROVE backup.id \notin DOMAIN events'
  <2>1. /\ backup.pc # "idle" /\ backup.id \in 1..opened
        /\ backup.id \notin DOMAIN events /\ backup.id \notin DOMAIN backup.dump.events
        /\ \A k \in Older : backup.id \notin DOMAIN store[k].dump.events
    BY <1>1, <1>4 DEF BackupInv, Torn
  <2>2. ASSUME NEW k \in DOMAIN store PROVE backup.id \notin DOMAIN store[k].dump.events
    <3>1. CASE k \in Older  BY <2>1, <3>1
    <3>2. CASE k \notin Older
      <4>1. Len(store) \in Nat /\ DOMAIN store = 1..Len(store)  BY StoreTyped DEF HostInv
      <4>2. backup.pc = "uploaded" /\ k = Len(store)  BY <2>2, <3>2, <4>1 DEF Older
      <4>3. store[k].dump = backup.dump  BY <1>1, <4>2 DEF BackupInv
      <4> QED  BY <2>1, <4>3
    <3> QED  BY <3>1, <3>2
  <2> QED  BY <2>1, <2>2
<1>5. Torn' => backup'.id \notin DOMAIN events' /\ backup'.id \notin DOMAIN backup'.dump.events
  BY <1>1, <1>2, <1>4 DEF BackupInv
<1>6. /\ backup'.id \in 0..opened'
      /\ backup'.pc # "idle" =>
           /\ backup'.id \in 1..opened'
           /\ \A k \in Older' : backup'.id \notin DOMAIN store'[k].dump.events
  BY <1>1, <1>2, <1>3 DEF BackupInv
<1>7. /\ backup'.pc \in {"dumped", "uploaded"} => backup'.dump \in Dumps
      /\ backup'.pc = "uploaded" =>
           /\ Len(store') > 0
           /\ store'[Len(store')].by = backup'.id /\ store'[Len(store')].dump = backup'.dump
  BY <1>1 DEF BackupInv
<1> QED  BY <1>5, <1>6, <1>7 DEF BackupInv

\* As BackupStays, for a step that opens a row.
LEMMA BackupWaits ==
  ASSUME HostInv, UNCHANGED <<backup, store>>, NEW type, Open(type)
  PROVE  BackupInv'
<1>1. opened \in Nat /\ opened' = opened + 1  BY BackupsAssumption DEF HostInv, HostTyped, Open
<1>2. DOMAIN events' = DOMAIN events \cup {opened + 1}  BY DEF Open
<1>3. opened + 1 \notin 1..opened /\ opened' \in Nat /\ opened <= opened'  BY <1>1
<1> QED  BY <1>2, <1>3, BackupStays

LEMMA UserWritesStep ==
  ASSUME HostInv, UserWrites PROVE HostInv'
<1> USE DEF HostInv
<1> PICK w : w = data.writes + 1  OBVIOUS
<1>1. data' = [data EXCEPT !.writes = w]  BY DEF UserWrites
<1>2. data' \in Data /\ data'.whole = data.whole
  <2>1. data \in Data /\ data.writes < MaxWrites /\ MaxWrites \in Nat
    BY BackupsAssumption DEF HostTyped, UserWrites
  <2>2. w \in 0..MaxWrites  BY <2>1 DEF Data
  <2> QED  BY <1>1, <2>1, <2>2 DEF Data
<1>3. UNCHANGED <<app, db, events, opened, store, backup, restore, drill>>  BY DEF UserWrites
<1>4. HostTyped'  BY <1>2, <1>3 DEF HostTyped
<1>5. AllRows' = AllRows  BY <1>3 DEF AllRows
<1>6. EveryRowFits'  BY <1>3, <1>5 DEF EveryRowFits
<1>7. DroppedInv'  BY <1>2, <1>3, DroppedStays
<1>8. BackupInv'
  <2>1. opened' \in Nat /\ opened <= opened'  BY <1>3, BackupsAssumption DEF HostTyped
  <2> QED  BY <1>3, <2>1, BackupStays
<1>9. RestoreInv'  BY <1>2, <1>3 DEF RestoreInv, BackupsAreWhole
<1>10. DrillInv'  BY <1>3 DEF DrillInv
<1>11. WholeWhileServed'  BY <1>2, <1>3 DEF WholeWhileServed, BackupsAreWhole
<1> QED  BY <1>4, <1>6, <1>7, <1>8, <1>9, <1>10, <1>11

LEMMA BackupStartStep ==
  ASSUME HostInv, BackupStart PROVE HostInv'
<1> USE DEF HostInv
<1>1. /\ backup.pc = "idle" /\ Open("postgres_backup") /\ CliWorks
      /\ backup' = [pc |-> "opened", id |-> opened', dump |-> << >>]
      /\ UNCHANGED <<app, db, data, store, restore, drill>>
  BY DEF BackupStart, Elsewhere, Open
<1>2. "postgres_backup" \in Types  BY DEF Types
<1>3. opened \in Nat /\ opened' = opened + 1 /\ opened' \in 1..opened'
  BY <1>1, BackupsAssumption DEF Open, HostTyped
<1>4. restore.id \in 0..opened /\ drill.id \in 0..opened
  BY DEF RestoreInv, DrillInv
<1>5. EveryRowFits' /\ events' \in RowTables /\ opened' \in 1..MaxRuns
  <2>1. backup'.pc = "opened" /\ backup'.id = opened'  BY <1>1
  <2> QED  BY <1>1, <1>2, <1>4, <2>1, RowOpened
<1>6. HostTyped'
  <2>1. opened' \in 0..MaxRuns  BY <1>5
  <2>2. backup' \in Backup  BY <1>1, <2>1 DEF Backup
  <2> QED  BY <1>1, <1>5, <2>1, <2>2 DEF HostTyped
<1>7. DroppedInv'
  <2>1. app = "up"  BY <1>1 DEF CliWorks
  <2> QED  BY <1>1, <2>1, DroppedStays
<1>8. BackupInv'
  <2>1. backup'.pc = "opened" /\ backup'.id = opened'  BY <1>1
  <2>2. Older' = DOMAIN store /\ ~Torn'  BY <1>1, <2>1 DEF Older, Torn
  <2>3. ASSUME NEW k \in DOMAIN store PROVE opened' \notin DOMAIN store[k].dump.events
    <3> PICK rows : rows = store[k].dump.events  OBVIOUS
    <3>1. rows \in AllRows  BY <2>3 DEF AllRows
    <3>2. RowsFit(rows, store, opened, backup.id, restore.id, drill.id)
      BY <3>1 DEF EveryRowFits
    <3>3. DOMAIN rows \subseteq 1..opened  BY <3>2 DEF RowsFit
    <3> QED  BY <1>3, <3>3
  <2>4. opened' \in 0..opened' /\ opened' \in 1..opened'  BY <1>3
  <2> QED  BY <1>1, <2>1, <2>2, <2>3, <2>4 DEF BackupInv
<1>9. restore'.id \in 0..opened' /\ drill'.id \in 0..opened'  BY <1>1, <1>3, <1>4
<1>10. RestoreInv'  BY <1>1, <1>9 DEF RestoreInv, BackupsAreWhole
<1>11. DrillInv'  BY <1>1, <1>9 DEF DrillInv
<1>12. WholeWhileServed'  BY <1>1 DEF WholeWhileServed, BackupsAreWhole
<1> QED  BY <1>5, <1>6, <1>7, <1>8, <1>10, <1>11, <1>12

LEMMA PgDumpStep ==
  ASSUME HostInv, PgDump PROVE HostInv'
<1> USE DEF HostInv
<1>1. /\ backup.pc = "opened"
      /\ backup' = [backup EXCEPT !.pc = "dumped", !.dump = Dump]
      /\ UNCHANGED <<app, db, data, events, opened, store, restore, drill>>
  BY DEF PgDump, Elsewhere
<1> PICK dump : dump = Dump  OBVIOUS
<1>2. dump \in Dumps /\ dump.data = data /\ dump.events = events
  <2>1. dump = [db |-> db, data |-> data, events |-> events]  BY DEF Dump
  <2> QED  BY <2>1 DEF HostTyped, Dumps
<1>3. backup' \in Backup /\ backup'.pc = "dumped" /\ backup'.dump = dump /\ backup'.id = backup.id
  <2>1. backup' = [backup EXCEPT !.pc = "dumped", !.dump = dump]  BY <1>1
  <2>2. backup \in Backup  BY DEF HostTyped
  <2> QED  BY <1>2, <2>1, <2>2 DEF Backup
<1>4. HostTyped'  BY <1>1, <1>3 DEF HostTyped
<1>5. EveryRowFits'
  <2>1. backup'.dump.events \in AllRows  BY <1>2, <1>3 DEF AllRows
  <2> QED  BY <1>1, <2>1, NoRowWritten
<1>6. DroppedInv'  BY <1>1, DroppedStays
<1>7. BackupInv'
  <2>1. Older = DOMAIN store /\ Older' = DOMAIN store  BY <1>1, <1>3 DEF Older
  <2>2. ASSUME Torn' PROVE events = << >>
    <3>1. ~data.whole /\ BackupsAreWhole
      BY <1>1, <1>2, <1>3, <2>1, <2>2 DEF Torn, BackupsAreWhole
    <3> QED  BY <3>1 DEF DroppedInv
  <2>3. DOMAIN << >> = {}  OBVIOUS
  <2>4. Torn' => backup'.id \notin DOMAIN events' /\ backup'.id \notin DOMAIN backup'.dump.events
    BY <1>1, <1>2, <1>3, <2>2, <2>3
  <2> QED  BY <1>1, <1>2, <1>3, <2>1, <2>4 DEF BackupInv
<1>8. RestoreInv'  BY <1>1 DEF RestoreInv, BackupsAreWhole
<1>9. DrillInv'  BY <1>1 DEF DrillInv
<1>10. WholeWhileServed'  BY <1>1 DEF WholeWhileServed, BackupsAreWhole
<1> QED  BY <1>4, <1>5, <1>6, <1>7, <1>8, <1>9, <1>10

LEMMA UploadStep ==
  ASSUME HostInv, Upload PROVE HostInv'
<1> USE DEF HostInv
<1>1. /\ backup.pc = "dumped" /\ Len(store) < MaxObjects
      /\ backup' = [backup EXCEPT !.pc = "uploaded"]
      /\ UNCHANGED <<app, db, data, events, opened, restore, drill>>
  BY DEF Upload, Elsewhere
<1>2. PICK bytes \in Bytes :
        store' = Append(store, [dump |-> backup.dump, bytes |-> bytes, by |-> backup.id])
  BY DEF Upload
<1> PICK object : object = [dump |-> backup.dump, bytes |-> bytes, by |-> backup.id]  OBVIOUS
<1> PICK n : n = Len(store)  OBVIOUS
<1>3. object \in Objects /\ object.dump = backup.dump /\ object.by = backup.id
  <2>1. backup.id \in 1..opened /\ backup.dump \in Dumps  BY <1>1 DEF BackupInv
  <2>2. backup.id \in 1..MaxRuns
    <3>1. opened \in 0..MaxRuns /\ MaxRuns \in Nat  BY BackupsAssumption DEF HostTyped
    <3> QED  BY <2>1, <3>1
  <2> QED  BY <2>1, <2>2 DEF Objects
<1>4. n \in Nat /\ DOMAIN store = 1..n /\ store \in Seq(Objects) /\ MaxObjects \in Nat
  BY StoreTyped, BackupsAssumption DEF HostTyped
<1>5. store' = Append(store, object)  BY <1>2
<1>6. /\ store' \in Seq(Objects) /\ Len(store') = n + 1 /\ DOMAIN store' = 1..(n + 1)
      /\ store'[n + 1] = object
      /\ \A k \in 1..n : store'[k] = store[k]
  BY <1>3, <1>4, <1>5
<1>7. /\ backup' \in Backup /\ backup'.pc = "uploaded" /\ backup'.id = backup.id
      /\ backup'.dump = backup.dump
  <2>1. backup \in Backup  BY DEF HostTyped
  <2> QED  BY <1>1, <2>1 DEF Backup
<1>8. HostTyped'
  <2>1. Len(store') <= MaxObjects  BY <1>1, <1>4, <1>6
  <2> QED  BY <1>1, <1>6, <1>7, <2>1 DEF HostTyped
<1>9. Grows(store, store')
  <2>1. \A k \in 1..n : k \in 1..(n + 1)  BY <1>4
  <2> QED  BY <1>4, <1>6, <2>1 DEF Grows
<1>10. EveryRowFits'
  <2>1. \A rows \in AllRows' : rows \in AllRows
    <3> SUFFICES ASSUME NEW rows \in AllRows' PROVE rows \in AllRows  OBVIOUS
    <3>1. rows = events' \/ \E k \in DOMAIN store' : rows = store'[k].dump.events
      BY <1>7 DEF AllRows
    <3>2. CASE rows = events'  BY <1>1, <3>2 DEF AllRows
    <3>3. ASSUME NEW k \in DOMAIN store', rows = store'[k].dump.events PROVE rows \in AllRows
      <4>1. CASE k \in 1..n  BY <1>4, <1>6, <3>3, <4>1 DEF AllRows
      <4>2. CASE k \notin 1..n
        <5>1. k = n + 1  BY <1>4, <1>6, <3>3, <4>2
        <5>2. rows = backup.dump.events  BY <1>3, <1>6, <3>3, <5>1
        <5> QED  BY <1>1, <5>2 DEF AllRows
      <4> QED  BY <4>1, <4>2
    <3> QED  BY <3>1, <3>2, <3>3
  <2>2. opened' \in Nat /\ opened <= opened'  BY <1>1, BackupsAssumption DEF HostTyped
  <2>3. backup'.id = backup.id /\ restore'.id = restore.id /\ drill'.id = drill.id
    BY <1>1, <1>7
  <2> QED  BY <1>9, <2>1, <2>2, <2>3, RowsStay
<1>16. BackupsAreWhole' => BackupsAreWhole  BY <1>9 DEF BackupsAreWhole, Grows
<1>11. DroppedInv'  BY <1>1, <1>16 DEF DroppedInv
<1>12. BackupInv'
  <2>1. backup'.id \in 1..opened' /\ backup'.id \in 0..opened' /\ backup'.dump \in Dumps
    BY <1>1, <1>7 DEF BackupInv
  <2>2. Older = 1..n /\ Older' = 1..n  BY <1>1, <1>4, <1>6, <1>7 DEF Older
  <2>3. \A k \in Older' : backup'.id \notin DOMAIN store'[k].dump.events
    BY <1>1, <1>6, <1>7, <2>2 DEF BackupInv
  <2>4. Torn' => Torn  BY <1>1, <1>6, <1>7, <2>2 DEF Torn
  <2>5. Torn' => backup'.id \notin DOMAIN events' /\ backup'.id \notin DOMAIN backup'.dump.events
    BY <1>1, <1>7, <2>4 DEF BackupInv
  <2>6. Len(store') > 0 /\ store'[Len(store')] = object  BY <1>4, <1>6
  <2> QED  BY <1>3, <1>7, <2>1, <2>3, <2>5, <2>6 DEF BackupInv
<1>13. RestoreInv'
  <2> PICK k : k = restore.key  OBVIOUS
  <2>1. restore.pc # "idle" => k \in DOMAIN store' /\ store'[k] = store[k]
    BY <1>9 DEF RestoreInv, Grows
  <2> QED  BY <1>1, <1>16, <2>1 DEF RestoreInv
<1>14. DrillInv'  BY <1>1, <1>9 DEF DrillInv, Grows
<1>15. WholeWhileServed'  BY <1>1, <1>16 DEF WholeWhileServed
<1> QED  BY <1>8, <1>10, <1>11, <1>12, <1>13, <1>14, <1>15

\* The steps in which the backup ends.
LEMMA BackupEnds ==
  ASSUME HostInv, NEW status \in {"success", "failed"}, NEW key \in 0..MaxObjects,
         backup.pc # "idle",
         status = "success" =>
           /\ backup.pc = "uploaded" /\ key = Len(store) /\ store[key].bytes # "short",
         events' = events \/ events' = Closed(events, backup.id, status, key),
         backup' = NoBackup,
         UNCHANGED <<app, db, data, opened, store, restore, drill>>
  PROVE  HostInv'
<1> USE DEF HostInv
<1>1. backup'.pc = "idle" /\ backup'.id = 0 /\ backup' \in Backup  BY ScriptsIdle
<1>2. EveryRowFits' /\ events' \in RowTables
  <2> PICK id : id = backup.id  OBVIOUS
  <2>1. ASSUME status = "success", id \in DOMAIN events
        PROVE  Backed(id, [type |-> events[id].type, status |-> status, key |-> key], store)
    <3>1. RowsFit(events, store, opened, backup.id, restore.id, drill.id)
      BY DEF EveryRowFits, AllRows
    <3>2. events[id].type = "postgres_backup"  BY <2>1, <3>1 DEF RowsFit
    <3>3. Len(store) \in Nat /\ DOMAIN store = 1..Len(store)  BY StoreTyped
    <3>4. key \in DOMAIN store /\ store[key].by = id /\ store[key].dump = backup.dump
          /\ store[key].bytes # "short"
      BY <2>1, <3>3 DEF BackupInv
    <3>5. ~Torn  BY <2>1 DEF BackupInv
    <3>6. store[key].dump.data.whole
            \/ \E k \in DOMAIN store : k < key /\ ~store[k].dump.data.whole
      <4>1. backup.pc = "uploaded" /\ Older = 1..key - 1  BY <2>1 DEF Older
      <4>2. \A k \in 1..key - 1 : k \in DOMAIN store /\ k < key  BY <2>1, <3>3
      <4> QED  BY <3>4, <3>5, <4>1, <4>2 DEF Torn
    <3> PICK t : t = events[id].type  OBVIOUS
    <3>7. Backed(id, [type |-> t, status |-> status, key |-> key], store)
      BY <3>2, <3>4, <3>6 DEF Backed
    <3> QED  BY <3>7
  <2>2. status \in {"in_progress", "success", "failed"}  OBVIOUS
  <2> QED  BY <1>1, <2>1, <2>2, RowClosed
<1>3. HostTyped'  BY <1>1, <1>2 DEF HostTyped
<1>4. DroppedInv'
  <2>1. events = << >> => events' = << >>  BY ClosedDomain
  <2> QED  BY <2>1, DroppedStays
<1>5. BackupInv'
  <2>1. 0 \in 0..opened'  BY BackupsAssumption DEF HostTyped
  <2> QED  BY <1>1, <2>1 DEF BackupInv, Torn
<1>6. RestoreInv'  BY DEF RestoreInv, BackupsAreWhole
<1>7. DrillInv'  BY DEF DrillInv
<1>8. WholeWhileServed'  BY DEF WholeWhileServed, BackupsAreWhole
<1> QED  BY <1>2, <1>3, <1>4, <1>5, <1>6, <1>7, <1>8

LEMMA VerifyUploadStep ==
  ASSUME HostInv, VerifyUpload PROVE HostInv'
<1> PICK key : key = Len(store)  OBVIOUS
<1> PICK status : status = IF store[key].bytes # "short" THEN "success" ELSE "failed"  OBVIOUS
<1>1. /\ backup.pc = "uploaded" /\ events' = Closed(events, backup.id, status, key)
      /\ backup' = NoBackup
      /\ UNCHANGED <<app, db, data, opened, store, restore, drill>>
  BY DEF VerifyUpload, Elsewhere
<1>2. key > 0   BY <1>1 DEF HostInv, BackupInv
<1>3. key \in DOMAIN store /\ key \in 0..MaxObjects
  <2>1. Len(store) \in Nat /\ DOMAIN store = 1..Len(store)
        /\ \A k \in DOMAIN store : k \in 0..MaxObjects
    BY StoreTyped DEF HostInv
  <2> QED  BY <1>2, <2>1
<1>4. status \in {"success", "failed"} /\ (status = "success" => store[key].bytes # "short")
  OBVIOUS
<1>5. backup.pc # "idle"  BY <1>1
<1> QED  BY <1>1, <1>2, <1>3, <1>4, <1>5, BackupEnds

LEMMA BackupFailsStep ==
  ASSUME HostInv, BackupFails PROVE HostInv'
<1>1. /\ backup.pc # "idle" /\ events' = Closed(events, backup.id, "failed", 0)
      /\ backup' = NoBackup
      /\ UNCHANGED <<app, db, data, opened, store, restore, drill>>
  BY DEF BackupFails, Elsewhere
<1>2. 0 \in 0..MaxObjects  BY BackupsAssumption
<1>3. "failed" \in {"success", "failed"} /\ "failed" # "success"  OBVIOUS
<1> QED  BY <1>1, <1>2, <1>3, BackupEnds

LEMMA RestoreStarts ==
  ASSUME HostInv, NEW target \in {"primary", "scratch"}, NEW key \in DOMAIN store,
         NEW by \in {"operator", "drill"}, RestoreStart(target, key, by),
         drill' \in Drill, drill'.id = drill.id, drill'.pc = drill.pc,
         drill'.key = drill.key \/ drill.pc # "restored",
         by = "drill" => drill.pc = "opened" /\ drill'.key = key
  PROVE  HostInv'
<1> USE DEF HostInv
<1>1. /\ restore.pc = "idle" /\ Open("postgres_restore")
      /\ restore' = [pc |-> "opened", id |-> opened', key |-> key, target |-> target, by |-> by]
      /\ UNCHANGED <<app, db, data, store, backup>>
  BY DEF RestoreStart, Elsewhere
<1>2. "postgres_restore" \in Types  BY DEF Types
<1>3. /\ restore'.pc = "opened" /\ restore'.id = opened' /\ restore'.key = key
      /\ restore'.target = target /\ restore'.by = by
  BY <1>1
<1>4. opened \in Nat /\ opened' = opened + 1 /\ opened' \in 0..opened'
  BY <1>1, BackupsAssumption DEF Open, HostTyped
<1>5. EveryRowFits' /\ events' \in RowTables /\ opened' \in 1..MaxRuns
  <2>1. drill.id \in 0..opened /\ backup.id \in 0..opened  BY DEF DrillInv, BackupInv
  <2> QED  BY <1>1, <1>2, <1>3, <2>1, RowOpened
<1>6. HostTyped'
  <2>1. opened' \in 0..MaxRuns  BY <1>5
  <2>2. key \in 0..MaxObjects  BY StoreTyped
  <2>3. restore' \in Restore  BY <1>1, <2>1, <2>2 DEF Restore
  <2> QED  BY <1>1, <1>5, <2>1, <2>3 DEF HostTyped
<1>7. DroppedInv'
  <2>1. app = "up"  BY <1>1 DEF CliWorks, Open
  <2> QED  BY <1>1, <2>1, DroppedStays
<1>8. BackupInv'  BY <1>1, BackupWaits
<1>9. RestoreInv'  BY <1>1, <1>3, <1>4 DEF RestoreInv
<1>10. DrillInv'
  <2>1. drill'.id \in 0..opened'  BY <1>4 DEF DrillInv
  <2> QED  BY <1>1, <2>1 DEF DrillInv
<1>11. WholeWhileServed'  BY <1>1 DEF WholeWhileServed, BackupsAreWhole
<1> QED  BY <1>5, <1>6, <1>7, <1>8, <1>9, <1>10, <1>11

LEMMA RestoreByHandStep ==
  ASSUME HostInv, RestoreByHand PROVE HostInv'
<1>1. PICK key \in 1..Len(store) : RestoreStart("primary", key, "operator")
  BY DEF RestoreByHand
<1>2. key \in DOMAIN store  BY StoreTyped DEF HostInv
<1>3. drill' = drill /\ drill \in Drill  BY DEF RestoreByHand, HostInv, HostTyped
<1>4. "primary" \in {"primary", "scratch"} /\ "operator" \in {"operator", "drill"}
      /\ "operator" # "drill"
  OBVIOUS
<1> QED  BY <1>1, <1>2, <1>3, <1>4, RestoreStarts

LEMMA DrillRestoresStep ==
  ASSUME HostInv, DrillRestores PROVE HostInv'
<1> PICK key : key = Len(store)  OBVIOUS
<1>1. /\ drill.pc = "opened" /\ store # << >>
      /\ RestoreStart("scratch", key, "drill")
      /\ drill' = [drill EXCEPT !.key = key]
  BY DEF DrillRestores
<1>2. key \in DOMAIN store /\ key \in 0..MaxObjects
  <2>1. Len(store) \in Nat /\ DOMAIN store = 1..Len(store)
        /\ \A k \in DOMAIN store : k \in 0..MaxObjects
    BY StoreTyped DEF HostInv
  <2>2. Len(store) # 0
    <3>1. store \in Seq(Objects)  BY DEF HostInv, HostTyped
    <3> QED  BY <1>1, <3>1
  <2> QED  BY <2>1, <2>2
<1>3. drill' \in Drill /\ drill'.id = drill.id /\ drill'.pc = drill.pc /\ drill'.key = key
  <2>1. drill \in Drill  BY DEF HostInv, HostTyped
  <2> QED  BY <1>1, <1>2, <2>1 DEF Drill
<1>4. "scratch" \in {"primary", "scratch"} /\ "drill" \in {"operator", "drill"}
      /\ "opened" # "restored"
  OBVIOUS
<1> QED  BY <1>1, <1>2, <1>3, <1>4, RestoreStarts

\* The steps of a restore that write neither a row nor the database.
LEMMA RestoreAdvances ==
  ASSUME HostInv,
         NEW pc \in {"verified", "stopped", "started"},
         restore' = [restore EXCEPT !.pc = pc],
         UNCHANGED <<db, data, events, opened, store, backup, drill>>,
         app' \in {"up", "down", "gone"},
         app' = "up" => data.whole \/ ~BackupsAreWhole,
         restore.pc # "idle", store[restore.key].bytes = "intact",
         restore.target = "primary" /\ pc = "stopped" => app' = "down"
  PROVE  HostInv'
<1> USE DEF HostInv
<1>1. /\ restore' \in Restore /\ restore'.pc = pc /\ restore'.id = restore.id
      /\ restore'.key = restore.key /\ restore'.target = restore.target
      /\ restore'.by = restore.by
  BY RestoreMoves
<1>2. HostTyped'  BY <1>1 DEF HostTyped
<1>3. EveryRowFits'
  <2>1. backup'.pc = "dumped" => backup'.dump.events \in AllRows  BY DEF AllRows
  <2> QED  BY <1>1, <2>1, NoRowWritten
<1>4. DroppedInv'  BY DroppedStays
<1>5. BackupInv'
  <2>1. opened' \in Nat /\ opened <= opened'  BY BackupsAssumption DEF HostTyped
  <2> QED  BY <2>1, BackupStays
<1>6. RestoreInv'  BY <1>1 DEF RestoreInv
<1>7. DrillInv'  BY DEF DrillInv
<1>8. WholeWhileServed'  BY DEF WholeWhileServed, BackupsAreWhole
<1> QED  BY <1>2, <1>3, <1>4, <1>5, <1>6, <1>7, <1>8

LEMMA VerifyDownloadStep ==
  ASSUME HostInv, VerifyDownload PROVE HostInv'
<1>1. /\ restore.pc = "opened" /\ store[restore.key].bytes = "intact"
      /\ restore' = [restore EXCEPT !.pc = "verified"]
      /\ UNCHANGED <<app, db, data, events, opened, store, backup, drill>>
  BY DEF VerifyDownload, Elsewhere
<1>2. app' \in {"up", "down", "gone"} /\ (app' = "up" => data.whole \/ ~BackupsAreWhole)
  BY <1>1 DEF HostInv, HostTyped, WholeWhileServed
<1>3. "verified" \in {"verified", "stopped", "started"} /\ "verified" # "stopped"  OBVIOUS
<1> QED  BY <1>1, <1>2, <1>3, RestoreAdvances

LEMMA StopAppStep ==
  ASSUME HostInv, StopApp PROVE HostInv'
<1>1. /\ restore.pc = "verified"
      /\ app' = IF restore.target = "primary" THEN "down" ELSE app
      /\ restore' = [restore EXCEPT !.pc = "stopped"]
      /\ UNCHANGED <<db, data, events, opened, store, backup, drill>>
  BY DEF StopApp
<1>2. app' \in {"up", "down", "gone"} /\ (app' = "up" => data.whole \/ ~BackupsAreWhole)
  BY <1>1 DEF HostInv, HostTyped, WholeWhileServed
<1>3. store[restore.key].bytes = "intact"  BY <1>1 DEF HostInv, RestoreInv
<1>4. "stopped" \in {"verified", "stopped", "started"}  OBVIOUS
<1> QED  BY <1>1, <1>2, <1>3, <1>4, RestoreAdvances

LEMMA StartAppStep ==
  ASSUME HostInv, StartApp PROVE HostInv'
<1>1. /\ restore.pc = "loaded"
      /\ app' = IF restore.target = "primary" THEN "up" ELSE app
      /\ restore' = [restore EXCEPT !.pc = "started"]
      /\ UNCHANGED <<db, data, events, opened, store, backup, drill>>
  BY DEF StartApp
<1>2. app' \in {"up", "down", "gone"} /\ (app' = "up" => data.whole \/ ~BackupsAreWhole)
  BY <1>1 DEF HostInv, HostTyped, WholeWhileServed, RestoreInv
<1>3. store[restore.key].bytes = "intact"  BY <1>1 DEF HostInv, RestoreInv
<1>4. "started" \in {"verified", "stopped", "started"} /\ "started" # "stopped"  OBVIOUS
<1> QED  BY <1>1, <1>2, <1>3, <1>4, RestoreAdvances

LEMMA NoRows == << >> \in RowTables
<1>1. DOMAIN << >> = {}  OBVIOUS
<1>2. << >> = [i \in DOMAIN << >> |-> << >>[i]]  BY <1>1
<1> QED  BY <1>1, <1>2, RowTable

LEMMA DropDatabaseStep ==
  ASSUME HostInv, DropDatabase PROVE HostInv'
<1> USE DEF HostInv
<1>1. /\ restore.pc = "stopped" /\ restore' = [restore EXCEPT !.pc = "dropped"]
      /\ UNCHANGED <<app, opened, store, backup, drill>>
  BY DEF DropDatabase
<1>2. \/ /\ restore.target = "primary"
         /\ db' = Empty /\ data' = [writes |-> 0, whole |-> FALSE] /\ events' = << >>
      \/ restore.target # "primary" /\ UNCHANGED <<db, data, events>>
  BY DEF DropDatabase
<1>3. /\ restore' \in Restore /\ restore'.pc = "dropped" /\ restore'.id = restore.id
      /\ restore'.key = restore.key /\ restore'.target = restore.target
      /\ restore'.by = restore.by
  <2>1. "dropped" \in {"idle", "opened", "verified", "stopped", "dropped", "loaded", "started"}
    OBVIOUS
  <2> QED  BY <1>1, <2>1, RestoreMoves
<1>4. HostTyped'
  <2>1. [writes |-> 0, whole |-> FALSE] \in Data
    <3>1. 0 \in 0..MaxWrites  BY BackupsAssumption
    <3> QED  BY <3>1 DEF Data
  <2>2. db' \in Schemas /\ data' \in Data /\ events' \in RowTables
    BY <1>2, <2>1, NoRows, EmptyIsASchema DEF HostTyped
  <2> QED  BY <1>1, <1>3, <2>2 DEF HostTyped
<1>5. EveryRowFits'
  <2>1. \A rows \in AllRows' : rows \in AllRows \/ rows = << >>
    BY <1>1, <1>2 DEF AllRows
  <2>2. \A b, r, d, n, s : RowsFit(<< >>, s, n, b, r, d)
    <3>1. DOMAIN << >> = {}  OBVIOUS
    <3> QED  BY <3>1 DEF RowsFit
  <2>3. opened' \in Nat /\ opened <= opened'  BY <1>1, BackupsAssumption DEF HostTyped
  <2>4. \A rows \in AllRows' :
          rows \in AllRows \/ RowsFit(rows, store', opened', backup'.id, restore'.id, drill'.id)
    BY <2>1, <2>2
  <2> QED  BY <1>1, <1>3, <2>3, <2>4, SameStore, RowsStay
<1>6. DroppedInv'
  <2>1. CASE events' = << >>  BY <2>1 DEF DroppedInv
  <2>2. CASE UNCHANGED <<db, data, events>>  BY <1>1, <2>2, DroppedStays
  <2> QED  BY <1>2, <2>1, <2>2
<1>7. BackupInv'
  <2>1. DOMAIN << >> = {}  OBVIOUS
  <2>2. \A i : i \in DOMAIN events' => i \in DOMAIN events  BY <1>2, <2>1
  <2>3. opened' \in Nat /\ opened <= opened'  BY <1>1, BackupsAssumption DEF HostTyped
  <2> QED  BY <1>1, <2>2, <2>3, BackupStays
<1>8. RestoreInv'  BY <1>1, <1>3 DEF RestoreInv
<1>9. DrillInv'  BY <1>1 DEF DrillInv
<1>10. WholeWhileServed'
  <2>1. restore.target = "primary" => app = "down"  BY <1>1 DEF RestoreInv
  <2> QED  BY <1>1, <1>2, <2>1 DEF WholeWhileServed, BackupsAreWhole
<1> QED  BY <1>4, <1>5, <1>6, <1>7, <1>8, <1>9, <1>10

LEMMA PgRestoreStep ==
  ASSUME HostInv, PgRestore PROVE HostInv'
<1> USE DEF HostInv
<1> PICK dump : dump = store[restore.key].dump  OBVIOUS
<1>1. /\ restore.pc = "dropped" /\ restore' = [restore EXCEPT !.pc = "loaded"]
      /\ UNCHANGED <<app, opened, store, backup, drill>>
  BY DEF PgRestore
<1>2. \/ /\ restore.target = "primary"
         /\ db' = dump.db /\ data' = dump.data /\ events' = dump.events
      \/ restore.target # "primary" /\ UNCHANGED <<db, data, events>>
  BY DEF PgRestore
<1>3. /\ restore' \in Restore /\ restore'.pc = "loaded" /\ restore'.id = restore.id
      /\ restore'.key = restore.key /\ restore'.target = restore.target
      /\ restore'.by = restore.by
  <2>1. "loaded" \in {"idle", "opened", "verified", "stopped", "dropped", "loaded", "started"}
    OBVIOUS
  <2> QED  BY <1>1, <2>1, RestoreMoves
<1>4. restore.key \in DOMAIN store /\ dump \in Dumps
  <2>1. restore.key \in DOMAIN store  BY <1>1 DEF RestoreInv
  <2>2. store[restore.key] \in Objects  BY <2>1, StoreTyped
  <2> QED  BY <2>1, <2>2 DEF Objects
<1>12. BackupsAreWhole => dump.data.whole  BY <1>4 DEF BackupsAreWhole
<1>13. BackupsAreWhole' <=> BackupsAreWhole  BY <1>1 DEF BackupsAreWhole
<1>5. HostTyped'
  <2>1. dump.db \in Schemas /\ dump.data \in Data /\ dump.events \in RowTables
    BY <1>4 DEF Dumps
  <2>2. db' \in Schemas /\ data' \in Data /\ events' \in RowTables
    BY <1>2, <2>1 DEF HostTyped
  <2> QED  BY <1>1, <1>3, <2>2 DEF HostTyped
<1>6. EveryRowFits'
  <2>1. dump.events \in AllRows  BY <1>4 DEF AllRows
  <2>2. events' \in AllRows  BY <1>2, <2>1 DEF AllRows
  <2>3. \A rows \in AllRows' : rows \in AllRows  BY <1>1, <2>2 DEF AllRows
  <2>4. opened' \in Nat /\ opened <= opened'  BY <1>1, BackupsAssumption DEF HostTyped
  <2> QED  BY <1>1, <1>3, <2>3, <2>4, SameStore, RowsStay
<1>7. DroppedInv'
  <2>1. CASE restore.target = "primary"  BY <1>2, <1>12, <1>13, <2>1 DEF DroppedInv
  <2>2. CASE restore.target # "primary"  BY <1>1, <1>2, <2>2, DroppedStays
  <2> QED  BY <2>1, <2>2
<1>8. BackupInv'
  <2>1. \A i : i \in DOMAIN events' =>
          \/ i \in DOMAIN events
          \/ \E k \in DOMAIN store : i \in DOMAIN store[k].dump.events
    BY <1>2, <1>4
  <2>2. opened' \in Nat /\ opened <= opened'  BY <1>1, BackupsAssumption DEF HostTyped
  <2> QED  BY <1>1, <2>1, <2>2, BackupStays
<1>9. RestoreInv'
  <2>1. restore.target = "primary" => data'.whole \/ ~BackupsAreWhole'  BY <1>2, <1>12, <1>13
  <2> QED  BY <1>1, <1>3, <2>1 DEF RestoreInv
<1>10. DrillInv'  BY <1>1 DEF DrillInv
<1>11. WholeWhileServed'
  <2>1. restore.target = "primary" => app = "down"  BY <1>1 DEF RestoreInv
  <2> QED  BY <1>1, <1>2, <1>13, <2>1 DEF WholeWhileServed
<1> QED  BY <1>5, <1>6, <1>7, <1>8, <1>9, <1>10, <1>11

\* The steps in which the restore ends.
LEMMA RestoreIsOver ==
  ASSUME HostInv, restore.pc # "idle",
         NEW status \in {"success", "failed"}, RestoreEnds(status),
         status = "success" => restore.pc = "started",
         db' \in Schemas, UNCHANGED <<app, data, opened, store, backup>>,
         drill' \in Drill, drill'.id = drill.id, drill'.key = drill.key,
         drill'.pc = drill.pc \/ (status = "success" /\ restore.by = "drill")
  PROVE  HostInv'
<1> USE DEF HostInv
<1> PICK id, key : id = restore.id /\ key = restore.key  OBVIOUS
<1>1. /\ restore' = [restore EXCEPT !.pc = "idle", !.id = 0]
      /\ events' = events \/ events' = Closed(events, id, status, key)
  BY DEF RestoreEnds, close_via_cli
<1>2. /\ restore' \in Restore /\ restore'.pc = "idle" /\ restore'.id = 0
      /\ restore'.key = restore.key /\ restore'.target = restore.target
      /\ restore'.by = restore.by
  BY <1>1, RestoreStops
<1>3. key \in DOMAIN store /\ key \in 0..MaxObjects
      /\ (status = "success" => store[key].bytes = "intact")
  <2>1. key \in DOMAIN store  BY DEF RestoreInv
  <2>2. key \in 0..MaxObjects  BY <2>1, StoreTyped
  <2>3. status = "success" => store[key].bytes = "intact"  BY DEF RestoreInv
  <2> QED  BY <2>1, <2>2, <2>3
<1>4. id \in DOMAIN events => events[id].type = "postgres_restore"
  <2>1. RowsFit(events, store, opened, backup.id, restore.id, drill.id)  BY DEF EveryRowFits, AllRows
  <2> QED  BY <2>1 DEF RowsFit
<1>5. EveryRowFits' /\ events' \in RowTables
  <2>1. status \in {"in_progress", "success", "failed"}  OBVIOUS
  <2>2. status = "success" /\ id \in DOMAIN events =>
          Backed(id, [type |-> events[id].type, status |-> status, key |-> key], store)
    BY <1>3, <1>4 DEF Backed
  <2> QED  BY <1>1, <1>2, <1>3, <2>1, <2>2, RowClosed
<1>6. HostTyped'  BY <1>2, <1>5 DEF HostTyped
<1>7. DroppedInv'
  <2>1. events = << >> => events' = << >>  BY <1>1, ClosedDomain
  <2> QED  BY <2>1, DroppedStays
<1>8. BackupInv'
  <2>1. DOMAIN events' = DOMAIN events  BY <1>1, ClosedDomain
  <2>2. opened' \in Nat /\ opened <= opened'  BY BackupsAssumption DEF HostTyped
  <2> QED  BY <2>1, <2>2, BackupStays
<1>9. RestoreInv'
  <2>1. 0 \in 0..opened'  BY BackupsAssumption DEF HostTyped
  <2> QED  BY <1>2, <2>1 DEF RestoreInv
<1>10. DrillInv'
  <2>1. status = "success" /\ restore.by = "drill" => drill.key = key  BY DEF RestoreInv
  <2> QED  BY <1>3, <2>1 DEF DrillInv
<1>11. WholeWhileServed'  BY DEF WholeWhileServed, BackupsAreWhole
<1> QED  BY <1>5, <1>6, <1>7, <1>8, <1>9, <1>10, <1>11

LEMMA SmokeTestStep ==
  ASSUME HostInv, SmokeTest PROVE HostInv'
<1>1. /\ restore.pc = "started"
      /\ db' = IF restore.target = "primary" THEN UpgradeHead(db, Newest) ELSE db
      /\ RestoreEnds("success")
      /\ IF restore.by = "drill" THEN drill' = [drill EXCEPT !.pc = "restored"]
                                 ELSE drill' = drill
      /\ UNCHANGED <<app, data, opened, store, backup>>
  BY DEF SmokeTest
<1>2. db' \in Schemas
  <2>1. db \in Schemas  BY DEF HostInv, HostTyped
  <2>2. db.rev <= Newest  BY <2>1, SchemaOfRevision DEF Newest
  <2>3. UpgradeHead(db, Newest) \in Schemas  BY <2>1, <2>2, NewestNat, UpgradeIsASchema
  <2> QED  BY <1>1, <2>1, <2>3
<1>3. /\ drill' \in Drill /\ drill'.id = drill.id /\ drill'.key = drill.key
      /\ drill'.pc = drill.pc \/ restore.by = "drill"
  <2>1. drill \in Drill  BY DEF HostInv, HostTyped
  <2>2. CASE restore.by = "drill"
    <3>1. drill' = [drill EXCEPT !.pc = "restored"]  BY <1>1, <2>2
    <3> QED  BY <2>1, <2>2, <3>1 DEF Drill
  <2>3. CASE restore.by # "drill"  BY <1>1, <2>1, <2>3
  <2> QED  BY <2>2, <2>3
<1>4. "success" \in {"success", "failed"} /\ restore.pc # "idle"  BY <1>1
<1> QED  BY <1>1, <1>2, <1>3, <1>4, RestoreIsOver

LEMMA RestoreFailsStep ==
  ASSUME HostInv, RestoreFails PROVE HostInv'
<1>1. /\ restore.pc # "idle" /\ RestoreEnds("failed")
      /\ UNCHANGED <<app, db, data, opened, store, backup, drill>>
  BY DEF RestoreFails, Elsewhere
<1>2. db' \in Schemas /\ drill' \in Drill  BY <1>1 DEF HostInv, HostTyped
<1>3. "failed" \in {"success", "failed"} /\ "failed" # "success"  OBVIOUS
<1> QED  BY <1>1, <1>2, <1>3, RestoreIsOver

LEMMA DrillStartStep ==
  ASSUME HostInv, DrillStart PROVE HostInv'
<1> USE DEF HostInv
<1>1. /\ drill.pc = "idle" /\ Open("restore_drill")
      /\ drill' = [pc |-> "opened", id |-> opened', key |-> 0]
      /\ UNCHANGED <<app, db, data, store, backup, restore>>
  BY DEF DrillStart, Elsewhere
<1>2. "restore_drill" \in Types  BY DEF Types
<1>3. drill'.pc = "opened" /\ drill'.id = opened'  BY <1>1
<1>4. opened \in Nat /\ opened' = opened + 1 /\ opened' \in 0..opened'
  BY <1>1, BackupsAssumption DEF Open, HostTyped
<1>5. EveryRowFits' /\ events' \in RowTables /\ opened' \in 1..MaxRuns
  <2>1. restore.id \in 0..opened /\ backup.id \in 0..opened  BY DEF RestoreInv, BackupInv
  <2> QED  BY <1>1, <1>2, <1>3, <2>1, RowOpened
<1>6. HostTyped'
  <2>1. opened' \in 0..MaxRuns  BY <1>5
  <2>2. 0 \in 0..MaxObjects  BY BackupsAssumption
  <2>3. drill' \in Drill  BY <1>1, <2>1, <2>2 DEF Drill
  <2> QED  BY <1>1, <1>5, <2>1, <2>3 DEF HostTyped
<1>7. DroppedInv'
  <2>1. app = "up"  BY <1>1 DEF CliWorks, Open
  <2> QED  BY <1>1, <2>1, DroppedStays
<1>8. BackupInv'  BY <1>1, BackupWaits
<1>9. RestoreInv'
  <2>1. restore'.id \in 0..opened'  BY <1>1, <1>4 DEF RestoreInv
  <2>2. ~(restore.by = "drill" /\ restore.pc # "idle")  BY <1>1 DEF RestoreInv
  <2> QED  BY <1>1, <2>1, <2>2 DEF RestoreInv, BackupsAreWhole
<1>10. DrillInv'  BY <1>3, <1>4 DEF DrillInv
<1>11. WholeWhileServed'  BY <1>1 DEF WholeWhileServed, BackupsAreWhole
<1> QED  BY <1>5, <1>6, <1>7, <1>8, <1>9, <1>10, <1>11

\* The steps in which the drill ends.
LEMMA DrillEnds ==
  ASSUME HostInv, NEW status \in {"success", "failed"}, NEW key \in 0..MaxObjects,
         status = "success" => key \in DOMAIN store /\ store[key].bytes = "intact",
         events' = events \/ events' = Closed(events, drill.id, status, key),
         drill' = NoDrill,
         drill.pc = "opened" => restore.pc = "idle" \/ restore.by = "operator",
         UNCHANGED <<app, db, data, opened, store, backup, restore>>
  PROVE  HostInv'
<1> USE DEF HostInv
<1>1. drill'.pc = "idle" /\ drill'.id = 0 /\ drill' \in Drill  BY ScriptsIdle
<1>2. EveryRowFits' /\ events' \in RowTables
  <2> PICK id : id = drill.id  OBVIOUS
  <2>1. RowsFit(events, store, opened, backup.id, restore.id, drill.id)  BY DEF EveryRowFits, AllRows
  <2>2. id \in DOMAIN events => events[id].type = "restore_drill"  BY <2>1 DEF RowsFit
  <2>3. status = "success" /\ id \in DOMAIN events =>
          Backed(id, [type |-> events[id].type, status |-> status, key |-> key], store)
    BY <2>2 DEF Backed
  <2>4. status \in {"in_progress", "success", "failed"}  OBVIOUS
  <2> QED  BY <1>1, <2>3, <2>4, RowClosed
<1>3. HostTyped'  BY <1>1, <1>2 DEF HostTyped
<1>4. DroppedInv'
  <2>1. events = << >> => events' = << >>  BY ClosedDomain
  <2> QED  BY <2>1, DroppedStays
<1>5. BackupInv'
  <2>1. DOMAIN events' = DOMAIN events  BY ClosedDomain
  <2>2. opened' \in Nat /\ opened <= opened'  BY BackupsAssumption DEF HostTyped
  <2> QED  BY <2>1, <2>2, BackupStays
<1>6. RestoreInv'
  <2>1. ~(restore.by = "drill" /\ restore.pc # "idle")
    <3>1. restore.by = "operator" => restore.by # "drill"  OBVIOUS
    <3> QED  BY <3>1 DEF RestoreInv
  <2> QED  BY <2>1 DEF RestoreInv, BackupsAreWhole
<1>7. DrillInv'
  <2>1. 0 \in 0..opened'  BY BackupsAssumption DEF HostTyped
  <2> QED  BY <1>1, <2>1 DEF DrillInv
<1>8. WholeWhileServed'  BY DEF WholeWhileServed, BackupsAreWhole
<1> QED  BY <1>2, <1>3, <1>4, <1>5, <1>6, <1>7, <1>8

LEMMA DrillSucceedsStep ==
  ASSUME HostInv, DrillSucceeds PROVE HostInv'
<1> PICK key : key = drill.key  OBVIOUS
<1>1. /\ drill.pc = "restored" /\ drill' = NoDrill
      /\ events' = events \/ events' = Closed(events, drill.id, "success", key)
      /\ UNCHANGED <<app, db, data, opened, store, backup, restore>>
  BY DEF DrillSucceeds, close_via_cli, Elsewhere
<1>2. key \in DOMAIN store /\ store[key].bytes = "intact"  BY <1>1 DEF HostInv, DrillInv
<1>3. key \in 0..MaxObjects  BY <1>2, StoreTyped DEF HostInv
<1>4. "success" \in {"success", "failed"} /\ drill.pc # "opened"  BY <1>1
<1> QED  BY <1>1, <1>2, <1>3, <1>4, DrillEnds

LEMMA DrillFailsStep ==
  ASSUME HostInv, DrillFails PROVE HostInv'
<1>1. /\ drill' = NoDrill
      /\ restore.pc = "idle" \/ restore.by = "operator"
      /\ events' = events \/ events' = Closed(events, drill.id, "failed", 0)
      /\ UNCHANGED <<app, db, data, opened, store, backup, restore>>
  BY DEF DrillFails, close_via_cli, Elsewhere
<1>2. 0 \in 0..MaxObjects  BY BackupsAssumption
<1>3. "failed" \in {"success", "failed"} /\ "failed" # "success"  OBVIOUS
<1> QED  BY <1>1, <1>2, <1>3, DrillEnds

LEMMA KilledStep ==
  ASSUME HostInv, Killed PROVE HostInv'
<1>1. UNCHANGED <<app, db, data, events, opened, store>>  BY DEF Killed, Elsewhere
<1>2. \/ backup.pc # "idle" /\ backup' = NoBackup /\ UNCHANGED <<restore, drill>>
      \/ /\ restore.pc # "idle" /\ restore' = [restore EXCEPT !.pc = "idle", !.id = 0]
         /\ UNCHANGED <<backup, drill>>
      \/ /\ restore.pc = "idle" \/ restore.by = "operator"
         /\ drill' = NoDrill /\ UNCHANGED <<backup, restore>>
  BY DEF Killed
<1>3. 0 \in 0..MaxObjects /\ "failed" \in {"success", "failed"} /\ "failed" # "success"
  BY BackupsAssumption
<1>4. CASE backup.pc # "idle" /\ backup' = NoBackup /\ UNCHANGED <<restore, drill>>
  BY <1>1, <1>3, <1>4, BackupEnds
<1>5. CASE /\ restore.pc = "idle" \/ restore.by = "operator"
           /\ drill' = NoDrill /\ UNCHANGED <<backup, restore>>
  BY <1>1, <1>3, <1>5, DrillEnds
<1>6. CASE /\ restore.pc # "idle" /\ restore' = [restore EXCEPT !.pc = "idle", !.id = 0]
           /\ UNCHANGED <<backup, drill>>
  <2> USE DEF HostInv
  <2>1. /\ restore' \in Restore /\ restore'.pc = "idle" /\ restore'.id = 0
        /\ restore'.key = restore.key /\ restore'.target = restore.target
        /\ restore'.by = restore.by
    BY <1>6, RestoreStops
  <2>2. HostTyped'  BY <1>1, <1>6, <2>1 DEF HostTyped
  <2>3. EveryRowFits'
    <3>1. backup'.pc = "dumped" => backup'.dump.events \in AllRows  BY <1>6 DEF AllRows
    <3> QED  BY <1>1, <1>6, <2>1, <3>1, NoRowWritten
  <2>4. DroppedInv'  BY <1>1, DroppedStays
  <2>5. BackupInv'
    <3>1. opened' \in Nat /\ opened <= opened'  BY <1>1, BackupsAssumption DEF HostTyped
    <3> QED  BY <1>1, <1>6, <3>1, BackupStays
  <2>6. RestoreInv'
    <3>1. 0 \in 0..opened'  BY <1>1, BackupsAssumption DEF HostTyped
    <3> QED  BY <2>1, <3>1 DEF RestoreInv
  <2>7. DrillInv'  BY <1>1, <1>6 DEF DrillInv
  <2>8. WholeWhileServed'  BY <1>1 DEF WholeWhileServed, BackupsAreWhole
  <2> QED  BY <2>2, <2>3, <2>4, <2>5, <2>6, <2>7, <2>8
<1> QED  BY <1>2, <1>4, <1>5, <1>6

LEMMA BackupsStep ==
  ASSUME HostInv, BackupsNext PROVE HostInv'
BY UserWritesStep, BackupStartStep, PgDumpStep, UploadStep, VerifyUploadStep, BackupFailsStep,
   RestoreByHandStep, VerifyDownloadStep, StopAppStep, DropDatabaseStep, PgRestoreStep,
   StartAppStep, SmokeTestStep, RestoreFailsStep, DrillStartStep, DrillRestoresStep,
   DrillSucceedsStep, DrillFailsStep, KilledStep
   DEF BackupsNext

-----------------------------------------------------------------------------
\* The colours.
LEMMA OtherColor ==
  ASSUME NEW c \in Colors PROVE other_color(c) \in Colors /\ other_color(c) # c
BY DEF Colors, other_color

LEMMA ReleasesAreRevisions == \A r \in Releases : r \in 1..Newest /\ r \in 0..Newest
<1>1. \A r \in 1..Newest : r \in 0..Newest  BY DEF Newest
<1> QED  BY <1>1, ReleasesAssumption

LEMMA NoScriptIdle ==
  /\ NoScript.pc = "idle"
  /\ NoScript \in [pc : DeployPoints, from : Colors, to : Colors]
  /\ NoScript \in [pc : {"idle", "started", "written", "reloaded"}, from : Colors, to : Colors]
BY DEF NoScript, DeployPoints, Points, Colors

Scripts == [pc : DeployPoints, from : Colors, to : Colors]

LEMMA DeployMoves ==
  ASSUME BlueGreenTypeOK, NEW d \in Deploys, NEW pc \in DeployPoints,
         deploy' = [deploy EXCEPT ![d] = Advance(@, pc)]
  PROVE  /\ deploy' \in [Deploys -> Scripts]
         /\ deploy'[d].pc = pc /\ deploy'[d].from = deploy[d].from /\ deploy'[d].to = deploy[d].to
         /\ \A e \in Deploys \ {d} : deploy'[e] = deploy[e]
BY DEF BlueGreenTypeOK, Advance, Scripts

LEMMA DeployBecomes ==
  ASSUME BlueGreenTypeOK, NEW d \in Deploys, NEW script \in Scripts,
         deploy' = [deploy EXCEPT ![d] = script]
  PROVE  /\ deploy' \in [Deploys -> Scripts]
         /\ deploy'[d] = script
         /\ \A e \in Deploys \ {d} : deploy'[e] = deploy[e]
BY DEF BlueGreenTypeOK, Scripts

LEMMA ScriptTyped ==
  ASSUME BlueGreenTypeOK, NEW d \in Deploys
  PROVE  deploy[d] \in Scripts /\ deploy[d].from \in Colors /\ deploy[d].to \in Colors
BY DEF BlueGreenTypeOK, Scripts

\* Where one deploy runs, it is the one that moves.
LEMMA OneMoves ==
  ASSUME DeployInv, NEW d \in Deploys, d \in Running \/ Running = {},
         \A e \in Deploys \ {d} : deploy'[e] = deploy[e],
         deploy'[d].pc # "idle" => ScriptInv(deploy[d])'
  PROVE  DeployInv'
<1>1. \A e \in Deploys \ {d} : deploy'[e].pc = "idle"  BY DEF DeployInv, Running
<1>2. \A e \in Running' : e = d /\ deploy'[e].pc # "idle"  BY <1>1 DEF Running
<1> QED  BY <1>2 DEF DeployInv

LEMMA RunsAs ==
  ASSUME DeployInv, NEW d \in Deploys, deploy[d].pc # "idle"
  PROVE  d \in Running /\ ScriptInv(deploy[d])
BY DEF DeployInv, Running

LEMMA NoneRunning ==
  ASSUME Running = {}, deploy' = deploy PROVE DeployInv' /\ Running' = {}
BY DEF DeployInv, Running

LEMMA RollbackMoves ==
  ASSUME BlueGreenTypeOK, NEW pc \in {"idle", "started", "written", "reloaded"},
         rollback' = Advance(rollback, pc)
  PROVE  /\ rollback' \in [pc : {"idle", "started", "written", "reloaded"},
                           from : Colors, to : Colors]
         /\ rollback'.pc = pc /\ rollback'.to = rollback.to
BY DEF BlueGreenTypeOK, Advance

\* A container changes its state only.
LEMMA StateChanges ==
  ASSUME BlueGreenTypeOK, NEW c \in Colors, NEW s \in {"stopped", "starting", "healthy"},
         color' = [color EXCEPT ![c].state = s]
  PROVE  /\ color' \in [Colors -> [state : {"stopped", "starting", "healthy"}, release : Releases]]
         /\ color'[c].state = s
         /\ \A k \in Colors : color'[k].release = color[k].release
         /\ \A k \in Colors \ {c} : color'[k] = color[k]
BY DEF BlueGreenTypeOK

\* The steps of a blue-green host keep the database one that alembic reaches,
\* and leave the scripts of the other kind of host alone.
LEMMA BlueGreenSchemas ==
  ASSUME BlueGreenTypeOK, db \in Schemas, BlueGreenNext
  PROVE  db' \in Schemas /\ app' = app
<1>1. CASE UNCHANGED <<app, db>>  BY <1>1
<1>2. ASSUME NEW d \in Deploys, Migrate(d) PROVE db' \in Schemas /\ app' = app
  <2>1. CASE db.rev <= color[deploy[d].to].release
    <3>1. color[deploy[d].to].release \in 0..Newest
      <4>1. deploy[d].to \in Colors  BY ScriptTyped
      <4>2. color[deploy[d].to].release \in Releases  BY <4>1 DEF BlueGreenTypeOK
      <4> QED  BY <4>2, ReleasesAreRevisions
    <3>2. db' = UpgradeHead(db, color[deploy[d].to].release)  BY <1>2, <2>1 DEF Migrate
    <3> QED  BY <1>2, <2>1, <3>1, <3>2, UpgradeIsASchema DEF Migrate
  <2>2. CASE ~(db.rev <= color[deploy[d].to].release)  BY <1>2, <2>2 DEF Migrate
  <2> QED  BY <2>1, <2>2
<1>3. CASE UpgradeByHand
  <2>1. db.rev # Newest  BY <1>3, SchemaOfRevision DEF UpgradeByHand, Newest
  <2> QED  BY <1>3, <2>1, UpOneIsASchema DEF UpgradeByHand
<1>4. CASE DowngradeByHand
  <2>1. db.rev # 0  BY <1>4, SchemaOfRevision DEF DowngradeByHand, Newest
  <2> QED  BY <1>4, <2>1, DownOneIsASchema DEF DowngradeByHand
<1> QED
  BY <1>1, <1>2, <1>3, <1>4 DEF BlueGreenNext, DeployStep, StartDeploy, StartNext, wait_healthy,
     write_caddy_snippet, reload_caddy, write_active_color, StopPrevious, DeployEnds, Rollback,
     RollbackStep, StartAgain, HostRestarts, RepairFiles, OpenWindow, CloseWindow

LEMMA HostKept ==
  ASSUME HostInv, db' \in Schemas, app' = app, UNCHANGED backupVars PROVE HostInv'
<1> USE DEF HostInv
<1>1. UNCHANGED <<app, data, events, opened, store, backup, restore, drill>>  BY DEF backupVars
<1>2. HostTyped'  BY <1>1 DEF HostTyped
<1>3. AllRows' = AllRows  BY <1>1 DEF AllRows
<1>4. EveryRowFits'  BY <1>1, <1>3 DEF EveryRowFits
<1>8. DroppedInv'  BY <1>1, DroppedStays
<1>5. BackupInv'
  <2>1. opened' \in Nat /\ opened <= opened'  BY <1>1, BackupsAssumption DEF HostTyped
  <2> QED  BY <1>1, <2>1, BackupStays
<1>6. RestoreInv' /\ DrillInv'  BY <1>1 DEF RestoreInv, DrillInv, BackupsAreWhole
<1>7. WholeWhileServed'  BY <1>1 DEF WholeWhileServed, BackupsAreWhole
<1> QED  BY <1>2, <1>4, <1>5, <1>6, <1>7, <1>8

-----------------------------------------------------------------------------
\* Each step of the blue-green scripts keeps the types.
LEMMA BlueGreenTyped ==
  ASSUME BlueGreenTypeOK, db \in Schemas, BlueGreenNext PROVE BlueGreenTypeOK'
<1> USE DEF BlueGreenTypeOK
<1>1. {active, snippet, upstream, rollback.to} \subseteq Colors
  OBVIOUS
<1>2. ASSUME NEW d \in Deploys, DeployStep(d) PROVE BlueGreenTypeOK'
  <2>0. deploy[d].from \in Colors /\ deploy[d].to \in Colors /\ NoScript \in Scripts
    BY ScriptTyped, NoScriptIdle DEF Scripts
  <2>9. ASSUME deploy' \in [Deploys -> Scripts],
               color' \in [Colors -> [state : {"stopped", "starting", "healthy"}, release : Releases]],
               {active', snippet', upstream'} \subseteq Colors, UNCHANGED <<rollback, window>>
        PROVE  BlueGreenTypeOK'
    BY <2>9 DEF Scripts
  <2>10. CASE StartDeploy(d)
    <3>1. other_color(active) \in Colors  BY OtherColor
    <3>2. [pc |-> "started", from |-> active, to |-> other_color(active)] \in Scripts
      BY <3>1 DEF Scripts, DeployPoints, Points
    <3>3. deploy' \in [Deploys -> Scripts]  BY <2>10, <3>2, DeployBecomes DEF StartDeploy
    <3> QED  BY <2>9, <2>10, <3>3 DEF StartDeploy
  <2>1. CASE StartNext(d)
    <3>1. PICK r \in Releases :
            color' = [color EXCEPT ![deploy[d].to] =
                 IF @.state # "stopped" /\ @.release = r THEN @
                 ELSE [state |-> "starting", release |-> r]]
      BY <2>1 DEF StartNext
    <3>2. color' \in [Colors -> [state : {"stopped", "starting", "healthy"}, release : Releases]]
      BY <2>0, <3>1
    <3>3. "starting" \in DeployPoints  BY DEF DeployPoints, Points
    <3>4. deploy' \in [Deploys -> Scripts]  BY <2>1, <3>3, DeployMoves DEF StartNext
    <3> QED  BY <2>1, <2>9, <3>2, <3>4 DEF StartNext
  <2>2. CASE wait_healthy(d)
    <3>1. "healthy" \in DeployPoints /\ "healthy" \in {"stopped", "starting", "healthy"}
      BY DEF DeployPoints, Points
    <3>2. deploy' \in [Deploys -> Scripts]  BY <2>2, <3>1, DeployMoves DEF wait_healthy
    <3>3. color' \in [Colors -> [state : {"stopped", "starting", "healthy"}, release : Releases]]
      BY <2>0, <2>2, <3>1, StateChanges DEF wait_healthy
    <3> QED  BY <2>2, <2>9, <3>2, <3>3 DEF wait_healthy
  <2>3. CASE Migrate(d)
    <3>1. "migrated" \in DeployPoints  BY DEF DeployPoints, Points
    <3>2. deploy' \in [Deploys -> Scripts]
      BY <2>0, <2>3, <3>1, DeployMoves, DeployBecomes DEF Migrate
    <3> QED  BY <2>3, <2>9, <3>2 DEF Migrate
  <2>4. CASE write_caddy_snippet(d)
    <3>1. "written" \in DeployPoints  BY DEF DeployPoints, Points
    <3>2. deploy' \in [Deploys -> Scripts]  BY <2>4, <3>1, DeployMoves DEF write_caddy_snippet
    <3> QED  BY <2>0, <2>4, <2>9, <3>2 DEF write_caddy_snippet
  <2>5. CASE reload_caddy(d)
    <3>1. "reloaded" \in DeployPoints  BY DEF DeployPoints, Points
    <3>2. deploy' \in [Deploys -> Scripts]  BY <2>5, <3>1, DeployMoves DEF reload_caddy
    <3> QED  BY <1>1, <2>5, <2>9, <3>2 DEF reload_caddy
  <2>6. CASE write_active_color(d)
    <3>1. "draining" \in DeployPoints  BY DEF DeployPoints, Points
    <3>2. deploy' \in [Deploys -> Scripts]  BY <2>6, <3>1, DeployMoves DEF write_active_color
    <3> QED  BY <2>0, <2>6, <2>9, <3>2 DEF write_active_color
  <2>7. CASE StopPrevious(d)
    <3>1. "stopped" \in {"stopped", "starting", "healthy"}  OBVIOUS
    <3>2. deploy' \in [Deploys -> Scripts]  BY <2>0, <2>7, DeployBecomes DEF StopPrevious
    <3>3. color' \in [Colors -> [state : {"stopped", "starting", "healthy"}, release : Releases]]
      BY <2>0, <2>7, <3>1, StateChanges DEF StopPrevious
    <3> QED  BY <2>7, <2>9, <3>2, <3>3 DEF StopPrevious
  <2>8. CASE DeployEnds(d)
    <3>1. deploy' \in [Deploys -> Scripts]  BY <2>0, <2>8, DeployBecomes DEF DeployEnds
    <3> QED  BY <2>8, <2>9, <3>1 DEF DeployEnds
  <2> QED  BY <1>2, <2>1, <2>2, <2>3, <2>4, <2>5, <2>6, <2>7, <2>8, <2>10 DEF DeployStep
<1>3. CASE Rollback
  <2>1. other_color(active) \in Colors  BY OtherColor
  <2>2. rollback' = [pc |-> "started", from |-> active, to |-> other_color(active)]
    BY <1>3 DEF Rollback
  <2>3. rollback' \in [pc : {"idle", "started", "written", "reloaded"}, from : Colors, to : Colors]
    BY <2>1, <2>2
  <2> QED  BY <1>3, <2>3 DEF Rollback
<1>4. CASE RollbackStep
  <2>1. \/ rollback' = Advance(rollback, "written") \/ rollback' = Advance(rollback, "reloaded")
        \/ rollback' = NoScript
    BY <1>4 DEF RollbackStep
  <2>2. rollback' \in [pc : {"idle", "started", "written", "reloaded"}, from : Colors, to : Colors]
    BY <2>1, RollbackMoves, NoScriptIdle
  <2> QED  BY <1>1, <1>4, <2>2 DEF RollbackStep
<1>5. CASE StartAgain
  <2>1. PICK c \in Colors : color' = [color EXCEPT ![c].state = "healthy"]
    BY <1>5 DEF StartAgain
  <2>2. "healthy" \in {"stopped", "starting", "healthy"}  OBVIOUS
  <2> QED  BY <1>5, <2>1, <2>2, StateChanges DEF StartAgain
<1>6. CASE HostRestarts  BY <1>6, NoScriptIdle DEF HostRestarts
<1>7. CASE RepairFiles  BY <1>7 DEF RepairFiles
<1>8. CASE OpenWindow
  <2>1. color' = [c \in Colors |-> [color[c] EXCEPT !.state = "stopped"]]
    BY <1>8 DEF OpenWindow
  <2>2. color' \in [Colors -> [state : {"stopped", "starting", "healthy"}, release : Releases]]
    BY <2>1
  <2> QED  BY <1>8, <2>2 DEF OpenWindow
<1>9. CASE UpgradeByHand \/ DowngradeByHand
  BY <1>9 DEF UpgradeByHand, DowngradeByHand, blueGreenVars
<1>10. CASE CloseWindow
  <2>1. color' \in [Colors -> [state : {"stopped", "starting", "healthy"}, release : Releases]]
    BY <1>10 DEF CloseWindow
  <2> QED  BY <1>10, <2>1 DEF CloseWindow
<1> QED  BY <1>2, <1>3, <1>4, <1>5, <1>6, <1>7, <1>8, <1>9, <1>10 DEF BlueGreenNext

\* A release serves for as long as the database stays or runs only revisions
\* that take nothing away.
LEMMA StillServes ==
  ASSUME NEW r \in 0..Newest, NEW before \in 0..Newest, NEW after \in 0..Newest,
         r <= before, before <= after, ExpandOnly(r, before), ExpandOnly(before, after)
  PROVE  r <= after /\ ExpandOnly(r, after)
<1>1. Contract \subseteq Nat  BY DEF Contract
<1> QED  BY <1>1 DEF ExpandOnly, Newest

LEMMA OwnSchema == ASSUME NEW r \in 0..Newest PROVE r <= r /\ ExpandOnly(r, r)
<1>1. Contract \subseteq Nat  BY DEF Contract
<1> QED  BY <1>1 DEF ExpandOnly, Newest

-----------------------------------------------------------------------------
\* Each step of the blue-green scripts keeps the invariant of the colours, for
\* an operator who is careful.
ColorsBefore ==
  /\ BlueGreenTypeOK /\ db \in Schemas /\ app = "gone"
  /\ FilesServe /\ WindowInv /\ DeployInv /\ RollbackInv
ColorsAfter == FilesServe' /\ WindowInv' /\ DeployInv' /\ RollbackInv'

LEMMA ColorsTyped ==
  ASSUME ColorsBefore
  PROVE  /\ {active, snippet, upstream, rollback.to} \subseteq Colors
         /\ \A d \in Deploys : deploy[d].from \in Colors /\ deploy[d].to \in Colors
         /\ \A c \in Colors : color[c].release \in 0..Newest
         /\ db.rev \in 0..Newest
<1>1. \A c \in Colors : color[c].release \in Releases  BY DEF ColorsBefore, BlueGreenTypeOK
<1>2. \A c \in Colors : color[c].release \in 0..Newest
  BY <1>1, ReleasesAreRevisions
<1>3. db.rev \in 0..Newest  BY SchemaOfRevision DEF ColorsBefore
<1> QED  BY <1>2, <1>3 DEF ColorsBefore, BlueGreenTypeOK

LEMMA StartDeployServes ==
  ASSUME ColorsBefore, Careful, DeployDuring = {}, NEW d \in Deploys, StartDeploy(d)
  PROVE  ColorsAfter
<1> USE DEF ColorsBefore
<1> PICK next : next = other_color(active)  OBVIOUS
<1>1. /\ deploy' = [deploy EXCEPT ![d] = [pc |-> "started", from |-> active, to |-> next]]
      /\ ~window /\ active = upstream /\ snippet = upstream
      /\ Running = {} /\ rollback.pc = "idle"
      /\ UNCHANGED <<app, db, color, active, snippet, upstream, rollback, window>>
  BY DEF StartDeploy, FilesAgree, MayStart
<1>2. next \in Colors /\ next # active /\ active \in Colors  BY ColorsTyped, OtherColor
<1>3. [pc |-> "started", from |-> active, to |-> next] \in Scripts
  BY <1>2 DEF Scripts, DeployPoints, Points
<1>4. /\ deploy'[d] = [pc |-> "started", from |-> active, to |-> next]
      /\ \A e \in Deploys \ {d} : deploy'[e] = deploy[e]
  BY <1>1, <1>3, DeployBecomes
<1>5. deploy'[d].pc = "started" /\ deploy'[d].from = active /\ deploy'[d].to = next
  BY <1>4
<1>6. ScriptInv(deploy[d])'  BY <1>1, <1>2, <1>5 DEF ScriptInv
<1>7. DeployInv'  BY <1>1, <1>4, <1>6, OneMoves
<1>8. FilesServe' /\ WindowInv' /\ RollbackInv'
  BY <1>1 DEF FilesServe, Serves, WindowInv, RollbackInv
<1> QED  BY <1>7, <1>8 DEF ColorsAfter

LEMMA StartNextServes ==
  ASSUME ColorsBefore, NEW d \in Deploys, StartNext(d) PROVE ColorsAfter
<1> USE DEF ColorsBefore
<1>1. PICK r \in Releases :
        /\ ExpandOnly(db.rev, r)
        /\ color' = [color EXCEPT ![deploy[d].to] =
             IF @.state # "stopped" /\ @.release = r THEN @
             ELSE [state |-> "starting", release |-> r]]
  BY DEF StartNext
<1>2. /\ deploy[d].pc = "started" /\ deploy' = [deploy EXCEPT ![d] = Advance(@, "starting")]
      /\ UNCHANGED <<app, db, active, snippet, upstream, rollback, window>>
  BY DEF StartNext
<1>3. d \in Running /\ rollback.pc = "idle" /\ deploy[d].from # deploy[d].to
      /\ upstream = deploy[d].from /\ snippet = deploy[d].from
  BY <1>2, RunsAs DEF ScriptInv
<1>4. deploy[d].to \in Colors /\ upstream \in Colors  BY ColorsTyped
<1>5. color'[upstream] = color[upstream] /\ color'[deploy[d].to].release = r
  BY <1>1, <1>3, <1>4 DEF BlueGreenTypeOK
<1>6. /\ deploy'[d].pc = "starting" /\ deploy'[d].from = deploy[d].from
      /\ deploy'[d].to = deploy[d].to /\ \A e \in Deploys \ {d} : deploy'[e] = deploy[e]
  <2>1. "starting" \in DeployPoints  BY DEF DeployPoints, Points
  <2> QED  BY <1>2, <2>1, DeployMoves
<1>7. ~window  BY <1>3 DEF WindowInv, NoneRuns
<1>8. FilesServe'  BY <1>2, <1>3, <1>5, <1>7 DEF FilesServe, Serves
<1>9. WindowInv'  BY <1>2, <1>7 DEF WindowInv
<1>10. ScriptInv(deploy[d])'
  <2>1. ExpandOnly(db.rev, color[deploy[d].to].release)'  BY <1>1, <1>2, <1>5, <1>6
  <2> QED  BY <1>2, <1>3, <1>6, <2>1 DEF ScriptInv
<1>11. DeployInv'  BY <1>3, <1>6, <1>10, OneMoves
<1>12. RollbackInv'  BY <1>2, <1>3 DEF RollbackInv
<1> QED  BY <1>8, <1>9, <1>11, <1>12 DEF ColorsAfter

LEMMA HealthyServes ==
  ASSUME ColorsBefore, NEW d \in Deploys, wait_healthy(d) PROVE ColorsAfter
<1> USE DEF ColorsBefore
<1>1. /\ deploy[d].pc = "starting" /\ color' = [color EXCEPT ![deploy[d].to].state = "healthy"]
      /\ deploy' = [deploy EXCEPT ![d] = Advance(@, "healthy")]
      /\ UNCHANGED <<app, db, active, snippet, upstream, rollback, window>>
  BY DEF wait_healthy
<1>2. /\ d \in Running /\ rollback.pc = "idle" /\ deploy[d].from # deploy[d].to
      /\ upstream = deploy[d].from /\ snippet = deploy[d].from
      /\ ExpandOnly(db.rev, color[deploy[d].to].release)
  BY <1>1, RunsAs DEF ScriptInv
<1>3. /\ color'[deploy[d].to].state = "healthy"
      /\ color'[deploy[d].to].release = color[deploy[d].to].release
      /\ color'[upstream] = color[upstream]
  <2>1. deploy[d].to \in Colors /\ upstream \in Colors  BY ColorsTyped
  <2>2. "healthy" \in {"stopped", "starting", "healthy"}  OBVIOUS
  <2> QED  BY <1>1, <1>2, <2>1, <2>2, StateChanges
<1>4. /\ deploy'[d].pc = "healthy" /\ deploy'[d].from = deploy[d].from
      /\ deploy'[d].to = deploy[d].to /\ \A e \in Deploys \ {d} : deploy'[e] = deploy[e]
  <2>1. "healthy" \in DeployPoints  BY DEF DeployPoints, Points
  <2> QED  BY <1>1, <2>1, DeployMoves
<1>5. ~window  BY <1>2 DEF WindowInv, NoneRuns
<1>6. FilesServe'  BY <1>1, <1>2, <1>3, <1>5 DEF FilesServe, Serves
<1>7. WindowInv'  BY <1>1, <1>5 DEF WindowInv
<1>8. ScriptInv(deploy[d])'
  <2>1. ExpandOnly(db.rev, color[deploy[d].to].release)'  BY <1>1, <1>2, <1>3, <1>4
  <2> QED  BY <1>1, <1>2, <1>3, <1>4, <2>1 DEF ScriptInv
<1>9. DeployInv'  BY <1>2, <1>4, <1>8, OneMoves
<1>10. RollbackInv'  BY <1>1, <1>2 DEF RollbackInv
<1> QED  BY <1>6, <1>7, <1>9, <1>10 DEF ColorsAfter

LEMMA EndedServes ==
  ASSUME ColorsBefore, NEW d \in Running, deploy' = [deploy EXCEPT ![d] = NoScript],
         UNCHANGED <<app, db, active, snippet, upstream, rollback, window>>,
         color'[upstream] = color[upstream], color'[snippet] = color[snippet]
  PROVE  ColorsAfter
<1> USE DEF ColorsBefore
<1>1. d \in Deploys /\ deploy[d].pc # "idle"  BY DEF Running
<1>2. NoScript \in Scripts /\ NoScript.pc = "idle"  BY NoScriptIdle DEF Scripts
<1>3. deploy'[d].pc = "idle" /\ \A e \in Deploys \ {d} : deploy'[e] = deploy[e]
  BY <1>1, <1>2, DeployBecomes
<1>4. rollback.pc = "idle"  BY <1>1, RunsAs DEF ScriptInv
<1>5. ~window  BY DEF WindowInv, NoneRuns
<1>6. FilesServe'  BY DEF FilesServe, Serves
<1>7. WindowInv'  BY <1>5 DEF WindowInv
<1>8. DeployInv'  BY <1>1, <1>3, OneMoves
<1>9. RollbackInv'  BY <1>4 DEF RollbackInv
<1> QED  BY <1>6, <1>7, <1>8, <1>9 DEF ColorsAfter

LEMMA MigrateServes ==
  ASSUME ColorsBefore, NEW d \in Deploys, Migrate(d) PROVE ColorsAfter
<1> USE DEF ColorsBefore
<1>0. deploy[d].pc = "healthy"  BY DEF Migrate
<1>1. CASE ~(db.rev <= color[deploy[d].to].release)
  <2>1. /\ deploy' = [deploy EXCEPT ![d] = NoScript]
        /\ UNCHANGED <<app, db, color, active, snippet, upstream, rollback, window>>
    BY <1>1 DEF Migrate
  <2>2. d \in Running  BY <1>0 DEF Running
  <2> QED  BY <2>1, <2>2, EndedServes
<1>2. CASE db.rev <= color[deploy[d].to].release
  <2> PICK head : head = color[deploy[d].to].release  OBVIOUS
  <2>1. /\ db' = UpgradeHead(db, head)
        /\ deploy' = [deploy EXCEPT ![d] = Advance(@, "migrated")]
        /\ UNCHANGED <<app, color, active, snippet, upstream, rollback, window>>
    BY <1>2 DEF Migrate
  <2>2. /\ d \in Running /\ rollback.pc = "idle" /\ deploy[d].from # deploy[d].to
        /\ upstream = deploy[d].from /\ snippet = deploy[d].from
        /\ ExpandOnly(db.rev, head) /\ color[deploy[d].to].state = "healthy"
    BY <1>0, RunsAs DEF ScriptInv
  <2>3. /\ deploy'[d].pc = "migrated" /\ deploy'[d].from = deploy[d].from
        /\ deploy'[d].to = deploy[d].to /\ \A e \in Deploys \ {d} : deploy'[e] = deploy[e]
    <3>1. "migrated" \in DeployPoints  BY DEF DeployPoints, Points
    <3> QED  BY <2>1, <3>1, DeployMoves
  <2>4. head \in 0..Newest /\ db.rev \in 0..Newest /\ upstream \in Colors
    BY ColorsTyped
  <2>5. db'.rev = head  BY <1>2, <2>1, <2>4, UpgradeIsASchema
  <2>6. ~window  BY <2>2 DEF WindowInv, NoneRuns
  <2>7. FilesServe'
    <3> PICK r, b : r = color[upstream].release /\ b = db.rev  OBVIOUS
    <3>1. color[upstream].state = "healthy" /\ r <= b /\ ExpandOnly(r, b)
      BY <2>6 DEF FilesServe, Serves
    <3>2. r \in 0..Newest /\ b \in 0..Newest /\ b <= head /\ ExpandOnly(b, head)
      BY <1>2, <2>2, <2>4, ColorsTyped
    <3>3. r <= head /\ ExpandOnly(r, head)  BY <2>4, <3>1, <3>2, StillServes
    <3>4. color'[upstream].release = r /\ color'[upstream].state = "healthy"
      BY <2>1, <3>1
    <3>5. Serves(upstream)'  BY <2>1, <2>5, <3>3, <3>4 DEF Serves
    <3> QED  BY <2>1, <2>2, <3>5 DEF FilesServe
  <2>8. WindowInv'  BY <2>1, <2>6 DEF WindowInv
  <2>9. ScriptInv(deploy[d])'
    <3>1. Serves(deploy[d].to)'
      <4>1. head <= head /\ ExpandOnly(head, head)  BY <2>4, OwnSchema
      <4> QED  BY <2>1, <2>2, <2>3, <2>5, <4>1 DEF Serves
    <3> QED  BY <2>1, <2>2, <2>3, <3>1 DEF ScriptInv
  <2>10. DeployInv'  BY <2>2, <2>3, <2>9, OneMoves
  <2>11. RollbackInv'  BY <2>1, <2>2 DEF RollbackInv
  <2> QED  BY <2>7, <2>8, <2>10, <2>11 DEF ColorsAfter
<1> QED  BY <1>1, <1>2

LEMMA WriteSnippetServes ==
  ASSUME ColorsBefore, NEW d \in Deploys, write_caddy_snippet(d) PROVE ColorsAfter
<1> USE DEF ColorsBefore
<1>1. /\ deploy[d].pc = "migrated" /\ snippet' = deploy[d].to
      /\ deploy' = [deploy EXCEPT ![d] = Advance(@, "written")]
      /\ UNCHANGED <<app, db, color, active, upstream, rollback, window>>
  BY DEF write_caddy_snippet
<1>2. d \in Running /\ rollback.pc = "idle" /\ deploy[d].from # deploy[d].to /\ Serves(deploy[d].to)
  BY <1>1, RunsAs DEF ScriptInv
<1>3. deploy'[d].pc = "written" /\ deploy'[d].from = deploy[d].from /\ deploy'[d].to = deploy[d].to
      /\ \A e \in Deploys \ {d} : deploy'[e] = deploy[e]
  <2>1. "written" \in DeployPoints  BY DEF DeployPoints, Points
  <2> QED  BY <1>1, <2>1, DeployMoves
<1>4. ~window  BY <1>2 DEF WindowInv, NoneRuns
<1>5. FilesServe'  BY <1>1, <1>2, <1>4 DEF FilesServe, Serves
<1>6. WindowInv'  BY <1>1, <1>4 DEF WindowInv
<1>9. ScriptInv(deploy[d])'  BY <1>1, <1>2, <1>3 DEF ScriptInv, Serves
<1>7. DeployInv'  BY <1>2, <1>3, <1>9, OneMoves
<1>8. RollbackInv'  BY <1>1, <1>2 DEF RollbackInv
<1> QED  BY <1>5, <1>6, <1>7, <1>8 DEF ColorsAfter

LEMMA ReloadServes ==
  ASSUME ColorsBefore, NEW d \in Deploys, reload_caddy(d) PROVE ColorsAfter
<1> USE DEF ColorsBefore
<1>1. /\ deploy[d].pc = "written" /\ upstream' = snippet
      /\ deploy' = [deploy EXCEPT ![d] = Advance(@, "reloaded")]
      /\ UNCHANGED <<app, db, color, active, snippet, rollback, window>>
  BY DEF reload_caddy
<1>2. d \in Running /\ rollback.pc = "idle" /\ deploy[d].from # deploy[d].to /\ Serves(deploy[d].to) /\ snippet = deploy[d].to
  BY <1>1, RunsAs DEF ScriptInv
<1>3. deploy'[d].pc = "reloaded" /\ deploy'[d].from = deploy[d].from /\ deploy'[d].to = deploy[d].to
      /\ \A e \in Deploys \ {d} : deploy'[e] = deploy[e]
  <2>1. "reloaded" \in DeployPoints  BY DEF DeployPoints, Points
  <2> QED  BY <1>1, <2>1, DeployMoves
<1>4. ~window  BY <1>2 DEF WindowInv, NoneRuns
<1>5. FilesServe'  BY <1>1, <1>2, <1>4 DEF FilesServe, Serves
<1>6. WindowInv'  BY <1>1, <1>4 DEF WindowInv
<1>9. ScriptInv(deploy[d])'  BY <1>1, <1>2, <1>3 DEF ScriptInv, Serves
<1>7. DeployInv'  BY <1>2, <1>3, <1>9, OneMoves
<1>8. RollbackInv'  BY <1>1, <1>2 DEF RollbackInv
<1> QED  BY <1>5, <1>6, <1>7, <1>8 DEF ColorsAfter

LEMMA WriteActiveServes ==
  ASSUME ColorsBefore, NEW d \in Deploys, write_active_color(d) PROVE ColorsAfter
<1> USE DEF ColorsBefore
<1>1. /\ deploy[d].pc = "reloaded" /\ deploy' = [deploy EXCEPT ![d] = Advance(@, "draining")]
      /\ UNCHANGED <<app, db, color, snippet, upstream, rollback, window>>
  BY DEF write_active_color
<1>2. d \in Running /\ rollback.pc = "idle" /\ deploy[d].from # deploy[d].to /\ Serves(deploy[d].to)
      /\ snippet = deploy[d].to /\ upstream = deploy[d].to
  BY <1>1, RunsAs DEF ScriptInv
<1>3. deploy'[d].pc = "draining" /\ deploy'[d].from = deploy[d].from /\ deploy'[d].to = deploy[d].to
      /\ \A e \in Deploys \ {d} : deploy'[e] = deploy[e]
  <2>1. "draining" \in DeployPoints  BY DEF DeployPoints, Points
  <2> QED  BY <1>1, <2>1, DeployMoves
<1>4. ~window  BY <1>2 DEF WindowInv, NoneRuns
<1>5. FilesServe'  BY <1>1, <1>4 DEF FilesServe, Serves
<1>6. WindowInv'  BY <1>1, <1>4 DEF WindowInv
<1>9. ScriptInv(deploy[d])'  BY <1>1, <1>2, <1>3 DEF ScriptInv, Serves
<1>7. DeployInv'  BY <1>2, <1>3, <1>9, OneMoves
<1>8. RollbackInv'  BY <1>1, <1>2 DEF RollbackInv
<1> QED  BY <1>5, <1>6, <1>7, <1>8 DEF ColorsAfter

\* The colour that is stopped is not the one that serves.
LEMMA StopPreviousServes ==
  ASSUME ColorsBefore, NEW d \in Deploys, StopPrevious(d) PROVE ColorsAfter
<1> USE DEF ColorsBefore
<1>1. /\ deploy[d].pc = "draining" /\ color' = [color EXCEPT ![deploy[d].from].state = "stopped"]
      /\ deploy' = [deploy EXCEPT ![d] = NoScript]
      /\ UNCHANGED <<app, db, active, snippet, upstream, rollback, window>>
  BY DEF StopPrevious
<1>2. d \in Running /\ deploy[d].from # deploy[d].to
      /\ snippet = deploy[d].to /\ upstream = deploy[d].to
  BY <1>1, RunsAs DEF ScriptInv
<1>3. color'[upstream] = color[upstream] /\ color'[snippet] = color[snippet]
  <2>1. deploy[d].from \in Colors /\ deploy[d].to \in Colors  BY ColorsTyped
  <2>2. "stopped" \in {"stopped", "starting", "healthy"}  OBVIOUS
  <2> QED  BY <1>1, <1>2, <2>1, <2>2, StateChanges
<1> QED  BY <1>1, <1>2, <1>3, EndedServes

LEMMA DeployEndsServes ==
  ASSUME ColorsBefore, NEW d \in Deploys, DeployEnds(d) PROVE ColorsAfter
<1>1. /\ deploy' = [deploy EXCEPT ![d] = NoScript] /\ d \in Running
      /\ UNCHANGED <<app, db, color, active, snippet, upstream, rollback, window>>
  BY DEF DeployEnds, Running
<1> QED  BY <1>1, EndedServes

LEMMA RollbackServes ==
  ASSUME ColorsBefore, Careful, RollbackDuring = {}, Rollback PROVE ColorsAfter
<1> USE DEF ColorsBefore
<1> PICK other : other = other_color(active)  OBVIOUS
<1>1. /\ color[other].state = "healthy" /\ Running = {}
      /\ color[other].release <= db.rev /\ ExpandOnly(color[other].release, db.rev)
      /\ rollback' = [pc |-> "started", from |-> active, to |-> other]
      /\ UNCHANGED <<app, db, color, active, snippet, upstream, deploy, window>>
      /\ ~window
  BY DEF Rollback, MayStart
<1>2. rollback'.pc = "started" /\ rollback'.to = other  BY <1>1
<1>3. FilesServe'  BY <1>1 DEF FilesServe, Serves
<1>4. WindowInv' /\ DeployInv'  BY <1>1, NoneRunning DEF WindowInv
<1>5. RollbackInv'  BY <1>1, <1>2 DEF RollbackInv, Serves
<1> QED  BY <1>3, <1>4, <1>5 DEF ColorsAfter

LEMMA RollbackStepServes ==
  ASSUME ColorsBefore, RollbackStep PROVE ColorsAfter
<1> USE DEF ColorsBefore
<1>1. /\ UNCHANGED <<app, db, color, deploy, window>>
      /\ rollback.pc \in {"started", "written", "reloaded"}
  BY DEF RollbackStep
<1>2. Running = {} /\ ~window /\ Serves(rollback.to)
  BY <1>1 DEF DeployInv, ScriptInv, WindowInv, NoneRuns, RollbackInv
<1>3. WindowInv' /\ DeployInv'  BY <1>1, <1>2, NoneRunning DEF WindowInv
<1>4. CASE rollback.pc = "started" /\ snippet' = rollback.to
           /\ rollback' = Advance(rollback, "written") /\ UNCHANGED <<active, upstream>>
  <2>1. rollback'.pc = "written" /\ rollback'.to = rollback.to  BY <1>4, RollbackMoves
  <2>2. FilesServe'  BY <1>1, <1>2, <1>4 DEF FilesServe, Serves
  <2>3. RollbackInv'  BY <1>1, <1>2, <1>4, <2>1 DEF RollbackInv, Serves
  <2> QED  BY <1>3, <2>2, <2>3 DEF ColorsAfter
<1>5. CASE rollback.pc = "written" /\ upstream' = snippet
           /\ rollback' = Advance(rollback, "reloaded") /\ UNCHANGED <<active, snippet>>
  <2>1. rollback'.pc = "reloaded" /\ rollback'.to = rollback.to  BY <1>5, RollbackMoves
  <2>2. FilesServe'  BY <1>1, <1>2, <1>5 DEF FilesServe, Serves
  <2>3. RollbackInv'  BY <1>1, <1>2, <1>5, <2>1 DEF RollbackInv, Serves
  <2> QED  BY <1>3, <2>2, <2>3 DEF ColorsAfter
<1>6. CASE rollback.pc = "reloaded" /\ rollback' = NoScript /\ UNCHANGED <<snippet, upstream>>
  <2>1. FilesServe'  BY <1>1, <1>6 DEF FilesServe, Serves
  <2>2. RollbackInv'  BY <1>6, NoScriptIdle DEF RollbackInv
  <2> QED  BY <1>3, <2>1, <2>2 DEF ColorsAfter
<1> QED  BY <1>4, <1>5, <1>6 DEF RollbackStep

\* A colour that is started again only adds to what serves.
LEMMA StartAgainServes ==
  ASSUME ColorsBefore, StartAgain PROVE ColorsAfter
<1> USE DEF ColorsBefore
<1>1. PICK c \in Colors : color' = [color EXCEPT ![c].state = "healthy"]
  BY DEF StartAgain
<1>2. /\ Running = {} /\ ~window
      /\ UNCHANGED <<app, db, active, snippet, upstream, deploy, rollback, window>>
  BY DEF StartAgain
<1>3. \A k \in Colors : Serves(k) => Serves(k)'
  <2>1. "healthy" \in {"stopped", "starting", "healthy"}  OBVIOUS
  <2>2. /\ color'[c].state = "healthy"
        /\ \A k \in Colors : color'[k].release = color[k].release
        /\ \A k \in Colors \ {c} : color'[k] = color[k]
    BY <1>1, <2>1, StateChanges
  <2> QED  BY <1>2, <2>2 DEF Serves
<1>4. {upstream, snippet, rollback.to} \subseteq Colors  BY ColorsTyped
<1>5. FilesServe'
  <2>1. Serves(upstream)' /\ Serves(snippet)'  BY <1>2, <1>3, <1>4 DEF FilesServe
  <2> QED  BY <2>1 DEF FilesServe
<1>6. WindowInv' /\ DeployInv'  BY <1>2, NoneRunning DEF WindowInv
<1>7. RollbackInv'
  <2>1. rollback.pc # "idle" => Serves(rollback.to)'
    <3>1. rollback.pc # "idle" => Serves(rollback.to)  BY DEF RollbackInv
    <3>2. rollback' = rollback /\ db' = db  BY <1>2
    <3> QED  BY <1>3, <1>4, <3>1, <3>2 DEF Serves
  <2> QED  BY <1>2, <2>1 DEF RollbackInv
<1> QED  BY <1>5, <1>6, <1>7 DEF ColorsAfter

LEMMA HostRestartsServes ==
  ASSUME ColorsBefore, HostRestarts PROVE ColorsAfter
<1> USE DEF ColorsBefore
<1>1. /\ ~window /\ upstream' = snippet /\ deploy' = [d \in Deploys |-> NoScript] /\ rollback' = NoScript
      /\ UNCHANGED <<app, db, color, active, snippet, window>>
  BY DEF HostRestarts
<1>2. FilesServe'  BY <1>1 DEF FilesServe, Serves
<1>3. WindowInv'  BY <1>1 DEF WindowInv
<1>5. Running' = {}  BY <1>1, NoScriptIdle DEF Running
<1>4. DeployInv' /\ RollbackInv'  BY <1>1, <1>5, NoScriptIdle DEF DeployInv, RollbackInv
<1> QED  BY <1>2, <1>3, <1>4 DEF ColorsAfter

LEMMA RepairFilesServes ==
  ASSUME ColorsBefore, RepairFiles PROVE ColorsAfter
<1> USE DEF ColorsBefore
<1>1. /\ Running = {} /\ rollback.pc = "idle" /\ ~FilesAgree
      /\ active' = upstream /\ snippet' = upstream
      /\ UNCHANGED <<app, db, color, upstream, deploy, rollback, window>>
  BY DEF RepairFiles, NoneRuns
<1>2. FilesServe'  BY <1>1 DEF FilesServe, Serves
<1>3. WindowInv'  BY <1>1 DEF WindowInv, NoneRuns, Running, FilesAgree
<1>4. DeployInv' /\ RollbackInv'  BY <1>1, NoneRunning DEF RollbackInv
<1> QED  BY <1>2, <1>3, <1>4 DEF ColorsAfter

LEMMA WindowServes ==
  ASSUME ColorsBefore, OpenWindow \/ UpgradeByHand \/ DowngradeByHand \/ CloseWindow
  PROVE  ColorsAfter
<1> USE DEF ColorsBefore
<1>1. /\ Running = {} /\ rollback.pc = "idle" /\ FilesAgree
      /\ UNCHANGED <<active, snippet, upstream, deploy, rollback>>
  BY DEF OpenWindow, UpgradeByHand, DowngradeByHand, CloseWindow, WindowInv, NoneRuns, blueGreenVars
<1>2. DeployInv' /\ RollbackInv'  BY <1>1, NoneRunning DEF RollbackInv
<1>3. WindowInv'  BY <1>1, NoneRunning DEF WindowInv, FilesAgree, NoneRuns
<1>4. FilesServe'
  <2>1. CASE OpenWindow  BY <2>1 DEF OpenWindow, FilesServe
  <2>2. CASE UpgradeByHand \/ DowngradeByHand
    BY <2>2 DEF UpgradeByHand, DowngradeByHand, FilesServe, blueGreenVars
  <2>3. CASE CloseWindow
    <3> PICK r : r = db.rev  OBVIOUS
    <3>1. color' = [color EXCEPT ![upstream] = [state |-> "healthy", release |-> r]] /\ db' = db
      BY <2>3 DEF CloseWindow
    <3>2. upstream \in Colors /\ r \in 0..Newest  BY ColorsTyped
    <3>3. color'[upstream].state = "healthy" /\ color'[upstream].release = r
      BY <3>1, <3>2 DEF BlueGreenTypeOK
    <3>4. r <= r /\ ExpandOnly(r, r)  BY <3>2, OwnSchema
    <3>5. snippet = upstream  BY <1>1 DEF FilesAgree
    <3> QED  BY <1>1, <3>1, <3>3, <3>4, <3>5 DEF FilesServe, Serves
  <2> QED  BY <2>1, <2>2, <2>3
<1> QED  BY <1>2, <1>3, <1>4 DEF ColorsAfter

LEMMA ColorsStep ==
  ASSUME ColorsBefore, Careful, DeployDuring = {}, RollbackDuring = {}, BlueGreenNext
  PROVE  ColorsAfter
BY StartDeployServes, StartNextServes, HealthyServes, MigrateServes, WriteSnippetServes, ReloadServes,
   WriteActiveServes, StopPreviousServes, DeployEndsServes, RollbackServes,
   RollbackStepServes, StartAgainServes, HostRestartsServes, RepairFilesServes, WindowServes
   DEF BlueGreenNext, DeployStep

-----------------------------------------------------------------------------
\* A host from its first state on.
hostNext == [OnSingleService \/ OnBlueGreen]_<<app, db, blueGreenVars, backupVars>>

LEMMA FirstSchema ==
  ASSUME BlueGreenInit
  PROVE  \E r \in Releases :
           /\ db \in Schemas /\ db.rev = r /\ r \in 0..Newest
           /\ color = [c \in Colors |->
                [state |-> IF c = "blue" THEN "healthy" ELSE "stopped", release |-> r]]
<1>1. PICK r \in Releases :
        /\ db = SchemaAt[r]
        /\ color = [c \in Colors |->
             [state |-> IF c = "blue" THEN "healthy" ELSE "stopped", release |-> r]]
  BY DEF BlueGreenInit
<1>2. r \in 0..Newest  BY ReleasesAreRevisions
<1>3. SchemaAt[r] \in Schemas /\ SchemaAt[r].rev = r  BY <1>2, SchemaAtIsASchema
<1> QED  BY <1>1, <1>2, <1>3

LEMMA HostBegins ==
  ASSUME OperationsInit PROVE HostInv
<1>1. /\ app \in {"up", "gone"} /\ data = [writes |-> 0, whole |-> TRUE]
      /\ events = << >> /\ opened = 0 /\ store = << >>
      /\ backup = NoBackup /\ restore = NoRestore /\ drill = NoDrill
  BY DEF OperationsInit, BackupsInit
<1>2. 0 \in 0..MaxRuns /\ 0 \in 0..MaxWrites /\ 0 <= MaxObjects  BY BackupsAssumption
<1>3. DOMAIN events = {} /\ DOMAIN store = {} /\ Len(store) = 0 /\ store \in Seq(Objects)
  BY <1>1
<1>4. HostTyped
  <2>1. db \in Schemas  BY FirstSchema DEF OperationsInit
  <2>2. data \in Data  BY <1>1, <1>2 DEF Data
  <2>3. events \in RowTables  BY <1>1, NoRows
  <2> QED  BY <1>1, <1>2, <1>3, <2>1, <2>2, <2>3, ScriptsIdle DEF HostTyped
<1>5. EveryRowFits
  <2>1. AllRows = {events}  BY <1>1, <1>3, ScriptsIdle DEF AllRows
  <2>2. RowsFit(events, store, opened, backup.id, restore.id, drill.id)  BY <1>3 DEF RowsFit
  <2> QED  BY <2>1, <2>2 DEF EveryRowFits
<1>6. DroppedInv /\ WholeWhileServed  BY <1>1 DEF DroppedInv, WholeWhileServed
<1>8. 0 \in 0..opened  BY <1>1
<1>7. BackupInv  BY <1>1, <1>8, ScriptsIdle DEF BackupInv, Torn
<1>9. RestoreInv  BY <1>1, <1>8, ScriptsIdle DEF RestoreInv
<1>10. DrillInv  BY <1>1, <1>8, ScriptsIdle DEF DrillInv
<1> QED  BY <1>4, <1>5, <1>6, <1>7, <1>9, <1>10 DEF HostInv

LEMMA ColorsBegin ==
  ASSUME OperationsInit PROVE BlueGreenTypeOK /\ ColorInv
<1>1. /\ active = "blue" /\ snippet = "blue" /\ upstream = "blue"
      /\ deploy = [d \in Deploys |-> NoScript] /\ rollback = NoScript /\ window = FALSE
  BY DEF OperationsInit, BlueGreenInit
<1>2. "blue" \in Colors  BY DEF Colors
<1>3. PICK r \in Releases :
        /\ db.rev = r /\ r \in 0..Newest
        /\ color = [c \in Colors |->
             [state |-> IF c = "blue" THEN "healthy" ELSE "stopped", release |-> r]]
  BY FirstSchema DEF OperationsInit
<1>4. BlueGreenTypeOK
  <2>1. color \in [Colors -> [state : {"stopped", "starting", "healthy"}, release : Releases]]
    BY <1>3
  <2> QED  BY <1>1, <1>2, <2>1, NoScriptIdle DEF BlueGreenTypeOK
<1>5. FilesServe
  <2>1. color["blue"].state = "healthy" /\ color["blue"].release = r  BY <1>2, <1>3
  <2>2. r <= r /\ ExpandOnly(r, r)  BY <1>3, OwnSchema
  <2> QED  BY <1>1, <1>3, <2>1, <2>2 DEF FilesServe, Serves
<1>6. WindowInv /\ DeployInv /\ RollbackInv
  <2>1. Running = {}  BY <1>1, NoScriptIdle DEF Running
  <2> QED  BY <1>1, <2>1, NoScriptIdle DEF WindowInv, DeployInv, RollbackInv
<1> QED  BY <1>4, <1>5, <1>6 DEF ColorInv

LEMMA HostStays ==
  ASSUME HostInv, BlueGreenTypeOK, hostNext PROVE HostInv' /\ BlueGreenTypeOK'
<1>1. CASE OnSingleService
  <2>1. BackupsNext /\ UNCHANGED blueGreenVars  BY <1>1 DEF OnSingleService
  <2>2. HostInv'  BY <2>1, BackupsStep
  <2>3. BlueGreenTypeOK'  BY <2>1 DEF blueGreenVars, BlueGreenTypeOK
  <2> QED  BY <2>2, <2>3
<1>2. CASE OnBlueGreen
  <2>1. BlueGreenNext /\ UNCHANGED backupVars  BY <1>2 DEF OnBlueGreen
  <2>2. db \in Schemas  BY DEF HostInv, HostTyped
  <2>3. db' \in Schemas /\ app' = app  BY <2>1, <2>2, BlueGreenSchemas
  <2>4. HostInv'  BY <2>1, <2>3, HostKept
  <2>5. BlueGreenTypeOK'  BY <2>1, <2>2, BlueGreenTyped
  <2> QED  BY <2>4, <2>5
<1>3. CASE UNCHANGED <<app, db, blueGreenVars, backupVars>>
  <2>1. db' \in Schemas /\ app' = app /\ UNCHANGED backupVars
    BY <1>3 DEF HostInv, HostTyped
  <2>2. HostInv'  BY <2>1, HostKept
  <2>3. BlueGreenTypeOK'  BY <1>3 DEF blueGreenVars, BlueGreenTypeOK
  <2> QED  BY <2>2, <2>3
<1> QED  BY <1>1, <1>2, <1>3 DEF hostNext

\* A host on one service stays one.
LEMMA AppStays ==
  ASSUME app # "gone", BackupsNext PROVE app' # "gone"
BY DEF BackupsNext, UserWrites, BackupStart, PgDump, Upload, VerifyUpload, BackupFails,
   RestoreByHand, RestoreStart, VerifyDownload, StopApp, DropDatabase, PgRestore, StartApp,
   SmokeTest, RestoreFails, DrillStart, DrillRestores, DrillSucceeds, DrillFails, Killed,
   Elsewhere

LEMMA ColorsStay ==
  ASSUME HostInv, BlueGreenTypeOK, ColorInv, hostNext,
         Careful, DeployDuring = {}, RollbackDuring = {}
  PROVE  ColorInv'
<1>1. CASE OnSingleService
  <2>1. app' # "gone"  BY <1>1, AppStays DEF OnSingleService
  <2> QED  BY <2>1 DEF ColorInv
<1>2. CASE OnBlueGreen
  <2>1. BlueGreenNext /\ app = "gone"  BY <1>2 DEF OnBlueGreen
  <2>2. db \in Schemas  BY DEF HostInv, HostTyped
  <2>3. ColorsBefore  BY <2>1, <2>2 DEF ColorsBefore, ColorInv
  <2>4. ColorsAfter  BY <2>1, <2>3, ColorsStep
  <2> QED  BY <2>4 DEF ColorsAfter, ColorInv
<1>3. CASE UNCHANGED <<app, db, blueGreenVars, backupVars>>
  <2>1. UNCHANGED <<app, db, color, active, snippet, upstream, deploy, rollback, window>>
    BY <1>3 DEF blueGreenVars
  <2> QED  BY <2>1 DEF ColorInv, FilesServe, Serves, WindowInv, FilesAgree,
           NoneRuns, Running, DeployInv, ScriptInv, RollbackInv
<1> QED  BY <1>1, <1>2, <1>3 DEF hostNext

LEMMA HostAlways == OperationsSpec => [](HostInv /\ BlueGreenTypeOK)
<1>1. OperationsInit => HostInv /\ BlueGreenTypeOK  BY HostBegins, ColorsBegin
<1>2. HostInv /\ BlueGreenTypeOK
        /\ [OnSingleService \/ OnBlueGreen]_<<app, db, blueGreenVars, backupVars>>
      => (HostInv /\ BlueGreenTypeOK)'
  BY HostStays DEF hostNext
<1> QED  BY <1>1, <1>2, PTL DEF OperationsSpec

\* The scripts, the containers and the database of every host stay within their
\* states, whichever revisions, backups and restores it has been through.
THEOREM OperationsTyped == OperationsSpec => []OperationsTypeOK
<1>1. HostInv /\ BlueGreenTypeOK => OperationsTypeOK
  <2> SUFFICES ASSUME HostInv, BlueGreenTypeOK PROVE BackupsTypeOK  BY DEF OperationsTypeOK
  <2>1. HostTyped /\ RowsFit(events, store, opened, backup.id, restore.id, drill.id)
    BY DEF HostInv, EveryRowFits, AllRows
  <2>2. db.rev \in 0..Newest  BY <2>1, SchemaOfRevision DEF HostTyped
  <2>3. DOMAIN events \subseteq 1..opened  BY <2>1 DEF RowsFit
  <2>4. \A i \in DOMAIN events : events[i] \in Row  BY <2>1, RowTable DEF HostTyped
  <2>5. backup \in Backup /\ restore \in Restore /\ drill \in Drill  BY <2>1 DEF HostTyped
  <2>6. /\ backup.pc \in {"idle", "opened", "dumped", "uploaded"}
        /\ restore.pc \in {"idle", "opened", "verified", "stopped", "dropped", "loaded", "started"}
        /\ restore.target \in {"primary", "scratch"} /\ restore.by \in {"operator", "drill"}
        /\ drill.pc \in {"idle", "opened", "restored"}
    BY <2>5 DEF Backup, Restore, Drill
  <2>7. \A k \in DOMAIN store : store[k].bytes \in Bytes  BY <2>1, StoreTyped DEF Objects
  <2> QED  BY <2>1, <2>2, <2>3, <2>4, <2>6, <2>7 DEF BackupsTypeOK, HostTyped, Data, Row
<1> QED  BY <1>1, HostAlways, PTL

\* A row of admin_events that records a success names an object of the store:
\* that of a restore or a drill one with the bytes that were dumped, that of a
\* backup the object which this backup wrote, of its dump's size, whole unless a
\* partial object was stored before.  For any number of backups, restores that
\* put older rows back, drills, any of them at the same time, and kills between
\* any two steps of the scripts.
THEOREM SuccessIsStored == OperationsSpec => []SuccessMeansStored
<1>1. HostInv => SuccessMeansStored
  <2> SUFFICES ASSUME HostInv PROVE SuccessMeansStored  OBVIOUS
  <2>1. RowsFit(events, store, opened, backup.id, restore.id, drill.id)
    BY DEF HostInv, EveryRowFits, AllRows
  <2>2. \A i \in DOMAIN events : events[i].status = "success" => Backed(i, events[i], store)
    BY <2>1 DEF RowsFit
  <2> QED  BY <2>2 DEF Backed, BackedUp, SuccessMeansStored
<1> QED  BY <1>1, HostAlways, PTL

\* As long as every stored dump is whole, the database is whole while the app
\* serves it: the scripts stop the app before they drop the database of the
\* site, and start it only after pg_restore has put a dump back, also when they
\* fail or are killed half-way.
THEOREM ServedIsWhole == OperationsSpec => []WholeWhileServed
<1>1. HostInv => WholeWhileServed  BY DEF HostInv
<1> QED  BY <1>1, HostAlways, PTL

\* A revision of alembic stands for one schema: after any upgrades, downgrades
\* and restores the tables are those that running the revisions up from an empty
\* database creates.
THEOREM OneSchemaARevision == OperationsSpec => []DowngradeRestores
<1>1. HostInv => DowngradeRestores
  BY SchemaOfRevision DEF HostInv, HostTyped, DowngradeRestores, TablesAt
<1> QED  BY <1>1, HostAlways, PTL

\* With an operator who repairs the files before a script starts and rolls back
\* only to a healthy colour whose migrations have run, and as long as no script
\* is started while another one runs - which nothing in the scripts sees to -
\* Caddy's upstream is a container that answers and that finds every column its
\* code maps, for every set of releases and through every failure, migration,
\* rollback and restart of the host.
THEOREM TrafficServed ==
  ASSUME Careful, DeployDuring = {}, RollbackDuring = {}
  PROVE  OperationsSpec => []TrafficIsServed
<1>1. OperationsInit => ColorInv  BY ColorsBegin
<1>2. HostInv /\ BlueGreenTypeOK /\ ColorInv
        /\ [OnSingleService \/ OnBlueGreen]_<<app, db, blueGreenVars, backupVars>>
      => ColorInv'
  BY ColorsStay DEF hostNext
<1>3. HostInv /\ BlueGreenTypeOK /\ ColorInv => TrafficIsServed
  <2> SUFFICES ASSUME HostInv, BlueGreenTypeOK, ColorInv, app = "gone", ~window
               PROVE  color[upstream].state = "healthy" /\ Works(color[upstream].release, db)
    BY DEF TrafficIsServed
  <2> PICK r : r = color[upstream].release  OBVIOUS
  <2>1. Serves(upstream)  BY DEF ColorInv, FilesServe
  <2>2. color[upstream].state = "healthy" /\ r <= db.rev /\ ExpandOnly(r, db.rev)
    BY <2>1 DEF Serves
  <2>3. r \in Releases
    <3>1. upstream \in Colors  BY DEF BlueGreenTypeOK
    <3> QED  BY <3>1 DEF BlueGreenTypeOK
  <2>4. r \in 1..Newest  BY <2>3, ReleasesAreRevisions
  <2>5. db.rev \in 0..Newest /\ db.tables = TablesAt(db.rev)
    BY SchemaOfRevision DEF HostInv, HostTyped
  <2>6. db.rev \in r..Newest  BY <2>2, <2>4, <2>5 DEF Newest
  <2>7. Works(r, db)  BY <2>2, <2>4, <2>5, <2>6, NewerSchemaWorks
  <2> QED  BY <2>2, <2>7
<1> QED  BY <1>1, <1>2, <1>3, HostAlways, PTL DEF OperationsSpec

=============================================================================
