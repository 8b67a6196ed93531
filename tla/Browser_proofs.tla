--------------------------- MODULE Browser_proofs ---------------------------
(***************************************************************************)
(* Proofs about module Browser: the sessions and their locks (module       *)
(* Sessions), the calls and the sign-in dialog of a tab (module SignIn),   *)
(* and the bubbles of the chat window (module ChatWindow).                 *)
(***************************************************************************)
EXTENDS Browser, SequenceTheorems, FiniteSetTheorems, TLAPS

-----------------------------------------------------------------------------
(* The inductive invariant of the sessions *)

\* A queue holds a request once, and only requests that are under way.
QueueInv ==
  \A s \in Ids :
    /\ queue[s] \in Seq(Requests)
    /\ \A i, j \in 1 .. Len(queue[s]) : queue[s][i] = queue[s][j] => i = j
    /\ \A i \in 1 .. Len(queue[s]) : work[queue[s][i]].stage # "none"

\* Request q will write last_used_at of row s.
Refreshes(q, s) == work[q].touch /\ work[q].row = s

\* Requests that refresh a row queue up for it in the order of their lookups, and
\* one that has gone on holds the lock.
OrderInv ==
  \A s \in Ids : \A i, j \in 1 .. Len(queue[s]) :
    i < j /\ Refreshes(queue[s][i], s) /\ Refreshes(queue[s][j], s)
      => work[queue[s][i]].at <= work[queue[s][j]].at

LockInv ==
  \A q \in Requests : work[q].touch =>
    \E i \in 1 .. Len(queue[work[q].row]) :
      /\ queue[work[q].row][i] = q
      /\ work[q].stage = "open" \/ i = 1

\* What a request knows of its row: a refresh is not older than what the row
\* says, a use without one is not much younger.
LookupInv ==
  \A q \in Requests : work[q].stage # "none" /\ work[q].op # "login" =>
    LET row == rows[work[q].row]
    IN  /\ row.made
        /\ work[q].at <= now
        /\ IF work[q].touch THEN row.used <= work[q].at
           ELSE work[q].at <= row.used + Throttle

\* A session that is being opened has no row yet, and is opened once.
LoginInv ==
  /\ \A q \in Requests : work[q].op = "login" =>
       /\ ~ rows[work[q].row].made
       /\ work[q].at <= now
       /\ ~ work[q].touch /\ work[q].targets = {}
  /\ \A p, q \in Requests :
       work[p].op = "login" /\ work[q].op = "login" /\ work[p].row = work[q].row => p = q

\* A session that was found by a sign-out-everywhere is a target of it.
FoundInv ==
  \A q \in Requests : /\ work[q].found \subseteq work[q].targets
                      /\ \A s \in work[q].found : rows[s].made
                      /\ work[q].stage = "none" => work[q] = NoJob

RowsInv ==
  \A s \in Ids : IF rows[s].made
                 THEN /\ rows[s].idle = rows[s].used + Idle
                      /\ served[s] <= rows[s].used + Throttle
                 ELSE served[s] = 0

SignedOutInv == \A s \in signedOut : rows[s].made /\ rows[s].revoked

SessionsInv ==
  /\ SessionsTypeOK /\ signedOut \subseteq Ids
  /\ QueueInv /\ OrderInv /\ LockInv
  /\ LookupInv /\ LoginInv /\ FoundInv
  /\ RowsInv /\ SignedOutInv

-----------------------------------------------------------------------------
(* Queues *)

\* What the operators on sequences return.
LEMMA Joined ==
  ASSUME NEW S, NEW a \in Seq(S), NEW b \in Seq(S)
  PROVE  /\ a \o b \in Seq(S)
         /\ Len(a \o b) = Len(a) + Len(b)
         /\ \A j \in 1 .. Len(a) + Len(b) :
              (a \o b)[j] = IF j <= Len(a) THEN a[j] ELSE b[j - Len(a)]
  OBVIOUS

LEMMA RemoveAtSeq ==
  ASSUME NEW S, NEW s \in Seq(S), NEW i \in 1 .. Len(s), NEW t, t = RemoveAt(s, i)
  PROVE  /\ t \in Seq(S)
         /\ Len(t) = Len(s) - 1
         /\ \A j \in 1 .. Len(t) : t[j] = IF j < i THEN s[j] ELSE s[j + 1]
<1>1. PICK a : a = SubSeq(s, 1, i - 1)
  OBVIOUS
<1>2. PICK b : b = SubSeq(s, i + 1, Len(s))
  OBVIOUS
<1>3. a \in Seq(S) /\ Len(a) = i - 1 /\ \A j \in 1 .. i - 1 : a[j] = s[j]
  BY <1>1
<1>4. b \in Seq(S) /\ Len(b) = Len(s) - i /\ \A j \in 1 .. Len(s) - i : b[j] = s[i + j]
  BY <1>2
<1>5. t = a \o b
  BY <1>1, <1>2 DEF RemoveAt
<1>6. t \in Seq(S) /\ Len(t) = Len(a) + Len(b)
  BY <1>3, <1>4, <1>5, Joined
<1>7. Len(s) \in Nat
  OBVIOUS
<1>8. Len(t) = Len(s) - 1
  BY ONLY <1>3, <1>4, <1>6, <1>7, i \in 1 .. Len(s)
<1>9. ASSUME NEW j \in 1 .. Len(t) PROVE t[j] = IF j < i THEN s[j] ELSE s[j + 1]
  <2>1. t[j] = IF j <= Len(a) THEN a[j] ELSE b[j - Len(a)]
    BY <1>3, <1>4, <1>5, <1>6, Joined
  <2>2. CASE j < i
    BY <1>3, <2>1, <2>2
  <2>3. CASE ~ j < i
    <3>1. j - (i - 1) \in 1 .. Len(s) - i
      BY <1>8, <2>3, <1>7
    <3>2. t[j] = b[j - (i - 1)]
      BY <1>3, <2>1, <2>3
    <3>3. b[j - (i - 1)] = s[i + (j - (i - 1))]
      BY <1>4, <3>1
    <3> QED
      BY <3>2, <3>3, <2>3
  <2> QED
    BY <2>2, <2>3
<1> QED
  BY <1>6, <1>8, <1>9

LEMMA AppendSeq ==
  ASSUME NEW S, NEW s \in Seq(S), NEW e \in S, NEW t, t = Append(s, e)
  PROVE  /\ t \in Seq(S)
         /\ Len(t) = Len(s) + 1
         /\ \A i \in 1 .. Len(s) : t[i] = s[i]
         /\ t[Len(s) + 1] = e
  OBVIOUS

\* Who asks for locks stands behind the others, once.
LEMMA Enqueued ==
  ASSUME QueueInv, NEW q \in Requests, NEW S, Enqueue(q, S), NEW s \in Ids
  PROVE  /\ queue'[s] \in Seq(Requests)
         /\ \/ queue'[s] = queue[s]
            \/ /\ s \in S
               /\ \A i \in 1 .. Len(queue[s]) : queue[s][i] # q
               /\ Len(queue'[s]) = Len(queue[s]) + 1
               /\ \A i \in 1 .. Len(queue[s]) : queue'[s][i] = queue[s][i]
               /\ queue'[s][Len(queue[s]) + 1] = q
         /\ s \in S => \E i \in 1 .. Len(queue'[s]) : queue'[s][i] = q
<1>1. queue[s] \in Seq(Requests)
  BY DEF QueueInv
<1>2. CASE s \in S /\ ~ Contains(queue[s], q)
  <2>1. queue'[s] = Append(queue[s], q)
    BY <1>2 DEF Enqueue
  <2>2. /\ queue'[s] \in Seq(Requests)
        /\ Len(queue'[s]) = Len(queue[s]) + 1
        /\ \A i \in 1 .. Len(queue[s]) : queue'[s][i] = queue[s][i]
        /\ queue'[s][Len(queue[s]) + 1] = q
    BY <1>1, <2>1, AppendSeq
  <2>3. Len(queue[s]) \in Nat
    BY <1>1
  <2>4. Len(queue[s]) + 1 \in 1 .. Len(queue'[s])
    BY <2>2, <2>3
  <2> QED
    BY <1>2, <2>2, <2>4 DEF Contains
<1>3. CASE ~ (s \in S /\ ~ Contains(queue[s], q))
  <2>1. queue'[s] = queue[s]
    BY <1>3 DEF Enqueue
  <2> QED
    BY <1>1, <1>3, <2>1 DEF Contains
<1> QED
  BY <1>2, <1>3

\* Who releases its locks leaves the queues, the others stay in their order.
LEMMA Dequeued ==
  ASSUME QueueInv, NEW q \in Requests, queue' = Unlocked(q), NEW s \in Ids
  PROVE  /\ queue'[s] \in Seq(Requests)
         /\ \/ /\ queue'[s] = queue[s]
               /\ \A i \in 1 .. Len(queue[s]) : queue[s][i] # q
            \/ \E k \in 1 .. Len(queue[s]) :
                 /\ queue[s][k] = q
                 /\ Len(queue'[s]) = Len(queue[s]) - 1
                 /\ \A i \in 1 .. Len(queue'[s]) :
                      queue'[s][i] = IF i < k THEN queue[s][i] ELSE queue[s][i + 1]
<1>1. queue[s] \in Seq(Requests)
  BY DEF QueueInv
<1>2. CASE Contains(queue[s], q)
  <2>1. PICK k : k = CHOOSE i \in 1 .. Len(queue[s]) : queue[s][i] = q
    OBVIOUS
  <2>2. k \in 1 .. Len(queue[s]) /\ queue[s][k] = q
    BY <1>2, <2>1 DEF Contains
  <2>3. queue'[s] = RemoveAt(queue[s], k)
    BY <1>2, <2>1 DEF Unlocked
  <2>4. /\ queue'[s] \in Seq(Requests)
        /\ Len(queue'[s]) = Len(queue[s]) - 1
        /\ \A i \in 1 .. Len(queue'[s]) :
             queue'[s][i] = IF i < k THEN queue[s][i] ELSE queue[s][i + 1]
    BY <1>1, <2>2, <2>3, RemoveAtSeq, SMTT(60)
  <2> QED
    BY <2>2, <2>4
<1>3. CASE ~ Contains(queue[s], q)
  <2>1. queue'[s] = queue[s]
    BY <1>3 DEF Unlocked
  <2> QED
    BY <1>1, <1>3, <2>1 DEF Contains
<1> QED
  BY <1>2, <1>3

\* The same, by places: i stands where i or i + 1 stood, and who is not q has
\* moved ahead at most by one.
LEMMA Moved ==
  ASSUME QueueInv, NEW q \in Requests, queue' = Unlocked(q), NEW s \in Ids
  PROVE  \E f \in [1 .. Len(queue'[s]) -> 1 .. Len(queue[s])] :
           /\ \A i \in 1 .. Len(queue'[s]) : queue'[s][i] = queue[s][f[i]] /\ queue'[s][i] # q
           /\ \A i, j \in 1 .. Len(queue'[s]) : i < j => f[i] < f[j]
           /\ \A j \in 1 .. Len(queue[s]) : queue[s][j] # q =>
                \E i \in 1 .. Len(queue'[s]) : f[i] = j /\ i <= j
<1>1. queue[s] \in Seq(Requests) /\ Len(queue[s]) \in Nat
  BY DEF QueueInv
<1>2. \A i, j \in 1 .. Len(queue[s]) : queue[s][i] = queue[s][j] => i = j
  BY DEF QueueInv
<1>3. CASE queue'[s] = queue[s] /\ \A i \in 1 .. Len(queue[s]) : queue[s][i] # q
  <2>1. PICK f : f = [i \in 1 .. Len(queue[s]) |-> i]
    OBVIOUS
  <2>2. f \in [1 .. Len(queue'[s]) -> 1 .. Len(queue[s])]
    BY <2>1, <1>3
  <2>3. \A i \in 1 .. Len(queue[s]) : f[i] = i
    BY <2>1
  <2> QED
    BY <2>2, <2>3, <1>3
<1>4. CASE \E k \in 1 .. Len(queue[s]) :
             /\ queue[s][k] = q
             /\ Len(queue'[s]) = Len(queue[s]) - 1
             /\ \A i \in 1 .. Len(queue'[s]) :
                  queue'[s][i] = IF i < k THEN queue[s][i] ELSE queue[s][i + 1]
  <2>1. PICK k \in 1 .. Len(queue[s]) :
             /\ queue[s][k] = q
             /\ Len(queue'[s]) = Len(queue[s]) - 1
             /\ \A i \in 1 .. Len(queue'[s]) :
                  queue'[s][i] = IF i < k THEN queue[s][i] ELSE queue[s][i + 1]
    BY <1>4
  <2>2. PICK f : f = [i \in 1 .. Len(queue[s]) - 1 |-> IF i < k THEN i ELSE i + 1]
    OBVIOUS
  <2>3. f \in [1 .. Len(queue'[s]) -> 1 .. Len(queue[s])]
    BY <1>1, <2>1, <2>2
  <2>4. \A i \in 1 .. Len(queue'[s]) : f[i] = IF i < k THEN i ELSE i + 1
    BY <2>1, <2>2
  <2>5. \A i \in 1 .. Len(queue'[s]) : f[i] \in 1 .. Len(queue[s]) /\ f[i] # k
    BY <2>3, <2>4, <2>1
  <2>6. \A i \in 1 .. Len(queue'[s]) : queue'[s][i] = queue[s][f[i]]
    BY <2>1, <2>4
  <2>7. \A i \in 1 .. Len(queue'[s]) : queue'[s][i] # q
    BY <2>1, <2>5, <2>6, <1>2
  <2>8. \A i, j \in 1 .. Len(queue'[s]) : i < j => f[i] < f[j]
    BY <2>4
  <2>9. ASSUME NEW j \in 1 .. Len(queue[s]), queue[s][j] # q
        PROVE  \E i \in 1 .. Len(queue'[s]) : f[i] = j /\ i <= j
    <3>1. j # k
      BY <2>1, <2>9
    <3>2. CASE j < k
      <4>1. j \in 1 .. Len(queue'[s]) /\ f[j] = j
        BY <1>1, <2>1, <2>4, <3>2
      <4> QED
        BY <4>1
    <3>3. CASE j > k
      <4>1. j - 1 \in 1 .. Len(queue'[s]) /\ f[j - 1] = j
        BY <1>1, <2>1, <2>4, <3>3
      <4> QED
        BY <4>1
    <3> QED
      BY <3>1, <3>2, <3>3
  <2> QED
    BY <2>3, <2>6, <2>7, <2>8, <2>9
<1> QED
  BY <1>3, <1>4, Dequeued

\* A request that ends leaves the queues in order.
LEMMA Released ==
  ASSUME work \in [Requests -> Job], QueueInv, OrderInv, LockInv,
         NEW q \in Requests, queue' = Unlocked(q), work' = [work EXCEPT ![q] = NoJob]
  PROVE  QueueInv' /\ OrderInv' /\ LockInv'
<1>1. work'[q] = NoJob /\ \A p \in Requests : p # q => work'[p] = work[p]
  OBVIOUS
<1>2. \A s \in Ids : queue'[s] \in Seq(Requests)
  BY Dequeued
<1>3. QueueInv'
  <2> SUFFICES ASSUME NEW s \in Ids
               PROVE  /\ \A i, j \in 1 .. Len(queue'[s]) : queue'[s][i] = queue'[s][j] => i = j
                      /\ \A i \in 1 .. Len(queue'[s]) : work'[queue'[s][i]].stage # "none"
    BY <1>2 DEF QueueInv
  <2>1. PICK f \in [1 .. Len(queue'[s]) -> 1 .. Len(queue[s])] :
           /\ \A i \in 1 .. Len(queue'[s]) : queue'[s][i] = queue[s][f[i]] /\ queue'[s][i] # q
           /\ \A i, j \in 1 .. Len(queue'[s]) : i < j => f[i] < f[j]
    BY Moved
  <2>2. \A i \in 1 .. Len(queue'[s]) : queue'[s][i] \in Requests
    BY <1>2
  <2>3. \A i \in 1 .. Len(queue'[s]) : f[i] \in 1 .. Len(queue[s])
    OBVIOUS
  <2>4. ASSUME NEW i \in 1 .. Len(queue'[s]) PROVE work'[queue'[s][i]].stage # "none"
    <3>1. work'[queue'[s][i]] = work[queue[s][f[i]]]
      BY <1>1, <2>1, <2>2
    <3> QED
      BY <3>1, <2>3 DEF QueueInv
  <2>5. ASSUME NEW i \in 1 .. Len(queue'[s]), NEW j \in 1 .. Len(queue'[s]),
               queue'[s][i] = queue'[s][j]
        PROVE  i = j
    <3>1. f[i] = f[j]
      BY <2>1, <2>3, <2>5 DEF QueueInv
    <3> QED
      BY <3>1, <2>1, <2>3
  <2> QED
    BY <2>4, <2>5
<1>4. OrderInv'
  <2> SUFFICES ASSUME NEW s \in Ids, NEW i \in 1 .. Len(queue'[s]), NEW j \in 1 .. Len(queue'[s]),
                      i < j,
                      work'[queue'[s][i]].touch, work'[queue'[s][i]].row = s,
                      work'[queue'[s][j]].touch, work'[queue'[s][j]].row = s
               PROVE  work'[queue'[s][i]].at <= work'[queue'[s][j]].at
    BY DEF OrderInv, Refreshes
  <2>1. PICK f \in [1 .. Len(queue'[s]) -> 1 .. Len(queue[s])] :
           /\ \A l \in 1 .. Len(queue'[s]) : queue'[s][l] = queue[s][f[l]] /\ queue'[s][l] # q
           /\ \A l, m \in 1 .. Len(queue'[s]) : l < m => f[l] < f[m]
    BY Moved, SMTT(60)
  <2>2. queue'[s][i] \in Requests /\ queue'[s][j] \in Requests
    BY <1>2
  <2>3. /\ work'[queue'[s][i]] = work[queue[s][f[i]]]
        /\ work'[queue'[s][j]] = work[queue[s][f[j]]]
    BY <1>1, <2>1, <2>2
  <2>4. f[i] \in 1 .. Len(queue[s]) /\ f[j] \in 1 .. Len(queue[s]) /\ f[i] < f[j]
    BY <2>1
  <2> QED
    BY <2>3, <2>4, ZenonT(60) DEF OrderInv, Refreshes
<1>5. LockInv'
  <2> SUFFICES ASSUME NEW p \in Requests, work'[p].touch
               PROVE  \E i \in 1 .. Len(queue'[work'[p].row]) :
                        /\ queue'[work'[p].row][i] = p
                        /\ work'[p].stage = "open" \/ i = 1
    BY DEF LockInv
  <2>1. p # q /\ work'[p] = work[p]
    BY <1>1 DEF NoJob
  <2>2. PICK s \in Ids : s = work[p].row
    BY DEF Job
  <2>3. PICK j \in 1 .. Len(queue[s]) : queue[s][j] = p /\ (work[p].stage = "open" \/ j = 1)
    BY <2>1, <2>2 DEF LockInv
  <2>4. PICK f \in [1 .. Len(queue'[s]) -> 1 .. Len(queue[s])] :
           /\ \A l \in 1 .. Len(queue'[s]) : queue'[s][l] = queue[s][f[l]] /\ queue'[s][l] # q
           /\ \A l \in 1 .. Len(queue[s]) : queue[s][l] # q =>
                \E i \in 1 .. Len(queue'[s]) : f[i] = l /\ i <= l
    BY Moved
  <2>5. PICK i \in 1 .. Len(queue'[s]) : f[i] = j /\ i <= j
    BY <2>1, <2>3, <2>4
  <2>6. queue'[s][i] = p
    BY <2>3, <2>4, <2>5
  <2>7. work[p].stage = "open" \/ i = 1
    BY <2>3, <2>5
  <2> QED
    BY <2>1, <2>2, <2>6, <2>7
<1> QED
  BY <1>3, <1>4, <1>5

LEMMA EnqueuedOnce ==
  ASSUME work \in [Requests -> Job], QueueInv, NEW q \in Requests, NEW S, Enqueue(q, S),
         NEW j, j.stage # "none", work' = [work EXCEPT ![q] = j]
  PROVE  QueueInv'
<1>1. work'[q] = j /\ \A p \in Requests : p # q => work'[p] = work[p]
  OBVIOUS
<1>2. SUFFICES ASSUME NEW s \in Ids
               PROVE  /\ queue'[s] \in Seq(Requests)
                      /\ \A i, l \in 1 .. Len(queue'[s]) : queue'[s][i] = queue'[s][l] => i = l
                      /\ \A i \in 1 .. Len(queue'[s]) : work'[queue'[s][i]].stage # "none"
  BY DEF QueueInv
<1>3. queue'[s] \in Seq(Requests) /\ queue[s] \in Seq(Requests) /\ Len(queue[s]) \in Nat
  BY Enqueued DEF QueueInv
<1>4. ASSUME NEW i \in 1 .. Len(queue[s]) PROVE work'[queue[s][i]].stage # "none"
  <2>1. queue[s][i] \in Requests /\ work[queue[s][i]].stage # "none"
    BY <1>3 DEF QueueInv
  <2> QED
    BY <1>1, <2>1
<1>5. \A i, l \in 1 .. Len(queue[s]) : queue[s][i] = queue[s][l] => i = l
  BY DEF QueueInv
<1>6. CASE queue'[s] = queue[s]
  BY <1>3, <1>4, <1>5, <1>6
<1>7. CASE /\ \A i \in 1 .. Len(queue[s]) : queue[s][i] # q
           /\ Len(queue'[s]) = Len(queue[s]) + 1
           /\ \A i \in 1 .. Len(queue[s]) : queue'[s][i] = queue[s][i]
           /\ queue'[s][Len(queue[s]) + 1] = q
  <2>1. \A i \in 1 .. Len(queue'[s]) : i \in 1 .. Len(queue[s]) \/ i = Len(queue[s]) + 1
    BY <1>3, <1>7
  <2>2. \A i \in 1 .. Len(queue'[s]) : work'[queue'[s][i]].stage # "none"
    BY <1>1, <1>4, <1>7, <2>1
  <2>3. \A i, l \in 1 .. Len(queue'[s]) : queue'[s][i] = queue'[s][l] => i = l
    BY <1>5, <1>7, <2>1
  <2> QED
    BY <1>3, <2>2, <2>3
<1> QED
  BY <1>6, <1>7, Enqueued

\* A request that looks its session up and will refresh it queues up for the
\* row behind those that looked it up before.
LEMMA LookedUp ==
  ASSUME work \in [Requests -> Job], QueueInv, OrderInv, LockInv,
         \A p \in Requests : work[p].touch => work[p].at <= now,
         NEW q \in Requests, work[q].stage = "none",
         NEW j \in Job, j.stage = "open", j.at = now,
         Enqueue(q, IF j.touch THEN {j.row} ELSE {}), work' = [work EXCEPT ![q] = j]
  PROVE  QueueInv' /\ OrderInv' /\ LockInv'
<1>1. work'[q] = j /\ \A p \in Requests : p # q => work'[p] = work[p]
  OBVIOUS
<1>2. QueueInv'
  BY EnqueuedOnce
<1>3. OrderInv'
  <2> SUFFICES ASSUME NEW s \in Ids, NEW i \in 1 .. Len(queue'[s]), NEW l \in 1 .. Len(queue'[s]),
                      i < l,
                      work'[queue'[s][i]].touch, work'[queue'[s][i]].row = s,
                      work'[queue'[s][l]].touch, work'[queue'[s][l]].row = s
               PROVE  work'[queue'[s][i]].at <= work'[queue'[s][l]].at
    BY DEF OrderInv, Refreshes
  <2>1. queue[s] \in Seq(Requests) /\ Len(queue[s]) \in Nat
    BY DEF QueueInv
  <2>2. ASSUME NEW k \in 1 .. Len(queue[s])
        PROVE  queue[s][k] \in Requests /\ work'[queue[s][k]] = work[queue[s][k]]
    <3>1. queue[s][k] \in Requests /\ work[queue[s][k]].stage # "none"
      BY <2>1 DEF QueueInv
    <3> QED
      BY <1>1, <3>1
  <2>3. CASE i \in 1 .. Len(queue[s]) /\ l \in 1 .. Len(queue[s])
             /\ queue'[s][i] = queue[s][i] /\ queue'[s][l] = queue[s][l]
    BY <2>2, <2>3 DEF OrderInv, Refreshes
  <2>4. CASE i \in 1 .. Len(queue[s]) /\ queue'[s][i] = queue[s][i] /\ queue'[s][l] = q
    BY <1>1, <2>2, <2>4
  <2> QED
    BY <2>1, <2>3, <2>4, Enqueued
<1>4. LockInv'
  <2> SUFFICES ASSUME NEW p \in Requests, work'[p].touch
               PROVE  \E i \in 1 .. Len(queue'[work'[p].row]) :
                        /\ queue'[work'[p].row][i] = p
                        /\ work'[p].stage = "open" \/ i = 1
    BY DEF LockInv
  <2>1. PICK s \in Ids : s = work'[p].row
    BY <1>1 DEF Job
  <2>2. CASE p = q
    <3>1. s \in IF j.touch THEN {j.row} ELSE {}
      BY <1>1, <2>1, <2>2
    <3> QED
      BY <1>1, <2>1, <2>2, <3>1, Enqueued
  <2>3. CASE p # q
    <3>1. PICK i \in 1 .. Len(queue[s]) : queue[s][i] = p /\ (work[p].stage = "open" \/ i = 1)
      BY <1>1, <2>1, <2>3 DEF LockInv
    <3>2. Len(queue[s]) \in Nat
      BY DEF QueueInv
    <3>3. i \in 1 .. Len(queue'[s]) /\ queue'[s][i] = p
      BY <3>1, <3>2, Enqueued
    <3> QED
      BY <1>1, <2>1, <2>3, <3>1, <3>3
  <2> QED
    BY <2>2, <2>3
<1> QED
  BY <1>2, <1>3, <1>4

\* A request that goes on holds the locks it waited for; its targets do not
\* make it wait for the row that it refreshes.
LEMMA WentOn ==
  ASSUME work \in [Requests -> Job], QueueInv, OrderInv, LockInv,
         NEW q \in Requests, ~ Waits(q), NEW S, Enqueue(q, S),
         NEW j \in Job, j.stage # "none", j.at = work[q].at, j.touch = work[q].touch,
         j.row = work[q].row, work' = [work EXCEPT ![q] = j]
  PROVE  QueueInv' /\ OrderInv' /\ LockInv'
<1>1. work'[q] = j /\ \A p \in Requests : p # q => work'[p] = work[p]
  OBVIOUS
<1>2. QueueInv'
  BY EnqueuedOnce
<1>3. \A p \in Requests : /\ work'[p].touch = work[p].touch
                          /\ work'[p].row = work[p].row
                          /\ work'[p].at = work[p].at
  BY <1>1
<1>4. \A s \in Ids : /\ queue[s] \in Seq(Requests)
                     /\ queue'[s] \in Seq(Requests)
                     /\ Len(queue[s]) \in Nat
  BY <1>2 DEF QueueInv
<1>5. ASSUME work[q].touch
      PROVE  queue[work[q].row] # <<>> /\ queue[work[q].row][1] = q
  <2>1. PICK s \in Ids : s = work[q].row
    BY DEF Job
  <2>2. PICK i \in 1 .. Len(queue[s]) : queue[s][i] = q
    BY <1>5, <2>1 DEF LockInv
  <2>3. Head(queue[s]) = q
    BY <2>1, <2>2 DEF Waits, Contains
  <2>4. queue[s] # <<>> /\ Head(queue[s]) = queue[s][1]
    BY <1>4, <2>2
  <2> QED
    BY <2>1, <2>3, <2>4
<1>6. ASSUME NEW s \in Ids, work[q].touch, work[q].row = s
      PROVE  queue'[s] = queue[s]
  <2>1. 1 \in 1 .. Len(queue[s]) /\ queue[s][1] = q
    BY <1>4, <1>5, <1>6
  <2> QED
    BY <2>1, Enqueued
<1>7. OrderInv'
  <2> SUFFICES ASSUME NEW s \in Ids, NEW i \in 1 .. Len(queue'[s]), NEW l \in 1 .. Len(queue'[s]),
                      i < l,
                      work'[queue'[s][i]].touch, work'[queue'[s][i]].row = s,
                      work'[queue'[s][l]].touch, work'[queue'[s][l]].row = s
               PROVE  work'[queue'[s][i]].at <= work'[queue'[s][l]].at
    BY DEF OrderInv, Refreshes
  <2>1. queue'[s][i] \in Requests /\ queue'[s][l] \in Requests
    BY <1>4
  <2>2. CASE i \in 1 .. Len(queue[s]) /\ l \in 1 .. Len(queue[s])
             /\ queue'[s][i] = queue[s][i] /\ queue'[s][l] = queue[s][l]
    BY <1>3, <2>1, <2>2 DEF OrderInv, Refreshes
  <2>3. CASE queue'[s][l] = q
    <3>1. queue'[s] = queue[s]
      BY <1>3, <1>6, <2>3
    <3> QED
      BY <2>2, <3>1
  <2> QED
    BY <1>4, <2>2, <2>3, Enqueued
<1>8. LockInv'
  <2> SUFFICES ASSUME NEW p \in Requests, work'[p].touch
               PROVE  \E i \in 1 .. Len(queue'[work'[p].row]) :
                        /\ queue'[work'[p].row][i] = p
                        /\ work'[p].stage = "open" \/ i = 1
    BY DEF LockInv
  <2>1. PICK s \in Ids : s = work'[p].row
    BY <1>1 DEF Job
  <2>2. CASE p = q
    <3>1. queue'[s] = queue[s] /\ queue[s] # <<>> /\ queue[s][1] = q
      BY <1>3, <1>5, <1>6, <2>1, <2>2
    <3>2. 1 \in 1 .. Len(queue'[s])
      BY <3>1, <1>4
    <3> QED
      BY <2>1, <2>2, <3>1, <3>2
  <2>3. CASE p # q
    <3>1. PICK i \in 1 .. Len(queue[s]) : queue[s][i] = p /\ (work[p].stage = "open" \/ i = 1)
      BY <1>3, <2>1 DEF LockInv
    <3>2. i \in 1 .. Len(queue'[s]) /\ queue'[s][i] = p
      BY <1>4, <3>1, Enqueued
    <3> QED
      BY <1>1, <2>1, <2>3, <3>1, <3>2
  <2> QED
    BY <2>2, <2>3
<1> QED
  BY <1>2, <1>7, <1>8

-----------------------------------------------------------------------------
(* The steps of the server *)

\* What a request must know for the invariant, while the rows stay as they are.
LEMMA RowsKept ==
  ASSUME work \in [Requests -> Job], LookupInv, LoginInv, FoundInv, RowsInv, SignedOutInv,
         NEW q \in Requests, NEW j \in Job,
         work' = [work EXCEPT ![q] = j], UNCHANGED <<now, rows, served, signedOut>>,
         j.stage # "none" /\ j.op # "login" =>
           /\ rows[j.row].made
           /\ j.at <= now
           /\ IF j.touch THEN rows[j.row].used <= j.at
              ELSE j.at <= rows[j.row].used + Throttle,
         j.op = "login" =>
           /\ ~ rows[j.row].made
           /\ j.at <= now
           /\ ~ j.touch /\ j.targets = {}
           /\ \A p \in Requests \ {q} : work[p].op = "login" => work[p].row # j.row,
         j.found \subseteq j.targets, \A s \in j.found : rows[s].made,
         j.stage = "none" => j = NoJob
  PROVE  LookupInv' /\ LoginInv' /\ FoundInv' /\ RowsInv' /\ SignedOutInv'
<1>1. work'[q] = j /\ \A p \in Requests : p # q => work'[p] = work[p]
  OBVIOUS
<1>2. LookupInv'
  BY <1>1 DEF LookupInv
<1>3. LoginInv'
  BY <1>1 DEF LoginInv
<1>4. FoundInv'
  BY <1>1 DEF FoundInv
<1>5. RowsInv' /\ SignedOutInv'
  BY DEF RowsInv, SignedOutInv
<1> QED
  BY <1>2, <1>3, <1>4, <1>5

\* The times of the lookups lie behind.
LEMMA LookedUpBefore ==
  ASSUME SessionsInv
  PROVE  \A p \in Requests : work[p].touch => work[p].at <= now
<1>1. ASSUME NEW p \in Requests, work[p].touch PROVE work[p].stage # "none" /\ work[p].op # "login"
  BY <1>1 DEF SessionsInv, FoundInv, LoginInv, NoJob
<1> QED
  BY <1>1 DEF SessionsInv, LookupInv

LEMMA EnqueueType ==
  ASSUME NEW q \in Requests, NEW S, Enqueue(q, S), QueueInv'
  PROVE  queue' \in [Ids -> Seq(Requests)]
BY DEF Enqueue, QueueInv

\* Answers of requests.
LEMMA SaysType ==
  ASSUME NEW word \in {"ok", "unauthorised", "error"}
  PROVE  Says(word) \in Answer /\ NoAnswer \in Answer
BY TimesAssumption DEF Says, Answer, NoAnswer, Keep

LEMMA AskStep ==
  ASSUME SessionsInv, NEW q \in Requests, NEW s,
         NEW op \in {"use", "logout", "logout_all", "revoke"}, Ask(q, s, op)
  PROVE  SessionsInv'
<1> USE DEF SessionsInv
<1>1. /\ work[q].stage = "none"
      /\ UNCHANGED <<now, rows, served, signedOut>>
  BY DEF Ask
<1>2. CASE /\ answer' = [answer EXCEPT ![q] = Says("unauthorised")]
           /\ UNCHANGED <<work, queue>>
  <2>1. answer' \in [Requests -> Answer]
    BY <1>2, SaysType DEF SessionsTypeOK
  <2>2. SessionsTypeOK'
    BY <1>1, <1>2, <2>1 DEF SessionsTypeOK
  <2>3. QueueInv' /\ OrderInv' /\ LockInv'
    BY <1>2 DEF QueueInv, OrderInv, LockInv, Refreshes
  <2>4. LookupInv' /\ LoginInv' /\ FoundInv' /\ RowsInv' /\ SignedOutInv'
    BY <1>1, <1>2 DEF LookupInv, LoginInv, FoundInv, RowsInv, SignedOutInv
  <2> QED
    BY <1>1, <2>2, <2>3, <2>4
<1>3. CASE /\ s \in Ids /\ Open(s)
           /\ work' = [work EXCEPT ![q] = [stage |-> "open", op |-> op, row |-> s, at |-> now,
                                           touch |-> Stale(s), targets |-> {}, found |-> {}]]
           /\ Enqueue(q, IF Stale(s) THEN {s} ELSE {})
           /\ UNCHANGED answer
  <2>1. PICK j : j = [stage |-> "open", op |-> op, row |-> s, at |-> now,
                      touch |-> Stale(s), targets |-> {}, found |-> {}]
    OBVIOUS
  <2>2. /\ j.stage = "open" /\ j.op = op /\ j.row = s /\ j.at = now /\ j.touch = Stale(s)
        /\ j.targets = {} /\ j.found = {}
    BY <2>1
  <2>3. j \in Job
    BY <1>3, <2>1 DEF Job, SessionsTypeOK, Stale
  <2>4. work' = [work EXCEPT ![q] = j] /\ Enqueue(q, IF j.touch THEN {j.row} ELSE {})
    BY <1>3, <2>1, <2>2
  <2>5. QueueInv' /\ OrderInv' /\ LockInv'
    BY <1>1, <2>2, <2>3, <2>4, LookedUp, LookedUpBefore DEF SessionsTypeOK
  <2>6. rows[s].made /\ rows[s].used \in 0 .. MaxTime
    BY <1>3 DEF Open, SessionsTypeOK, Row
  <2>7. IF j.touch THEN rows[j.row].used <= j.at ELSE j.at <= rows[j.row].used + Throttle
    <3>1. PICK u \in 0 .. MaxTime : u = rows[s].used
      BY <2>6
    <3>2. now \in 0 .. MaxTime /\ MaxTime \in Nat /\ Throttle \in Nat
      BY TimesAssumption DEF SessionsTypeOK
    <3>3. CASE now - u > Throttle
      <4>1. u <= now
        BY <3>2, <3>3
      <4>2. j.touch = TRUE
        BY <2>2, <3>1, <3>3 DEF Stale
      <4> QED
        BY <2>2, <3>1, <4>1, <4>2
    <3>4. CASE ~ (now - u > Throttle)
      <4>1. now <= u + Throttle
        BY <3>2, <3>4
      <4>2. ~ j.touch
        BY <2>2, <3>1, <3>4 DEF Stale
      <4> QED
        BY <2>2, <3>1, <4>1, <4>2
    <3> QED
      BY <3>3, <3>4
  <2>8. LookupInv' /\ LoginInv' /\ FoundInv' /\ RowsInv' /\ SignedOutInv'
    <3>1. now <= now
      BY DEF SessionsTypeOK
    <3>2. work \in [Requests -> Job]
      BY DEF SessionsTypeOK
    <3> QED
      BY <1>1, <2>2, <2>3, <2>4, <2>6, <2>7, <3>1, <3>2, RowsKept
  <2>9. SessionsTypeOK'
    <3>1. work' \in [Requests -> Job]
      BY <2>3, <2>4 DEF SessionsTypeOK
    <3>2. queue' \in [Ids -> Seq(Requests)]
      BY <2>4, <2>5, EnqueueType
    <3> QED
      BY <1>1, <1>3, <2>5, <3>1, <3>2 DEF SessionsTypeOK, QueueInv
  <2> QED
    BY <1>1, <2>5, <2>8, <2>9
<1> QED
  BY <1>2, <1>3 DEF Ask

LEMMA LoginStep ==
  ASSUME SessionsInv, NEW q \in Requests, Login(q)
  PROVE  SessionsInv'
<1> USE DEF SessionsInv
<1>1. /\ work[q].stage = "none"
      /\ UNCHANGED <<now, rows, queue, served, signedOut>>
  BY DEF Login
<1>2. CASE answer' = [answer EXCEPT ![q] = Says("unauthorised")] /\ UNCHANGED work
  <2>1. answer' \in [Requests -> Answer]
    BY <1>2, SaysType DEF SessionsTypeOK
  <2>2. SessionsTypeOK'
    BY <1>1, <1>2, <2>1 DEF SessionsTypeOK
  <2>3. QueueInv' /\ OrderInv' /\ LockInv'
    BY <1>1, <1>2 DEF QueueInv, OrderInv, LockInv, Refreshes
  <2>4. LookupInv' /\ LoginInv' /\ FoundInv' /\ RowsInv' /\ SignedOutInv'
    BY <1>1, <1>2 DEF LookupInv, LoginInv, FoundInv, RowsInv, SignedOutInv
  <2> QED
    BY <1>1, <2>2, <2>3, <2>4
<1>3. CASE \E s \in Ids :
             /\ ~ rows[s].made
             /\ \A p \in Requests : work[p].op = "login" => work[p].row # s
             /\ work' = [work EXCEPT ![q] = [stage |-> "acting", op |-> "login", row |-> s,
                                             at |-> now, touch |-> FALSE, targets |-> {},
                                             found |-> {}]]
             /\ UNCHANGED answer
  <2>1. PICK s \in Ids :
             /\ ~ rows[s].made
             /\ \A p \in Requests : work[p].op = "login" => work[p].row # s
             /\ work' = [work EXCEPT ![q] = [stage |-> "acting", op |-> "login", row |-> s,
                                             at |-> now, touch |-> FALSE, targets |-> {},
                                             found |-> {}]]
             /\ UNCHANGED answer
    BY <1>3
  <2>2. PICK j : j = [stage |-> "acting", op |-> "login", row |-> s, at |-> now,
                      touch |-> FALSE, targets |-> {}, found |-> {}]
    OBVIOUS
  <2>3. /\ j.stage = "acting" /\ j.op = "login" /\ j.row = s /\ j.at = now /\ j.touch = FALSE
        /\ j.targets = {} /\ j.found = {}
    BY <2>2
  <2>4. j \in Job
    BY <2>2 DEF Job, SessionsTypeOK
  <2>5. work' = [work EXCEPT ![q] = j]
    BY <2>1, <2>2
  <2>6. work' \in [Requests -> Job] /\ work'[q] = j /\ \A p \in Requests : p # q => work'[p] = work[p]
    BY <2>4, <2>5 DEF SessionsTypeOK
  <2>7. \A s_1 \in Ids : \A i \in 1 .. Len(queue[s_1]) :
          queue[s_1][i] \in Requests /\ queue[s_1][i] # q
    BY <1>1 DEF QueueInv
  <2>8. QueueInv'
    BY <1>1, <2>6, <2>7 DEF QueueInv
  <2>9. OrderInv' /\ LockInv'
    <3>1. OrderInv'
      BY <1>1, <2>6, <2>7 DEF OrderInv, Refreshes
    <3>2. LockInv'
      BY <1>1, <2>3, <2>6 DEF LockInv
    <3> QED
      BY <3>1, <3>2
  <2>10. LookupInv' /\ LoginInv' /\ FoundInv' /\ RowsInv' /\ SignedOutInv'
    <3>1. now <= now
      BY DEF SessionsTypeOK
    <3>2. work \in [Requests -> Job]
      BY DEF SessionsTypeOK
    <3> QED
      BY <1>1, <2>1, <2>3, <2>4, <2>5, <3>1, <3>2, RowsKept
  <2>11. SessionsTypeOK'
    BY <1>1, <2>1, <2>6, <2>8 DEF SessionsTypeOK, QueueInv
  <2> QED
    BY <1>1, <2>8, <2>9, <2>10, <2>11
<1> QED
  BY <1>2, <1>3 DEF Login

\* The targets of a request, and what a sign-out-everywhere finds among them.
LEMMA TargetsOf ==
  ASSUME work \in [Requests -> Job], rows \in [Ids -> Row], NEW q \in Requests,
         NEW targets \in Targets(q),
         NEW found, found = {s \in Ids : Open(s) /\ work[q].op = "logout_all"}
  PROVE  /\ targets \subseteq Ids /\ found \subseteq targets
         /\ \A s \in found : rows[s].made
         /\ work[q].op = "login" => targets = {} /\ found = {}
<1>1. \A s \in found : rows[s].made
  BY DEF Open
<1>2. work[q].row \in Ids
  BY DEF Job
<1>3. CASE work[q].op = "logout_all"
  <2>1. targets = {work[q].row} \cup {s \in Ids : Open(s)}
    BY <1>3 DEF Targets
  <2> QED
    BY <1>1, <1>2, <1>3, <2>1
<1>4. CASE work[q].op # "logout_all"
  <2>1. found = {}
    BY <1>4
  <2>2. targets \subseteq Ids
    BY <1>2, <1>4 DEF Targets
  <2>3. work[q].op = "login" => targets = {}
    BY DEF Targets
  <2> QED
    BY <1>1, <2>1, <2>2, <2>3
<1> QED
  BY <1>3, <1>4

LEMMA ActStep ==
  ASSUME SessionsInv, NEW q \in Requests, Act(q)
  PROVE  SessionsInv'
<1> USE DEF SessionsInv
<1>1. /\ work[q].stage = "open" /\ ~ Waits(q)
      /\ UNCHANGED <<now, rows, answer, served, signedOut>>
  BY DEF Act
<1>2. PICK targets \in Targets(q) :
        /\ work' = [work EXCEPT ![q].stage = "acting", ![q].targets = targets,
                                ![q].found = {s \in Ids : Open(s) /\ work[q].op = "logout_all"}]
        /\ Enqueue(q, targets)
  BY DEF Act
<1>3. PICK found : found = {s \in Ids : Open(s) /\ work[q].op = "logout_all"}
  OBVIOUS
<1>4. work \in [Requests -> Job] /\ work[q] \in Job /\ rows \in [Ids -> Row]
  BY DEF SessionsTypeOK
<1>5. PICK j : j = [work[q] EXCEPT !.stage = "acting", !.targets = targets, !.found = found]
  OBVIOUS
<1>6. work' = [work EXCEPT ![q] = j]
  BY <1>2, <1>3, <1>4, <1>5 DEF Job
<1>7. /\ targets \subseteq Ids /\ found \subseteq targets
      /\ \A s \in found : rows[s].made
      /\ work[q].op = "login" => targets = {} /\ found = {}
  BY <1>3, <1>4, TargetsOf
<1>8. /\ j.stage = "acting" /\ j.op = work[q].op /\ j.row = work[q].row /\ j.at = work[q].at
      /\ j.touch = work[q].touch /\ j.targets = targets /\ j.found = found
  BY <1>4, <1>5 DEF Job
<1>9. j \in Job
  BY <1>4, <1>5, <1>7 DEF Job
<1>10. QueueInv' /\ OrderInv' /\ LockInv'
  BY <1>1, <1>2, <1>4, <1>6, <1>8, <1>9, WentOn
<1>11. LookupInv' /\ LoginInv' /\ FoundInv' /\ RowsInv' /\ SignedOutInv'
  <2>1. j.op # "login" =>
           /\ rows[j.row].made
           /\ j.at <= now
           /\ IF j.touch THEN rows[j.row].used <= j.at
              ELSE j.at <= rows[j.row].used + Throttle
    BY <1>1, <1>8 DEF LookupInv
  <2>2. j.op = "login" =>
           /\ ~ rows[j.row].made
           /\ j.at <= now
           /\ ~ j.touch /\ j.targets = {}
           /\ \A p \in Requests \ {q} : work[p].op = "login" => work[p].row # j.row
    BY <1>7, <1>8 DEF LoginInv
  <2> QED
    BY <1>1, <1>4, <1>6, <1>7, <1>8, <1>9, <2>1, <2>2, RowsKept
<1>12. SessionsTypeOK'
  <2>1. work' \in [Requests -> Job]
    BY <1>4, <1>6, <1>9
  <2>2. queue' \in [Ids -> Seq(Requests)]
    BY <1>2, <1>10, EnqueueType
  <2> QED
    BY <1>1, <1>10, <2>1, <2>2 DEF SessionsTypeOK, QueueInv
<1> QED
  BY <1>1, <1>10, <1>11, <1>12

LEMMA RespondStep ==
  ASSUME SessionsInv, NEW q \in Requests, Respond(q)
  PROVE  SessionsInv'
<1> USE DEF SessionsInv
<1>1. /\ work[q].stage = "acting" /\ ~ Waits(q)
      /\ work' = [work EXCEPT ![q].stage = "answered"]
      /\ UNCHANGED <<now, rows, queue, served, signedOut>>
  BY DEF Respond
<1>2. work \in [Requests -> Job] /\ work[q] \in Job
  BY DEF SessionsTypeOK
<1>3. PICK j : j = [work[q] EXCEPT !.stage = "answered"]
  OBVIOUS
<1>4. work' = [work EXCEPT ![q] = j]
  BY <1>1, <1>2, <1>3
<1>5. /\ j.stage = "answered" /\ j.op = work[q].op /\ j.row = work[q].row /\ j.at = work[q].at
      /\ j.touch = work[q].touch /\ j.targets = work[q].targets /\ j.found = work[q].found
  BY <1>2, <1>3 DEF Job
<1>6. j \in Job
  BY <1>2, <1>3 DEF Job
<1>7. Enqueue(q, {})
  BY <1>1 DEF Enqueue, SessionsTypeOK
<1>8. QueueInv' /\ OrderInv' /\ LockInv'
  BY <1>1, <1>2, <1>4, <1>5, <1>6, <1>7, WentOn
<1>9. LookupInv' /\ LoginInv' /\ FoundInv' /\ RowsInv' /\ SignedOutInv'
  <2>1. j.op # "login" =>
           /\ rows[j.row].made
           /\ j.at <= now
           /\ IF j.touch THEN rows[j.row].used <= j.at
              ELSE j.at <= rows[j.row].used + Throttle
    BY <1>1, <1>5 DEF LookupInv
  <2>2. j.op = "login" =>
           /\ ~ rows[j.row].made
           /\ j.at <= now
           /\ ~ j.touch /\ j.targets = {}
           /\ \A p \in Requests \ {q} : work[p].op = "login" => work[p].row # j.row
    BY <1>5 DEF LoginInv
  <2>3. j.found \subseteq j.targets /\ \A s \in j.found : rows[s].made
    BY <1>5 DEF FoundInv
  <2> QED
    BY <1>1, <1>2, <1>4, <1>5, <1>6, <2>1, <2>2, <2>3, RowsKept
<1>10. SessionsTypeOK'
  <2>1. work' \in [Requests -> Job]
    BY <1>2, <1>4, <1>6
  <2>2. answer' \in [Requests -> Answer]
    <3>1. PICK a : a = CASE work[q].op = "login" -> [says |-> "ok", cookie |-> work[q].row]
                         [] work[q].op \in {"logout", "logout_all"} -> [says |-> "ok", cookie |-> 0]
                         [] work[q].op = "revoke"
                              /\ (\A t \in work[q].targets : rows[t].revoked) -> Says("error")
                         [] OTHER -> Says("ok")
      OBVIOUS
    <3>2. answer' = [answer EXCEPT ![q] = a]
      BY <3>1 DEF Respond
    <3>3. work[q].row \in 0 .. Keep /\ 0 \in 0 .. Keep
      BY <1>2, TimesAssumption DEF Job, Ids, Keep
    <3>4. a \in Answer
      <4>1. [says |-> "ok", cookie |-> work[q].row] \in Answer /\ [says |-> "ok", cookie |-> 0] \in Answer
        BY <3>3 DEF Answer
      <4>2. Says("error") \in Answer /\ Says("ok") \in Answer
        BY SaysType
      <4> QED
        BY <3>1, <4>1, <4>2
    <3> QED
      BY <3>2, <3>4 DEF SessionsTypeOK
  <2> QED
    BY <1>1, <1>8, <2>1, <2>2 DEF SessionsTypeOK, QueueInv
<1> QED
  BY <1>1, <1>8, <1>9, <1>10

LEMMA RollbackStep ==
  ASSUME SessionsInv, NEW q \in Requests, Rollback(q)
  PROVE  SessionsInv'
<1> USE DEF SessionsInv
<1>1. /\ queue' = Unlocked(q)
      /\ work' = [work EXCEPT ![q] = NoJob]
      /\ UNCHANGED <<now, rows, served, signedOut>>
  BY DEF Rollback
<1>2. work \in [Requests -> Job]
  BY DEF SessionsTypeOK
<1>3. QueueInv' /\ OrderInv' /\ LockInv'
  BY <1>1, <1>2, Released
<1>4. /\ NoJob.stage = "none" /\ NoJob.op = "use" /\ NoJob.found = {} /\ NoJob.targets = {}
      /\ NoJob \in Job
  BY TimesAssumption DEF NoJob, Job, Ids
<1>5. LookupInv' /\ LoginInv' /\ FoundInv' /\ RowsInv' /\ SignedOutInv'
  BY <1>1, <1>2, <1>4, RowsKept
<1>6. SessionsTypeOK'
  <2>1. work' \in [Requests -> Job]
    BY <1>1, <1>2, <1>4
  <2>2. answer' \in [Requests -> Answer]
    <3>1. answer \in [Requests -> Answer] /\ Says("error") \in Answer
      BY SaysType DEF SessionsTypeOK
    <3> QED
      BY <3>1 DEF Rollback
  <2>3. queue' \in [Ids -> Seq(Requests)]
    BY <1>1, <1>3 DEF Unlocked, QueueInv
  <2> QED
    BY <1>1, <1>3, <2>1, <2>2, <2>3 DEF SessionsTypeOK, QueueInv
<1> QED
  BY <1>1, <1>3, <1>5, <1>6

LEMMA TickStep ==
  ASSUME SessionsInv, Tick
  PROVE  SessionsInv'
<1> USE DEF SessionsInv
<1>1. /\ now < MaxTime /\ now' = now + 1 /\ now \in 0 .. MaxTime
      /\ UNCHANGED <<rows, queue, work, answer, served, signedOut>>
  BY DEF Tick, SessionsTypeOK
<1>2. QueueInv' /\ OrderInv' /\ LockInv' /\ FoundInv' /\ RowsInv' /\ SignedOutInv'
  BY <1>1 DEF QueueInv, OrderInv, LockInv, Refreshes, FoundInv, RowsInv, SignedOutInv
<1>3. SessionsTypeOK'
  BY <1>1, TimesAssumption DEF SessionsTypeOK
<1>4. ASSUME NEW t \in 0 .. MaxTime, t <= now PROVE t <= now'
  BY <1>1, <1>4, TimesAssumption
<1>5. \A q \in Requests : work[q].at \in 0 .. MaxTime
  BY DEF SessionsTypeOK, Job
<1>6. LookupInv' /\ LoginInv'
  <2>1. LookupInv'
    BY <1>1, <1>4, <1>5 DEF LookupInv
  <2>2. LoginInv'
    BY <1>1, <1>4, <1>5 DEF LoginInv
  <2> QED
    BY <2>1, <2>2
<1> QED
  BY <1>1, <1>2, <1>3, <1>6

LEMMA ReadStep ==
  ASSUME SessionsInv, NEW q \in Requests, Read(q)
  PROVE  SessionsInv'
<1> USE DEF SessionsInv
<1>1. /\ answer' = [answer EXCEPT ![q] = NoAnswer]
      /\ UNCHANGED <<now, rows, queue, work, served, signedOut>>
  BY DEF Read
<1>2. answer' \in [Requests -> Answer]
  BY <1>1, SaysType DEF SessionsTypeOK
<1>3. SessionsTypeOK'
  BY <1>1, <1>2 DEF SessionsTypeOK
<1>4. QueueInv' /\ OrderInv' /\ LockInv'
  BY <1>1 DEF QueueInv, OrderInv, LockInv, Refreshes
<1>5. LookupInv' /\ LoginInv' /\ FoundInv' /\ RowsInv' /\ SignedOutInv'
  BY <1>1 DEF LookupInv, LoginInv, FoundInv, RowsInv, SignedOutInv
<1> QED
  BY <1>1, <1>3, <1>4, <1>5

\* What a request that commits leaves of a row.
LEMMA RowWritten ==
  ASSUME rows \in [Ids -> Row], work \in [Requests -> Job], LoginInv,
         NEW q \in Requests, NEW s \in Ids, NEW r, r = RowAfter(q, s)
  PROVE  /\ r \in Row
         /\ IF s = work[q].row /\ work[q].op = "login"
            THEN r = NewRow(work[q].at)
            ELSE /\ r.made = rows[s].made
                 /\ r.revoked = (rows[s].revoked \/ s \in work[q].targets)
                 /\ IF s = work[q].row /\ work[q].touch
                    THEN r.used = work[q].at /\ r.idle = work[q].at + Idle
                    ELSE r.used = rows[s].used /\ r.idle = rows[s].idle
<1>1. PICK row : row = [rows[s] EXCEPT !.revoked = @ \/ s \in work[q].targets]
  OBVIOUS
<1>2. rows[s] \in Row /\ work[q].at \in 0 .. MaxTime
  BY DEF Job
<1>3. /\ row \in Row
      /\ row.made = rows[s].made
      /\ row.revoked = (rows[s].revoked \/ s \in work[q].targets)
      /\ row.used = rows[s].used /\ row.idle = rows[s].idle
  BY <1>1, <1>2 DEF Row
<1>4. CASE s = work[q].row /\ work[q].op = "login"
  <2>1. r = NewRow(work[q].at)
    BY <1>4 DEF RowAfter, LoginInv
  <2>2. NewRow(work[q].at) \in Row
    BY <1>2, TimesAssumption DEF NewRow, Row
  <2> QED
    BY <1>4, <2>1, <2>2
<1>5. CASE ~ (s = work[q].row /\ work[q].op = "login") /\ s = work[q].row /\ work[q].touch
  <2>1. r = [row EXCEPT !.used = work[q].at, !.idle = work[q].at + Idle]
    BY <1>1, <1>5 DEF RowAfter
  <2>2. work[q].at + Idle \in Nat
    BY <1>2, TimesAssumption
  <2>3. /\ r \in Row /\ r.made = row.made /\ r.revoked = row.revoked
        /\ r.used = work[q].at /\ r.idle = work[q].at + Idle
    BY <1>2, <1>3, <2>1, <2>2 DEF Row
  <2> QED
    BY <1>3, <1>5, <2>3
<1>6. CASE ~ (s = work[q].row /\ work[q].op = "login") /\ ~ (s = work[q].row /\ work[q].touch)
  <2>1. r = row
    BY <1>1, <1>6 DEF RowAfter
  <2> QED
    BY <1>3, <1>6, <2>1
<1> QED
  BY <1>4, <1>5, <1>6

\* A request that commits knows that its row is its own to write: it opens it,
\* or refreshes it after all who stood before it in the queue.
LEMMA CommitWrites ==
  ASSUME SessionsInv, NEW q \in Requests, work[q].stage = "answered",
         rows' = [s \in Ids |-> RowAfter(q, s)], NEW s \in Ids
  PROVE  /\ rows[s].made => rows'[s].made /\ rows'[s].used >= rows[s].used
         /\ rows[s].made /\ rows[s].revoked => rows'[s].revoked
         /\ ~ rows[s].made => (rows'[s].made <=> s = work[q].row)
         /\ \A p \in Requests \ {q} : work[p].touch /\ work[p].row = s => rows'[s].used <= work[p].at
<1> USE DEF SessionsInv
<1>1. rows \in [Ids -> Row] /\ work \in [Requests -> Job]
  BY DEF SessionsTypeOK
<1>2. PICK r : r = RowAfter(q, s)
  OBVIOUS
<1>3. rows'[s] = r
  BY <1>2
<1>4. rows[s].used \in 0 .. MaxTime /\ work[q].at \in 0 .. MaxTime
      /\ \A p \in Requests : work[p].at \in 0 .. MaxTime
  BY <1>1 DEF Row, Job
<1>5. ASSUME NEW p \in Requests, work[p].touch
      PROVE  work[p].op # "login" /\ rows[work[p].row].made /\ rows[work[p].row].used <= work[p].at
  <2>1. work[p].op # "login" /\ work[p].stage # "none"
    BY <1>5 DEF LoginInv, FoundInv, NoJob
  <2> QED
    BY <1>5, <2>1 DEF LookupInv
<1>6. CASE s = work[q].row /\ work[q].op = "login"
  <2>1. r = NewRow(work[q].at) /\ ~ rows[s].made
    BY <1>1, <1>2, <1>6, RowWritten DEF LoginInv
  <2>2. r.made
    BY <2>1 DEF NewRow
  <2> QED
    BY <1>3, <1>5, <1>6, <2>1, <2>2
<1>7. CASE ~ (s = work[q].row /\ work[q].op = "login") /\ s = work[q].row /\ work[q].touch
  <2>1. r.used = work[q].at /\ r.made = rows[s].made /\ r.revoked = (rows[s].revoked \/ s \in work[q].targets)
    BY <1>1, <1>2, <1>7, RowWritten
  <2>2. rows[s].made /\ rows[s].used <= work[q].at
    BY <1>5, <1>7
  <2>3. ASSUME NEW p \in Requests \ {q}, work[p].touch, work[p].row = s
        PROVE  work[q].at <= work[p].at
    <3>1. PICK i \in 1 .. Len(queue[s]) : queue[s][i] = p
      BY <2>3 DEF LockInv
    <3>2. PICK k \in 1 .. Len(queue[s]) : queue[s][k] = q /\ k = 1
      BY <1>7 DEF LockInv
    <3>3. k < i
      BY <3>1, <3>2
    <3> QED
      BY <1>7, <2>3, <3>1, <3>2, <3>3 DEF OrderInv, Refreshes
  <2> QED
    BY <1>3, <1>4, <2>1, <2>2, <2>3
<1>8. CASE ~ (s = work[q].row /\ work[q].op = "login") /\ ~ (s = work[q].row /\ work[q].touch)
  <2>1. /\ r.used = rows[s].used /\ r.made = rows[s].made
        /\ r.revoked = (rows[s].revoked \/ s \in work[q].targets)
    BY <1>1, <1>2, <1>8, RowWritten
  <2>2. ~ rows[s].made => s # work[q].row
    BY <1>8 DEF LookupInv
  <2>3. \A p \in Requests \ {q} : work[p].touch /\ work[p].row = s => rows'[s].used <= work[p].at
    BY <1>3, <1>5, <2>1
  <2>4. rows'[s].used >= rows[s].used
    BY <1>3, <1>4, <2>1
  <2> QED
    BY <1>3, <2>1, <2>2, <2>3, <2>4
<1> QED
  BY <1>6, <1>7, <1>8

LEMMA CommitStep ==
  ASSUME SessionsInv, NEW q \in Requests, Commit(q)
  PROVE  SessionsInv'
<1> USE DEF SessionsInv
<1>1. /\ work[q].stage = "answered"
      /\ rows' = [s \in Ids |-> RowAfter(q, s)]
      /\ queue' = Unlocked(q)
      /\ work' = [work EXCEPT ![q] = NoJob]
      /\ signedOut' = signedOut \cup work[q].found
      /\ UNCHANGED <<now, answer>>
  BY DEF Commit
<1>2. /\ rows \in [Ids -> Row] /\ work \in [Requests -> Job] /\ served \in [Ids -> 0 .. MaxTime]
      /\ now \in 0 .. MaxTime
  BY DEF SessionsTypeOK
<1>3. work'[q] = NoJob /\ \A p \in Requests : p # q => work'[p] = work[p]
  BY <1>1, <1>2
<1>4. /\ NoJob.stage = "none" /\ NoJob.op = "use" /\ NoJob.found = {} /\ NoJob.targets = {}
      /\ NoJob \in Job
  BY TimesAssumption DEF NoJob, Job, Ids
<1>5. rows' \in [Ids -> Row]
  BY <1>1, <1>2, RowWritten
<1>6. work[q].row \in Ids /\ work[q].at \in 0 .. MaxTime /\ work[q].found \subseteq Ids
  BY <1>2 DEF Job
<1>7. PICK latest \in 0 .. MaxTime :
        /\ latest = IF served[work[q].row] < work[q].at THEN work[q].at ELSE served[work[q].row]
        /\ served' = [served EXCEPT ![work[q].row] = latest]
  BY <1>2, <1>6 DEF Commit
<1>8. QueueInv' /\ OrderInv' /\ LockInv'
  BY <1>1, <1>2, Released
<1>9. SessionsTypeOK'
  <2>1. work' \in [Requests -> Job]
    BY <1>1, <1>2, <1>4
  <2>2. queue' \in [Ids -> Seq(Requests)]
    BY <1>1, <1>8 DEF Unlocked, QueueInv
  <2>3. served' \in [Ids -> 0 .. MaxTime]
    BY <1>2, <1>6, <1>7
  <2> QED
    BY <1>1, <1>5, <1>8, <2>1, <2>2, <2>3 DEF SessionsTypeOK, QueueInv
<1>10. signedOut' \subseteq Ids
  BY <1>1, <1>6
<1>11. LookupInv'
  <2> SUFFICES ASSUME NEW p \in Requests, p # q, work[p].stage # "none", work[p].op # "login"
               PROVE  /\ rows'[work[p].row].made
                      /\ work[p].at <= now
                      /\ IF work[p].touch THEN rows'[work[p].row].used <= work[p].at
                         ELSE work[p].at <= rows'[work[p].row].used + Throttle
    BY <1>1, <1>3, <1>4 DEF LookupInv
  <2>1. PICK s \in Ids : s = work[p].row
    BY <1>2 DEF Job
  <2>2. /\ rows[s].made
        /\ work[p].at <= now
        /\ ~ work[p].touch => work[p].at <= rows[s].used + Throttle
    BY <2>1 DEF LookupInv
  <2>3. rows'[s].made /\ rows'[s].used >= rows[s].used
    BY <1>1, <2>2, CommitWrites
  <2>4. work[p].touch => rows'[s].used <= work[p].at
    BY <1>1, <2>1, CommitWrites
  <2>5. rows'[s].used \in Nat /\ rows[s].used \in Nat /\ work[p].at \in Nat /\ Throttle \in Nat
    BY <1>2, <1>5, TimesAssumption DEF Row, Job
  <2>6. ~ work[p].touch => work[p].at <= rows'[s].used + Throttle
    BY <2>2, <2>3, <2>5
  <2> QED
    BY <2>1, <2>2, <2>3, <2>4, <2>6
<1>12. LoginInv'
  <2>1. ASSUME NEW p \in Requests, p # q, work[p].op = "login"
        PROVE  ~ rows'[work[p].row].made
    <3>1. PICK s \in Ids : s = work[p].row
      BY <1>2 DEF Job
    <3>2. ~ rows[s].made /\ s # work[q].row
      <4>1. ~ rows[s].made
        BY <2>1, <3>1 DEF LoginInv
      <4>2. work[q].op = "login" => work[q].row # s
        BY <2>1, <3>1 DEF LoginInv
      <4>3. work[q].op # "login" => rows[work[q].row].made
        BY <1>1 DEF LookupInv
      <4> QED
        BY <4>1, <4>2, <4>3
    <3> QED
      BY <1>1, <3>1, <3>2, CommitWrites
  <2> QED
    BY <1>1, <1>3, <1>4, <2>1 DEF LoginInv
<1>13. FoundInv'
  <2>1. ASSUME NEW p \in Requests, p # q, NEW s \in work[p].found PROVE rows'[s].made
    <3>1. s \in Ids /\ rows[s].made
      BY <1>2 DEF FoundInv, Job
    <3> QED
      BY <1>1, <3>1, CommitWrites
  <2> QED
    BY <1>3, <1>4, <2>1 DEF FoundInv
<1>14. SignedOutInv'
  <2> SUFFICES ASSUME NEW s \in signedOut' PROVE rows'[s].made /\ rows'[s].revoked
    BY DEF SignedOutInv
  <2>1. CASE s \in signedOut
    BY <1>1, <2>1, CommitWrites DEF SignedOutInv
  <2>2. CASE s \in work[q].found
    <3>1. s \in Ids /\ rows[s].made /\ s \in work[q].targets
      BY <1>6, <2>2 DEF FoundInv
    <3>2. ~ (s = work[q].row /\ work[q].op = "login")
      BY <3>1 DEF LoginInv
    <3>3. rows'[s] = RowAfter(q, s)
      BY <1>1, <3>1
    <3>4. rows'[s].made = rows[s].made
          /\ rows'[s].revoked = (rows[s].revoked \/ s \in work[q].targets)
      BY <1>2, <3>1, <3>2, <3>3, RowWritten
    <3> QED
      BY <3>1, <3>4
  <2> QED
    BY <1>1, <2>1, <2>2
<1>15. RowsInv'
  <2> SUFFICES ASSUME NEW s \in Ids
               PROVE  IF rows'[s].made
                      THEN /\ rows'[s].idle = rows'[s].used + Idle
                           /\ served'[s] <= rows'[s].used + Throttle
                      ELSE served'[s] = 0
    BY DEF RowsInv
  <2>1. PICK r : r = RowAfter(q, s)
    OBVIOUS
  <2>2. rows'[s] = r
    BY <1>1, <2>1
  <2>3. /\ rows[s].used \in Nat /\ served[s] \in Nat /\ work[q].at \in Nat /\ latest \in Nat
        /\ Throttle \in Nat /\ Idle \in Nat
    BY <1>2, <1>6, TimesAssumption DEF Row
  <2>4. IF rows[s].made
        THEN /\ rows[s].idle = rows[s].used + Idle
             /\ served[s] <= rows[s].used + Throttle
        ELSE served[s] = 0
    BY DEF RowsInv
  <2>5. served'[s] = IF s = work[q].row THEN latest ELSE served[s]
    BY <1>2, <1>7
  <2>6. CASE s = work[q].row /\ work[q].op = "login"
    <3>1. r = NewRow(work[q].at) /\ ~ rows[s].made
      BY <1>2, <2>1, <2>6, RowWritten DEF LoginInv
    <3>2. r.made /\ r.used = work[q].at /\ r.idle = work[q].at + Idle
      BY <3>1 DEF NewRow
    <3>3. served'[s] = work[q].at
      BY <1>7, <2>3, <2>4, <2>5, <2>6, <3>1
    <3>4. work[q].at <= work[q].at + Throttle
      BY <2>3
    <3> QED
      BY <2>2, <3>2, <3>3, <3>4
  <2>7. CASE ~ (s = work[q].row /\ work[q].op = "login") /\ s = work[q].row /\ work[q].touch
    <3>1. r.used = work[q].at /\ r.idle = work[q].at + Idle /\ r.made = rows[s].made
      BY <1>2, <2>1, <2>7, RowWritten
    <3>2. rows[s].made /\ rows[s].used <= work[q].at
      BY <1>1, <2>7 DEF LookupInv
    <3>3. served[s] <= work[q].at + Throttle
      BY <2>3, <2>4, <3>2
    <3>4. served'[s] <= work[q].at + Throttle
      BY <1>7, <2>3, <2>5, <2>7, <3>3
    <3> QED
      BY <2>2, <3>1, <3>2, <3>4
  <2>8. CASE ~ (s = work[q].row /\ work[q].op = "login") /\ ~ (s = work[q].row /\ work[q].touch)
    <3>1. r.used = rows[s].used /\ r.idle = rows[s].idle /\ r.made = rows[s].made
      BY <1>2, <2>1, <2>8, RowWritten
    <3>2. CASE s = work[q].row
      <4>1. rows[s].made /\ work[q].at <= rows[s].used + Throttle
        BY <1>1, <2>8, <3>2 DEF LookupInv
      <4>2. latest <= rows[s].used + Throttle
        BY <1>7, <2>3, <2>4, <3>2, <4>1
      <4> QED
        BY <2>2, <2>4, <2>5, <3>1, <3>2, <4>1, <4>2
    <3>3. CASE s # work[q].row
      BY <2>2, <2>4, <2>5, <3>1, <3>3
    <3> QED
      BY <3>2, <3>3
  <2> QED
    BY <2>6, <2>7, <2>8
<1> QED
  BY <1>8, <1>9, <1>10, <1>11, <1>12, <1>13, <1>14, <1>15

-----------------------------------------------------------------------------
(* The calls of a tab and the dialog *)

AccountInv == SessionsInv /\ SignInTypeOK /\ WaitersHaveDialog

LEMMA AccountInit == Init => AccountInv
<1> SUFFICES ASSUME Init PROVE AccountInv
  OBVIOUS
<1> USE DEF Init, ServerInit
<1>1. 1 \in Ids /\ 0 \in 0 .. MaxTime /\ Idle \in Nat /\ Absolute \in Nat /\ Throttle \in Nat
  BY TimesAssumption DEF Ids
<1>2. NoRow \in Row /\ NewRow(0) \in Row /\ NoJob \in Job /\ NoAnswer \in Answer
  BY <1>1, TimesAssumption DEF NoRow, NewRow, Row, NoJob, Job, NoAnswer, Answer, Keep
<1>3. SessionsTypeOK
  <2>1. rows \in [Ids -> Row] /\ work \in [Requests -> Job] /\ answer \in [Requests -> Answer]
    BY <1>2
  <2>2. queue \in [Ids -> Seq(Requests)] /\ \A s \in Ids : Len(queue[s]) = 0
    OBVIOUS
  <2>3. served \in [Ids -> 0 .. MaxTime]
    BY <1>1
  <2> QED
    BY <1>1, <2>1, <2>2, <2>3 DEF SessionsTypeOK
<1>4. QueueInv /\ OrderInv
  BY DEF QueueInv, OrderInv
<1>5. LockInv /\ LookupInv /\ LoginInv /\ FoundInv /\ SignedOutInv
  <2>1. \A q \in Requests : work[q] = NoJob
    OBVIOUS
  <2>2. NoJob.stage = "none" /\ NoJob.op = "use" /\ ~ NoJob.touch /\ NoJob.found = {}
    BY DEF NoJob
  <2> QED
    BY <2>1, <2>2 DEF LockInv, LookupInv, LoginInv, FoundInv, SignedOutInv
<1>6. RowsInv
  <2> SUFFICES ASSUME NEW s \in Ids
               PROVE  IF rows[s].made
                      THEN /\ rows[s].idle = rows[s].used + Idle
                           /\ served[s] <= rows[s].used + Throttle
                      ELSE served[s] = 0
    BY DEF RowsInv
  <2>1. CASE s = 1
    BY <1>1, <2>1 DEF NewRow
  <2>2. CASE s # 1
    BY <2>2 DEF NoRow
  <2> QED
    BY <2>1, <2>2
<1>7. SignInTypeOK
  <2>1. cookie \in 0 .. MaxRows
    BY TimesAssumption
  <2>2. AtRest \in [stage : {"idle", "sent", "sent_again", "waiting", "replay", "leaving"},
                    op : {"use", "logout", "logout_all", "revoke"}]
    BY DEF AtRest
  <2> QED
    BY <1>3, <2>1, <2>2 DEF SignInTypeOK
<1>8. WaitersHaveDialog
  BY DEF WaitersHaveDialog, AtRest
<1> QED
  BY <1>3, <1>4, <1>5, <1>6, <1>7, <1>8 DEF SessionsInv, AccountInv

TabType == [Calls -> [stage : {"idle", "sent", "sent_again", "waiting", "replay", "leaving"},
                      op : {"use", "logout", "logout_all", "revoke"}]]

\* The parts of the tab, after a step of which the server's part is known.
LEMMA TabAfter ==
  ASSUME SessionsInv', cookie' \in 0 .. MaxRows, tab' \in TabType, isOpen' \in BOOLEAN,
         (\E c \in Calls : tab'[c].stage = "waiting") => isOpen'
  PROVE  AccountInv'
BY DEF AccountInv, SessionsInv, SignInTypeOK, TabType, WaitersHaveDialog

\* The browser keeps or sets the cookie of a session, or clears it.
LEMMA CookieRead ==
  ASSUME AccountInv, NEW q \in Requests, Read(q)
  PROVE  cookie' \in 0 .. MaxRows
<1>1. answer[q].cookie \in 0 .. MaxRows + 1 /\ cookie \in 0 .. MaxRows /\ MaxRows \in Nat
  BY TimesAssumption DEF AccountInv, SignInTypeOK, SessionsTypeOK, Answer, Keep
<1>2. cookie' = IF answer[q].cookie = MaxRows + 1 THEN cookie ELSE answer[q].cookie
  BY DEF Read, Keep
<1> QED
  BY <1>1, <1>2

\* Whoever waits goes on.
LEMMA Resumed ==
  ASSUME tab \in TabType, NEW next, Resume(next),
         \A c \in Calls : /\ next[c] \in [stage : {"idle", "replay"},
                                          op : {"use", "logout", "logout_all", "revoke"}]
  PROVE  tab' \in TabType /\ \A c \in Calls : tab'[c].stage # "waiting"
<1>1. tab' = [c \in Calls |-> IF tab[c].stage = "waiting" THEN next[c] ELSE tab[c]]
  BY DEF Resume
<1>2. ASSUME NEW c \in Calls
      PROVE  /\ tab'[c] \in [stage : {"idle", "sent", "sent_again", "waiting", "replay", "leaving"},
                             op : {"use", "logout", "logout_all", "revoke"}]
             /\ tab'[c].stage # "waiting"
  BY <1>1 DEF TabType
<1> QED
  BY <1>1, <1>2 DEF TabType

LEMMA AccountStepInv == AccountInv /\ [Next]_vars => AccountInv'
<1> SUFFICES ASSUME AccountInv, [Next]_vars PROVE AccountInv'
  OBVIOUS
<1>1. /\ SessionsInv /\ cookie \in 0 .. MaxRows /\ tab \in TabType /\ isOpen \in BOOLEAN
      /\ (\E c \in Calls : tab[c].stage = "waiting") => isOpen
  BY DEF AccountInv, SignInTypeOK, TabType, WaitersHaveDialog
<1>2. \A c \in Calls : c \in Requests /\ tab[c].op \in {"use", "logout", "logout_all", "revoke"}
                       /\ Ops[c] \subseteq {"use", "logout", "logout_all", "revoke"}
  BY <1>1, OpsAssumption DEF TabType, Calls
<1>3. ASSUME Tick, UNCHANGED tabVars PROVE AccountInv'
  <2>1. SessionsInv'
    BY <1>1, <1>3, TickStep
  <2> QED
    BY <1>1, <1>3, <2>1, TabAfter DEF tabVars
<1>4. ASSUME NEW q \in Requests, Server(q) PROVE AccountInv'
  <2>1. SessionsInv'
    BY <1>1, <1>4, ActStep, RespondStep, CommitStep, RollbackStep DEF Server, ServerStep
  <2> QED
    BY <1>1, <1>4, <2>1, TabAfter DEF Server, tabVars
<1>5. ASSUME NEW c \in Calls, NEW op \in Ops[c], Send(c, op) PROVE AccountInv'
  <2>1. SessionsInv'
    BY <1>1, <1>2, <1>5, AskStep DEF Send
  <2>2. PICK t : t = [stage |-> IF op = "logout" THEN "leaving" ELSE "sent", op |-> op]
    OBVIOUS
  <2>3. tab' = [tab EXCEPT ![c] = t]
    BY <1>5, <2>2 DEF Send
  <2>4. /\ t \in [stage : {"idle", "sent", "sent_again", "waiting", "replay", "leaving"},
                  op : {"use", "logout", "logout_all", "revoke"}]
        /\ t.stage # "waiting"
    BY <1>2, <2>2
  <2>5. tab' \in TabType
    BY <1>1, <2>3, <2>4 DEF TabType
  <2>6. \A b \in Calls : tab'[b].stage = "waiting" => tab[b].stage = "waiting"
    BY <1>1, <2>3, <2>4 DEF TabType
  <2> QED
    BY <1>1, <1>5, <2>1, <2>5, <2>6, TabAfter DEF Send
<1>6. ASSUME NEW c \in Calls, SendAgain(c) PROVE AccountInv'
  <2>1. SessionsInv'
    BY <1>1, <1>2, <1>6, AskStep DEF SendAgain
  <2>2. tab' = [tab EXCEPT ![c].stage = "sent_again"]
    BY <1>6 DEF SendAgain
  <2>3. tab' \in TabType
    BY <1>1, <2>2 DEF TabType
  <2>4. \A b \in Calls : tab'[b].stage = "waiting" => tab[b].stage = "waiting"
    BY <1>1, <2>2 DEF TabType
  <2> QED
    BY <1>1, <1>6, <2>1, <2>3, <2>4, TabAfter DEF SendAgain
<1>7. ASSUME NEW c \in Calls, Refused(c) PROVE AccountInv'
  <2>1. SessionsInv' /\ cookie' \in 0 .. MaxRows
    BY <1>1, <1>2, <1>7, ReadStep, CookieRead DEF Refused
  <2>2. tab' = [tab EXCEPT ![c].stage = "waiting"] /\ isOpen' = TRUE
    BY <1>7 DEF Refused
  <2>3. tab' \in TabType
    BY <1>1, <2>2 DEF TabType
  <2> QED
    BY <2>1, <2>2, <2>3, TabAfter
<1>8. ASSUME NEW c \in Calls, Done(c) PROVE AccountInv'
  <2>1. SessionsInv' /\ cookie' \in 0 .. MaxRows
    BY <1>1, <1>2, <1>8, ReadStep, CookieRead DEF Done
  <2>2. tab' = [tab EXCEPT ![c] = AtRest] /\ UNCHANGED isOpen
    BY <1>8 DEF Done
  <2>3. tab' \in TabType
    BY <1>1, <2>2 DEF TabType, AtRest
  <2>4. \A b \in Calls : tab'[b].stage = "waiting" => tab[b].stage = "waiting"
    BY <1>1, <2>2 DEF TabType, AtRest
  <2> QED
    BY <1>1, <2>1, <2>2, <2>3, <2>4, TabAfter
<1>9. ASSUME Submit PROVE AccountInv'
  <2>1. SessionsInv'
    BY <1>1, <1>9, LoginStep, DialogAssumption DEF Submit
  <2> QED
    BY <1>1, <1>9, <2>1, TabAfter DEF Submit, tabVars
<1>10. ASSUME SignedIn PROVE AccountInv'
  <2>1. SessionsInv' /\ cookie' \in 0 .. MaxRows
    BY <1>1, <1>10, ReadStep, CookieRead, DialogAssumption DEF SignedIn
  <2>2. PICK next : next = [c \in Calls |-> [tab[c] EXCEPT !.stage = "replay"]]
    OBVIOUS
  <2>3. Resume(next) /\ isOpen' = FALSE
    BY <1>10, <2>2 DEF SignedIn
  <2>4. \A c \in Calls : next[c] \in [stage : {"idle", "replay"},
                                      op : {"use", "logout", "logout_all", "revoke"}]
    BY <1>1, <2>2 DEF TabType
  <2>5. tab' \in TabType /\ \A c \in Calls : tab'[c].stage # "waiting"
    BY <1>1, <2>3, <2>4, Resumed
  <2> QED
    BY <2>1, <2>3, <2>5, TabAfter
<1>11. ASSUME SignInFails PROVE AccountInv'
  <2>1. SessionsInv' /\ cookie' \in 0 .. MaxRows
    BY <1>1, <1>11, ReadStep, CookieRead, DialogAssumption DEF SignInFails
  <2> QED
    BY <1>1, <1>11, <2>1, TabAfter DEF SignInFails
<1>12. ASSUME Cancel PROVE AccountInv'
  <2>1. SessionsInv' /\ cookie' = cookie /\ isOpen' = FALSE
    BY <1>1, <1>12 DEF Cancel, serverVars, SessionsInv, SessionsTypeOK, QueueInv, OrderInv, LockInv,
                       Refreshes, LookupInv, LoginInv, FoundInv, RowsInv, SignedOutInv
  <2>2. PICK next : next = [c \in Calls |-> AtRest]
    OBVIOUS
  <2>3. Resume(next)
    BY <1>12, <2>2 DEF Cancel
  <2>4. \A c \in Calls : next[c] \in [stage : {"idle", "replay"},
                                      op : {"use", "logout", "logout_all", "revoke"}]
    BY <2>2 DEF AtRest
  <2>5. tab' \in TabType /\ \A c \in Calls : tab'[c].stage # "waiting"
    BY <1>1, <2>3, <2>4, Resumed
  <2> QED
    BY <1>1, <2>1, <2>5, TabAfter
<1>13. ASSUME UNCHANGED vars PROVE AccountInv'
  BY <1>13 DEF vars, serverVars, AccountInv, SignInTypeOK, WaitersHaveDialog,
               SessionsInv, SessionsTypeOK, QueueInv, OrderInv, LockInv,
               Refreshes, LookupInv, LoginInv, FoundInv, RowsInv, SignedOutInv
<1> QED
  BY <1>3, <1>4, <1>5, <1>6, <1>7, <1>8, <1>9, <1>10, <1>11, <1>12, <1>13 DEF Next

-----------------------------------------------------------------------------
(* The inductive invariant of the chat window *)

ReaderType == [kind : {"live", "replay"}, state : {"asking", "reading", "closed"},
               conv : 0 .. Len(turns), turn : 0 .. Len(turns),
               seq : 0 .. Length, rows : SUBSET (1 .. Length), marker : BOOLEAN]
IdType == [turn : Nat, seq : Nat]
BubbleType == [reader : Nat, shown : Seq(IdType)]
TurnType == [conv : Nat, issued : 0 .. Length, rows : SUBSET (1 .. Length),
             state : {"running", "done", "error", "dead"}]

\* A row is stored of the announcement at once, and of the texts before the end.
RowsOK(turn) ==
  /\ \A k \in turn.rows : k <= turn.issued
  /\ turn.issued # 0 => 1 \in turn.rows
  /\ Length \in turn.rows => Length - 1 \in turn.rows
\* A turn later has more rows, with greater numbers.
Grown(turn, later) ==
  /\ turn.rows \subseteq later.rows
  /\ \A k \in later.rows \ turn.rows : \A x \in turn.rows : x < k

\* Bubbles, readers and turns are what they are, and refer to what exists.
WindowTypes ==
  /\ turns \in Seq(TurnType)
  /\ \A t \in 1 .. Len(turns) : /\ turns[t].conv \in 1 .. t
                                /\ turns[t].state = "running" => turns[t].issued < Length
                                /\ RowsOK(turns[t])
  /\ messages \in Seq(BubbleType)
  /\ \A i \in 1 .. Len(messages) : messages[i].reader \in 0 .. Len(readers)
  /\ readers \in Seq(ReaderType)
  /\ lastEventId \in IdType /\ (lastEventId = NoId \/ (lastEventId.turn # 0 /\ lastEventId.seq # 0))

\* What a reader still has to read: of the live stream all that follows, of a
\* replay the rows that follow, and no row between them is left out.
Delivers(reader, turn) ==
  /\ reader.kind = "live" => reader.rows = reader.seq + 1 .. Length
  /\ reader.kind = "replay" =>
       /\ reader.rows \subseteq turn.rows
       /\ \A k \in reader.rows : reader.seq < k
       /\ \A k \in turn.rows, x \in reader.rows : reader.seq < k /\ k <= x => k \in reader.rows

\* The live reader r has no turn of its own before its request is accepted.
AskingInv ==
  \A r \in 1 .. Len(readers) :
    /\ readers[r].kind = "live" => readers[r].state # "reading" \/ readers[r].turn # 0
    /\ readers[r].kind = "live" /\ readers[r].state = "asking" =>
         readers[r].turn = 0 /\ \A i \in 1 .. Len(messages) : messages[i].reader = r => messages[i].shown = <<>>
    /\ readers[r].state = "reading" => Delivers(readers[r], turns[readers[r].turn])

\* The number of the last text up to event n, or that of the announcement.
TextsUpTo(n) == IF n = 0 THEN 1 ELSE IF n = Length THEN Length - 1 ELSE n

\* The answer that is being given is the last bubble.
Answering == messages # <<>> /\ messages[Len(messages)].reader # 0
Answerer == messages[Len(messages)].reader

\* What is shown are texts of turn t, none missing, as AnswersAreTheirOwn says.
Follows(turn, t, shown) ==
  /\ \A k \in 1 .. Len(shown) : shown[k].turn = t
  /\ shown # <<>> => t # 0 /\ shown[1].seq = 2
  /\ \A k \in GoesBack(shown) : Repeats(turn, shown[k - 1].seq, shown[k].seq)
  /\ \A j, k \in GoesBack(shown) : j = k

\* Every bubble shows the texts of its turn in order; the last one those up to
\* lastEventId.  Once it has gone back the live stream is not read any more, and
\* lastEventId is the number of a row.
ShownInv ==
  /\ \A i \in 1 .. Len(messages) :
       IF messages[i].reader = 0 THEN messages[i].shown = <<>>
       ELSE Follows(turns[readers[messages[i].reader].turn], readers[messages[i].reader].turn,
                    messages[i].shown)
  /\ Answering =>
       /\ lastEventId # NoId => lastEventId.turn = readers[Answerer].turn
       /\ ReadUpTo(messages[Len(messages)].shown) = TextsUpTo(lastEventId.seq)
       /\ GoesBack(messages[Len(messages)].shown) # {} =>
            /\ lastEventId.seq \in turns[readers[Answerer].turn].rows
            /\ lastEventId.seq < Length => Answerer \notin Alive

\* Whoever is alive reads the answer that is being given and has read as far as
\* lastEventId; until the end of the turn it is one reader or one timer.
AliveInv ==
  /\ \A r \in Alive :
       /\ Answering
       /\ readers[r].turn = readers[Answerer].turn
       /\ readers[r].seq = lastEventId.seq
       /\ readers[r].kind = "live" => r = Answerer
       /\ readers[r].kind = "replay" => readers[r].turn # 0 /\ readers[r].seq # 0
  /\ timers > 0 => Answering
  /\ lastEventId.seq < Length =>
       /\ \A r, s \in Alive : r = s
       /\ timers <= 1
       /\ timers = 1 => Alive = {}

WindowInv ==
  /\ WindowTypeOK /\ WindowTypes
  /\ ~ strayed => AskingInv /\ ShownInv /\ AliveInv

\* What replacing an element of a sequence leaves.
LEMMA ReplacedSeq ==
  ASSUME NEW S, NEW T, NEW s \in Seq(S), NEW k \in 1 .. Len(s), NEW e \in T, S \subseteq T,
         NEW t, t = [s EXCEPT ![k] = e]
  PROVE  /\ t \in Seq(T)
         /\ Len(t) = Len(s)
         /\ t[k] = e
         /\ \A i \in 1 .. Len(s) : i # k => t[i] = s[i]
  OBVIOUS

LEMMA LastIndex ==
  ASSUME NEW S, NEW s \in Seq(S), s # <<>>
  PROVE  Len(s) \in 1 .. Len(s)
  OBVIOUS

LEMMA Lengths ==
  ASSUME WindowTypes
  PROVE  /\ Len(turns) \in Nat /\ Len(messages) \in Nat /\ Len(readers) \in Nat
         /\ DOMAIN turns = 1 .. Len(turns) /\ DOMAIN messages = 1 .. Len(messages)
         /\ DOMAIN readers = 1 .. Len(readers)
         /\ Length \in Nat /\ Length > 1 /\ MaxResume \in Nat
         /\ messages # <<>> => Len(messages) \in 1 .. Len(messages)
<1>1. turns \in Seq(TurnType) /\ messages \in Seq(BubbleType)
      /\ readers \in Seq(ReaderType)
  BY DEF WindowTypes
<1>2. messages # <<>> => Len(messages) \in 1 .. Len(messages)
  BY <1>1, LastIndex
<1> QED
  BY <1>1, <1>2, ChatWindowAssumption

LEMMA RepeatsStay ==
  ASSUME NEW turn \in TurnType, NEW later \in TurnType, Grown(turn, later), NEW s, NEW n,
         Repeats(turn, s, n)
  PROVE  Repeats(later, s, n)
<1>1. turn.rows \subseteq Nat /\ later.rows \subseteq Nat
  BY ChatWindowAssumption DEF TurnType
<1>2. PICK to \in turn.rows : n <= s /\ s < to /\ Holds(turn, n, to)
  BY DEF Repeats
<1>3. to \in later.rows /\ to \in Nat
  BY <1>1, <1>2 DEF Grown
<1>4. later.rows \cap n .. (to - 1) = {}
  <2> SUFFICES ASSUME NEW k \in later.rows, k \in n .. (to - 1) PROVE FALSE
    OBVIOUS
  <2>1. k \notin turn.rows
    BY <1>2 DEF Holds
  <2>2. to < k /\ k \in Nat
    BY <1>1, <1>2, <2>1 DEF Grown
  <2> QED
    BY <1>3, <2>2
<1>5. n - 1 \in later.rows \cup {0} /\ n \in 1 .. to
  BY <1>2 DEF Holds, Grown
<1> QED
  BY <1>2, <1>3, <1>4, <1>5 DEF Repeats, Holds

LEMMA FollowsStay ==
  ASSUME NEW turn \in TurnType, NEW later \in TurnType, Grown(turn, later), NEW t, NEW shown,
         Follows(turn, t, shown)
  PROVE  Follows(later, t, shown)
  BY RepeatsStay DEF Follows

LEMMA FollowsNothing ==
  ASSUME NEW turn, NEW t
  PROVE  Follows(turn, t, <<>>) /\ GoesBack(<<>>) = {} /\ ReadUpTo(<<>>) = 1
  BY DEF Follows, GoesBack, ReadUpTo

LEMMA DeliversStay ==
  ASSUME NEW turn \in TurnType, NEW later \in TurnType, Grown(turn, later),
         NEW reader, reader.rows \subseteq Nat, Delivers(reader, turn)
  PROVE  Delivers(reader, later)
<1> SUFFICES ASSUME reader.kind = "replay"
             PROVE  /\ reader.rows \subseteq later.rows
                    /\ \A k \in reader.rows : reader.seq < k
                    /\ \A k \in later.rows, x \in reader.rows :
                         reader.seq < k /\ k <= x => k \in reader.rows
  BY DEF Delivers
<1>1. reader.rows \subseteq turn.rows /\ \A k \in reader.rows : reader.seq < k
  BY DEF Delivers
<1>2. reader.rows \subseteq later.rows
  BY <1>1 DEF Grown
<1>3. ASSUME NEW k \in later.rows, NEW x \in reader.rows, reader.seq < k, k <= x
      PROVE  k \in reader.rows
  <2>1. CASE k \in turn.rows
    BY <1>3, <2>1 DEF Delivers
  <2>2. CASE k \notin turn.rows
    <3>1. x < k
      BY <1>1, <2>2 DEF Grown
    <3>2. x \in Nat /\ k \in Nat
      BY ChatWindowAssumption DEF TurnType
    <3> QED
      BY <1>3, <3>1, <3>2
  <2> QED
    BY <2>1, <2>2
<1> QED
  BY <1>1, <1>2, <1>3

\* Texts first .. to may be appended: the next ones, or a batch that goes back.
Appends(turn, t, shown, e, first, to) ==
  /\ t \in Nat \ {0} /\ shown \in Seq(IdType) /\ e \in Nat /\ first \in Nat /\ to \in Nat
  /\ Follows(turn, t, shown) /\ e = ReadUpTo(shown)
  /\ 2 <= first /\ first <= to
  /\ \/ first = e + 1
     \/ e >= 2 /\ Repeats(turn, e, first) /\ GoesBack(shown) = {}

LEMMA ShownMore ==
  ASSUME NEW turn, NEW t, NEW shown, NEW e, NEW first, NEW to,
         Appends(turn, t, shown, e, first, to)
  PROVE  /\ shown \o Texts(t, first, to) \in Seq(IdType)
         /\ Follows(turn, t, shown \o Texts(t, first, to))
         /\ ReadUpTo(shown \o Texts(t, first, to)) = to
         /\ GoesBack(shown \o Texts(t, first, to)) # {} => GoesBack(shown) # {} \/ first # e + 1
<1>1. /\ t \in Nat \ {0} /\ shown \in Seq(IdType) /\ e \in Nat /\ first \in Nat /\ to \in Nat
      /\ Follows(turn, t, shown) /\ e = ReadUpTo(shown)
      /\ 2 <= first /\ first <= to
      /\ \/ first = e + 1
         \/ e >= 2 /\ Repeats(turn, e, first) /\ GoesBack(shown) = {}
  BY DEF Appends
<1> USE <1>1
<1>2. PICK more : more = shown \o Texts(t, first, to)
  OBVIOUS
<1>3. PICK m \in Nat : m = to - first + 1 /\ m >= 1
  OBVIOUS
<1>4. PICK new : new = [k \in 1 .. m |-> [turn |-> t, seq |-> first + k - 1]]
  OBVIOUS
<1>5. /\ new \in Seq(IdType) /\ Len(new) = m
      /\ \A k \in 1 .. m : new[k].turn = t /\ new[k].seq = first + k - 1
  <2>1. \A k \in 1 .. m : first + k - 1 \in Nat
    BY <1>3
  <2> QED
    BY <1>3, <1>4, <2>1 DEF IdType
<1>6. PICK l \in Nat : l = Len(shown)
  OBVIOUS
<1>7. more = shown \o new
  BY <1>3, <1>4, <1>2 DEF Texts
<1>8. /\ more \in Seq(IdType) /\ Len(more) = l + m
      /\ \A i \in 1 .. l + m : more[i] = IF i <= l THEN shown[i] ELSE new[i - l]
  <2>1. new \in Seq(IdType) /\ Len(new) = m
    BY <1>5
  <2>2. shown \o new \in Seq(IdType) /\ Len(shown \o new) = l + m
    BY <1>6, <2>1, ConcatProperties, Zenon
  <2>3. \A i \in 1 .. l + m : (shown \o new)[i] = IF i <= l THEN shown[i] ELSE new[i - l]
    BY <1>6, <2>1, ConcatProperties, Zenon
  <2> QED
    BY <1>7, <2>2, <2>3
<1>9. /\ \A i \in 1 .. l : more[i] = shown[i]
      /\ \A i \in l + 1 .. l + m : more[i].turn = t /\ more[i].seq = first + (i - l) - 1
  <2>1. ASSUME NEW i \in l + 1 .. l + m
        PROVE  more[i].turn = t /\ more[i].seq = first + (i - l) - 1
    <3>1. i \in 1 .. l + m /\ ~ (i <= l) /\ i - l \in 1 .. m
      BY <1>3, <1>6
    <3>2. more[i] = new[i - l]
      BY <1>8, <3>1
    <3> QED
      BY <1>5, <3>1, <3>2
  <2>2. ASSUME NEW i \in 1 .. l PROVE more[i] = shown[i]
    <3>1. i \in 1 .. l + m /\ i <= l
      BY <1>3, <1>6
    <3> QED
      BY <1>8, <3>1
  <2> QED
    BY <2>1, <2>2
<1>10. more # <<>> /\ more[l + m].seq = to
  <2>1. l + m \in l + 1 .. l + m
    BY <1>3, <1>6
  <2>2. more[l + m].seq = first + ((l + m) - l) - 1
    BY <1>9, <2>1
  <2>3. first + ((l + m) - l) - 1 = to
    BY <1>3, <1>6
  <2>4. l + m # 0 /\ Len(more) = l + m
    BY <1>3, <1>6, <1>8
  <2> QED
    BY <2>2, <2>3, <2>4
<1>11. DOMAIN shown = 1 .. l /\ DOMAIN more = 1 .. l + m
  BY <1>6, <1>8
<1>12. e = IF l = 0 THEN 1 ELSE shown[l].seq
  BY <1>6 DEF ReadUpTo
<1>13. ASSUME NEW k \in GoesBack(more) PROVE k \in GoesBack(shown) \/ (k = l + 1 /\ l # 0 /\ first # e + 1)
  <2>1. k \in 2 .. l + m /\ more[k].seq # more[k - 1].seq + 1
    BY <1>3, <1>6, <1>11 DEF GoesBack
  <2>2. CASE k <= l
    <3>1. k \in 1 .. l /\ k - 1 \in 1 .. l /\ k # 1
      BY <1>6, <2>1, <2>2
    <3> QED
      BY <1>9, <1>11, <2>1, <3>1 DEF GoesBack
  <2>3. CASE k = l + 1
    <3>1. l # 0 /\ l \in 1 .. l /\ k - 1 = l /\ k \in l + 1 .. l + m
      BY <1>6, <2>1, <2>3
    <3>2. more[k - 1].seq = e
      BY <1>9, <1>12, <3>1
    <3>3. more[k].seq = first
      <4>1. more[k].seq = first + (k - l) - 1
        BY <1>9, <3>1
      <4>2. first + (k - l) - 1 = first
        BY <1>6, <2>3
      <4> QED
        BY <4>1, <4>2
    <3> QED
      BY <2>1, <2>3, <3>1, <3>2, <3>3
  <2>4. CASE k > l + 1
    <3>1. k \in l + 1 .. l + m /\ k - 1 \in l + 1 .. l + m /\ k \in Nat
      <4>1. k \in 2 .. l + m
        BY <2>1
      <4> QED
        BY ONLY <1>3, <1>6, <2>4, <4>1
    <3>2. more[k].seq = first + (k - l) - 1 /\ more[k - 1].seq = first + ((k - 1) - l) - 1
      BY <1>9, <3>1
    <3>3. first + (k - l) - 1 = (first + ((k - 1) - l) - 1) + 1
      BY <1>6, <3>1
    <3> QED
      BY <2>1, <3>2, <3>3
  <2>5. k \in 2 .. l + m
    BY <2>1
  <2>6. k <= l \/ k = l + 1 \/ k > l + 1
    BY ONLY <1>3, <1>6, <2>5
  <2> QED
    BY <2>2, <2>3, <2>4, <2>6
<1>14. ASSUME NEW k \in GoesBack(more)
       PROVE  Repeats(turn, more[k - 1].seq, more[k].seq)
  <2>1. CASE k \in GoesBack(shown)
    <3>1. k \in 1 .. l /\ k - 1 \in 1 .. l
      BY <1>6, <1>11, <2>1 DEF GoesBack
    <3> QED
      BY <1>9, <2>1, <3>1 DEF Follows
  <2>2. CASE k = l + 1 /\ l # 0 /\ first # e + 1
    <3>1. l \in 1 .. l /\ k - 1 = l /\ k \in l + 1 .. l + m
      BY <1>3, <1>6, <2>2
    <3>2. more[k - 1].seq = e
      BY <1>9, <1>12, <2>2, <3>1
    <3>3. more[k].seq = first
      <4>1. more[k].seq = first + (k - l) - 1
        BY <1>9, <3>1
      <4>2. first + (k - l) - 1 = first
        BY <1>6, <2>2
      <4> QED
        BY <4>1, <4>2
    <3> QED
      BY <2>2, <3>2, <3>3
  <2> QED
    BY <1>13, <2>1, <2>2
<1>15. ASSUME NEW j \in GoesBack(more), NEW k \in GoesBack(more) PROVE j = k
  <2>1. CASE first = e + 1
    <3>1. j \in GoesBack(shown) /\ k \in GoesBack(shown)
      BY <1>13, <2>1
    <3> QED
      BY <3>1 DEF Follows
  <2>2. CASE GoesBack(shown) = {}
    BY <1>13, <2>2
  <2> QED
    BY <2>1, <2>2
<1>16. \A k \in 1 .. Len(more) : more[k].turn = t
  <2> SUFFICES ASSUME NEW k \in 1 .. l + m PROVE more[k].turn = t
    BY <1>8
  <2>1. k \in 1 .. l \/ k \in l + 1 .. l + m
    BY <1>3, <1>6
  <2> QED
    BY <1>6, <1>9, <2>1 DEF Follows
<1>17. more[1].seq = 2
  <2>1. CASE l = 0
    <3>1. e = 1 /\ first = 2
      BY <1>12, <2>1
    <3>2. 1 \in l + 1 .. l + m
      BY <1>3, <2>1
    <3>3. more[1].seq = first + (1 - l) - 1
      BY <1>9, <3>2
    <3>4. first + (1 - l) - 1 = 2
      BY <2>1, <3>1
    <3> QED
      BY <3>3, <3>4
  <2>2. CASE l # 0
    <3>1. 1 \in 1 .. l /\ shown # <<>>
      BY <1>6, <2>2
    <3> QED
      BY <1>9, <3>1 DEF Follows
  <2> QED
    BY <2>1, <2>2
<1>18. ReadUpTo(more) = to
  BY <1>8, <1>10 DEF ReadUpTo
<1>19. Follows(turn, t, more)
  BY <1>14, <1>15, <1>16, <1>17 DEF Follows
<1>20. GoesBack(more) # {} => GoesBack(shown) # {} \/ first # e + 1
  BY <1>13
<1> QED
  BY <1>8, <1>18, <1>19, <1>20, <1>2

\* A reader that is given a new state but stays where it is, while no text and
\* no event is read; who is closed may leave a timer behind.
LEMMA ReaderReplaced ==
  ASSUME WindowTypes, AskingInv, ShownInv, AliveInv, timers \in Nat,
         NEW r \in 1 .. Len(readers), NEW n \in ReaderType, readers' = [readers EXCEPT ![r] = n],
         n.state # "closed" => r \in Alive,
         n.kind = readers[r].kind, n.turn = readers[r].turn, n.seq = readers[r].seq,
         n.kind = "live" => n.state \in {readers[r].state, "closed"},
         n.state = "reading" => Delivers(n, turns[n.turn]),
         UNCHANGED <<turns, messages, lastEventId>>,
         timers' = timers \/ (timers' = timers + 1 /\ r \in Alive /\ n.state = "closed")
  PROVE  /\ WindowTypes' /\ AskingInv' /\ ShownInv' /\ AliveInv'
         /\ Len(readers') = Len(readers) /\ Sends' = Sends
<1>1. readers \in Seq(ReaderType)
  BY DEF WindowTypes
<1>2. /\ readers' \in Seq(ReaderType) /\ Len(readers') = Len(readers)
      /\ readers'[r] = n /\ \A i \in 1 .. Len(readers) : i # r => readers'[i] = readers[i]
  BY <1>1, ReplacedSeq
<1>3. \A i \in 1 .. Len(readers) : /\ readers'[i].kind = readers[i].kind
                                   /\ readers'[i].turn = readers[i].turn
                                   /\ readers'[i].seq = readers[i].seq
  BY <1>2
<1>4. DOMAIN readers = 1 .. Len(readers) /\ DOMAIN readers' = 1 .. Len(readers)
  BY <1>1, <1>2
<1>5. Sends' = Sends
  BY <1>3, <1>4 DEF Sends
<1>6. Alive' \subseteq Alive /\ (n.state = "closed" => r \notin Alive')
  BY <1>2, <1>4 DEF Alive
<1>7. WindowTypes'
  BY <1>2 DEF WindowTypes, ReaderType
<1>8. AskingInv'
  BY <1>2, <1>3 DEF AskingInv
<1>9. \A i \in 1 .. Len(messages) : messages[i].reader # 0 =>
         readers'[messages[i].reader].turn = readers[messages[i].reader].turn
  <2> SUFFICES ASSUME NEW i \in 1 .. Len(messages), messages[i].reader # 0
               PROVE  readers'[messages[i].reader].turn = readers[messages[i].reader].turn
    OBVIOUS
  <2>1. CASE messages[i].reader = r
    BY <1>2, <2>1
  <2>2. CASE messages[i].reader # r
    <3>1. messages[i].reader \in 0 .. Len(readers)
      BY DEF WindowTypes
    <3>2. messages[i].reader \in 1 .. Len(readers)
      BY <3>1
    <3> QED
      BY <1>2, <2>2, <3>2
  <2> QED
    BY <2>1, <2>2
<1>10. Answering' = Answering /\ Answerer' = Answerer
  BY DEF Answering, Answerer
<1>11. Answering => readers'[Answerer].turn = readers[Answerer].turn
  BY <1>9, Lengths DEF Answering, Answerer
<1>12. ShownInv'
  <2>1. \A i \in 1 .. Len(messages) :
       IF messages[i].reader = 0 THEN messages[i].shown = <<>>
       ELSE Follows(turns[readers'[messages[i].reader].turn], readers'[messages[i].reader].turn,
                    messages[i].shown)
    BY <1>9 DEF ShownInv
  <2>2. Answering =>
          /\ lastEventId # NoId => lastEventId.turn = readers'[Answerer].turn
          /\ ReadUpTo(messages[Len(messages)].shown) = TextsUpTo(lastEventId.seq)
          /\ GoesBack(messages[Len(messages)].shown) # {} =>
               /\ lastEventId.seq \in turns[readers'[Answerer].turn].rows
               /\ lastEventId.seq < Length => Answerer \notin Alive'
    BY <1>6, <1>11 DEF ShownInv
  <2> QED
    BY <1>10, <2>1, <2>2 DEF ShownInv, TextsUpTo
<1>13. AliveInv'
  <2>1. \A s \in Alive' :
          /\ Answering
          /\ readers'[s].turn = readers'[Answerer].turn
          /\ readers'[s].seq = lastEventId.seq
          /\ readers'[s].kind = "live" => s = Answerer
          /\ readers'[s].kind = "replay" => readers'[s].turn # 0 /\ readers'[s].seq # 0
    <3> SUFFICES ASSUME NEW s \in Alive'
                 PROVE  /\ Answering
                        /\ readers'[s].turn = readers'[Answerer].turn
                        /\ readers'[s].seq = lastEventId.seq
                        /\ readers'[s].kind = "live" => s = Answerer
                        /\ readers'[s].kind = "replay" => readers'[s].turn # 0 /\ readers'[s].seq # 0
      OBVIOUS
    <3>1. s \in Alive /\ s \in 1 .. Len(readers)
      BY <1>4, <1>6 DEF Alive
    <3> QED
      BY <1>3, <1>11, <3>1 DEF AliveInv
  <2>2. timers' > 0 => Answering
    BY DEF AliveInv
  <2>3. lastEventId.seq < Length =>
          /\ \A p, s \in Alive' : p = s
          /\ timers' <= 1
          /\ timers' = 1 => Alive' = {}
    <3> SUFFICES ASSUME lastEventId.seq < Length
                 PROVE  /\ \A p, s \in Alive' : p = s
                        /\ timers' <= 1
                        /\ timers' = 1 => Alive' = {}
      OBVIOUS
    <3>1. /\ \A p, s \in Alive : p = s
          /\ timers <= 1
          /\ timers = 1 => Alive = {}
      BY DEF AliveInv
    <3>2. CASE timers' = timers
      BY <1>6, <3>1, <3>2
    <3>3. CASE timers' = timers + 1 /\ r \in Alive /\ n.state = "closed"
      <4>1. timers = 0 /\ Alive' = {}
        BY <1>6, <3>1, <3>3
      <4> QED
        BY <3>3, <4>1
    <3> QED
      BY <3>2, <3>3
  <2> QED
    BY <1>10, <2>1, <2>2, <2>3 DEF AliveInv
<1> QED
  BY <1>2, <1>5, <1>7, <1>8, <1>12, <1>13

LEMMA WindowOKAfter ==
  ASSUME WindowTypes', \A i \in 1 .. Len(messages') : messages'[i].reader \in {0} \cup Sends',
         conversationId' \in 0 .. Len(turns'), loading' \in 0 .. Len(turns'),
         isStreaming' \in BOOLEAN, error' \in BOOLEAN, strayed' \in BOOLEAN,
         lastEventId'.turn \in 0 .. Len(turns'), lastEventId'.seq \in 0 .. Length,
         resumeAttempts' \in 0 .. MaxResume, timers' \in Nat, abortController' \in 0 .. Len(readers')
  PROVE  WindowTypeOK'
<1>1. turns' \in Seq(TurnType) /\ messages' \in Seq(BubbleType)
  BY DEF WindowTypes
<1>2. DOMAIN turns' = 1 .. Len(turns') /\ DOMAIN messages' = 1 .. Len(messages')
  BY <1>1
<1>3. \A t \in DOMAIN turns' : turns'[t] \in
       [conv : 1 .. t, issued : 0 .. Length, rows : SUBSET (1 .. Length),
        state : {"running", "done", "error", "dead"}]
  <2> SUFFICES ASSUME NEW t \in 1 .. Len(turns')
               PROVE  turns'[t] \in [conv : 1 .. t, issued : 0 .. Length, rows : SUBSET (1 .. Length),
                                     state : {"running", "done", "error", "dead"}]
    BY <1>2
  <2>1. turns'[t] \in TurnType
    BY <1>1
  <2>2. turns'[t].conv \in 1 .. t
    BY DEF WindowTypes
  <2> QED
    BY <2>1, <2>2 DEF TurnType
<1> QED
  BY <1>2, <1>3 DEF WindowTypeOK

LEMMA WindowScalars ==
  ASSUME WindowTypeOK, WindowTypes
  PROVE  /\ conversationId \in 0 .. Len(turns) /\ loading \in 0 .. Len(turns)
         /\ isStreaming \in BOOLEAN /\ error \in BOOLEAN /\ strayed \in BOOLEAN
         /\ lastEventId.turn \in 0 .. Len(turns) /\ lastEventId.seq \in 0 .. Length
         /\ resumeAttempts \in 0 .. MaxResume /\ timers \in Nat
         /\ abortController \in 0 .. Len(readers)
         /\ \A i \in 1 .. Len(messages) : messages[i].reader \in {0} \cup Sends
<1>1. DOMAIN messages = 1 .. Len(messages)
  BY Lengths
<1> QED
  BY <1>1 DEF WindowTypeOK

\* What OnError and OnEnd do beside the readers.
LEMMA OnErrorDoes ==
  ASSUME WindowTypeOK, WindowTypes, NEW from, OnError(from)
  PROVE  /\ readers' = from
         /\ isStreaming' \in BOOLEAN /\ error' \in BOOLEAN
         /\ resumeAttempts' \in 0 .. MaxResume
         /\ abortController' \in {0, abortController}
         /\ timers' \in {timers, timers + 1}
<1>1. resumeAttempts \in 0 .. MaxResume /\ MaxResume \in Nat /\ timers \in Nat
      /\ isStreaming \in BOOLEAN /\ error \in BOOLEAN
  BY WindowScalars, Lengths
<1>2. CASE conversationId # 0 /\ resumeAttempts < MaxResume /\ isStreaming
  <2>1. /\ readers' = from /\ isStreaming' = isStreaming /\ error' = error
        /\ resumeAttempts' = resumeAttempts + 1 /\ timers' = timers + 1
        /\ abortController' = abortController
    BY <1>2 DEF OnError
  <2>2. resumeAttempts' \in 0 .. MaxResume
    BY ONLY <1>1, <1>2, <2>1
  <2> QED
    BY <1>1, <2>1, <2>2
<1>3. CASE ~ (conversationId # 0 /\ resumeAttempts < MaxResume /\ isStreaming)
  <2>1. /\ readers' = from /\ isStreaming' = FALSE /\ error' = TRUE
        /\ resumeAttempts' = resumeAttempts /\ timers' = timers /\ abortController' = 0
    BY <1>3, Zenon DEF OnError
  <2> QED
    BY <1>1, <2>1
<1> QED
  BY <1>2, <1>3

LEMMA OnEndDoes ==
  ASSUME WindowTypeOK, WindowTypes, NEW from, NEW shows \in BOOLEAN, OnEnd(from, shows)
  PROVE  /\ readers' = from
         /\ isStreaming' \in BOOLEAN /\ error' \in BOOLEAN
         /\ resumeAttempts' \in 0 .. MaxResume
         /\ abortController' = 0
         /\ timers' = timers
<1>1. MaxResume \in Nat /\ error \in BOOLEAN
  BY WindowScalars, Lengths
<1>2. error' \in BOOLEAN
  BY <1>1, Zenon DEF OnEnd
<1>3. 0 \in 0 .. MaxResume
  BY <1>1
<1> QED
  BY <1>2, <1>3 DEF OnEnd

WindowLive == WindowTypeOK /\ WindowTypes /\ AskingInv /\ ShownInv /\ AliveInv

\* A step that only closes a reader.
LEMMA ClosedStep ==
  ASSUME WindowLive, NEW r \in 1 .. Len(readers), readers' = Closed(r),
         UNCHANGED <<turns, messages, conversationId, loading, lastEventId>>,
         timers' = timers \/ (timers' = timers + 1 /\ r \in Alive), strayed' \in BOOLEAN,
         isStreaming' \in BOOLEAN, error' \in BOOLEAN, resumeAttempts' \in 0 .. MaxResume,
         abortController' \in {0, abortController}
  PROVE  WindowInv'
<1> USE DEF WindowLive
<1>1. /\ readers[r] \in ReaderType
      /\ timers \in Nat /\ abortController \in 0 .. Len(readers) /\ Len(readers) \in Nat
  BY Lengths, WindowScalars DEF Alive, WindowTypes
<1>2. PICK n : n = [readers[r] EXCEPT !.state = "closed", !.rows = {}, !.marker = FALSE]
  OBVIOUS
<1>3. readers' = [readers EXCEPT ![r] = n]
  BY <1>1, <1>2 DEF Closed, ReaderType
<1>4. /\ n \in ReaderType /\ n.kind = readers[r].kind /\ n.turn = readers[r].turn
      /\ n.seq = readers[r].seq /\ n.state = "closed"
  BY <1>1, <1>2 DEF ReaderType
<1>5. /\ WindowTypes' /\ AskingInv' /\ ShownInv' /\ AliveInv'
      /\ Len(readers') = Len(readers) /\ Sends' = Sends
  BY <1>1, <1>3, <1>4, ReaderReplaced
<1>6. WindowTypeOK'
  BY <1>1, <1>5, WindowScalars, WindowOKAfter
<1> QED
  BY <1>5, <1>6 DEF WindowInv

LEMMA AnswerStep ==
  ASSUME WindowLive, NEW r \in DOMAIN readers, AnswerReplay(r)
  PROVE  WindowInv'
<1> USE DEF WindowLive
<1>1. /\ r \in 1 .. Len(readers) /\ readers[r] \in ReaderType /\ r \in Alive
      /\ readers[r].kind = "replay"
      /\ UNCHANGED <<turns, clientSide>>
  <2>1. readers[r].kind = "replay" /\ readers[r].state = "asking" /\ UNCHANGED <<turns, clientSide>>
    BY DEF AnswerReplay
  <2>2. r \in 1 .. Len(readers) /\ r \in Alive
    BY <2>1, Lengths DEF Alive
  <2> QED
    BY <2>1, <2>2 DEF WindowTypes
<1>2. readers[r].turn \in 1 .. Len(turns)
  BY <1>1, Lengths DEF AliveInv, ReaderType
<1>3. PICK turn : turn = turns[readers[r].turn]
  OBVIOUS
<1>4. turn \in TurnType /\ turn.rows \subseteq 1 .. Length
  <2>1. turn \in TurnType
    BY <1>2, <1>3 DEF WindowTypes
  <2> QED
    BY <2>1 DEF TurnType
<1>5. PICK kept : kept = {k \in turn.rows : turn.conv = readers[r].conv /\ k > readers[r].seq}
  OBVIOUS
<1>6. PICK n : n = [readers[r] EXCEPT !.state = "reading", !.rows = kept,
                                      !.marker = Length \notin turn.rows]
  OBVIOUS
<1>7. /\ readers' = [readers EXCEPT ![r] = n]
      /\ n \in ReaderType /\ n.kind = readers[r].kind /\ n.turn = readers[r].turn
      /\ n.seq = readers[r].seq /\ n.rows = kept /\ n.kind = "replay"
  <2>1. kept \subseteq 1 .. Length /\ (Length \notin turn.rows) \in BOOLEAN
    BY <1>4, <1>5
  <2>2. /\ n \in ReaderType /\ n.kind = readers[r].kind /\ n.turn = readers[r].turn
        /\ n.seq = readers[r].seq /\ n.rows = kept /\ n.kind = "replay"
    BY <1>1, <1>6, <2>1 DEF ReaderType
  <2>3. readers' = [readers EXCEPT
           ![r].state = "reading",
           ![r].rows = {k \in turn.rows : turn.conv = readers[r].conv /\ k > readers[r].seq},
           ![r].marker = Length \notin turn.rows]
    BY <1>3 DEF AnswerReplay
  <2>4. readers' = [readers EXCEPT ![r].state = "reading", ![r].rows = kept,
                                   ![r].marker = Length \notin turn.rows]
    BY <1>5, <2>3
  <2>5. readers' = [readers EXCEPT ![r] = n]
    BY <1>1, <1>6, <2>4 DEF ReaderType
  <2> QED
    BY <2>2, <2>5
<1>8. Delivers(n, turns[n.turn])
  <2>1. n.seq \in Nat /\ turn.rows \subseteq Nat /\ kept \subseteq turn.rows
    BY <1>1, <1>4, <1>5, <1>7 DEF ReaderType
  <2>2. \A k \in kept : n.seq < k
    BY <1>5, <1>7, <2>1
  <2>3. ASSUME NEW k \in turn.rows, NEW x \in kept, n.seq < k, k <= x PROVE k \in kept
    BY <1>5, <1>7, <2>1, <2>3
  <2> QED
    BY <1>3, <1>7, <2>1, <2>2, <2>3 DEF Delivers
<1>9. timers \in Nat /\ UNCHANGED <<messages, lastEventId, timers>>
  BY <1>1, WindowScalars DEF clientSide
<1>10. /\ WindowTypes' /\ AskingInv' /\ ShownInv' /\ AliveInv'
       /\ Len(readers') = Len(readers) /\ Sends' = Sends
  BY <1>1, <1>7, <1>9, <1>8, ReaderReplaced
<1>11. WindowTypeOK'
  BY <1>1, <1>10, WindowScalars, WindowOKAfter DEF clientSide
<1> QED
  BY <1>10, <1>11 DEF WindowInv

LEMMA CancelStep ==
  ASSUME WindowLive, cancelStream
  PROVE  WindowInv'
<1> USE DEF WindowLive
<1>1. /\ isStreaming' = FALSE /\ abortController' = 0 /\ strayed' \in BOOLEAN
      /\ UNCHANGED <<turns, messages, conversationId, loading, error, lastEventId, resumeAttempts,
                     timers>>
  BY WindowScalars DEF cancelStream, Leave
<1>2. CASE abortController = 0
  <2>1. UNCHANGED readers
    BY <1>2 DEF cancelStream
  <2>2. WindowTypes' /\ AskingInv' /\ ShownInv' /\ AliveInv' /\ Sends' = Sends
    BY <1>1, <2>1 DEF WindowTypes, AskingInv, ShownInv, AliveInv, Alive, Answering, Answerer,
                      ReaderType, TextsUpTo, Sends
  <2>3. 0 \in 0 .. Len(readers)
    BY Lengths
  <2>4. WindowTypeOK'
    BY <1>1, <2>1, <2>2, <2>3, WindowScalars, WindowOKAfter
  <2> QED
    BY <2>2, <2>4 DEF WindowInv
<1>3. CASE abortController # 0
  <2>1. abortController \in 1 .. Len(readers) /\ readers' = Closed(abortController)
    BY <1>3, Lengths, WindowScalars DEF cancelStream
  <2> QED
    BY <1>1, <2>1, WindowScalars, ClosedStep
<1> QED
  BY <1>2, <1>3

\* Steps that leave the bubbles, the readers and the turns alone.
LEMMA ScalarStep ==
  ASSUME WindowLive,
         UNCHANGED <<turns, messages, readers, conversationId, lastEventId, isStreaming,
                     resumeAttempts, timers, abortController, strayed>>,
         loading' \in 0 .. Len(turns), error' \in BOOLEAN
  PROVE  WindowInv'
<1> USE DEF WindowLive
<1>1. WindowTypes' /\ AskingInv' /\ ShownInv' /\ AliveInv' /\ Sends' = Sends
  BY DEF WindowTypes, AskingInv, ShownInv, AliveInv, Alive, Answering, Answerer,
         ReaderType, TextsUpTo, Sends
<1>2. WindowTypeOK'
  BY <1>1, WindowScalars, WindowOKAfter
<1> QED
  BY <1>1, <1>2 DEF WindowInv

\* A turn that issues an event or dies.
LEMMA TurnStep ==
  ASSUME WindowLive, NEW t \in 1 .. Len(turns), turns[t].state = "running", NEW n \in TurnType,
         turns' = [turns EXCEPT ![t] = n], n.conv = turns[t].conv,
         n.state = "running" => n.issued < Length, RowsOK(n), Grown(turns[t], n),
         UNCHANGED <<readers, clientSide>>
  PROVE  WindowInv'
<1> USE DEF WindowLive
<1>1. turns \in Seq(TurnType)
  BY DEF WindowTypes
<1>2. /\ turns' \in Seq(TurnType) /\ Len(turns') = Len(turns)
      /\ turns'[t] = n /\ \A i \in 1 .. Len(turns) : i # t => turns'[i] = turns[i]
  BY <1>1, ReplacedSeq
<1>3. WindowTypes'
  <2>1. \A i \in 1 .. Len(turns) : /\ turns'[i].conv \in 1 .. i
                                   /\ turns'[i].state = "running" => turns'[i].issued < Length
                                   /\ RowsOK(turns'[i])
    BY <1>2 DEF WindowTypes
  <2>2. UNCHANGED <<messages, readers, lastEventId>> /\ ReaderType' = ReaderType
    BY <1>2 DEF clientSide, ReaderType
  <2> QED
    BY <1>2, <2>1, <2>2 DEF WindowTypes
<1>4. UNCHANGED <<readers, messages, lastEventId, timers>>
  BY DEF clientSide
<1>5. AliveInv' /\ Sends' = Sends /\ Alive' = Alive /\ Answering' = Answering /\ Answerer' = Answerer
  BY <1>4 DEF AliveInv, Alive, Answering, Answerer, Sends
<1>6. \A i \in 1 .. Len(turns) : /\ turns[i] \in TurnType /\ turns'[i] \in TurnType
                                 /\ Grown(turns[i], turns'[i])
  <2>1. \A i \in 1 .. Len(turns) : turns[i] \in TurnType /\ turns'[i] \in TurnType
    BY <1>1, <1>2
  <2>2. \A i \in 1 .. Len(turns) : i # t => Grown(turns[i], turns'[i])
    BY <1>2 DEF Grown
  <2> QED
    BY <1>2, <2>1, <2>2
<1>7. AskingInv'
  <2> SUFFICES ASSUME NEW i \in 1 .. Len(readers), readers[i].state = "reading"
               PROVE  Delivers(readers[i], turns'[readers[i].turn])
    BY <1>4 DEF AskingInv
  <2>1. readers[i] \in ReaderType /\ i \in Alive
    BY Lengths DEF WindowTypes, Alive
  <2>2. readers[i].turn \in 1 .. Len(turns) /\ readers[i].rows \subseteq Nat
    <3>1. readers[i].turn # 0
      BY <2>1 DEF AskingInv, AliveInv, ReaderType
    <3> QED
      BY <2>1, <3>1, Lengths DEF ReaderType
  <2> QED
    BY <1>6, <2>2, DeliversStay DEF AskingInv
<1>8. ShownInv'
  <2>1. ASSUME NEW i \in 1 .. Len(messages), messages[i].reader # 0
        PROVE  Follows(turns'[readers[messages[i].reader].turn], readers[messages[i].reader].turn,
                       messages[i].shown)
    <3>1. PICK k : k = readers[messages[i].reader].turn
      OBVIOUS
    <3>2. k \in 0 .. Len(turns)
      <4>1. messages[i].reader \in 0 .. Len(readers)
        BY DEF WindowTypes
      <4>2. messages[i].reader \in 1 .. Len(readers)
        BY <2>1, <4>1
      <4>3. readers[messages[i].reader] \in ReaderType
        BY <4>2 DEF WindowTypes
      <4> QED
        BY <3>1, <4>3 DEF ReaderType
    <3>3. Follows(turns[k], k, messages[i].shown)
      BY <2>1, <3>1 DEF ShownInv
    <3>4. CASE k = 0
      <4>1. messages[i].shown = <<>>
        BY <3>3, <3>4 DEF Follows
      <4> QED
        BY <3>1, <4>1, FollowsNothing
    <3>5. CASE k # 0
      <4>1. k \in 1 .. Len(turns)
        BY <3>2, <3>5, Lengths
      <4> QED
        BY <1>6, <3>1, <3>3, <4>1, FollowsStay
    <3> QED
      BY <3>4, <3>5
  <2>2. ASSUME Answering, GoesBack(messages[Len(messages)].shown) # {}
        PROVE  lastEventId.seq \in turns'[readers[Answerer].turn].rows
    <3>1. lastEventId.seq \in turns[readers[Answerer].turn].rows
      BY <2>2 DEF ShownInv
    <3>2. readers[Answerer].turn \in 1 .. Len(turns)
      <4>1. Len(messages) \in 1 .. Len(messages)
        BY <2>2, Lengths DEF Answering
      <4>2. Answerer \in 0 .. Len(readers) /\ Answerer # 0
        BY <2>2, <4>1 DEF WindowTypes, Answering, Answerer
      <4>3. Answerer \in 1 .. Len(readers)
        BY <4>2
      <4>4. readers[Answerer] \in ReaderType
        BY <4>3 DEF WindowTypes
      <4>5. messages[Len(messages)].shown # <<>>
        BY <2>2, FollowsNothing
      <4>6. readers[Answerer].turn # 0
        BY <2>2, <4>1, <4>5 DEF ShownInv, Follows, Answering, Answerer
      <4> QED
        BY <4>4, <4>6, Lengths DEF ReaderType
    <3> QED
      BY <1>6, <3>1, <3>2 DEF Grown
  <2> QED
    BY <1>4, <1>5, <2>1, <2>2 DEF ShownInv, TextsUpTo
<1>9. AskingInv' /\ ShownInv' /\ AliveInv' /\ Sends' = Sends
  BY <1>5, <1>7, <1>8
<1>10. WindowTypeOK'
  BY <1>2, <1>3, <1>9, WindowScalars, WindowOKAfter DEF clientSide
<1> QED
  BY <1>3, <1>9, <1>10 DEF WindowInv

\* What a turn that stores more rows is.
LEMMA MoreRows ==
  ASSUME NEW turn \in TurnType, RowsOK(turn), turn.state = "running", turn.issued < Length,
         NEW n \in TurnType, n.conv = turn.conv, n.issued \in {turn.issued, turn.issued + 1},
         \/ n.rows = turn.rows /\ (n.issued # turn.issued => n.issued \in 2 .. Length - 1)
         \/ n.rows = Flushed(turn) /\ n.issued = turn.issued
         \/ n.rows = Flushed(turn) \cup {turn.issued + 1} /\ n.issued = turn.issued + 1
  PROVE  RowsOK(n) /\ Grown(turn, n)
<1>1. /\ Length \in Nat /\ Length > 1 /\ turn.issued \in Nat
      /\ turn.rows \subseteq 1 .. turn.issued
  BY ChatWindowAssumption DEF TurnType, RowsOK
<1>2. PICK i \in Nat : i = turn.issued
  BY <1>1
<1>3. PICK kept : kept = turn.rows
  OBVIOUS
<1>4. /\ kept \subseteq 1 .. i /\ (i # 0 => 1 \in kept) /\ i < Length /\ Length \notin kept
  BY <1>1, <1>2, <1>3 DEF RowsOK
<1>5. CASE n.rows = kept /\ (n.issued # i => n.issued \in 2 .. Length - 1)
  <2>1. \A k \in n.rows : k <= n.issued
    <3>1. ASSUME NEW k \in kept PROVE k <= i /\ k \in Nat
      BY <1>4, <3>1
    <3>2. n.issued \in Nat /\ n.issued >= i
      BY <1>2
    <3> QED
      BY <1>5, <3>1, <3>2
  <2>2. n.issued # 0 => 1 \in n.rows
    <3>1. n.issued # 0 => i # 0
      BY <1>2, <1>5
    <3> QED
      BY <1>4, <1>5, <3>1
  <2> QED
    BY <1>3, <1>4, <1>5, <2>1, <2>2 DEF RowsOK, Grown
<1>6. CASE n.rows = Flushed(turn) /\ n.issued = i
  <2>1. n.rows = kept \cup ({i} \ {0})
    BY <1>2, <1>3, <1>6 DEF Flushed
  <2>2. RowsOK(n)
    <3>1. ASSUME NEW k \in n.rows PROVE k <= i /\ k # Length
      <4>1. k \in kept \/ k = i
        BY <2>1, <3>1
      <4>2. CASE k \in kept
        BY <1>4, <4>2
      <4>3. CASE k = i
        BY <1>1, <1>2, <1>4, <4>3
      <4> QED
        BY <4>1, <4>2, <4>3
    <3>2. i # 0 => 1 \in n.rows
      BY <1>4, <2>1
    <3> QED
      BY <1>6, <3>1, <3>2 DEF RowsOK
  <2>3. ASSUME NEW k \in n.rows \ kept, NEW x \in kept PROVE x < k
    BY <1>4, <2>1, <2>3
  <2> QED
    BY <1>3, <2>1, <2>2, <2>3 DEF Grown
<1>7. CASE n.rows = Flushed(turn) \cup {i + 1} /\ n.issued = i + 1
  <2>1. n.rows = kept \cup ({i} \ {0}) \cup {i + 1}
    BY <1>2, <1>3, <1>7 DEF Flushed
  <2>2. RowsOK(n)
    <3>1. ASSUME NEW k \in n.rows PROVE k <= i + 1
      <4>1. k \in kept \/ k = i \/ k = i + 1
        BY <2>1, <3>1
      <4>2. CASE k \in kept
        BY <1>4, <4>2
      <4> QED
        BY <1>2, <4>1, <4>2
    <3>2. 1 \in n.rows
      <4>1. CASE i = 0
        BY <2>1, <4>1
      <4>2. CASE i # 0
        BY <1>4, <2>1, <4>2
      <4> QED
        BY <4>1, <4>2
    <3>3. Length \in n.rows => Length - 1 \in n.rows
      <4>1. ASSUME Length \in n.rows PROVE i = Length - 1 /\ i # 0
        BY <1>1, <1>4, <2>1, <4>1
      <4> QED
        BY <2>1, <4>1
    <3> QED
      BY <1>7, <3>1, <3>2, <3>3 DEF RowsOK
  <2>3. ASSUME NEW k \in n.rows \ kept, NEW x \in kept PROVE x < k
    BY <1>4, <2>1, <2>3
  <2> QED
    BY <1>3, <2>1, <2>2, <2>3 DEF Grown
<1> QED
  BY <1>2, <1>3, <1>5, <1>6, <1>7

LEMMA IssueStep ==
  ASSUME WindowLive, NEW t \in DOMAIN turns, IssueEvent(t) \/ FlushBatch(t) \/ TurnDies(t)
  PROVE  WindowInv'
<1> USE DEF WindowLive
<1>1. /\ t \in 1 .. Len(turns) /\ turns[t] \in TurnType /\ turns[t].state = "running"
      /\ turns[t].issued < Length /\ RowsOK(turns[t]) /\ UNCHANGED <<readers, clientSide>>
  BY Lengths DEF IssueEvent, FlushBatch, TurnDies, WindowTypes
<1>2. /\ turns[t].issued \in Nat /\ Length \in Nat /\ turns[t].rows \subseteq 1 .. Length
      /\ Flushed(turns[t]) \subseteq 1 .. Length
  <2>1. turns[t].issued \in 0 .. Length /\ turns[t].rows \subseteq 1 .. Length /\ Length \in Nat
    BY <1>1, Lengths DEF TurnType
  <2>2. Flushed(turns[t]) \subseteq 1 .. Length
    BY <2>1 DEF Flushed
  <2> QED
    BY <2>1, <2>2
<1>3. ASSUME NEW kept \in SUBSET (1 .. Length), NEW count \in 0 .. Length,
             NEW state \in {"running", "done", "error", "dead"},
             state = "running" => count < Length,
             turns' = [turns EXCEPT ![t].issued = count, ![t].rows = kept, ![t].state = state],
             count \in {turns[t].issued, turns[t].issued + 1},
             \/ kept = turns[t].rows /\ (count # turns[t].issued => count \in 2 .. Length - 1)
             \/ kept = Flushed(turns[t]) /\ count = turns[t].issued
             \/ kept = Flushed(turns[t]) \cup {turns[t].issued + 1} /\ count = turns[t].issued + 1
      PROVE  WindowInv'
  <2>1. PICK n : n = [turns[t] EXCEPT !.issued = count, !.rows = kept, !.state = state]
    OBVIOUS
  <2>2. turns' = [turns EXCEPT ![t] = n]
    BY <1>1, <1>3, <2>1 DEF TurnType
  <2>3. /\ n \in TurnType /\ n.conv = turns[t].conv /\ n.issued = count /\ n.rows = kept
        /\ n.state = state
    BY <1>1, <2>1 DEF TurnType
  <2>4. RowsOK(n) /\ Grown(turns[t], n)
    BY <1>1, <1>3, <2>3, MoreRows
  <2>5. n.state = "running" => n.issued < Length
    BY <1>3, <2>3
  <2> QED
    BY <1>1, <2>2, <2>3, <2>4, <2>5, TurnStep
<1>4. turns[t] = [turns[t] EXCEPT !.issued = turns[t].issued, !.state = "running"]
  BY <1>1 DEF TurnType
<1>5. CASE IssueEvent(t)
  <2>1. PICK count : count = turns[t].issued + 1
    OBVIOUS
  <2>2. PICK kept : kept = IF count \in 2 .. Length - 1 THEN turns[t].rows
                          ELSE Flushed(turns[t]) \cup {count}
    OBVIOUS
  <2>3. PICK end \in {"done", "error"} :
          turns' = [turns EXCEPT
             ![t].issued = count,
             ![t].rows = IF count \in 2 .. Length - 1 THEN @ ELSE Flushed(turns[t]) \cup {count},
             ![t].state = IF count = Length THEN end ELSE @]
    BY <1>5, <2>1 DEF IssueEvent
  <2>4. PICK state : state = IF count = Length THEN end ELSE "running"
    OBVIOUS
  <2>5. turns' = [turns EXCEPT ![t].issued = count, ![t].rows = kept, ![t].state = state]
    BY <1>1, <2>2, <2>3, <2>4 DEF TurnType
  <2>6. count \in 0 .. Length /\ kept \subseteq 1 .. Length
    BY <1>1, <1>2, <2>1, <2>2
  <2>7. state \in {"running", "done", "error", "dead"} /\ (state = "running" => count < Length)
    BY <1>2, <2>4, <2>6
  <2>8. \/ kept = turns[t].rows /\ (count # turns[t].issued => count \in 2 .. Length - 1)
        \/ kept = Flushed(turns[t]) /\ count = turns[t].issued
        \/ kept = Flushed(turns[t]) \cup {turns[t].issued + 1} /\ count = turns[t].issued + 1
    BY <2>1, <2>2
  <2> QED
    BY <1>3, <2>1, <2>5, <2>6, <2>7, <2>8
<1>6. ASSUME NEW kept \in {turns[t].rows, Flushed(turns[t])}, NEW state \in {"running", "dead"},
             turns' = [turns EXCEPT ![t].rows = kept, ![t].state = state]
      PROVE  WindowInv'
  <2>1. PICK count : count = turns[t].issued
    OBVIOUS
  <2>2. turns' = [turns EXCEPT ![t].issued = count, ![t].rows = kept, ![t].state = state]
    BY <1>1, <1>6, <2>1 DEF TurnType
  <2>3. count \in 0 .. Length /\ count < Length /\ kept \subseteq 1 .. Length
    BY <1>1, <1>2, <2>1
  <2> QED
    BY <1>3, <2>1, <2>2, <2>3
<1>7. CASE FlushBatch(t)
  <2>1. PICK kept : kept = Flushed(turns[t])
    OBVIOUS
  <2>2. turns' = [turns EXCEPT ![t].rows = kept, ![t].state = "running"]
    BY <1>1, <1>7, <2>1 DEF FlushBatch, TurnType
  <2> QED
    BY <1>6, <2>1, <2>2
<1>8. CASE TurnDies(t)
  <2>1. PICK kept \in {turns[t].rows, Flushed(turns[t])} :
          turns' = [turns EXCEPT ![t].state = "dead", ![t].rows = kept]
    BY <1>8 DEF TurnDies
  <2>2. turns' = [turns EXCEPT ![t].rows = kept, ![t].state = "dead"]
    BY <1>1, <2>1 DEF TurnType
  <2> QED
    BY <1>6, <2>2
<1> QED
  BY <1>5, <1>7, <1>8

LEMMA AcceptStep ==
  ASSUME WindowLive, NEW r \in DOMAIN readers, AcceptTurn(r)
  PROVE  WindowInv'
<1> USE DEF WindowLive
<1>1. /\ r \in 1 .. Len(readers) /\ readers[r] \in ReaderType /\ r \in Alive
      /\ readers[r].kind = "live" /\ readers[r].state = "asking"
      /\ UNCHANGED clientSide
      /\ Len(turns) \in Nat /\ Length \in Nat
  BY Lengths DEF AcceptTurn, Alive, WindowTypes
<1>2. PICK t : t = Len(turns) + 1
  OBVIOUS
<1>3. PICK conv : conv = IF readers[r].conv = 0 THEN t ELSE readers[r].conv
  OBVIOUS
<1>4. conv \in 1 .. t
  BY <1>1, <1>2, <1>3 DEF ReaderType
<1>5. PICK m : m = [conv |-> conv, issued |-> 0, rows |-> {}, state |-> "running"]
  OBVIOUS
<1>6. m \in TurnType /\ m.conv = conv /\ m.issued = 0 /\ RowsOK(m)
  <2>1. m \in TurnType /\ m.conv = conv /\ m.issued = 0
    BY <1>1, <1>4, <1>5, <1>2 DEF TurnType
  <2>2. m.rows = {}
    BY <1>5
  <2> QED
    BY <2>1, <2>2 DEF RowsOK
<1>7. PICK n : n = [readers[r] EXCEPT !.state = "reading", !.turn = t, !.rows = 1 .. Length]
  OBVIOUS
<1>8. turns' = Append(turns, m) /\ readers' = [readers EXCEPT ![r] = n]
  BY <1>1, <1>2, <1>3, <1>5, <1>7 DEF AcceptTurn, ReaderType
<1>9. /\ turns' \in Seq(TurnType) /\ Len(turns') = t /\ turns'[t] = m
      /\ \A i \in 1 .. Len(turns) : turns'[i] = turns[i]
  BY <1>2, <1>6, <1>8, AppendSeq DEF WindowTypes
<1>10. ReaderType \subseteq ReaderType' /\ n \in ReaderType'
       /\ n.kind = "live" /\ n.state = "reading" /\ n.turn = t /\ n.seq = readers[r].seq
       /\ n.rows = 1 .. Length
  <2>1. /\ n.kind = "live" /\ n.state = "reading" /\ n.turn = t /\ n.seq = readers[r].seq
        /\ n.rows = 1 .. Length
    BY <1>1, <1>7 DEF ReaderType
  <2>2. \A k : k \in 0 .. Len(turns) => k \in 0 .. Len(turns')
    BY <1>1, <1>2, <1>9
  <2>3. t \in 0 .. Len(turns') /\ 1 .. Length \subseteq 1 .. Length
    BY <1>1, <1>2, <1>9
  <2>4. ReaderType \subseteq ReaderType'
    BY <2>2 DEF ReaderType
  <2>5. readers[r] \in ReaderType'
    BY <1>1, <2>4
  <2>6. n \in ReaderType'
    BY <1>7, <2>3, <2>5 DEF ReaderType
  <2> QED
    BY <2>1, <2>4, <2>6
<1>11. /\ readers' \in Seq(ReaderType') /\ Len(readers') = Len(readers)
       /\ readers'[r] = n /\ \A i \in 1 .. Len(readers) : i # r => readers'[i] = readers[i]
  BY <1>1, <1>8, <1>10, ReplacedSeq DEF WindowTypes
<1>12. /\ r = Answerer /\ Answering
       /\ readers[r].turn = 0 /\ \A i \in 1 .. Len(messages) : messages[i].reader = r => messages[i].shown = <<>>
       /\ readers[r].seq = lastEventId.seq
  BY <1>1 DEF AliveInv, AskingInv
<1>13. lastEventId = NoId /\ lastEventId.seq = 0
  BY <1>12 DEF ShownInv, WindowTypes, NoId
<1>14. Alive = {r} /\ timers = 0
  BY <1>1, <1>13, Lengths, WindowScalars DEF AliveInv
<1>15. WindowTypes'
  <2>1. \A i \in 1 .. Len(turns') : /\ turns'[i].conv \in 1 .. i
                                    /\ turns'[i].state = "running" => turns'[i].issued < Length
                                    /\ RowsOK(turns'[i])
    <3> SUFFICES ASSUME NEW i \in 1 .. Len(turns')
                 PROVE  /\ turns'[i].conv \in 1 .. i
                        /\ turns'[i].state = "running" => turns'[i].issued < Length
                        /\ RowsOK(turns'[i])
      OBVIOUS
    <3>1. CASE i = t
      BY <1>4, <1>6, <1>9, <3>1, Lengths
    <3>2. CASE i # t
      <4>1. i \in 1 .. Len(turns)
        BY <1>1, <1>2, <1>9, <3>2
      <4> QED
        BY <1>9, <4>1 DEF WindowTypes
    <3> QED
      BY <3>1, <3>2
  <2>2. UNCHANGED <<messages, lastEventId>>
    BY <1>1 DEF clientSide
  <2> QED
    BY <1>9, <1>11, <2>1, <2>2 DEF WindowTypes
<1>16. AskingInv'
  <2>1. ASSUME NEW i \in 1 .. Len(readers), i # r PROVE readers'[i].state = "closed"
    <3>1. i \notin Alive /\ i \in DOMAIN readers
      BY <1>14, <2>1, Lengths
    <3> QED
      BY <1>11, <2>1, <3>1 DEF Alive
  <2>2. Delivers(n, m)
    BY <1>10, <1>12, <1>13 DEF Delivers
  <2> QED
    BY <1>1, <1>2, <1>9, <1>10, <1>11, <2>1, <2>2 DEF AskingInv
<1>17. Answering' /\ Answerer' = r
  BY <1>1, <1>12 DEF Answering, Answerer, clientSide
<1>18. ShownInv'
  <2>1. UNCHANGED <<messages, lastEventId>>
    BY <1>1 DEF clientSide
  <2>2. ASSUME NEW i \in 1 .. Len(messages)
        PROVE  IF messages[i].reader = 0 THEN messages[i].shown = <<>>
               ELSE Follows(turns'[readers'[messages[i].reader].turn],
                            readers'[messages[i].reader].turn, messages[i].shown)
    <3>1. CASE messages[i].reader = 0
      BY <3>1 DEF ShownInv
    <3>2. CASE messages[i].shown = <<>>
      BY <3>2, FollowsNothing
    <3>3. CASE messages[i].reader # 0 /\ messages[i].shown # <<>>
      <4>1. PICK k : k = readers[messages[i].reader].turn
        OBVIOUS
      <4>2. messages[i].reader # r /\ messages[i].reader \in 0 .. Len(readers)
        BY <1>12, <3>3 DEF WindowTypes
      <4>3. messages[i].reader \in 1 .. Len(readers)
        BY <3>3, <4>2
      <4>4. readers'[messages[i].reader] = readers[messages[i].reader]
        BY <1>11, <4>2, <4>3
      <4>5. Follows(turns[k], k, messages[i].shown)
        BY <3>3, <4>1 DEF ShownInv
      <4>6. k \in 1 .. Len(turns)
        <5>1. k # 0
          BY <3>3, <4>5 DEF Follows
        <5>2. readers[messages[i].reader] \in ReaderType
          BY <4>3 DEF WindowTypes
        <5>3. k \in 0 .. Len(turns)
          BY <4>1, <5>2 DEF ReaderType
        <5> QED
          BY <1>1, <5>1, <5>3
      <4> QED
        BY <1>9, <3>3, <4>1, <4>4, <4>5, <4>6
    <3> QED
      BY <3>1, <3>2, <3>3
  <2>3. /\ ReadUpTo(messages[Len(messages)].shown) = TextsUpTo(lastEventId.seq)
        /\ GoesBack(messages[Len(messages)].shown) = {}
    <3>1. ReadUpTo(messages[Len(messages)].shown) = TextsUpTo(lastEventId.seq)
      BY <1>12 DEF ShownInv
    <3>2. messages[Len(messages)].shown = <<>>
      BY <1>12, Lengths DEF Answering, Answerer
    <3> QED
      BY <3>1, <3>2, FollowsNothing
  <2> QED
    BY <1>13, <2>1, <2>2, <2>3 DEF ShownInv, TextsUpTo
<1>19. AliveInv'
  <2>1. Alive' = {r}
    BY <1>1, <1>10, <1>11, <1>14, Lengths DEF Alive
  <2>2. timers' = 0 /\ UNCHANGED lastEventId
    BY <1>1, <1>14 DEF clientSide
  <2> QED
    BY <1>10, <1>11, <1>12, <1>17, <2>1, <2>2 DEF AliveInv
<1>20. WindowTypeOK'
  <2>1. Sends' = Sends
    BY <1>1, <1>10, <1>11, Lengths DEF Sends
  <2>2. \A k : k \in 0 .. Len(turns) => k \in 0 .. Len(turns')
    BY <1>1, <1>2, <1>9
  <2> QED
    BY <1>1, <1>11, <1>15, <2>1, <2>2, WindowScalars, WindowOKAfter DEF clientSide
<1> QED
  BY <1>15, <1>16, <1>18, <1>19, <1>20 DEF WindowInv

\* A reader is added; nothing that was shown changes.
LEMMA ReaderAdded ==
  ASSUME WindowTypes, AskingInv, NEW n \in ReaderType, readers' = Append(readers, n),
         UNCHANGED turns
  PROVE  /\ readers' \in Seq(ReaderType) /\ ReaderType' = ReaderType
         /\ Len(readers') = Len(readers) + 1 /\ readers'[Len(readers) + 1] = n
         /\ \A i \in 1 .. Len(readers) : readers'[i] = readers[i]
         /\ Alive' \subseteq Alive \cup {Len(readers) + 1}
         /\ Sends \subseteq Sends' /\ (n.kind = "live" => Len(readers) + 1 \in Sends')
<1>1. readers \in Seq(ReaderType) /\ Len(readers) \in Nat
  BY Lengths DEF WindowTypes
<1>2. /\ readers' \in Seq(ReaderType) /\ ReaderType' = ReaderType
      /\ Len(readers') = Len(readers) + 1 /\ readers'[Len(readers) + 1] = n
      /\ \A i \in 1 .. Len(readers) : readers'[i] = readers[i]
  BY <1>1, AppendSeq DEF ReaderType
<1>3. DOMAIN readers' = 1 .. Len(readers) + 1 /\ DOMAIN readers = 1 .. Len(readers)
  BY <1>1, <1>2
<1>4. \A i \in DOMAIN readers' : i \in DOMAIN readers \/ i = Len(readers) + 1
  BY <1>1, <1>3
<1>5. Alive' \subseteq Alive \cup {Len(readers) + 1}
  BY <1>2, <1>3, <1>4 DEF Alive
<1>6. Sends \subseteq Sends' /\ (n.kind = "live" => Len(readers) + 1 \in Sends')
  BY <1>1, <1>2, <1>3 DEF Sends
<1> QED
  BY <1>2, <1>5, <1>6

LEMMA TimerStep ==
  ASSUME WindowLive, ~ strayed, TimerFires
  PROVE  WindowInv'
<1> USE DEF WindowLive
<1>1. /\ timers > 0 /\ timers \in Nat /\ timers' = timers - 1
      /\ UNCHANGED <<turns, messages, conversationId, loading, isStreaming, error, lastEventId,
                     resumeAttempts>>
      /\ strayed' = (strayed \/ lastEventId = NoId)
      /\ abortController' = Len(readers')
  BY WindowScalars DEF TimerFires
<1>2. PICK n : n = Reader("replay", conversationId, lastEventId)
  OBVIOUS
<1>3. readers' = Append(readers, n)
  BY <1>2 DEF TimerFires
<1>4. /\ n \in ReaderType /\ n.kind = "replay" /\ n.turn = lastEventId.turn /\ n.seq = lastEventId.seq
      /\ n.state = "asking"
  BY <1>2, WindowScalars DEF Reader, ReaderType
<1>5. /\ readers' \in Seq(ReaderType) /\ ReaderType' = ReaderType
      /\ Len(readers') = Len(readers) + 1 /\ readers'[Len(readers) + 1] = n
      /\ \A i \in 1 .. Len(readers) : readers'[i] = readers[i]
      /\ Alive' \subseteq Alive \cup {Len(readers) + 1}
      /\ Sends \subseteq Sends' /\ Len(readers) \in Nat
  BY <1>1, <1>3, <1>4, ReaderAdded, Lengths
<1>6. WindowTypes'
  <2>1. \A i \in 1 .. Len(messages) : messages[i].reader \in 0 .. Len(readers')
    <3>1. ASSUME NEW k \in 0 .. Len(readers) PROVE k \in 0 .. Len(readers')
      BY <1>5
    <3> QED
      BY <3>1 DEF WindowTypes
  <2> QED
    BY <1>1, <1>5, <2>1 DEF WindowTypes
<1>7. WindowTypeOK'
  <2>1. timers' \in Nat /\ strayed' \in BOOLEAN /\ abortController' \in 0 .. Len(readers')
    <3>1. timers' \in Nat /\ abortController' \in 0 .. Len(readers')
      BY <1>1, <1>5
    <3> QED
      BY <1>1, <3>1
  <2> QED
    BY <1>1, <1>5, <1>6, <2>1, WindowScalars, WindowOKAfter
<1>8. ASSUME ~ strayed' PROVE AskingInv' /\ ShownInv' /\ AliveInv'
  <2>1. lastEventId # NoId /\ lastEventId.turn # 0 /\ lastEventId.seq # 0
    BY <1>1, <1>8 DEF WindowTypes
  <2>2. Answering /\ lastEventId.turn = readers[Answerer].turn
    BY <1>1, <2>1 DEF AliveInv, ShownInv
  <2>3. \A i \in 1 .. Len(messages) : messages[i].reader # 0 =>
          messages[i].reader \in 1 .. Len(readers)
          /\ readers'[messages[i].reader] = readers[messages[i].reader]
    <3> SUFFICES ASSUME NEW i \in 1 .. Len(messages), messages[i].reader # 0
                 PROVE  messages[i].reader \in 1 .. Len(readers)
                        /\ readers'[messages[i].reader] = readers[messages[i].reader]
      OBVIOUS
    <3>1. messages[i].reader \in 0 .. Len(readers)
      BY DEF WindowTypes
    <3>2. messages[i].reader \in 1 .. Len(readers)
      BY <3>1
    <3> QED
      BY <1>5, <3>2
  <2>4. /\ Answering' /\ Answerer' = Answerer /\ readers'[Answerer] = readers[Answerer]
        /\ Answerer \in 1 .. Len(readers)
    BY <1>1, <2>2, <2>3, Lengths DEF Answering, Answerer
  <2>5. AskingInv'
    <3> SUFFICES ASSUME NEW i \in 1 .. Len(readers')
                 PROVE  /\ readers'[i].kind = "live" => readers'[i].state # "reading" \/ readers'[i].turn # 0
                        /\ readers'[i].kind = "live" /\ readers'[i].state = "asking" =>
                             readers'[i].turn = 0
                             /\ \A k \in 1 .. Len(messages) : messages[k].reader = i => messages[k].shown = <<>>
                        /\ readers'[i].state = "reading" =>
                             Delivers(readers'[i], turns[readers'[i].turn])
      BY <1>1 DEF AskingInv
    <3>1. CASE i \in 1 .. Len(readers)
      BY <1>5, <3>1 DEF AskingInv
    <3>2. CASE i = Len(readers) + 1
      BY <1>4, <1>5, <3>2
    <3> QED
      BY <1>5, <3>1, <3>2
  <2>6. ShownInv'
    <3>1. \A i \in 1 .. Len(messages) :
            IF messages[i].reader = 0 THEN messages[i].shown = <<>>
            ELSE Follows(turns[readers'[messages[i].reader].turn],
                         readers'[messages[i].reader].turn, messages[i].shown)
      BY <2>3 DEF ShownInv
    <3>2. /\ ReadUpTo(messages[Len(messages)].shown) = TextsUpTo(lastEventId.seq)
          /\ GoesBack(messages[Len(messages)].shown) # {} =>
               /\ lastEventId.seq \in turns[readers[Answerer].turn].rows
               /\ lastEventId.seq < Length => Answerer \notin Alive'
      <4>1. Answerer \notin Alive => Answerer \notin Alive'
        BY <1>5, <2>4
      <4> QED
        BY <2>2, <4>1 DEF ShownInv
    <3> QED
      BY <1>1, <2>2, <2>4, <3>1, <3>2 DEF ShownInv, TextsUpTo
  <2>7. AliveInv'
    <3>1. ASSUME NEW s \in Alive'
          PROVE  /\ readers'[s].turn = readers'[Answerer].turn
                 /\ readers'[s].seq = lastEventId.seq
                 /\ readers'[s].kind = "live" => s = Answerer
                 /\ readers'[s].kind = "replay" => readers'[s].turn # 0 /\ readers'[s].seq # 0
      <4>1. CASE s \in Alive
        <5>1. s \in 1 .. Len(readers)
          BY <4>1, Lengths DEF Alive
        <5> QED
          BY <1>5, <2>4, <4>1, <5>1 DEF AliveInv
      <4>2. CASE s = Len(readers) + 1
        BY <1>4, <1>5, <2>1, <2>2, <2>4, <4>2
      <4> QED
        BY <1>5, <3>1, <4>1, <4>2
    <3>2. lastEventId.seq < Length =>
            /\ \A p, s \in Alive' : p = s
            /\ timers' <= 1
            /\ timers' = 1 => Alive' = {}
      <4> SUFFICES ASSUME lastEventId.seq < Length
                   PROVE  (\A p, s \in Alive' : p = s) /\ timers' = 0
        OBVIOUS
      <4>1. timers = 1 /\ Alive = {}
        BY <1>1 DEF AliveInv
      <4> QED
        BY <1>1, <1>5, <4>1
    <3> QED
      BY <1>1, <2>4, <3>1, <3>2 DEF AliveInv
  <2> QED
    BY <2>5, <2>6, <2>7
<1> QED
  BY <1>6, <1>7, <1>8 DEF WindowInv

\* A message is sent below the bubbles that are kept: all, or all but the last.
LEMMA SentStep ==
  ASSUME WindowLive, ~ strayed, NEW before, Sent(before),
         before \in Seq(BubbleType), Len(before) <= Len(messages),
         \A i \in 1 .. Len(before) : before[i] = messages[i]
  PROVE  WindowInv'
<1> USE DEF WindowLive
<1>1. PICK r : r = Len(readers) + 1
  OBVIOUS
<1>2. /\ messages' = Append(before, Bubble(r))
      /\ abortController' = r
      /\ isStreaming' = TRUE
      /\ error' = FALSE
      /\ lastEventId' = NoId
      /\ resumeAttempts' = 0
      /\ Leave(0)
      /\ UNCHANGED <<turns, conversationId, loading, timers>>
  BY <1>1 DEF Sent
<1>3. PICK n : n = Reader("live", conversationId, NoId)
  OBVIOUS
<1>4. readers' = Append(readers, n)
  BY <1>3 DEF Sent
<1>5. Len(turns) \in Nat /\ Len(messages) \in Nat /\ Len(readers) \in Nat /\ Length \in Nat
      /\ Length > 1 /\ MaxResume \in Nat /\ Len(before) \in Nat
  BY Lengths
<1>6. /\ n \in ReaderType /\ n.kind = "live" /\ n.turn = 0 /\ n.seq = 0 /\ n.state = "asking"
  BY <1>3, <1>5, WindowScalars DEF Reader, ReaderType, NoId
<1>7. /\ readers' \in Seq(ReaderType) /\ ReaderType' = ReaderType
      /\ Len(readers') = r /\ readers'[r] = n
      /\ \A i \in 1 .. Len(readers) : readers'[i] = readers[i]
      /\ Alive' \subseteq Alive \cup {r}
      /\ Sends \subseteq Sends' /\ r \in Sends'
  BY <1>1, <1>2, <1>4, <1>6, ReaderAdded
<1>8. Bubble(r) \in BubbleType /\ Bubble(r).reader = r /\ Bubble(r).shown = <<>>
  BY <1>1, <1>5 DEF Bubble, BubbleType
<1>9. /\ messages' \in Seq(BubbleType) /\ Len(messages') = Len(before) + 1
      /\ messages'[Len(messages')] = Bubble(r)
      /\ \A i \in 1 .. Len(before) : messages'[i] = before[i]
  BY <1>2, <1>8, AppendSeq
<1>10. \A i \in 1 .. Len(before) : messages'[i] = messages[i] /\ i \in 1 .. Len(messages)
  BY <1>5, <1>9
<1>11. \A i \in 1 .. Len(messages') : i \in 1 .. Len(before) \/ messages'[i] = Bubble(r)
  BY <1>5, <1>9
<1>12. WindowTypes'
  <2>1. \A i \in 1 .. Len(messages') : messages'[i].reader \in 0 .. Len(readers')
    <3> SUFFICES ASSUME NEW i \in 1 .. Len(messages')
                 PROVE  messages'[i].reader \in 0 .. Len(readers')
      OBVIOUS
    <3>1. CASE messages'[i] = Bubble(r)
      BY <1>1, <1>5, <1>7, <1>8, <3>1
    <3>2. CASE i \in 1 .. Len(before)
      <4>1. messages'[i].reader \in 0 .. Len(readers)
        BY <1>10, <3>2 DEF WindowTypes
      <4> QED
        BY <1>1, <1>5, <1>7, <4>1
    <3> QED
      BY <1>11, <3>1, <3>2
  <2>2. NoId \in IdType
    BY DEF NoId, IdType
  <2> QED
    BY <1>2, <1>7, <1>9, <2>1, <2>2 DEF WindowTypes
<1>13. WindowTypeOK'
  <2>1. \A i \in 1 .. Len(messages') : messages'[i].reader \in {0} \cup Sends'
    BY <1>7, <1>8, <1>10, <1>11, WindowScalars
  <2>2. /\ abortController' \in 0 .. Len(readers') /\ resumeAttempts' \in 0 .. MaxResume
        /\ lastEventId'.turn \in 0 .. Len(turns') /\ lastEventId'.seq \in 0 .. Length
    BY <1>1, <1>2, <1>5, <1>7 DEF NoId
  <2>3. strayed' \in BOOLEAN
    BY <1>2, WindowScalars DEF Leave
  <2> QED
    BY <1>2, <1>12, <2>1, <2>2, <2>3, WindowScalars, WindowOKAfter
<1>14. ASSUME ~ strayed' PROVE AskingInv' /\ ShownInv' /\ AliveInv'
  <2>1. timers = 0 /\ Alive = {}
    <3>1. ~ (timers > 0) /\ Alive \ {0} = {}
      BY <1>2, <1>14 DEF Leave
    <3>2. 0 \notin Alive
      BY Lengths DEF Alive
    <3> QED
      BY <3>1, <3>2, WindowScalars
  <2>2. \A i \in 1 .. Len(before) : messages[i].reader # 0 =>
          /\ messages[i].reader \in 1 .. Len(readers)
          /\ messages[i].reader # r
          /\ readers'[messages[i].reader] = readers[messages[i].reader]
    <3> SUFFICES ASSUME NEW i \in 1 .. Len(before), messages[i].reader # 0
                 PROVE  /\ messages[i].reader \in 1 .. Len(readers)
                        /\ messages[i].reader # r
                        /\ readers'[messages[i].reader] = readers[messages[i].reader]
      OBVIOUS
    <3>1. messages[i].reader \in 0 .. Len(readers)
      BY <1>10 DEF WindowTypes
    <3>2. messages[i].reader \in 1 .. Len(readers)
      BY <3>1
    <3>3. messages[i].reader # r
      BY <1>1, <1>5, <3>2
    <3> QED
      BY <1>7, <3>2, <3>3
  <2>3. Answering' /\ Answerer' = r
    <3>1. messages' # <<>>
      BY <1>5, <1>9
    <3>2. r # 0
      BY <1>1, <1>5
    <3> QED
      BY <1>8, <1>9, <3>1, <3>2 DEF Answering, Answerer
  <2>4. AskingInv'
    <3> SUFFICES ASSUME NEW i \in 1 .. Len(readers')
                 PROVE  /\ readers'[i].kind = "live" => readers'[i].state # "reading" \/ readers'[i].turn # 0
                        /\ readers'[i].kind = "live" /\ readers'[i].state = "asking" =>
                             readers'[i].turn = 0
                             /\ \A k \in 1 .. Len(messages') : messages'[k].reader = i => messages'[k].shown = <<>>
                        /\ readers'[i].state = "reading" =>
                             Delivers(readers'[i], turns'[readers'[i].turn])
      BY DEF AskingInv
    <3>1. CASE i \in 1 .. Len(readers)
      <4>1. readers'[i] = readers[i] /\ i # r
        BY <1>1, <1>5, <1>7, <3>1
      <4>2. i \notin Alive
        BY <2>1
      <4>3. readers[i].state = "closed"
        BY <3>1, <4>2, Lengths DEF Alive
      <4> QED
        BY <4>1, <4>3
    <3>2. CASE i = r
      <4>1. \A k \in 1 .. Len(messages') : messages'[k].reader = r => messages'[k].shown = <<>>
        <5> SUFFICES ASSUME NEW k \in 1 .. Len(messages'), messages'[k].reader = r
                     PROVE  messages'[k].shown = <<>>
          OBVIOUS
        <5>1. CASE k \in 1 .. Len(before)
          <6>1. messages[k].reader = r /\ r # 0
            BY <1>1, <1>5, <1>10, <5>1
          <6> QED
            BY <2>2, <5>1, <6>1
        <5> QED
          BY <1>8, <1>11, <5>1
      <4> QED
        BY <1>6, <1>7, <3>2, <4>1
    <3> QED
      BY <1>1, <1>5, <1>7, <3>1, <3>2
  <2>5. ShownInv'
    <3>1. ASSUME NEW i \in 1 .. Len(messages')
          PROVE  IF messages'[i].reader = 0 THEN messages'[i].shown = <<>>
                 ELSE Follows(turns[readers'[messages'[i].reader].turn],
                              readers'[messages'[i].reader].turn, messages'[i].shown)
      <4>1. CASE i \in 1 .. Len(before)
        <5>1. messages'[i] = messages[i] /\ i \in 1 .. Len(messages)
          BY <1>10, <4>1
        <5>2. messages[i].reader # 0 =>
                readers'[messages[i].reader] = readers[messages[i].reader]
          BY <2>2, <4>1
        <5>3. IF messages[i].reader = 0 THEN messages[i].shown = <<>>
              ELSE Follows(turns[readers[messages[i].reader].turn],
                           readers[messages[i].reader].turn, messages[i].shown)
          BY <5>1 DEF ShownInv
        <5> QED
          BY <5>1, <5>2, <5>3
      <4>2. CASE messages'[i] = Bubble(r)
        <5>1. messages'[i].shown = <<>>
          BY <1>8, <4>2
        <5>2. messages'[i].reader # 0
          BY <1>1, <1>5, <1>8, <4>2
        <5> QED
          BY <5>1, <5>2, FollowsNothing
      <4> QED
        BY <1>11, <4>1, <4>2
    <3>2. /\ ReadUpTo(messages'[Len(messages')].shown) = 1 /\ lastEventId'.seq = 0
          /\ GoesBack(messages'[Len(messages')].shown) = {}
      BY <1>2, <1>8, <1>9, FollowsNothing DEF NoId
    <3> QED
      BY <1>2, <3>1, <3>2 DEF ShownInv, TextsUpTo
  <2>6. AliveInv'
    <3>1. Alive' \subseteq {r} /\ timers' = 0
      BY <1>2, <1>7, <2>1
    <3>2. lastEventId'.seq = 0
      BY <1>2 DEF NoId
    <3> QED
      BY <1>6, <1>7, <2>3, <3>1, <3>2 DEF AliveInv
  <2> QED
    BY <2>4, <2>5, <2>6
<1> QED
  BY <1>12, <1>13, <1>14 DEF WindowInv

LEMMA FrontSeq ==
  ASSUME NEW S, NEW s \in Seq(S), s # <<>>, NEW t, t = SubSeq(s, 1, Len(s) - 1)
  PROVE  t \in Seq(S) /\ Len(t) = Len(s) - 1 /\ \A i \in 1 .. Len(t) : t[i] = s[i]
<1>1. Len(s) \in Nat /\ Len(s) # 0
  OBVIOUS
<1>2. PICK n \in Nat : n = Len(s) - 1
  BY <1>1
<1>3. \A i \in 1 .. n : i \in 1 .. Len(s)
  BY <1>1, <1>2
<1>4. \A i \in 1 .. n : s[i] \in S
  BY <1>3
<1>5. SubSeq(s, 1, n) = [i \in 1 .. n |-> s[i]]
  BY <1>1, <1>2, <1>3
<1>6. SubSeq(s, 1, n) \in Seq(S) /\ Len(SubSeq(s, 1, n)) = n
  BY <1>4, <1>5
<1> QED
  BY <1>2, <1>5, <1>6

LEMMA SendStep ==
  ASSUME WindowLive, ~ strayed, sendMessage \/ retryLastMessage
  PROVE  WindowInv'
<1> USE DEF WindowLive
<1>1. messages \in Seq(BubbleType) /\ Len(messages) \in Nat
  BY Lengths DEF WindowTypes
<1>2. CASE Sent(messages)
  <2>1. Len(messages) <= Len(messages) /\ \A i \in 1 .. Len(messages) : messages[i] = messages[i]
    BY <1>1
  <2> QED
    BY <1>1, <1>2, <2>1, SentStep
<1>3. CASE messages # <<>> /\ Sent(Front(messages))
  <2>1. PICK before : before = SubSeq(messages, 1, Len(messages) - 1)
    OBVIOUS
  <2>2. Sent(before)
    BY <1>3, <2>1 DEF Front
  <2>3. /\ before \in Seq(BubbleType) /\ Len(before) <= Len(messages)
        /\ \A i \in 1 .. Len(before) : before[i] = messages[i]
    <3>1. /\ before \in Seq(BubbleType)
          /\ Len(before) = Len(messages) - 1
          /\ \A i \in 1 .. Len(before) : before[i] = messages[i]
      BY <1>1, <1>3, <2>1, FrontSeq
    <3>2. Len(before) <= Len(messages)
      BY ONLY <1>1, <3>1
    <3> QED
      BY <3>1, <3>2
  <2> QED
    BY <2>2, <2>3, SentStep
<1> QED
  BY <1>2, <1>3 DEF sendMessage, retryLastMessage

LEMMA LoadedStep ==
  ASSUME WindowLive, ~ strayed, ConversationLoaded
  PROVE  WindowInv'
<1> USE DEF WindowLive
<1>1. /\ conversationId' = loading /\ loading' = 0 /\ Leave(0)
      /\ UNCHANGED <<turns, isStreaming, error, lastEventId, resumeAttempts, timers, readers,
                     abortController>>
  BY DEF ConversationLoaded
<1>2. PICK saved : saved = {t \in DOMAIN turns : turns[t].conv = loading /\ turns[t].state = "done"}
  OBVIOUS
<1>3. PICK m : m = Cardinality(saved)
  OBVIOUS
<1>4. m \in Nat
  <2>1. saved \subseteq 1 .. Len(turns) /\ Len(turns) \in Int
    BY <1>2, Lengths
  <2>2. IsFiniteSet(1 .. Len(turns))
    BY <2>1, FS_Interval
  <2> QED
    BY <1>3, <2>1, <2>2, FS_Subset, FS_CardinalityType
<1>5. messages' = [i \in 1 .. m |-> Bubble(0)]
  BY <1>2, <1>3 DEF ConversationLoaded
<1>6. Bubble(0) \in BubbleType /\ Bubble(0).reader = 0 /\ Bubble(0).shown = <<>>
  BY DEF Bubble, BubbleType
<1>7. /\ messages' \in Seq(BubbleType) /\ Len(messages') = m
      /\ \A i \in 1 .. m : messages'[i] = Bubble(0)
  BY <1>4, <1>5, <1>6
<1>8. Sends' = Sends /\ Alive' = Alive /\ ReaderType' = ReaderType
  BY <1>1 DEF Sends, Alive, ReaderType
<1>9. WindowTypes'
  BY <1>1, <1>6, <1>7, <1>8, Lengths DEF WindowTypes
<1>10. WindowTypeOK'
  <2>1. \A i \in 1 .. Len(messages') : messages'[i].reader \in {0} \cup Sends'
    BY <1>6, <1>7
  <2>2. strayed' \in BOOLEAN /\ loading' \in 0 .. Len(turns')
    BY <1>1, WindowScalars, Lengths DEF Leave
  <2> QED
    BY <1>1, <1>9, <2>1, <2>2, WindowScalars, WindowOKAfter
<1>11. ASSUME ~ strayed' PROVE AskingInv' /\ ShownInv' /\ AliveInv'
  <2>1. timers = 0 /\ Alive = {}
    <3>1. ~ (timers > 0) /\ Alive \ {0} = {}
      BY <1>1, <1>11 DEF Leave
    <3>2. 0 \notin Alive
      BY Lengths DEF Alive
    <3> QED
      BY <3>1, <3>2, WindowScalars
  <2>2. ~ Answering'
    <3>1. messages' # <<>> => Len(messages') \in 1 .. m
      BY <1>7, LastIndex
    <3> QED
      BY <1>6, <1>7, <3>1 DEF Answering
  <2>3. AskingInv'
    BY <1>1, <1>6, <1>7 DEF AskingInv
  <2>4. ShownInv'
    BY <1>6, <1>7, <2>2 DEF ShownInv
  <2>5. AliveInv'
    BY <1>1, <1>8, <2>1 DEF AliveInv
  <2> QED
    BY <2>3, <2>4, <2>5
<1> QED
  BY <1>9, <1>10, <1>11 DEF WindowInv

\* The row that a reader reads next holds the next texts; or the row goes back,
\* because it is a replay's and lastEventId is inside of it.
LEMMA NextRow ==
  ASSUME NEW turn \in TurnType, RowsOK(turn), NEW reader \in ReaderType, Delivers(reader, turn),
         NEW to \in reader.rows, \A k \in reader.rows : to <= k, to <= turn.issued,
         NEW first \in 1 .. Length,
         IF reader.kind = "live" THEN first = to ELSE Holds(turn, first, to),
         reader.kind = "replay" => reader.seq # 0
  PROVE  /\ to \in 1 .. Length /\ reader.seq \in Nat /\ reader.seq < to
         /\ first <= to
         /\ to # 1 => first # 1
         /\ to = 1 => reader.seq = 0
         /\ to = Length => first = to /\ reader.seq = Length - 1
         /\ to \in 2 .. Length - 1 => reader.seq # 0
         /\ first = reader.seq + 1 \/ (reader.seq >= 2 /\ Repeats(turn, reader.seq, first)
                                        /\ reader.seq \notin turn.rows /\ reader.kind = "replay")
         /\ reader.kind = "live" => to = reader.seq + 1 /\ first = reader.seq + 1
         /\ reader.kind = "replay" => to \in turn.rows
<1>1. PICK e : e = reader.seq
  OBVIOUS
<1>2. /\ Length \in Nat /\ Length > 1 /\ e \in 0 .. Length /\ to \in 1 .. Length
      /\ first \in 1 .. Length /\ reader.kind \in {"live", "replay"}
  BY <1>1, ChatWindowAssumption DEF ReaderType
<1>3. CASE reader.kind = "live"
  <2>1. reader.rows = e + 1 .. Length /\ first = to
    BY <1>1, <1>3 DEF Delivers
  <2>2. e + 1 \in reader.rows
    BY <1>2, <2>1
  <2>3. to = e + 1
    <3>1. to <= e + 1
      BY <2>2
    <3>2. to \in e + 1 .. Length
      BY <2>1
    <3> QED
      BY <1>2, <3>1, <3>2
  <2> QED
    BY <1>1, <1>2, <1>3, <2>1, <2>3
<1>4. CASE reader.kind = "replay"
  <2>1. /\ to \in turn.rows /\ e < to /\ e # 0
        /\ \A k \in turn.rows : e < k /\ k <= to => k \in reader.rows
    BY <1>1, <1>4 DEF Delivers
  <2>2. turn.rows \subseteq 1 .. Length
    BY DEF TurnType
  <2>3. \A k \in turn.rows : ~ (e < k /\ k < to)
    BY <1>2, <2>1, <2>2
  <2>4. /\ first \in 1 .. to /\ first - 1 \in turn.rows \cup {0}
        /\ turn.rows \cap first .. (to - 1) = {}
    BY <1>4 DEF Holds
  <2>5. first <= e + 1
    BY <1>2, <2>1, <2>3, <2>4
  <2>6. 1 \in turn.rows
    BY <1>2, <2>1, <2>2 DEF RowsOK
  <2>7. to # 1 => first # 1
    <3>1. ASSUME first = 1, to # 1 PROVE FALSE
      <4>1. 1 \in first .. (to - 1)
        BY <1>2, <3>1
      <4> QED
        BY <2>4, <2>6, <4>1
    <3> QED
      BY <3>1
  <2>8. to # 1
    BY <1>2, <2>1
  <2>9. ASSUME first # e + 1
        PROVE  e >= 2 /\ e \notin turn.rows /\ Repeats(turn, e, first)
    <3>1. first <= e /\ first >= 2
      BY <1>2, <2>5, <2>7, <2>8, <2>9
    <3>2. e \in first .. (to - 1)
      BY <1>2, <2>1, <3>1
    <3>3. e \notin turn.rows
      BY <2>4, <3>2
    <3>4. Repeats(turn, e, first)
      BY <1>4, <2>1, <3>1 DEF Repeats
    <3> QED
      BY <1>2, <3>1, <3>3, <3>4
  <2>10. ASSUME to = Length PROVE first = to /\ e = Length - 1
    <3>1. Length - 1 \in turn.rows
      BY <2>1, <2>10 DEF RowsOK
    <3>2. ~ (Length - 1 \in first .. (to - 1))
      BY <2>4, <3>1
    <3>3. first = to
      BY <1>2, <2>4, <2>10, <3>2
    <3>4. ~ (e < Length - 1)
      BY <1>2, <2>3, <2>10, <3>1
    <3> QED
      BY <1>2, <2>1, <2>10, <3>3, <3>4
  <2> QED
    BY <1>1, <1>2, <1>4, <2>1, <2>4, <2>7, <2>8, <2>9, <2>10
<1> QED
  BY <1>2, <1>3, <1>4

\* What a reader still has to read after that row.
LEMMA DeliversAfter ==
  ASSUME NEW turn \in TurnType, NEW reader \in ReaderType, Delivers(reader, turn),
         NEW to \in reader.rows, \A k \in reader.rows : to <= k,
         reader.kind = "live" => to = reader.seq + 1,
         NEW n \in ReaderType, n.kind = reader.kind, n.seq = to, n.rows = reader.rows \ {to}
  PROVE  Delivers(n, turn)
<1>1. /\ Length \in Nat /\ reader.seq \in 0 .. Length /\ reader.rows \subseteq 1 .. Length
      /\ to \in 1 .. Length
  BY ChatWindowAssumption DEF ReaderType
<1>2. ASSUME n.kind = "live" PROVE n.rows = n.seq + 1 .. Length
  <2>1. reader.rows = reader.seq + 1 .. Length /\ to = reader.seq + 1
    BY <1>2 DEF Delivers
  <2>2. n.rows = (to .. Length) \ {to}
    BY <2>1
  <2>3. (to .. Length) \ {to} = to + 1 .. Length
    BY <1>1
  <2> QED
    BY <2>2, <2>3
<1>3. ASSUME n.kind = "replay"
      PROVE  /\ n.rows \subseteq turn.rows
             /\ \A k \in n.rows : n.seq < k
             /\ \A k \in turn.rows, x \in n.rows : n.seq < k /\ k <= x => k \in n.rows
  <2>1. /\ reader.rows \subseteq turn.rows /\ reader.seq < to
        /\ \A k \in turn.rows, x \in reader.rows : reader.seq < k /\ k <= x => k \in reader.rows
    BY <1>3 DEF Delivers
  <2>2. \A k \in n.rows : n.seq < k
    BY <1>1
  <2>3. turn.rows \subseteq Nat
    BY <1>1 DEF TurnType
  <2>4. ASSUME NEW k \in turn.rows, NEW x \in n.rows, n.seq < k, k <= x PROVE k \in n.rows
    <3>1. x \in reader.rows /\ reader.seq < k /\ k # to
      BY <1>1, <2>1, <2>3, <2>4
    <3> QED
      BY <2>1, <2>4, <3>1
  <2> QED
    BY <2>1, <2>2, <2>4
<1> QED
  BY <1>2, <1>3 DEF Delivers

\* A row is read: the one after lastEventId, of the turn of the last bubble.
LEMMA ReadStepInv ==
  ASSUME WindowLive, NEW r \in DOMAIN readers, ReadEvent(r)
  PROVE  WindowInv'
<1> USE DEF WindowLive
<1>1. /\ r \in 1 .. Len(readers) /\ readers[r] \in ReaderType /\ r \in Alive
      /\ readers[r].state = "reading"
      /\ Len(turns) \in Nat /\ Length \in Nat /\ Length > 1 /\ Len(messages) \in Nat
      /\ timers \in Nat
  <2>1. readers[r].state = "reading"
    BY DEF ReadEvent
  <2>2. r \in 1 .. Len(readers) /\ r \in Alive
    BY <2>1, Lengths DEF Alive
  <2>3. readers[r] \in ReaderType
    BY <2>2 DEF WindowTypes
  <2> QED
    BY <2>1, <2>2, <2>3, Lengths, WindowScalars
<1>2. PICK e : e = readers[r].seq
  OBVIOUS
<1> DEFINE t == readers[r].turn
<1>3. t = readers[r].turn
  OBVIOUS
<1>4. PICK to \in readers[r].rows, first \in 1 .. Length :
        /\ readers[r].state = "reading"
        /\ \A k \in readers[r].rows : to <= k
        /\ to <= turns[t].issued
        /\ IF readers[r].kind = "live" THEN first = to ELSE Holds(turns[t], first, to)
        /\ lastEventId' = [turn |-> t, seq |-> to]
        /\ conversationId' = IF to = 1 THEN turns[t].conv ELSE conversationId
        /\ IF to \in 2 .. Length - 1 THEN OnToken(t, first, to) ELSE UNCHANGED messages
        /\ LET then == [readers EXCEPT ![r].seq = to, ![r].rows = @ \ {to}]
           IN  CASE to < Length -> /\ readers' = then
                                   /\ UNCHANGED <<isStreaming, error, resumeAttempts, timers,
                                                  abortController>>
                 [] to = Length /\ turns[t].state = "done" -> OnEnd(then, FALSE)
                 [] OTHER -> OnError(then)
        /\ UNCHANGED <<turns, loading, strayed>>
  BY Zenon DEF ReadEvent
<1> HIDE DEF t
<1>5. PICK n : n = [readers[r] EXCEPT !.seq = to, !.rows = readers[r].rows \ {to}]
  OBVIOUS
<1>6. PICK from : from = [readers EXCEPT ![r] = n]
  OBVIOUS
<1>7. [readers EXCEPT ![r].seq = to, ![r].rows = @ \ {to}] = from
  BY <1>1, <1>5, <1>6 DEF ReaderType
<1>8. \/ /\ to < Length /\ readers' = from
         /\ UNCHANGED <<isStreaming, error, resumeAttempts, timers, abortController>>
      \/ to = Length /\ OnEnd(from, FALSE)
      \/ ~ (to < Length) /\ OnError(from)
  BY <1>4, <1>7
<1>9. /\ Answering /\ t = readers[Answerer].turn /\ e = lastEventId.seq
      /\ readers[r].kind = "live" => r = Answerer
      /\ readers[r].kind = "replay" => e # 0
      /\ t # 0
      /\ Delivers(readers[r], turns[t])
  BY <1>1, <1>2, <1>3 DEF AliveInv, AskingInv, ReaderType
<1>10. t \in 1 .. Len(turns) /\ turns[t] \in TurnType /\ RowsOK(turns[t])
  <2>1. t \in 0 .. Len(turns)
    BY <1>1, <1>3 DEF ReaderType
  <2>2. t \in 1 .. Len(turns)
    BY <1>1, <1>9, <2>1
  <2> QED
    BY <2>2 DEF WindowTypes
<1>11. /\ to \in 1 .. Length /\ e \in Nat /\ e < to /\ first <= to
       /\ to # 1 => first # 1
       /\ to = 1 => e = 0
       /\ to = Length => first = to /\ e = Length - 1
       /\ to \in 2 .. Length - 1 => e # 0
       /\ first = e + 1 \/ (e >= 2 /\ Repeats(turns[t], e, first)
                            /\ e \notin turns[t].rows /\ readers[r].kind = "replay")
       /\ readers[r].kind = "live" => to = e + 1 /\ first = e + 1
       /\ readers[r].kind = "replay" => to \in turns[t].rows
  <2>1. PICK turn \in TurnType : turn = turns[t] /\ RowsOK(turn)
    BY <1>10
  <2>2. PICK reader \in ReaderType : reader = readers[r] /\ Delivers(reader, turn)
    BY <1>1, <1>9, <2>1
  <2>3. /\ to \in reader.rows /\ (\A k \in reader.rows : to <= k) /\ to <= turn.issued
        /\ IF reader.kind = "live" THEN first = to ELSE Holds(turn, first, to)
        /\ reader.kind = "replay" => reader.seq # 0
    BY <1>2, <1>4, <1>9, <2>1, <2>2
  <2>4. /\ to \in 1 .. Length /\ reader.seq \in Nat /\ reader.seq < to
        /\ first <= to
        /\ to # 1 => first # 1
        /\ to = 1 => reader.seq = 0
        /\ to = Length => first = to /\ reader.seq = Length - 1
        /\ to \in 2 .. Length - 1 => reader.seq # 0
        /\ first = reader.seq + 1 \/ (reader.seq >= 2 /\ Repeats(turn, reader.seq, first)
                                       /\ reader.seq \notin turn.rows /\ reader.kind = "replay")
        /\ reader.kind = "live" => to = reader.seq + 1 /\ first = reader.seq + 1
        /\ reader.kind = "replay" => to \in turn.rows
    BY <2>1, <2>2, <2>3, NextRow
  <2> QED
    BY <1>2, <2>1, <2>2, <2>4
<1>12. Alive = {r} /\ timers = 0
  <2>1. /\ \A p, s \in Alive : p = s
        /\ timers <= 1
        /\ timers = 1 => Alive = {}
    BY <1>1, <1>11, <1>9 DEF AliveInv
  <2> QED
    BY <1>1, <2>1
<1>13. /\ readers' = from
       /\ isStreaming' \in BOOLEAN /\ error' \in BOOLEAN
       /\ resumeAttempts' \in 0 .. MaxResume
       /\ abortController' \in {0, abortController}
       /\ timers' \in {0, 1} /\ (to < Length => timers' = 0)
  <2>1. CASE /\ to < Length /\ readers' = from
             /\ UNCHANGED <<isStreaming, error, resumeAttempts, timers, abortController>>
    BY <1>12, <2>1, WindowScalars
  <2>2. CASE to = Length /\ OnEnd(from, FALSE)
    BY <1>1, <1>11, <1>12, <2>2, OnEndDoes
  <2>3. CASE ~ (to < Length) /\ OnError(from)
    BY <1>12, <2>3, OnErrorDoes
  <2> QED
    BY <1>8, <2>1, <2>2, <2>3
<1>14. /\ n \in ReaderType /\ n.kind = readers[r].kind /\ n.turn = t /\ n.seq = to
       /\ n.state = "reading" /\ n.rows = readers[r].rows \ {to}
  <2>1. to \in 0 .. Length /\ readers[r].rows \ {to} \subseteq 1 .. Length
    BY <1>1, <1>11 DEF ReaderType
  <2> QED
    BY <1>1, <1>3, <1>5, <2>1 DEF ReaderType
<1>15. Delivers(n, turns[t])
  BY <1>1, <1>2, <1>4, <1>11, <1>9, <1>10, <1>14, DeliversAfter
<1>16. readers' = [readers EXCEPT ![r] = n]
  BY <1>6, <1>13
<1>17. /\ readers' \in Seq(ReaderType) /\ Len(readers') = Len(readers)
       /\ readers'[r] = n /\ \A i \in 1 .. Len(readers) : i # r => readers'[i] = readers[i]
  BY <1>1, <1>14, <1>16, ReplacedSeq DEF WindowTypes
<1>18. DOMAIN readers' = 1 .. Len(readers) /\ DOMAIN readers = 1 .. Len(readers)
  BY <1>17, Lengths
<1>19. Alive' = {r} /\ Sends' = Sends
  <2>1. \A i \in 1 .. Len(readers) : /\ readers'[i].kind = readers[i].kind
                                     /\ readers'[i].turn = readers[i].turn
                                     /\ readers'[i].state = readers[i].state
    BY <1>1, <1>3, <1>14, <1>17
  <2> QED
    BY <1>12, <1>18, <2>1 DEF Alive, Sends
<1>20. \A i \in 1 .. Len(readers) : readers'[i].turn = readers[i].turn
                                    /\ readers'[i].kind = readers[i].kind
                                    /\ readers'[i].state = readers[i].state
  BY <1>1, <1>3, <1>14, <1>17
<1>21. PICK last : last = Len(messages)
  OBVIOUS
<1>22. /\ last \in 1 .. Len(messages) /\ messages[last] \in BubbleType
       /\ messages[last].shown \in Seq(IdType)
       /\ messages[last].reader = Answerer /\ Answerer # 0
       /\ ReadUpTo(messages[last].shown) = TextsUpTo(e)
       /\ Follows(turns[t], t, messages[last].shown)
       /\ GoesBack(messages[last].shown) # {} =>
            e \in turns[t].rows /\ (e < Length => Answerer \notin Alive)
  <2>1. last \in 1 .. Len(messages) /\ messages[last].reader = Answerer /\ Answerer # 0
    BY <1>9, <1>21, Lengths DEF Answering, Answerer
  <2>3. messages[last] \in BubbleType
    BY <2>1 DEF WindowTypes
  <2>2. messages[last] \in BubbleType /\ messages[last].shown \in Seq(IdType)
    BY <2>3 DEF BubbleType
  <2> QED
    BY <1>9, <1>21, <2>1, <2>2 DEF ShownInv
<1>23. PICK shown : shown = IF to \in 2 .. Length - 1
                            THEN messages[last].shown \o Texts(t, first, to)
                            ELSE messages[last].shown
  OBVIOUS
<1>24. PICK b : b = [messages[last] EXCEPT !.shown = shown]
  OBVIOUS
<1>25. [turn |-> t, seq |-> to] \in IdType
  BY <1>11, <1>10 DEF IdType
<1>26. /\ shown \in Seq(IdType)
       /\ ReadUpTo(shown) = TextsUpTo(to)
       /\ Follows(turns[t], t, shown)
       /\ GoesBack(shown) # {} => to \in turns[t].rows /\ (to < Length => Answerer # r)
  <2>1. readers[r].kind = "replay" => Answerer # r
    <3>1. Answerer \in Sends
      BY <1>22, WindowScalars
    <3> QED
      BY <3>1 DEF Sends
  <2>2. readers[r].kind = "live" => GoesBack(messages[last].shown) = {}
    BY <1>1, <1>11, <1>9, <1>12, <1>22
  <2>3. first # e + 1 => GoesBack(messages[last].shown) = {}
    BY <1>11, <1>22
  <2>4. readers[r].kind \in {"live", "replay"}
    BY <1>1 DEF ReaderType
  <2>5. CASE to \in 2 .. Length - 1
    <3>1. TextsUpTo(e) = e /\ TextsUpTo(to) = to
      BY <1>1, <1>11, <2>5 DEF TextsUpTo
    <3>2. /\ first \in Nat /\ to \in Nat /\ 2 <= first /\ first <= to /\ t \in Nat \ {0}
      BY <1>11, <1>10, <2>5
    <3>3. /\ shown \in Seq(IdType)
          /\ Follows(turns[t], t, shown)
          /\ ReadUpTo(shown) = to
          /\ GoesBack(shown) # {} => GoesBack(messages[last].shown) # {} \/ first # e + 1
      <4>1. PICK old \in Seq(IdType) : old = messages[last].shown
        BY <1>22
      <4>2. shown = old \o Texts(t, first, to)
        BY <1>23, <2>5, <4>1
      <4>3. e = ReadUpTo(old) /\ Follows(turns[t], t, old) /\ e \in Nat
        BY <1>11, <1>22, <3>1, <4>1
      <4>4. first = e + 1 \/ (e >= 2 /\ Repeats(turns[t], e, first) /\ GoesBack(old) = {})
        BY <1>11, <2>3, <4>1
      <4> QED
        <5>1. Appends(turns[t], t, old, e, first, to)
          BY <3>2, <4>1, <4>3, <4>4 DEF Appends
        <5> QED
          BY <4>1, <4>2, <5>1, ShownMore
    <3>4. GoesBack(shown) # {} => readers[r].kind = "replay"
      BY <1>11, <2>2, <2>4, <3>3
    <3> QED
      BY <1>11, <2>1, <3>1, <3>3, <3>4
  <2>6. CASE to \notin 2 .. Length - 1
    <3>1. shown = messages[last].shown
      BY <1>23, <2>6
    <3>2. (to = 1 /\ e = 0) \/ (to = Length /\ e = Length - 1 /\ e # 0)
      BY <1>1, <1>11, <2>6
    <3>3. TextsUpTo(to) = TextsUpTo(e)
      <4>1. CASE to = 1 /\ e = 0
        BY <1>1, <4>1 DEF TextsUpTo
      <4>2. CASE to = Length /\ e = Length - 1 /\ e # 0
        BY <1>1, <4>2 DEF TextsUpTo
      <4> QED
        BY <3>2, <4>1, <4>2
    <3>4. GoesBack(shown) # {} => to \in turns[t].rows /\ (to < Length => Answerer # r)
      BY <1>11, <2>1, <2>2, <2>4, <3>1
    <3> QED
      BY <1>22, <3>1, <3>3, <3>4
  <2> QED
    BY <2>5, <2>6
<1>27. b \in BubbleType /\ b.reader = Answerer /\ b.shown = shown
  BY <1>22, <1>24, <1>26 DEF BubbleType
<1>28. messages' = [messages EXCEPT ![last] = b]
  <2>1. messages \in Seq(BubbleType)
    BY DEF WindowTypes
  <2>2. CASE to \in 2 .. Length - 1
    <3>1. messages' = [messages EXCEPT ![last].shown = @ \o Texts(t, first, to)]
      BY <1>4, <1>9, <1>21, <2>2 DEF OnToken, Answering
    <3> QED
      BY <1>22, <1>23, <1>24, <2>1, <2>2, <3>1 DEF BubbleType
  <2>3. CASE to \notin 2 .. Length - 1
    <3>1. messages' = messages /\ b = messages[last]
      BY <1>4, <1>22, <1>23, <1>24, <2>3 DEF BubbleType
    <3> QED
      BY <1>22, <2>1, <3>1
  <2> QED
    BY <2>2, <2>3
<1>29. /\ messages' \in Seq(BubbleType) /\ Len(messages') = Len(messages)
       /\ messages'[last] = b /\ \A i \in 1 .. Len(messages) : i # last => messages'[i] = messages[i]
  BY <1>22, <1>27, <1>28, ReplacedSeq DEF WindowTypes
<1>30. \A i \in 1 .. Len(messages) : messages'[i].reader = messages[i].reader
  BY <1>22, <1>27, <1>29
<1>31. Answering' /\ Answerer' = Answerer /\ Answerer \in 1 .. Len(readers)
  <2>1. messages' # <<>>
    BY <1>22, <1>29
  <2>2. Answerer' = Answerer
    BY <1>21, <1>22, <1>29, <1>30 DEF Answerer
  <2>3. Answerer \in 0 .. Len(readers)
    BY <1>22 DEF WindowTypes
  <2> QED
    BY <1>21, <1>22, <1>29, <1>30, <2>1, <2>2, <2>3 DEF Answering
<1>32. WindowTypes'
  <2>1. turns' = turns /\ ReaderType' = ReaderType
    BY <1>4 DEF ReaderType
  <2>2. lastEventId' \in IdType /\ lastEventId'.turn # 0 /\ lastEventId'.seq # 0
    BY <1>4, <1>11, <1>9, <1>25
  <2>3. \A i \in 1 .. Len(messages') : messages'[i].reader \in 0 .. Len(readers')
    BY <1>17, <1>29, <1>30 DEF WindowTypes
  <2> QED
    BY <1>17, <1>29, <2>1, <2>2, <2>3 DEF WindowTypes
<1>33. WindowTypeOK'
  <2>1. \A i \in 1 .. Len(messages') : messages'[i].reader \in {0} \cup Sends'
    BY <1>19, <1>29, <1>30, WindowScalars
  <2>2. conversationId' \in 0 .. Len(turns)
    <3>1. turns[t].conv \in 1 .. t
      BY <1>10 DEF WindowTypes
    <3>2. turns[t].conv \in 0 .. Len(turns)
      BY <1>1, <1>10, <3>1
    <3> QED
      BY <1>4, <3>2, WindowScalars
  <2>3. lastEventId'.turn \in 0 .. Len(turns) /\ lastEventId'.seq \in 0 .. Length
    BY <1>1, <1>4, <1>11, <1>10
  <2>4. timers' \in Nat /\ abortController' \in 0 .. Len(readers')
    BY <1>13, <1>17, WindowScalars, Lengths, SMTT(60)
  <2> QED
    BY <1>4, <1>13, <1>32, <2>1, <2>2, <2>3, <2>4, WindowScalars, WindowOKAfter
<1>34. AskingInv'
  <2> SUFFICES ASSUME NEW i \in 1 .. Len(readers)
               PROVE  /\ readers'[i].kind = "live" => readers'[i].state # "reading" \/ readers'[i].turn # 0
                      /\ readers'[i].kind = "live" /\ readers'[i].state = "asking" =>
                           readers'[i].turn = 0
                           /\ \A k \in 1 .. Len(messages') : messages'[k].reader = i => messages'[k].shown = <<>>
                      /\ readers'[i].state = "reading" =>
                           Delivers(readers'[i], turns[readers'[i].turn])
    BY <1>4, <1>17 DEF AskingInv
  <2>1. readers[i].kind = "live" => readers[i].state # "asking"
    <3>1. ASSUME readers[i].state = "asking" PROVE i = r
      BY <1>12, <3>1, Lengths DEF Alive
    <3> QED
      BY <1>1, <3>1
  <2>2. readers'[i].state = "reading" => Delivers(readers'[i], turns[readers'[i].turn])
    BY <1>15, <1>14, <1>17 DEF AskingInv
  <2> QED
    BY <1>20, <2>1, <2>2 DEF AskingInv
<1>35. ShownInv'
  <2>1. ASSUME NEW i \in 1 .. Len(messages)
        PROVE  IF messages'[i].reader = 0 THEN messages'[i].shown = <<>>
               ELSE Follows(turns[readers'[messages'[i].reader].turn],
                            readers'[messages'[i].reader].turn, messages'[i].shown)
    <3>1. CASE i = last
      BY <1>9, <1>20, <1>22, <1>26, <1>27, <1>29, <1>31, <3>1
    <3>2. CASE i # last
      <4>1. messages'[i] = messages[i]
        BY <1>29, <3>2
      <4>2. messages[i].reader \in 0 .. Len(readers)
        BY DEF WindowTypes
      <4>3. messages[i].reader # 0 => readers'[messages[i].reader].turn = readers[messages[i].reader].turn
        BY <1>20, <4>2
      <4>4. IF messages[i].reader = 0 THEN messages[i].shown = <<>>
            ELSE Follows(turns[readers[messages[i].reader].turn],
                         readers[messages[i].reader].turn, messages[i].shown)
        BY DEF ShownInv
      <4> QED
        BY <4>1, <4>3, <4>4
    <3> QED
      BY <3>1, <3>2
  <2>2. lastEventId'.turn = readers'[Answerer].turn
    BY <1>4, <1>9, <1>20, <1>31
  <2>3. /\ ReadUpTo(messages'[Len(messages')].shown) = TextsUpTo(lastEventId'.seq)
        /\ GoesBack(messages'[Len(messages')].shown) # {} =>
             /\ lastEventId'.seq \in turns[readers'[Answerer].turn].rows
             /\ lastEventId'.seq < Length => Answerer \notin Alive'
    BY <1>4, <1>9, <1>19, <1>20, <1>21, <1>26, <1>27, <1>29, <1>31
  <2> QED
    BY <1>4, <1>29, <1>31, <2>1, <2>2, <2>3 DEF ShownInv, TextsUpTo
<1>36. AliveInv'
  <2>1. /\ readers'[r].turn = readers'[Answerer].turn
        /\ readers'[r].seq = lastEventId'.seq
        /\ readers'[r].kind = "live" => r = Answerer
        /\ readers'[r].kind = "replay" => readers'[r].turn # 0 /\ readers'[r].seq # 0
    BY <1>1, <1>4, <1>11, <1>9, <1>14, <1>17, <1>20, <1>31
  <2>2. lastEventId'.seq < Length => timers' = 0
    BY <1>4, <1>13
  <2> QED
    BY <1>19, <1>31, <2>1, <2>2 DEF AliveInv
<1> QED
  BY <1>32, <1>33, <1>34, <1>35, <1>36 DEF WindowInv

LEMMA WindowStepInv == WindowInv /\ [WindowNext]_windowVars => WindowInv'
<1>1. ASSUME WindowInv, UNCHANGED windowVars PROVE WindowInv'
  <2>1. ReaderType' = ReaderType
    BY <1>1 DEF windowVars, ReaderType
  <2> QED
    BY <1>1, <2>1 DEF windowVars, WindowInv, WindowTypeOK, WindowTypes, AskingInv, ShownInv,
                      AliveInv, Alive, Answering, Answerer, TextsUpTo, Sends
<1>2. ASSUME WindowInv, WindowNext PROVE WindowInv'
  <2>1. ~ strayed /\ WindowLive
    BY <1>2 DEF WindowNext, WindowInv, WindowLive
  <2>2. CASE \E r \in DOMAIN readers :
               \/ AcceptTurn(r) \/ AnswerReplay(r)
               \/ ReadEvent(r) \/ ReadInterrupted(r) \/ EndReader(r) \/ ReaderFails(r)
    <3>1. PICK r \in DOMAIN readers :
               \/ AcceptTurn(r) \/ AnswerReplay(r)
               \/ ReadEvent(r) \/ ReadInterrupted(r) \/ EndReader(r) \/ ReaderFails(r)
      BY <2>2
    <3>2. r \in 1 .. Len(readers) /\ (readers[r].state = "reading" => r \in Alive)
      BY <2>1, <3>1, Lengths DEF WindowLive, Alive
    <3>3. CASE ReadInterrupted(r)
      <4>1. /\ OnEnd(Closed(r), TRUE)
            /\ UNCHANGED <<turns, messages, conversationId, loading, lastEventId, strayed>>
        BY <3>3 DEF ReadInterrupted
      <4>2. /\ readers' = Closed(r) /\ isStreaming' \in BOOLEAN /\ error' \in BOOLEAN
            /\ resumeAttempts' \in 0 .. MaxResume /\ abortController' = 0 /\ timers' = timers
        BY <2>1, <4>1, OnEndDoes DEF WindowLive
      <4> QED
        BY <2>1, <3>2, <4>1, <4>2, ClosedStep, WindowScalars DEF WindowLive
    <3>4. CASE EndReader(r)
      <4>1. readers' = Closed(r) /\ UNCHANGED <<turns, clientSide>>
        BY <3>4 DEF EndReader
      <4>2. UNCHANGED <<turns, messages, conversationId, loading, lastEventId, isStreaming, error,
                        resumeAttempts, timers, abortController, strayed>>
        BY <4>1 DEF clientSide
      <4>3. /\ isStreaming \in BOOLEAN /\ error \in BOOLEAN /\ strayed \in BOOLEAN
            /\ resumeAttempts \in 0 .. MaxResume
        BY <2>1, WindowScalars DEF WindowLive
      <4> QED
        BY <2>1, <3>2, <4>1, <4>2, <4>3, ClosedStep
    <3>5. CASE ReaderFails(r)
      <4>1. /\ r \in Alive /\ OnError(Closed(r))
            /\ UNCHANGED <<turns, messages, conversationId, loading, lastEventId, strayed>>
        BY <3>5 DEF ReaderFails
      <4>2. /\ readers' = Closed(r) /\ isStreaming' \in BOOLEAN /\ error' \in BOOLEAN
            /\ resumeAttempts' \in 0 .. MaxResume /\ abortController' \in {0, abortController}
            /\ timers' \in {timers, timers + 1}
        BY <2>1, <4>1, OnErrorDoes DEF WindowLive
      <4>3. strayed' \in BOOLEAN
        BY <2>1, <4>1, WindowScalars DEF WindowLive
      <4> QED
        BY <2>1, <3>2, <4>1, <4>2, <4>3, ClosedStep
    <3> QED
      BY <2>1, <3>1, <3>3, <3>4, <3>5, AcceptStep, AnswerStep, ReadStepInv
  <2>3. CASE \E t \in DOMAIN turns : IssueEvent(t) \/ FlushBatch(t) \/ TurnDies(t)
    BY <2>1, <2>3, IssueStep
  <2>4. CASE \E t \in DOMAIN turns : loadConversation(turns[t].conv)
    <3>1. PICK t \in DOMAIN turns : loadConversation(turns[t].conv)
      BY <2>4
    <3>2. t \in 1 .. Len(turns) /\ Len(turns) \in Nat
      BY <2>1, Lengths DEF WindowLive
    <3>3. turns[t].conv \in 1 .. t
      BY <2>1, <3>2 DEF WindowLive, WindowTypes
    <3>4. loading' \in 0 .. Len(turns) /\ error' \in BOOLEAN
      <4>1. turns[t].conv \in 0 .. Len(turns)
        BY <3>2, <3>3
      <4> QED
        BY <3>1, <4>1 DEF loadConversation
    <3> QED
      BY <2>1, <3>1, <3>4, ScalarStep DEF loadConversation
  <2>5. CASE LoadFails
    <3>1. loading' \in 0 .. Len(turns) /\ error' \in BOOLEAN
      BY <2>1, <2>5, Lengths DEF LoadFails, WindowLive
    <3> QED
      BY <2>1, <2>5, <3>1, ScalarStep DEF LoadFails
  <2> QED
    BY <1>2, <2>1, <2>2, <2>3, <2>4, <2>5, TimerStep, LoadedStep, SendStep, CancelStep
       DEF WindowNext
<1> QED
  BY <1>1, <1>2

LEMMA WindowInitInv == WindowInit => WindowInv
<1> SUFFICES ASSUME WindowInit PROVE WindowInv
  OBVIOUS
<1>1. Length \in Nat /\ Length > 1 /\ MaxResume \in Nat
  BY ChatWindowAssumption
<1>2. PICK m : m = [conv |-> 1, issued |-> Length, rows |-> 1 .. Length, state |-> "done"]
  OBVIOUS
<1>3. m \in TurnType /\ m.conv = 1 /\ m.state = "done" /\ RowsOK(m)
  <2>1. m \in TurnType /\ m.conv = 1 /\ m.state = "done"
    BY <1>1, <1>2 DEF TurnType
  <2>2. m.rows = 1 .. Length /\ m.issued = Length
    BY <1>2
  <2> QED
    BY <1>1, <2>1, <2>2 DEF RowsOK
<1>4. turns = <<m>>
  BY <1>2 DEF WindowInit
<1>5. turns \in Seq(TurnType) /\ Len(turns) = 1 /\ turns[1] = m /\ DOMAIN turns = 1 .. 1
  BY <1>3, <1>4
<1>6. /\ messages = <<>> /\ readers = <<>> /\ Len(messages) = 0 /\ Len(readers) = 0
      /\ messages \in Seq(BubbleType) /\ readers \in Seq(ReaderType)
      /\ DOMAIN messages = {} /\ DOMAIN readers = {}
      /\ lastEventId = NoId /\ NoId \in IdType /\ NoId.turn = 0 /\ NoId.seq = 0
  BY DEF WindowInit, NoId, IdType
<1>7. WindowTypes
  BY <1>3, <1>5, <1>6 DEF WindowTypes
<1>8. WindowTypeOK
  <2>1. turns[1] \in [conv : 1 .. 1, issued : 0 .. Length, rows : SUBSET (1 .. Length),
                      state : {"running", "done", "error", "dead"}]
    BY <1>1, <1>2, <1>5
  <2>2. \A t \in DOMAIN turns : t = 1
    BY <1>5
  <2> QED
    <3>1. \A t \in DOMAIN turns : turns[t] \in
            [conv : 1 .. t, issued : 0 .. Length, rows : SUBSET (1 .. Length),
             state : {"running", "done", "error", "dead"}]
      BY <2>1, <2>2
    <3>2. /\ {conversationId, loading} \subseteq 0 .. Len(turns)
          /\ {isStreaming, error, strayed} \subseteq BOOLEAN
          /\ lastEventId.turn \in 0 .. Len(turns) /\ lastEventId.seq \in 0 .. Length
          /\ resumeAttempts \in 0 .. MaxResume /\ timers \in Nat
          /\ abortController \in 0 .. Len(readers)
      <4>1. /\ conversationId = 0 /\ loading = 0 /\ resumeAttempts = 0 /\ timers = 0
            /\ abortController = 0 /\ isStreaming = FALSE /\ error = FALSE /\ strayed = FALSE
        BY DEF WindowInit
      <4>2. 0 \in 0 .. Len(turns) /\ 0 \in 0 .. Length /\ 0 \in 0 .. MaxResume /\ 0 \in 0 .. Len(readers)
        BY <1>1, <1>5, <1>6
      <4>3. {conversationId, loading} \subseteq 0 .. Len(turns)
        BY <4>1, <4>2
      <4>4. {isStreaming, error, strayed} \subseteq BOOLEAN
        BY <4>1
      <4> QED
        BY <1>6, <4>1, <4>2, <4>3, <4>4
    <3> QED
      BY <1>6, <3>1, <3>2 DEF WindowTypeOK
<1>9. AskingInv /\ ShownInv /\ AliveInv
  <2>1. Alive = {} /\ timers = 0 /\ ~ Answering
    BY <1>6 DEF Alive, WindowInit, Answering
  <2> QED
    BY <1>6, <2>1 DEF AskingInv, ShownInv, AliveInv
<1> QED
  BY <1>7, <1>8, <1>9 DEF WindowInv

\* What the bubbles show follows.
LEMMA WindowInvAnswers == WindowInv => AnswersAreTheirOwn
<1> SUFFICES ASSUME WindowInv, ~ strayed PROVE AnswersAreTheirOwn
  BY DEF AnswersAreTheirOwn
<1>1. WindowTypes /\ ShownInv
  BY DEF WindowInv
<1>2. DOMAIN messages = 1 .. Len(messages) /\ messages \in Seq(BubbleType)
  BY <1>1, Lengths DEF WindowTypes
<1>3. ASSUME NEW i \in DOMAIN messages, messages[i].reader # 0
      PROVE  /\ \A k \in DOMAIN messages[i].shown :
                  messages[i].shown[k].turn = readers[messages[i].reader].turn
             /\ messages[i].shown # <<>> => messages[i].shown[1].seq = 2
             /\ \A k \in GoesBack(messages[i].shown) :
                  Repeats(turns[readers[messages[i].reader].turn],
                          messages[i].shown[k - 1].seq, messages[i].shown[k].seq)
             /\ \A j, k \in GoesBack(messages[i].shown) : j = k
  <2>1. Follows(turns[readers[messages[i].reader].turn], readers[messages[i].reader].turn,
                messages[i].shown)
    BY <1>1, <1>2, <1>3 DEF ShownInv
  <2>2. DOMAIN messages[i].shown = 1 .. Len(messages[i].shown)
    <3>1. messages[i] \in BubbleType
      BY <1>2
    <3>2. messages[i].shown \in Seq(IdType)
      BY <3>1 DEF BubbleType
    <3> QED
      BY <3>2
  <2> QED
    BY <2>1, <2>2 DEF Follows
<1>4. ASSUME NEW i \in DOMAIN messages, messages[i].reader = 0
      PROVE  messages[i].shown = <<>>
  BY <1>1, <1>2, <1>4 DEF ShownInv
<1>5. ASSUME lastEventId # NoId, NEW i \in DOMAIN messages, i = Len(messages),
             messages[i].reader # 0
      PROVE  /\ lastEventId.turn = readers[messages[i].reader].turn
             /\ ReadUpTo(messages[i].shown) =
                  IF lastEventId.seq = Length THEN Length - 1 ELSE lastEventId.seq
  <2>1. messages # <<>>
    BY <1>2, <1>5
  <2>2. /\ lastEventId.turn = readers[messages[i].reader].turn
        /\ ReadUpTo(messages[i].shown) = TextsUpTo(lastEventId.seq)
    BY <1>1, <1>5, <2>1 DEF ShownInv, Answering, Answerer
  <2>3. lastEventId.seq # 0
    BY <1>1, <1>5 DEF WindowTypes
  <2> QED
    BY <2>2, <2>3 DEF TextsUpTo
<1> QED
  BY <1>3, <1>4, <1>5 DEF AnswersAreTheirOwn

-----------------------------------------------------------------------------
(* The tab *)

BrowserInv == AccountInv /\ WindowInv

LEMMA AlwaysBrowserInv == BrowserSpec => []BrowserInv
<1>1. BrowserInit => BrowserInv
  BY AccountInit, WindowInitInv DEF BrowserInit, BrowserInv
<1>2. BrowserInv /\ [AccountStep \/ ChatStep]_<<route, vars, windowVars>> => BrowserInv'
  <2>1. ASSUME [AccountStep \/ ChatStep]_<<route, vars, windowVars>>
        PROVE  [Next]_vars /\ [WindowNext]_windowVars
    BY <2>1 DEF AccountStep, ChatStep
  <2> QED
    BY <2>1, AccountStepInv, WindowStepInv DEF BrowserInv
<1> QED
  BY <1>1, <1>2, PTL DEF BrowserSpec

\* The tables of the sessions, the calls of the tab and the chat window keep
\* their types, and what they refer to exists.
THEOREM BrowserTyped == BrowserSpec => []BrowserTypeOK
<1>1. BrowserInv => BrowserTypeOK
  BY DEF BrowserInv, AccountInv, WindowInv, BrowserTypeOK
<1> QED
  BY <1>1, AlwaysBrowserInv, PTL

\* A session that is used lasts at least Idle - Throttle longer: the refresh of
\* a request that looked the session up earlier, and committed later, never
\* moves last_used_at back behind a use by more than Throttle, because the row's
\* lock lets the refreshes of lookup_session_by_cookie commit in the order of
\* their lookups.
THEOREM UsedSessionsStay == BrowserSpec => []UsedSessionsLast
<1>1. BrowserInv => UsedSessionsLast
  <2> SUFFICES ASSUME BrowserInv, NEW s \in Ids, rows[s].made
               PROVE  rows[s].idle >= served[s] + Idle - Throttle
    BY DEF UsedSessionsLast
  <2>1. rows[s].idle = rows[s].used + Idle /\ served[s] <= rows[s].used + Throttle
    BY DEF BrowserInv, AccountInv, SessionsInv, RowsInv
  <2>2. rows[s].used \in Nat /\ served[s] \in Nat /\ Idle \in Nat /\ Throttle \in Nat
    BY TimesAssumption DEF BrowserInv, AccountInv, SessionsInv, SessionsTypeOK, Row
  <2> QED
    BY <2>1, <2>2
<1> QED
  BY <1>1, AlwaysBrowserInv, PTL

\* Every session that a logout_all_sessions found open is revoked when it has
\* committed and stays so, whatever refreshes and logins commit later.
THEOREM SignOutReachesAll == BrowserSpec => []SignedOutEverywhere
<1>1. BrowserInv => SignedOutEverywhere
  BY DEF BrowserInv, AccountInv, SessionsInv, SignedOutInv, SignedOutEverywhere
<1> QED
  BY <1>1, AlwaysBrowserInv, PTL

\* A call of authFetch that waits for triggerReauth waits for a dialog that is
\* shown.
THEOREM WaitersAreShownADialog == BrowserSpec => []WaitersHaveDialog
<1>1. BrowserInv => WaitersHaveDialog
  BY DEF BrowserInv, AccountInv
<1> QED
  BY <1>1, AlwaysBrowserInv, PTL

\* The bubbles of ChatState show the texts of the turns they were asked for, none
\* missing and in order, with at most one beginning of a batch repeated by a
\* replay, and lastEventId is where the last bubble ends.
THEOREM BubblesShowTheirTurns == BrowserSpec => []AnswersAreTheirOwn
<1>1. BrowserInv => AnswersAreTheirOwn
  BY WindowInvAnswers DEF BrowserInv
<1> QED
  BY <1>1, AlwaysBrowserInv, PTL

=============================================================================
