------------------------- MODULE Experiments_proofs -------------------------
(***************************************************************************)
(* Proofs about the records of users, for any number of requests that      *)
(* overlap and fail: an experiment keeps what was saved of it, a link      *)
(* counts the times it was served and stays revoked, a note and the reply  *)
(* to it stay whole, and only what was committed is mailed.                *)
(***************************************************************************)
EXTENDS Records, TLAPS

\* Nobody has seen the experiment through a link, or revoked one.
Unshared == ~ share.made /\ shown = 0 /\ uncounted = 0 /\ shut = FALSE

Creating == {q \in Requests : work[q].op = "create"}
Sharing == {q \in Requests : work[q].op = "share"}

\* A request that merges results changes nothing else.
MergeInv ==
  \A q \in Requests : work[q].op = "merge" =>
    \A col \in Columns \ {"results"} : work[q].new[col] = work[q].seen[col]

\* An experiment without a link was never shared, or else it is gone; of the
\* requests that make it, of those that make its link, and of those that hold
\* the row of the link there is one.
ShareInv ==
  /\ ExperimentsTypeOK /\ MergeInv
  /\ ViewsAreCounted /\ RevokedStays
  /\ experiment.there /\ ~ share.made => Unshared
  /\ begun = 0 => /\ work = [q \in Requests |-> Idle] /\ Unshared
                  /\ experiment.kind = "uploaded" => ~ experiment.there
  /\ \A q \in Creating : Unshared /\ ~ experiment.there
  /\ \A q \in Sharing : /\ ~ share.made
                        /\ work[q].of.made /\ ~ work[q].of.revoked
                        /\ work[q].of.views = 0
  /\ \A p, q \in Sharing : p = q
  /\ \A p, q \in Creating : p = q
  /\ Serving # {} => share.made
  /\ \A p, q \in Serving : p = q

-----------------------------------------------------------------------------
\* A draft is a row of the table.
LEMMA DraftType ==
  ASSUME NEW kind \in {"generated", "uploaded"}
  PROVE  Draft(kind) \in Experiment
  BY ExperimentsAssumption DEF Draft, Experiment, Results, NoResults, Statuses, Stamps

\* A handler that begins leaves the tables as they are, and takes its job.
LEMMA BeginType ==
  ASSUME ExperimentsTypeOK, NEW q \in Requests, NEW job \in Job, Begin(q, job)
  PROVE  ExperimentsTypeOK'
<1>1. work' \in [Requests -> Job]
    BY DEF ExperimentsTypeOK, Begin
<1>2. begun' \in Stamps
    BY ExperimentsAssumption DEF ExperimentsTypeOK, Begin, Stamps
<1> QED BY <1>1, <1>2 DEF ExperimentsTypeOK, Begin

\* A request that writes has a row as it was and a row as it will be.
LEMMA WriteType ==
  ASSUME ExperimentsTypeOK, NEW q \in Requests, NEW op \in {"write", "merge"},
         NEW new \in Experiment, Write(q, op, new)
  PROVE  ExperimentsTypeOK'
<1>1. begun + 1 \in Stamps
    BY ExperimentsAssumption DEF ExperimentsTypeOK, Write, Begin, Stamps
<1>2. experiment \in Experiment
    BY DEF ExperimentsTypeOK
<1>3. [op |-> op, seen |-> experiment, new |-> new, stamp |-> begun + 1]
        \in [op: {"write", "merge"}, seen: Experiment, new: Experiment, stamp: Stamps]
    BY <1>1, <1>2
<1> QED BY <1>3, BeginType DEF Write, Job

\* Every handler that begins keeps the types.
LEMMA HandleType ==
  ASSUME ExperimentsTypeOK, NEW q \in Requests, Handle(q)
  PROVE  ExperimentsTypeOK'
<1> USE DEF ExperimentsTypeOK
<1>0. begun < MaxBegun /\ begun + 1 \in Stamps /\ 0 \in Stamps
  <2>1. begun < MaxBegun
      BY DEF Handle, AddResults, UpdateExperiment, Evaluate, CreateUpload, SubmitAnswers,
             FinalizeUpload, DeleteExperiment, CreateShare, RevokeShare, View, Write, Begin
  <2> QED BY <2>1, ExperimentsAssumption DEF Stamps
<1>1. ASSUME NEW c \in Cells, AddResults(q, c)
      PROVE  ExperimentsTypeOK'
  <2>1. [experiment EXCEPT !.results = Merge(@, c, begun + 1)] \in Experiment
      BY <1>0 DEF Experiment, Results, Merge
  <2> QED BY <1>1, <2>1, WriteType DEF AddResults
<1>2. ASSUME NEW status \in Statuses, UpdateExperiment(q, status)
      PROVE  ExperimentsTypeOK'
  <2>1. [experiment EXCEPT !.status = status] \in Experiment
      BY DEF Experiment
  <2> QED BY <1>2, <2>1, WriteType DEF UpdateExperiment
<1>3. ASSUME NEW reply \in Replies, CreateUpload(q, reply)
      PROVE  ExperimentsTypeOK'
  <2> DEFINE new == [Draft("uploaded") EXCEPT
                       !.design = IF Structure(reply) = "parsed" THEN begun + 1 ELSE 0]
  <2>1. new \in Experiment
      BY <1>0, DraftType DEF Experiment
  <2>2. [op |-> "create", new |-> new] \in Job
      BY <2>1 DEF Job
  <2> QED BY <1>3, <2>2, BeginType DEF CreateUpload
<1>4. ASSUME NEW reply \in Replies, SubmitAnswers(q, reply)
      PROVE  ExperimentsTypeOK'
  <2>1. [experiment EXCEPT !.design = begun + 1] \in Experiment
      BY <1>0 DEF Experiment
  <2> QED BY <1>4, <2>1, WriteType DEF SubmitAnswers
<1>5. ASSUME Evaluate(q)
      PROVE  ExperimentsTypeOK'
  <2>1. [experiment EXCEPT !.evaluation = begun + 1] \in Experiment
      BY <1>0 DEF Experiment
  <2> QED BY <1>5, <2>1, WriteType DEF Evaluate
<1>6. ASSUME NEW rows \in BOOLEAN, FinalizeUpload(q, rows)
      PROVE  ExperimentsTypeOK'
  <2> DEFINE new == [experiment EXCEPT !.design = begun + 1,
                                       !.results = [NoResults EXCEPT !.unkeyed = rows],
                                       !.status = IF rows THEN "active" ELSE @]
  <2>1. [NoResults EXCEPT !.unkeyed = rows] \in Results
      BY <1>0 DEF NoResults, Results
  <2>2. new \in Experiment
      BY <1>0, <2>1 DEF Experiment, Statuses
  <2> QED BY <1>6, <2>2, WriteType DEF FinalizeUpload
<1>7. ASSUME NEW op \in {"delete", "revoke", "view", "download"}, Begin(q, [op |-> op, of |-> share])
      PROVE  ExperimentsTypeOK'
  <2>1. [op |-> op, of |-> share] \in Job
      BY DEF Job
  <2> QED BY <1>7, <2>1, BeginType
<1>8. ASSUME NEW allow \in BOOLEAN, NEW expires \in {"never", "later"}, CreateShare(q, allow, expires)
      PROVE  ExperimentsTypeOK'
  <2> DEFINE of == [NoShare EXCEPT !.made = TRUE, !.allow = allow, !.expires = expires]
  <2>1. of \in Share
      BY DEF NoShare, Share
  <2>2. [op |-> "share", of |-> of] \in Job
      BY <2>1 DEF Job
  <2> QED BY <1>8, <2>2, BeginType DEF CreateShare
<1> QED
  <2> HIDE DEF ExperimentsTypeOK
  <2> QED BY <1>1, <1>2, <1>3, <1>4, <1>5, <1>6, <1>7, <1>8
          DEF Handle, DeleteExperiment, RevokeShare, View

\* A write keeps what is not a column of the request, among it that the
\* experiment is there.
LEMMA CommitWriteType ==
  ASSUME ExperimentsTypeOK, MergeInv, NEW q \in Requests, CommitWrite(q)
  PROVE  /\ experiment' \in Experiment /\ saved' \in Experiment
         /\ experiment'.there = experiment.there
         /\ contended' \in BOOLEAN
<1> DEFINE job == work[q]
<1>1. /\ job.seen \in Experiment /\ job.new \in Experiment /\ job.stamp \in Stamps
      /\ job.op \in {"write", "merge"}
  <2>1. job \in Job
      BY DEF ExperimentsTypeOK
  <2>2. job.op \in {"write", "merge"}
      BY DEF CommitWrite, Writes
  <2> QED BY <2>1, <2>2 DEF Job, Idle
<1>2. experiment \in Experiment /\ saved \in Experiment /\ contended \in BOOLEAN
    BY DEF ExperimentsTypeOK
<1>3. ColumnsSet(job) \subseteq Columns
    BY DEF ColumnsSet, Written
<1>4. experiment' = [col \in DOMAIN experiment |->
                       IF col \in ColumnsSet(job) THEN job.new[col] ELSE experiment[col]]
    BY DEF CommitWrite
<1>5. saved' = [col \in DOMAIN saved |-> IF col \in Written(job) THEN After(job, col)
                                         ELSE saved[col]]
    BY DEF CommitWrite
<1>6. contended' \in BOOLEAN
    BY <1>2 DEF CommitWrite
<1>7. experiment' \in Experiment /\ experiment'.there = experiment.there
  <2> HIDE DEF job
  <2> QED BY <1>1, <1>2, <1>3, <1>4 DEF Experiment, Columns
<1>8. After(job, "results") \in Results
  <2>1. job.new.results \in Results /\ saved.results \in Results
      BY <1>1, <1>2 DEF Experiment
  <2> HIDE DEF job
  <2> QED BY <1>1, <2>1 DEF After, Results
<1>9. \A col \in Written(job) \ {"results"} : After(job, col) = job.new[col]
  <2>1. job.op = "merge" => Written(job) \subseteq {"results"}
      BY DEF MergeInv, Written
  <2> HIDE DEF job
  <2> QED BY <2>1 DEF After
<1>10. saved' \in Experiment
  <2>1. \A col \in Written(job) : col = "results" \/ After(job, col) = job.new[col]
      BY <1>9
  <2>2. Written(job) \subseteq Columns
      BY DEF Written
  <2> HIDE DEF job
  <2> QED BY <1>1, <1>2, <1>5, <1>8, <2>1, <2>2 DEF Experiment, Columns
<1> QED BY <1>6, <1>7, <1>10

\* A merge brings cells of its own and leaves the others as they were read.
MergesCells(job) ==
  /\ job.new.results \in Results /\ job.seen.results \in Results
  /\ job.new.results.unkeyed = job.seen.results.unkeyed
  /\ \A c \in Cells : job.new.results.cells[c] \in {job.seen.results.cells[c], job.stamp}

\* What a handler takes on is one of these jobs.
Takes(q, job) ==
  /\ Begin(q, job)
  /\ job.op # "served"
  /\ Writes(job) => job.seen = experiment
  /\ job.op = "merge" => /\ MergesCells(job)
                         /\ \A col \in Columns \ {"results"} : job.new[col] = job.seen[col]
  /\ job.op = "create" => ~ experiment.there /\ begun = 0
  /\ job.op = "share" => /\ ~ share.made /\ \A p \in Requests : work[p].op # "share"
                         /\ job.of.made /\ ~ job.of.revoked /\ job.of.views = 0

LEMMA HandleTakes ==
  ASSUME ShareInv, NEW q \in Requests, Handle(q)
  PROVE  \E job : Takes(q, job)
<1>0. experiment \in Experiment
    BY DEF ShareInv, ExperimentsTypeOK
<1>1. ASSUME NEW c \in Cells, AddResults(q, c)
      PROVE  \E job : Takes(q, job)
  <2> DEFINE new == [experiment EXCEPT !.results = Merge(@, c, begun + 1)]
             job == [op |-> "merge", seen |-> experiment, new |-> new, stamp |-> begun + 1]
  <2>1. Begin(q, job)
      BY <1>1 DEF AddResults, Write
  <2>2. \A col \in Columns \ {"results"} : job.new[col] = job.seen[col]
      BY <1>0 DEF Experiment, Columns
  <2>3. job.op = "merge" /\ job.seen = experiment
      OBVIOUS
  <2>4. MergesCells(job)
    <3>1. begun + 1 \in Stamps /\ experiment.results \in Results
      <4>1. begun < MaxBegun
          BY <2>1 DEF Begin
      <4> QED BY <1>0, <4>1, ExperimentsAssumption DEF ShareInv, ExperimentsTypeOK, Stamps, Experiment
    <3>2. new.results = Merge(experiment.results, c, begun + 1)
        BY <1>0 DEF Experiment
    <3> HIDE DEF new
    <3> QED BY <3>1, <3>2 DEF MergesCells, Merge, Results
  <2> HIDE DEF job
  <2> QED BY <2>1, <2>2, <2>3, <2>4 DEF Takes, Writes
<1>2. ASSUME NEW new, Write(q, "write", new)
      PROVE  \E job : Takes(q, job)
  <2> DEFINE job == [op |-> "write", seen |-> experiment, new |-> new, stamp |-> begun + 1]
  <2>1. Begin(q, job) /\ job.op = "write" /\ job.seen = experiment
      BY <1>2 DEF Write
  <2> HIDE DEF job
  <2> QED BY <2>1 DEF Takes
<1>3. ASSUME NEW reply \in Replies, CreateUpload(q, reply)
      PROVE  \E job : Takes(q, job)
  <2>1. PICK new : Begin(q, [op |-> "create", new |-> new])
      BY <1>3 DEF CreateUpload
  <2> DEFINE job == [op |-> "create", new |-> new]
  <2>2. begun = 0 /\ ~ experiment.there
      BY <1>3 DEF CreateUpload, ShareInv
  <2>3. Begin(q, job) /\ job.op = "create"
      BY <2>1
  <2> HIDE DEF job
  <2> QED BY <2>2, <2>3 DEF Takes, Writes
<1>4. ASSUME NEW op \in {"delete", "revoke", "view", "download"}, Begin(q, [op |-> op, of |-> share])
      PROVE  \E job : Takes(q, job)
  <2> DEFINE job == [op |-> op, of |-> share]
  <2>1. Begin(q, job) /\ job.op \in {"delete", "revoke", "view", "download"}
      BY <1>4
  <2> HIDE DEF job
  <2> QED BY <2>1 DEF Takes, Writes
<1>5. ASSUME NEW allow \in BOOLEAN, NEW expires \in {"never", "later"}, CreateShare(q, allow, expires)
      PROVE  \E job : Takes(q, job)
  <2> DEFINE of == [NoShare EXCEPT !.made = TRUE, !.allow = allow, !.expires = expires]
             job == [op |-> "share", of |-> of]
  <2>1. of.made /\ ~ of.revoked /\ of.views = 0
      BY DEF NoShare
  <2>2. Begin(q, job) /\ job.op = "share" /\ job.of = of
      BY <1>5 DEF CreateShare
  <2>3. ~ share.made /\ \A p \in Requests : work[p].op # "share"
      BY <1>5 DEF CreateShare
  <2> HIDE DEF job, of
  <2> QED BY <2>1, <2>2, <2>3 DEF Takes, Writes
<1> QED BY <1>1, <1>2, <1>3, <1>4, <1>5
        DEF Handle, UpdateExperiment, SubmitAnswers, Evaluate, FinalizeUpload,
            DeleteExperiment, RevokeShare, View

\* A handler that begins keeps the invariant.
LEMMA HandleInv ==
  ASSUME ShareInv, NEW q \in Requests, Handle(q)
  PROVE  ShareInv'
<1>1. ExperimentsTypeOK'
    BY HandleType DEF ShareInv
<1>2. PICK job : Takes(q, job)
    BY HandleTakes
<1>3. /\ work' = [work EXCEPT ![q] = job] /\ begun' = begun + 1
      /\ UNCHANGED <<experiment, share, saved, shown, uncounted, shut, contended>>
    BY <1>2 DEF Takes, Begin
<1>4. work \in [Requests -> Job] /\ begun \in Nat
    BY ExperimentsAssumption DEF ShareInv, ExperimentsTypeOK, Stamps
<1>5. \A p \in Requests : work'[p] = IF p = q THEN job ELSE work[p]
    BY <1>3, <1>4
<1>6. begun' # 0
    BY <1>3, <1>4
<1>7. MergeInv'
    BY <1>2, <1>5 DEF ShareInv, MergeInv, Takes
<1>10. Serving' = Serving
  <2>1. work[q].op # "served" /\ job.op # "served"
      BY <1>2 DEF Takes, Begin, Idle
  <2> QED BY <1>5, <2>1 DEF Serving
<1>8. /\ \A p \in Creating' : (Unshared /\ ~ experiment.there)'
      /\ \A p, r \in Creating' : p = r
  <2>1. CASE job.op = "create"
    <3>1. begun = 0 /\ ~ experiment.there /\ Unshared /\ \A p \in Requests : work[p] = Idle
        BY <1>2, <2>1 DEF Takes, ShareInv
    <3>2. Creating' = {q}
        BY <1>5, <2>1, <3>1 DEF Creating, Idle
    <3> QED BY <1>3, <3>1, <3>2 DEF Unshared
  <2>2. CASE job.op # "create"
    <3>1. Creating' \subseteq Creating
        BY <1>5, <2>2 DEF Creating
    <3> QED BY <1>3, <3>1 DEF ShareInv, Unshared
  <2> QED BY <2>1, <2>2
<1>9. /\ \A p \in Sharing' : /\ ~ share'.made
                             /\ work'[p].of.made /\ ~ work'[p].of.revoked
                             /\ work'[p].of.views = 0
      /\ \A p, r \in Sharing' : p = r
  <2>1. CASE job.op = "share"
    <3>1. Sharing' = {q}
        BY <1>2, <1>5, <2>1 DEF Takes, Sharing
    <3> QED BY <1>2, <1>3, <1>5, <2>1, <3>1 DEF Takes
  <2>2. CASE job.op # "share"
    <3>1. Sharing' \subseteq Sharing /\ \A p \in Sharing' : work'[p] = work[p]
        BY <1>5, <2>2 DEF Sharing
    <3> QED BY <1>3, <3>1 DEF ShareInv
  <2> QED BY <2>1, <2>2
<1> QED BY <1>1, <1>3, <1>6, <1>7, <1>8, <1>9, <1>10 DEF ShareInv, ViewsAreCounted, RevokedStays, Unshared

-----------------------------------------------------------------------------
\* What a request leaves when it ends: the others go on, and there is one less.
LEMMA EndInv ==
  ASSUME ShareInv, NEW q \in Requests, work[q] # Idle, End(q), UNCHANGED begun
  PROVE  /\ work' \in [Requests -> Job] /\ MergeInv' /\ begun' # 0
         /\ Creating' \subseteq Creating \ {q} /\ Sharing' \subseteq Sharing \ {q}
         /\ \A p \in Creating' \cup Sharing' : work'[p] = work[p]
         /\ Serving' = Serving \ {q}
<1>1. work \in [Requests -> Job]
    BY DEF ShareInv, ExperimentsTypeOK
<1>2. \A p \in Requests : work'[p] = IF p = q THEN Idle ELSE work[p]
    BY <1>1 DEF End
<1>3. work' \in [Requests -> Job]
    BY <1>1 DEF End, Job
<1>4. MergeInv'
    BY <1>2 DEF ShareInv, MergeInv, Idle
<1>5. begun' # 0
    BY DEF ShareInv
<1>6. Serving' = Serving \ {q}
    BY <1>2 DEF Serving, Idle
<1> QED BY <1>2, <1>3, <1>4, <1>5, <1>6 DEF Creating, Sharing, Idle

\* A link is served by one request at a time, and once more.
LEMMA ServeInv ==
  ASSUME ShareInv, NEW q \in Requests, Serve(q)
  PROVE  ShareInv'
<1>1. work \in [Requests -> Job] /\ shown \in Nat /\ uncounted \in Nat /\ share.views \in Nat
    BY DEF ShareInv, ExperimentsTypeOK, Share
<1> DEFINE job == [work[q] EXCEPT !.op = "served"]
<1>2. job \in Job /\ job.op = "served"
    BY <1>1 DEF Serve, Job, Idle
<1>3. work' = [work EXCEPT ![q] = job]
    BY DEF Serve
<1> HIDE DEF job
<1>4. \A p \in Requests : work'[p] = IF p = q THEN job ELSE work[p]
    BY <1>1, <1>3
<1>5. /\ share.made /\ Serving = {} /\ shown' = shown + 1
      /\ UNCHANGED <<experiment, share, begun, saved, uncounted, shut, contended>>
    BY DEF Serve
<1>6. Serving' = {q}
    BY <1>2, <1>4, <1>5 DEF Serving
<1>7. Creating = {} /\ Sharing = {}
    BY <1>5 DEF ShareInv, Unshared
<1>8. Creating' = {} /\ Sharing' = {}
    BY <1>2, <1>4, <1>7 DEF Creating, Sharing
<1>9. MergeInv'
    BY <1>2, <1>4 DEF ShareInv, MergeInv
<1>10. begun # 0
    BY <1>5 DEF ShareInv, Unshared
<1>11. work' \in [Requests -> Job]
    BY <1>1, <1>2, <1>3
<1>12. ExperimentsTypeOK'
    BY <1>1, <1>5, <1>11 DEF ShareInv, ExperimentsTypeOK
<1>13. ViewsAreCounted'
    BY <1>1, <1>5, <1>6 DEF ShareInv, ViewsAreCounted
<1> QED BY <1>5, <1>6, <1>8, <1>9, <1>10, <1>12, <1>13 DEF ShareInv, RevokedStays, Unshared

LEMMA FailInv ==
  ASSUME ShareInv, NEW q \in Requests, Fail(q)
  PROVE  ShareInv'
<1>1. /\ work' \in [Requests -> Job] /\ MergeInv' /\ begun' # 0
      /\ Creating' \subseteq Creating \ {q} /\ Sharing' \subseteq Sharing \ {q}
      /\ \A p \in Creating' \cup Sharing' : work'[p] = work[p]
      /\ Serving' = Serving \ {q}
    BY EndInv DEF Fail
<1>2. /\ UNCHANGED <<experiment, share, begun, saved, shown, shut, contended>>
      /\ uncounted' = IF q \in Serving THEN uncounted + 1 ELSE uncounted
    BY DEF Fail
<1>3. shown \in Nat /\ uncounted \in Nat /\ share.views \in Nat
    BY DEF ShareInv, ExperimentsTypeOK, Share
<1>4. Serving = {q} \/ q \notin Serving
    BY DEF ShareInv
<1>5. ViewsAreCounted'
    BY <1>1, <1>2, <1>3, <1>4 DEF ShareInv, ViewsAreCounted
<1>6. Unshared => Unshared'
    BY <1>2 DEF ShareInv, Unshared
<1>7. ExperimentsTypeOK'
    BY <1>1, <1>2, <1>3 DEF ShareInv, ExperimentsTypeOK
<1> QED BY <1>1, <1>2, <1>5, <1>6, <1>7 DEF ShareInv, RevokedStays

\* Every way to commit keeps the types and what is counted.
LEMMA CommitInv ==
  ASSUME ShareInv, NEW q \in Requests, Commit(q)
  PROVE  ShareInv'
<1> USE DEF ViewsAreCounted, RevokedStays, Unshared
<1>0. work[q] # Idle
    BY DEF Commit, CommitCreate, CommitWrite, CommitDelete, CommitShare, CommitRevoke,
           CommitView, Idle, Writes
<1>1. /\ work' \in [Requests -> Job] /\ MergeInv' /\ begun' # 0 /\ begun' = begun
      /\ Creating' \subseteq Creating \ {q} /\ Sharing' \subseteq Sharing \ {q}
      /\ \A p \in Creating' \cup Sharing' : work'[p] = work[p]
      /\ Serving' = Serving \ {q}
    BY <1>0, EndInv DEF Commit
<1>2. /\ experiment \in Experiment /\ saved \in Experiment /\ share \in Share
      /\ shown \in Nat /\ uncounted \in Nat /\ begun \in Stamps /\ contended \in BOOLEAN /\ shut \in BOOLEAN
      /\ work[q] \in Job /\ work \in [Requests -> Job]
    BY DEF ShareInv, ExperimentsTypeOK
<1>12. ASSUME work[q].op # "served" PROVE Serving' = Serving
    BY <1>1, <1>12 DEF Serving
<1>3. CASE CommitCreate(q)
  <2>1. q \in Creating /\ Creating' = {}
      BY <1>1, <1>3 DEF CommitCreate, Creating, ShareInv
  <2>2. work[q].new \in Experiment
      BY <1>2, <1>3 DEF CommitCreate, Job, Idle
  <2>9. Serving' = Serving
      BY <1>3, <1>12 DEF CommitCreate
  <2> QED BY <1>1, <2>9, <1>2, <1>3, <2>1, <2>2 DEF CommitCreate, ShareInv, ExperimentsTypeOK
<1>4. CASE CommitWrite(q)
  <2>1. /\ experiment' \in Experiment /\ saved' \in Experiment /\ contended' \in BOOLEAN
        /\ experiment'.there = experiment.there
      BY <1>4, CommitWriteType DEF ShareInv
  <2>9. Serving' = Serving
      BY <1>4, <1>12 DEF CommitWrite, Writes
  <2> QED BY <1>1, <2>9, <1>2, <1>4, <2>1 DEF CommitWrite, ShareInv, ExperimentsTypeOK
<1>5. CASE CommitDelete(q)
  <2>1. experiment' \in Experiment /\ ~ experiment'.there
      BY <1>2, <1>5 DEF CommitDelete, Experiment
  <2>2. share' \in Share /\ ~ share'.made
      BY <1>5 DEF CommitDelete, NoShare, Share
  <2>9. Serving' = Serving
      BY <1>5, <1>12 DEF CommitDelete
  <2> QED BY <1>1, <2>9, <1>2, <1>5, <2>1, <2>2 DEF CommitDelete, ShareInv, ExperimentsTypeOK
<1>6. CASE CommitShare(q)
  <2>1. q \in Sharing /\ Sharing' = {}
      BY <1>1, <1>6 DEF CommitShare, Sharing, ShareInv
  <2>2. work[q].of \in Share
      BY <1>2, <1>6 DEF CommitShare, Job, Idle
  <2>3. experiment.there /\ Unshared /\ Creating' = {}
      BY <1>1, <1>6, <2>1 DEF CommitShare, ShareInv
  <2>4. share'.made /\ ~ share'.revoked /\ share'.views = 0
      BY <1>6, <2>1 DEF CommitShare, ShareInv
  <2>9. Serving' = Serving
      BY <1>6, <1>12 DEF CommitShare
  <2> QED BY <1>1, <2>9, <1>2, <1>6, <2>1, <2>2, <2>3, <2>4 DEF CommitShare, ShareInv, ExperimentsTypeOK
<1>7. CASE CommitRevoke(q)
  <2>1. share' \in Share /\ share'.made /\ share'.revoked /\ share'.views = share.views
      BY <1>2, <1>7 DEF CommitRevoke, Share
  <2>2. Creating = {} /\ Sharing = {}
      BY <1>7 DEF CommitRevoke, ShareInv
  <2>9. Serving' = Serving
      BY <1>7, <1>12 DEF CommitRevoke
  <2> QED BY <1>1, <2>9, <1>2, <1>7, <2>1, <2>2 DEF CommitRevoke, ShareInv, ExperimentsTypeOK
<1>8. CASE CommitView(q)
  <2>1. Serving = {q} /\ Serving' = {} /\ share.made
    <3>1. q \in Serving
        BY <1>8 DEF CommitView, Serving
    <3> QED BY <1>1, <3>1 DEF ShareInv
  <2>2. /\ share' \in Share /\ share'.made /\ share'.revoked = share.revoked
        /\ share'.views = share.views + 1
      BY <1>2, <1>8, <2>1 DEF CommitView, Counted, Share
  <2>3. Creating = {} /\ Sharing = {}
      BY <2>1 DEF ShareInv
  <2>4. UNCHANGED <<experiment, saved, shown, uncounted, shut, contended>>
      BY <1>8 DEF CommitView
  <2>5. ViewsAreCounted'
    <3>1. share.views \in Nat /\ shown = share.views + uncounted + 1
        BY <1>2, <2>1 DEF ShareInv, Share
    <3> QED BY <1>2, <2>1, <2>2, <2>4, <3>1
  <2> QED BY <1>1, <1>2, <2>1, <2>2, <2>3, <2>4, <2>5 DEF ShareInv, ExperimentsTypeOK
<1> QED BY <1>3, <1>4, <1>5, <1>6, <1>7, <1>8 DEF Commit

LEMMA ExpireInv ==
  ASSUME ShareInv, Expire
  PROVE  ShareInv'
<1>1. /\ share' \in Share /\ share'.made = share.made /\ share'.revoked = share.revoked
      /\ share'.views = share.views
    BY DEF ShareInv, ExperimentsTypeOK, Expire, Share
<1> QED BY <1>1 DEF ShareInv, ExperimentsTypeOK, MergeInv, ViewsAreCounted, RevokedStays, Unshared,
                    Creating, Sharing, Serving, Expire

LEMMA InitInv ==
  ASSUME Init
  PROVE  ShareInv
<1>1. experiment \in Experiment /\ (experiment.kind = "uploaded" => ~ experiment.there)
  <2>1. Draft("generated") \in Experiment /\ Draft("generated").kind = "generated"
      BY DraftType DEF Draft
  <2>2. [Draft("uploaded") EXCEPT !.there = FALSE] \in Experiment
      BY DraftType DEF Experiment
  <2>3. ~ [Draft("uploaded") EXCEPT !.there = FALSE].there
      BY DEF Draft
  <2> QED BY <2>1, <2>2, <2>3 DEF Init
<1>2. share \in Share /\ ~ share.made
    BY DEF Init, NoShare, Share
<1>3. /\ work \in [Requests -> Job] /\ work = [q \in Requests |-> Idle]
      /\ \A q \in Requests : work[q].op = "none"
    BY DEF Init, Job, Idle
<1>4. begun \in Stamps
    BY ExperimentsAssumption DEF Init, Stamps
<1>5. Creating = {} /\ Sharing = {} /\ Serving = {} /\ MergeInv
    BY <1>3 DEF Creating, Sharing, Serving, MergeInv
<1> QED BY <1>1, <1>2, <1>3, <1>4, <1>5
        DEF Init, ShareInv, ExperimentsTypeOK, ViewsAreCounted, RevokedStays, Unshared

-----------------------------------------------------------------------------
\* However requests overlap and fail, the rows of an experiment and of its
\* link, and what its requests hold of them, keep their types; a link has its
\* experiment.
THEOREM RecordsKeepTypes == Spec => []ShareInv
<1>1. Init => ShareInv
    BY InitInv
<1>2. ShareInv /\ [Next]_vars => ShareInv'
  <2> SUFFICES ASSUME ShareInv, [Next]_vars PROVE ShareInv'
      OBVIOUS
  <2>1. CASE Expire
      BY <2>1, ExpireInv
  <2>2. ASSUME NEW q \in Requests, Handle(q) PROVE ShareInv'
      BY <2>2, HandleInv
  <2>3. ASSUME NEW q \in Requests, Commit(q) PROVE ShareInv'
      BY <2>3, CommitInv
  <2>4. ASSUME NEW q \in Requests, Fail(q) PROVE ShareInv'
      BY <2>4, FailInv
  <2>6. ASSUME NEW q \in Requests, Serve(q) PROVE ShareInv'
      BY <2>6, ServeInv
  <2>5. CASE UNCHANGED vars
      BY <2>5 DEF vars, ShareInv, ExperimentsTypeOK, MergeInv, ViewsAreCounted, RevokedStays, Unshared,
                  Creating, Sharing, Serving, Written
  <2> QED BY <2>1, <2>2, <2>3, <2>4, <2>5, <2>6 DEF Next
<1> QED BY <1>1, <1>2, PTL DEF Spec

\* However many views of a link overlap with each other, with its revocation
\* and with the deletion of its experiment, each time it is served counts once:
\* what its counter is short of is the view whose transaction has not ended and
\* those whose own commit failed after the response was sent (share_service.py
\* increments the counter in the database).
THEOREM EveryViewIsCounted == Spec => []ViewsAreCounted
<1>1. ShareInv => ViewsAreCounted
    BY DEF ShareInv
<1> QED BY <1>1, RecordsKeepTypes, PTL

\* No view that was under way when a link was revoked opens it again: the
\* counter is written alone, not the row that was read.
THEOREM RevocationIsFinal == Spec => []RevokedStays
<1>1. ShareInv => RevokedStays
    BY DEF ShareInv
<1> QED BY <1>1, RecordsKeepTypes, PTL

-----------------------------------------------------------------------------
(* Nothing that was saved is lost.                                         *)

\* What a request is about to write is what the row still holds, unless two
\* requests have written the same column while both were under way.
FreshInv ==
  experiment.there /\ ~ contended =>
    \A q \in Requests : Writes(work[q]) =>
      \A col \in Written(work[q]) : work[q].seen[col] = experiment[col]

StayInv ==
  /\ \A q \in Requests : work[q].op = "merge" => MergesCells(work[q])
  /\ \A q \in Creating : \A p \in Requests \ {q} : work[p] = Idle
  /\ SavedStays
  /\ FreshInv

LEMMA InitStays == ASSUME Init PROVE StayInv
<1>1. \A q \in Requests : work[q] = Idle /\ work[q].op = "none"
    BY DEF Init, Idle
<1> QED BY <1>1 DEF Init, StayInv, Creating, SavedStays, FreshInv, Writes

LEMMA HandleStays ==
  ASSUME ShareInv, StayInv, NEW q \in Requests, Handle(q)
  PROVE  StayInv'
<1>1. PICK job : Takes(q, job)
    BY HandleTakes
<1>2. /\ work' = [work EXCEPT ![q] = job] /\ begun' = begun + 1
      /\ UNCHANGED <<experiment, saved, contended>>
      /\ experiment.there \/ job.op = "create"
    BY <1>1 DEF Takes, Begin
<1>3. work \in [Requests -> Job]
    BY DEF ShareInv, ExperimentsTypeOK
<1>4. \A p \in Requests : work'[p] = IF p = q THEN job ELSE work[p]
    BY <1>2, <1>3
<1>5. \A p \in Requests : work'[p].op = "merge" => MergesCells(work'[p])
    BY <1>1, <1>4 DEF StayInv, Takes
<1>6. \A p \in Creating' : \A r \in Requests \ {p} : work'[r] = Idle
  <2>1. CASE job.op = "create"
    <3>1. \A r \in Requests : work[r] = Idle
        BY <1>1, <2>1 DEF Takes, ShareInv
    <3>2. Creating' = {q}
        BY <1>4, <2>1, <3>1 DEF Creating, Idle
    <3> QED BY <1>4, <3>1, <3>2
  <2>2. CASE job.op # "create"
    <3>1. Creating' = {}
        BY <1>2, <1>4, <2>2 DEF Creating, ShareInv
    <3> QED BY <3>1
  <2> QED BY <2>1, <2>2
<1>7. SavedStays'
    BY <1>2 DEF StayInv, SavedStays
<1>8. FreshInv'
  <2> SUFFICES ASSUME experiment.there, ~ contended, NEW p \in Requests, Writes(work'[p]),
                      NEW col \in Written(work'[p])
               PROVE  work'[p].seen[col] = experiment[col]
      BY <1>2 DEF FreshInv
  <2>1. CASE p = q
      BY <1>1, <1>4, <2>1 DEF Takes
  <2>2. CASE p # q
      BY <1>4, <2>2 DEF StayInv, FreshInv
  <2> QED BY <2>1, <2>2
<1> QED BY <1>5, <1>6, <1>7, <1>8 DEF StayInv

\* A request that ends without touching the row: the others find it as it was.
LEMMA EndStays ==
  ASSUME ShareInv, StayInv, NEW q \in Requests, End(q),
         UNCHANGED <<experiment, saved, contended>> \/ ~ experiment'.there
  PROVE  StayInv'
<1>1. work \in [Requests -> Job]
    BY DEF ShareInv, ExperimentsTypeOK
<1>2. \A p \in Requests : work'[p] = IF p = q THEN Idle ELSE work[p]
    BY <1>1 DEF End
<1>3. \A p \in Requests : work'[p].op = "merge" => MergesCells(work'[p])
    BY <1>2 DEF StayInv, Idle
<1>4. \A p \in Creating' : \A r \in Requests \ {p} : work'[r] = Idle
    BY <1>2 DEF StayInv, Creating, Idle
<1>5. SavedStays'
    BY DEF StayInv, SavedStays
<1>6. FreshInv'
  <2> SUFFICES ASSUME experiment'.there, ~ contended', NEW p \in Requests, Writes(work'[p]),
                      NEW col \in Written(work'[p])
               PROVE  work'[p].seen[col] = experiment'[col]
      BY DEF FreshInv
  <2>1. p # q /\ work'[p] = work[p]
      BY <1>2 DEF Writes, Idle
  <2> QED BY <2>1 DEF StayInv, FreshInv
<1> QED BY <1>3, <1>4, <1>5, <1>6 DEF StayInv

\* A merge leaves what was saved and the cells that it brings.
LEMMA AfterMerge ==
  ASSUME NEW job, job.op = "merge", MergesCells(job), saved.results = job.seen.results
  PROVE  After(job, "results") = job.new.results
<1> PICK new \in Results : new = job.new.results
    BY DEF MergesCells
<1> PICK seen \in Results : seen = job.seen.results
    BY DEF MergesCells
<1>1. After(job, "results") = [seen EXCEPT !.cells = [c \in Cells |->
          IF new.cells[c] = job.stamp THEN job.stamp ELSE @[c]]]
    BY DEF After
<1>2. new.unkeyed = seen.unkeyed /\ \A c \in Cells : new.cells[c] \in {seen.cells[c], job.stamp}
    BY DEF MergesCells
<1> QED BY <1>1, <1>2 DEF Results

\* The columns that a request writes are saved and stored alike; another
\* request under way has not written them, or the two contend.
LEMMA CommitWriteStays ==
  ASSUME ShareInv, StayInv, NEW q \in Requests, CommitWrite(q), End(q)
  PROVE  StayInv'
<1> PICK job : job = work[q]
    OBVIOUS
<1>1. work \in [Requests -> Job]
    BY DEF ShareInv, ExperimentsTypeOK
<1>2. \A p \in Requests : work'[p] = IF p = q THEN Idle ELSE work[p]
    BY <1>1 DEF End
<1>3. /\ Writes(job) /\ experiment.there
      /\ experiment' = [col \in DOMAIN experiment |->
                          IF col \in Written(job) THEN job.new[col] ELSE experiment[col]]
      /\ saved' = [col \in DOMAIN saved |-> IF col \in Written(job) THEN After(job, col)
                                            ELSE saved[col]]
    BY DEF CommitWrite, ColumnsSet
<1>4. contended' = (contended \/ \E p \in {r \in Requests \ {q} : Writes(work[r])} :
                                     Written(work[p]) \cap Written(job) # {})
    BY DEF CommitWrite
<1>5. Columns \subseteq DOMAIN experiment /\ Columns \subseteq DOMAIN saved
    BY DEF ShareInv, ExperimentsTypeOK, Experiment, Columns
<1>6. Written(job) \subseteq Columns
    BY DEF Written
<1>7. \A p \in Requests : work'[p].op = "merge" => MergesCells(work'[p])
    BY <1>2 DEF StayInv, Idle
<1>8. \A p \in Creating' : \A r \in Requests \ {p} : work'[r] = Idle
    BY <1>2 DEF StayInv, Creating, Idle
<1>9. ASSUME ~ contended PROVE \A col \in Written(job) : After(job, col) = job.new[col]
  <2> SUFFICES ASSUME NEW col \in Written(job) PROVE After(job, col) = job.new[col]
      OBVIOUS
  <2>1. CASE job.op # "merge"
      BY <2>1 DEF After
  <2>2. CASE job.op = "merge"
    <3>1. col = "results"
        BY <1>6, <2>2 DEF ShareInv, MergeInv, Written
    <3>2. job.seen.results = experiment.results
        BY <1>3, <1>9, <3>1 DEF StayInv, FreshInv
    <3>3. experiment.results = saved.results
        BY <1>3, <1>9 DEF StayInv, SavedStays, Columns
    <3>4. MergesCells(job)
        BY <2>2 DEF StayInv
    <3> QED BY <2>2, <3>1, <3>2, <3>3, <3>4, AfterMerge
  <2> QED BY <2>1, <2>2
<1>10. SavedStays'
  <2> SUFFICES ASSUME ~ contended, NEW col \in Columns
               PROVE  experiment'[col] = saved'[col]
      BY <1>4 DEF SavedStays
  <2>1. experiment[col] = saved[col]
      BY <1>3 DEF StayInv, SavedStays
  <2> QED BY <1>3, <1>5, <1>9, <2>1
<1>11. FreshInv'
  <2> SUFFICES ASSUME ~ contended', NEW p \in Requests, Writes(work'[p]),
                      NEW col \in Written(work'[p])
               PROVE  work'[p].seen[col] = experiment'[col]
      BY DEF FreshInv
  <2>1. p # q /\ work'[p] = work[p]
      BY <1>2 DEF Writes, Idle
  <2>2. ~ contended /\ col \notin Written(job) /\ col \in Columns
      BY <1>4, <2>1, ZenonT(60) DEF Written
  <2>3. work[p].seen[col] = experiment[col]
      BY <1>3, <2>1, <2>2 DEF StayInv, FreshInv
  <2> QED BY <1>3, <1>5, <2>1, <2>2, <2>3
<1> QED BY <1>7, <1>8, <1>10, <1>11 DEF StayInv

\* A request that serves has changed no column of the experiment.
LEMMA ServeStays ==
  ASSUME ShareInv, StayInv, NEW q \in Requests, Serve(q)
  PROVE  StayInv'
<1>1. work \in [Requests -> Job]
    BY DEF ShareInv, ExperimentsTypeOK
<1>2. work[q].op \in {"view", "download"} /\ work[q] # Idle
    BY DEF Serve, Idle
<1>3. \A p \in Requests : p # q => work'[p] = work[p]
    BY <1>1 DEF Serve
<1>4. work'[q].op = "served"
  <2>1. work[q] \in [op: {"share", "view", "download", "served", "delete", "revoke"}, of: Share]
      BY <1>1, <1>2 DEF Job, Idle
  <2>2. work'[q] = [work[q] EXCEPT !.op = "served"]
      BY <1>1 DEF Serve
  <2> QED BY <2>1, <2>2
<1>5. UNCHANGED <<experiment, saved, contended>>
    BY DEF Serve
<1>6. Creating = {}
    BY DEF Serve, ShareInv, Unshared
<1>7. Creating' = {}
    BY <1>3, <1>4, <1>6 DEF Creating
<1>8. \A p \in Requests : work'[p].op = "merge" => MergesCells(work'[p])
    BY <1>3, <1>4 DEF StayInv
<1>9. FreshInv'
    BY <1>3, <1>4, <1>5 DEF StayInv, FreshInv, Writes, Written
<1> QED BY <1>5, <1>7, <1>8, <1>9 DEF StayInv, SavedStays

LEMMA CommitStays ==
  ASSUME ShareInv, StayInv, NEW q \in Requests, Commit(q)
  PROVE  StayInv'
<1>0. End(q)
    BY DEF Commit
<1>1. CASE CommitWrite(q)
    BY <1>0, <1>1, CommitWriteStays
<1>2. CASE CommitCreate(q)
  <2>1. \A p \in Requests : work'[p] = Idle
    <3>1. work \in [Requests -> Job]
        BY DEF ShareInv, ExperimentsTypeOK
    <3>2. \A p \in Requests : work'[p] = IF p = q THEN Idle ELSE work[p]
        BY <1>0, <3>1 DEF End
    <3>3. q \in Creating
        BY <1>2 DEF CommitCreate, Creating
    <3> QED BY <3>2, <3>3 DEF StayInv
  <2>2. experiment' = saved'
      BY <1>2 DEF CommitCreate
  <2> QED BY <2>1, <2>2 DEF StayInv, Creating, SavedStays, FreshInv, Writes, Idle
<1>3. CASE CommitDelete(q)
  <2>1. ~ experiment'.there
      BY <1>3 DEF CommitDelete, ShareInv, ExperimentsTypeOK, Experiment
  <2> QED BY <1>0, <2>1, EndStays
<1>4. CASE CommitShare(q) \/ CommitRevoke(q) \/ CommitView(q)
    BY <1>0, <1>4, EndStays DEF CommitShare, CommitRevoke, CommitView
<1> QED BY <1>1, <1>2, <1>3, <1>4 DEF Commit

\* As long as no two requests under way change the same column, everything a
\* request has saved is in the row, in whatever order any number of requests
\* read it, work, fail and write: an UPDATE sets the columns that changed, and
\* results are merged cell by cell.
THEOREM NothingSavedIsLost == Spec => []SavedStays
<1>1. StayInv => SavedStays
    BY DEF StayInv
<1>2. Init => StayInv
    BY InitStays
<1>3. ShareInv /\ StayInv /\ [Next]_vars => StayInv'
  <2> SUFFICES ASSUME ShareInv, StayInv, [Next]_vars PROVE StayInv'
      OBVIOUS
  <2>1. CASE Expire \/ UNCHANGED vars
    <3>1. UNCHANGED <<experiment, saved, work, contended>>
        BY <2>1 DEF Expire, vars
    <3>2. /\ SavedStays' /\ Creating' = Creating
          /\ \A q \in Requests : Written(work'[q]) = Written(work[q])
        BY <3>1 DEF StayInv, SavedStays, Creating
    <3> QED BY <3>1, <3>2 DEF StayInv, FreshInv
  <2>2. ASSUME NEW q \in Requests, Handle(q) PROVE StayInv'
      BY <2>2, HandleStays
  <2>3. ASSUME NEW q \in Requests, Commit(q) PROVE StayInv'
      BY <2>3, CommitStays
  <2>4. ASSUME NEW q \in Requests, Fail(q) PROVE StayInv'
      BY <2>4, EndStays DEF Fail
  <2>5. ASSUME NEW q \in Requests, Serve(q) PROVE StayInv'
      BY <2>5, ServeStays
  <2> QED BY <2>1, <2>2, <2>3, <2>4, <2>5 DEF Next
<1> QED BY <1>1, <1>2, <1>3, RecordsKeepTypes, PTL DEF Spec

-----------------------------------------------------------------------------
(* The notes of the users, and the database that holds both tables.        *)

Reply == [op: {"submit", "reply", "mark"}, seen: F!Note, new: F!Note, body: F!Times]

\* The note, what its requests hold of it and the e-mails keep their types.
NoteTypes ==
  /\ note \in F!Note
  /\ handling \in [Requests -> {F!AtRest} \cup Reply]
  /\ received \in F!Times
  /\ outbox \subseteq F!Times \ {0}
  /\ mailed \subseteq F!Times \ {0}
  /\ stored \subseteq F!Times \ {0}
  /\ crossed \in BOOLEAN

\* A reply is there with its author and its time, or not at all.
Whole(row) == (row.at = 0 <=> row.by = F!None) /\ (row.at = 0 => row.body = 0)

\* Until two requests overlap, the row is whole, and a request under way has
\* read it as it is and leaves it whole.
WholeInv ==
  ~ crossed => /\ Whole(note)
               /\ \A h \in Requests : handling[h] # F!AtRest =>
                    handling[h].seen = note /\ Whole(handling[h].new)

\* An e-mail is queued by the request that committed what it tells.
OutboxInv == outbox \subseteq stored /\ mailed \subseteq stored

NoteInv == NoteTypes /\ WholeInv /\ OutboxInv

LEMMA NoteInit == F!FeedbackInit => NoteInv
<1> SUFFICES ASSUME F!FeedbackInit PROVE NoteInv
    OBVIOUS
<1>1. F!NoNote \in F!Note /\ Whole(F!NoNote)
    BY RecordsAssumption DEF F!NoNote, F!Note, F!Times, F!None, Whole
<1>2. 0 \in F!Times
    BY RecordsAssumption DEF F!Times
<1>3. \A h \in Requests : handling[h] = F!AtRest
    BY DEF F!FeedbackInit
<1> QED BY <1>1, <1>2, <1>3 DEF F!FeedbackInit, NoteInv, NoteTypes, WholeInv, OutboxInv

\* A request reads the note and leaves it whole if it was.
LEMMA ReceiveInv ==
  ASSUME NoteInv, NEW h \in Requests, NEW op \in {"submit", "reply", "mark"},
         NEW new \in F!Note, NEW body \in F!Times,
         Whole(note) => Whole(new), F!Receive(h, op, new, body)
  PROVE  NoteInv'
<1> PICK job : job = [op |-> op, seen |-> note, new |-> new, body |-> body]
    OBVIOUS
<1>1. job \in Reply /\ job.seen = note /\ job.new = new
    BY DEF NoteInv, NoteTypes, Reply
<1>2. /\ handling' = [handling EXCEPT ![h] = job] /\ received' = received + 1
      /\ received < MaxReplies
      /\ UNCHANGED <<note, outbox, mailed, stored, crossed>>
    BY DEF F!Receive
<1>3. received' \in F!Times
    BY <1>2, RecordsAssumption DEF NoteInv, NoteTypes, F!Times
<1>4. \A g \in Requests : handling'[g] = IF g = h THEN job ELSE handling[g]
    BY <1>2 DEF NoteInv, NoteTypes
<1>5. NoteTypes'
    BY <1>1, <1>2, <1>3 DEF NoteInv, NoteTypes
<1>6. WholeInv'
    BY <1>1, <1>2, <1>4 DEF NoteInv, WholeInv
<1> QED BY <1>2, <1>5, <1>6 DEF NoteInv, OutboxInv

\* A request that ends writes what it changed, and only if it commits is its
\* e-mail queued.
LEMMA CommitNote ==
  ASSUME NoteInv, NEW h \in Requests, F!CommitFeedback(h)
  PROVE  NoteInv'
<1> PICK job : job = handling[h]
    OBVIOUS
<1>1. /\ job # F!AtRest
      /\ note' = [c \in DOMAIN note |-> IF job.new[c] # job.seen[c] THEN job.new[c] ELSE note[c]]
      /\ outbox' = outbox \cup ({job.body} \ {0})
      /\ stored' = stored \cup ({job.body} \ {0})
      /\ crossed' = (crossed \/ \E g \in Requests \ {h} : handling[g] # F!AtRest)
      /\ handling' = [handling EXCEPT ![h] = F!AtRest]
      /\ UNCHANGED <<received, mailed>>
    BY DEF F!CommitFeedback
<1>2. job \in Reply /\ note \in F!Note
    BY <1>1 DEF NoteInv, NoteTypes
<1>3. job.seen \in F!Note /\ job.new \in F!Note /\ job.body \in F!Times
    BY <1>2 DEF Reply
<1>4. note' \in F!Note
    BY <1>1, <1>2, <1>3 DEF F!Note
<1>5. \A g \in Requests : handling'[g] = IF g = h THEN F!AtRest ELSE handling[g]
    BY <1>1 DEF NoteInv, NoteTypes
<1>6. crossed' \in BOOLEAN
    BY <1>1 DEF NoteInv, NoteTypes
<1>7. NoteTypes'
    BY <1>1, <1>3, <1>4, <1>6 DEF NoteInv, NoteTypes
<1>8. WholeInv'
  <2> SUFFICES ASSUME ~ crossed' PROVE WholeInv'
      BY DEF WholeInv
  <2>1. job.seen = note /\ Whole(job.new)
      BY <1>1 DEF NoteInv, WholeInv
  <2>2. note' = job.new
      BY <1>1, <1>2, <1>3, <2>1 DEF F!Note
  <2>3. \A g \in Requests : handling'[g] = F!AtRest
      BY <1>1, <1>5
  <2> QED BY <2>1, <2>2, <2>3 DEF WholeInv
<1> QED BY <1>1, <1>7, <1>8 DEF NoteInv, OutboxInv

LEMMA NoteStep == NoteInv /\ [F!FeedbackNext]_feedbackVars => NoteInv'
<1> SUFFICES ASSUME NoteInv, [F!FeedbackNext]_feedbackVars PROVE NoteInv'
    OBVIOUS
<1>0. /\ \A h \in Requests : handling[h] = F!AtRest \/ handling[h] \in Reply
      /\ handling \in [Requests -> {F!AtRest} \cup Reply]
      /\ note \in F!Note /\ received \in Nat /\ 0 \in F!Times
    BY RecordsAssumption DEF NoteInv, NoteTypes, F!Times
<1>1. ASSUME NEW h \in Requests, F!SubmitFeedback(h) PROVE NoteInv'
  <2> PICK new : new = [F!NoNote EXCEPT !.there = TRUE]
      OBVIOUS
  <2>1. new \in F!Note /\ Whole(new)
    <3>1. new = [there |-> TRUE, at |-> 0, by |-> F!None, body |-> 0]
        BY DEF F!NoNote
    <3>2. [there |-> TRUE, at |-> 0, by |-> F!None, body |-> 0] \in F!Note
        BY RecordsAssumption DEF F!Note, F!Times, F!None
    <3>3. new.at = 0 /\ new.by = F!None /\ new.body = 0
        BY <3>1
    <3> QED BY <3>1, <3>2, <3>3 DEF Whole
  <2>2. F!Receive(h, "submit", new, received + 1)
      BY <1>1 DEF F!SubmitFeedback
  <2>3. received + 1 \in F!Times
      BY <1>0, <2>2, RecordsAssumption DEF F!Receive, F!Times
  <2> QED BY <2>1, <2>2, <2>3, ReceiveInv
<1>2. ASSUME NEW h \in Requests, NEW admin \in Admins, F!ReplyToFeedback(h, admin) PROVE NoteInv'
  <2> PICK new : new = [note EXCEPT !.at = received + 1, !.by = admin, !.body = received + 1]
      OBVIOUS
  <2>1. F!Receive(h, "reply", new, received + 1)
      BY <1>2 DEF F!ReplyToFeedback
  <2>2. received + 1 \in F!Times /\ received + 1 # 0
      BY <1>0, <2>1, RecordsAssumption DEF F!Receive, F!Times
  <2>3. new \in F!Note /\ Whole(new)
      BY <1>0, <2>2, RecordsAssumption DEF F!Note, Whole
  <2> QED BY <2>1, <2>2, <2>3, ReceiveInv
<1>3. ASSUME NEW h \in Requests, NEW admin \in Admins, NEW replied \in BOOLEAN,
             F!MarkReplied(h, admin, replied)
      PROVE  NoteInv'
  <2>1. CASE replied
    <3> PICK new : new = [note EXCEPT !.at = received + 1, !.by = admin]
        OBVIOUS
    <3>1. F!Receive(h, "mark", new, 0)
        BY <1>3, <2>1 DEF F!MarkReplied
    <3>2. received + 1 \in F!Times /\ received + 1 # 0
        BY <1>0, <3>1, RecordsAssumption DEF F!Receive, F!Times
    <3>3. new \in F!Note /\ Whole(new)
        BY <1>0, <3>2, RecordsAssumption DEF F!Note, Whole
    <3> QED BY <1>0, <3>1, <3>3, ReceiveInv
  <2>2. CASE ~ replied
    <3>1. F!Receive(h, "mark", F!Unmarked, 0)
        BY <1>3, <2>2 DEF F!MarkReplied
    <3>2. F!Unmarked \in F!Note /\ Whole(F!Unmarked)
        BY <1>0 DEF F!Note, F!Unmarked, F!None, Whole
    <3> QED BY <1>0, <3>1, <3>2, ReceiveInv
  <2> QED BY <2>1, <2>2
<1>4. ASSUME NEW h \in Requests, F!CommitFeedback(h) PROVE NoteInv'
    BY <1>4, CommitNote
<1>5. ASSUME NEW h \in Requests, F!RefuseFeedback(h) PROVE NoteInv'
  <2>1. \A g \in Requests : handling'[g] = IF g = h THEN F!AtRest ELSE handling[g]
      BY <1>0, <1>5 DEF F!RefuseFeedback
  <2>2. /\ handling' \in [Requests -> {F!AtRest} \cup Reply]
        /\ UNCHANGED <<note, received, outbox, mailed, stored, crossed>>
      BY <1>0, <1>5 DEF F!RefuseFeedback
  <2> QED BY <2>1, <2>2 DEF NoteInv, NoteTypes, WholeInv, OutboxInv
<1>6. ASSUME NEW body \in outbox, NEW sent \in BOOLEAN, F!Deliver(body, sent) PROVE NoteInv'
    BY <1>6 DEF F!Deliver, NoteInv, NoteTypes, WholeInv, OutboxInv
<1>7. CASE F!CrashFeedback
    BY <1>7 DEF F!CrashFeedback, NoteInv, NoteTypes, WholeInv, OutboxInv
<1>8. CASE UNCHANGED feedbackVars
    BY <1>8 DEF feedbackVars, NoteInv, NoteTypes, WholeInv, OutboxInv
<1> QED BY <1>1, <1>2, <1>3, <1>4, <1>5, <1>6, <1>7, <1>8 DEF F!FeedbackNext

\* What is proved of the experiments holds in the database that also keeps the
\* notes: a step of one table leaves the other as it is.
THEOREM TablesAreApart == RecordsSpec => Spec /\ []NoteInv
<1>1. RecordsInit => Init /\ NoteInv
    BY NoteInit DEF RecordsInit
<1>2. [ExperimentStep \/ FeedbackStep]_<<table, vars, feedbackVars>> => [Next]_vars
    BY DEF ExperimentStep, FeedbackStep
<1>3. NoteInv /\ [ExperimentStep \/ FeedbackStep]_<<table, vars, feedbackVars>> => NoteInv'
  <2>1. [ExperimentStep \/ FeedbackStep]_<<table, vars, feedbackVars>>
          => [F!FeedbackNext]_feedbackVars
      BY DEF ExperimentStep, FeedbackStep
  <2> QED BY <2>1, NoteStep
<1> QED BY <1>1, <1>2, <1>3, PTL DEF RecordsSpec, Spec

\* For any number of requests, values and administrators, both tables and the
\* requests that work on them keep their types, and a link has its experiment.
THEOREM RecordsTyped == RecordsSpec => []RecordsTypeOK
<1>1. ShareInv /\ NoteInv => RecordsTypeOK
  <2> SUFFICES ASSUME ShareInv, NoteInv PROVE F!FeedbackTypeOK
      BY DEF ShareInv, RecordsTypeOK
  <2>1. \A h \in Requests : handling[h] = F!AtRest \/ handling[h].new \in F!Note
      BY DEF NoteInv, NoteTypes, Reply
  <2> QED BY <2>1 DEF NoteInv, NoteTypes, F!FeedbackTypeOK
<1> QED BY <1>1, TablesAreApart, RecordsKeepTypes, PTL

\* Unless two requests for a note overlap, a note marked as replied names who
\* replied and when, and a note that is not marked holds no reply, through any
\* number of replies, marks, failures and crashes.
THEOREM RepliesStayWhole == RecordsSpec => []RepliesAreWhole
<1>1. NoteInv => RepliesAreWhole
    BY DEF NoteInv, WholeInv, Whole, RepliesAreWhole, F!RepliesAreWhole
<1> QED BY <1>1, TablesAreApart, PTL

\* No e-mail tells of a note or a reply that was not committed, also when the
\* request fails after it has worked, or the process ends between the two.
THEOREM OnlyStoredIsMailed == RecordsSpec => []MailedWereStored
<1>1. NoteInv => MailedWereStored
    BY DEF NoteInv, OutboxInv, MailedWereStored, F!MailedWereStored
<1> QED BY <1>1, TablesAreApart, PTL

=============================================================================
