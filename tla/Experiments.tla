---------------------------- MODULE Experiments ----------------------------
(***************************************************************************)
(* One experiment of a user: its row of table experiments, a link that     *)
(* shares it, and the requests that enter results, evaluate, finalise an   *)
(* upload, rename, delete, share and view.  A request reads the row, works *)
(* - a design is evaluated or a file is parsed in between - and writes     *)
(* back the columns that it changed.                                       *)
(***************************************************************************)
EXTENDS Naturals

CONSTANTS
  Requests,   \* requests that may be under way at once
  Cells,      \* the values and notes of the runs, each of them a key of a row
  MaxBegun    \* bound: requests ever begun

ASSUME ExperimentsAssumption == MaxBegun \in Nat \ {0}

VARIABLES
  experiment,  \* the row of table experiments
  share,       \* the row of table experiment_shares
  work,        \* the requests under way
  begun,       \* requests begun so far, which also numbers what they write
  saved,       \* history: what the requests that committed have written
  shown,       \* history: how often the share was served
  uncounted,   \* history: how often the commit of a view that was served failed
  shut,        \* history: the share was revoked
  contended    \* history: two requests under way have written one column

vars == <<experiment, share, work, begun, saved, shown, uncounted, shut, contended>>

Stamps == 0 .. MaxBegun
Statuses == {"draft", "active", "completed"}

\* results_data; unkeyed: it holds rows of an uploaded file, without a run_index.
Results == [cells: [Cells -> Stamps], unkeyed: BOOLEAN]
NoResults == [cells |-> [c \in Cells |-> 0], unkeyed |-> FALSE]
Experiment == [there: BOOLEAN, kind: {"generated", "uploaded"}, status: Statuses,
               design: Stamps, results: Results, evaluation: Stamps]
Draft(kind) == [there |-> TRUE, kind |-> kind, status |-> "draft", design |-> 0,
                results |-> NoResults, evaluation |-> 0]
\* What becomes of an uploaded file: parse_upload makes no matrix of it, or Claude
\* answers with a structure, with questions or with neither.
Replies == {"unreadable", "report", "questions", "malformed", "no_tool"}
Structure(reply) == CASE reply = "report" -> "parsed"
                      [] reply = "questions" -> "asked"
                      [] OTHER -> "refused"

Share == [made: BOOLEAN, allow: BOOLEAN, expires: {"never", "later", "past"},
          revoked: BOOLEAN, views: Nat]
NoShare == [made |-> FALSE, allow |-> FALSE, expires |-> "never", revoked |-> FALSE, views |-> 0]

\* A request under way: the row as it has read it and as it will leave it.
Idle == [op |-> "none"]
Job == [op: {"write", "merge"}, seen: Experiment, new: Experiment, stamp: Stamps]
       \cup [op: {"create"}, new: Experiment]
       \cup [op: {"share", "view", "download", "served", "delete", "revoke"}, of: Share]
       \cup {Idle}

Init ==
  /\ experiment \in {Draft("generated"), [Draft("uploaded") EXCEPT !.there = FALSE]}
  /\ share = NoShare
  /\ work = [q \in Requests |-> Idle]
  /\ begun = 0
  /\ saved = experiment
  /\ shown = 0
  /\ uncounted = 0
  /\ shut = FALSE
  /\ contended = FALSE

-----------------------------------------------------------------------------
\* A handler begins when the experiment is there and the caller's own.
Begin(q, job) ==
  /\ work[q] = Idle /\ begun < MaxBegun
  /\ experiment.there \/ job.op = "create"
  /\ work' = [work EXCEPT ![q] = job]
  /\ begun' = begun + 1
  /\ UNCHANGED <<experiment, share, saved, shown, uncounted, shut, contended>>

Write(q, op, new) == Begin(q, [op |-> op, seen |-> experiment, new |-> new,
                               stamp |-> begun + 1])

\* A row is merged by its run_index, and its keys one by one.
Merge(results, c, value) == [results EXCEPT !.cells[c] = value]

\* Rows without run_index make the merge fail.
AddResults(q, c) ==
  /\ ~ experiment.results.unkeyed
  /\ Write(q, "merge", [experiment EXCEPT !.results = Merge(@, c, begun + 1)])

UpdateExperiment(q, status) ==
  /\ status # experiment.status
  /\ Write(q, "write", [experiment EXCEPT !.status = status])

\* The design is evaluated while others may write.
Evaluate(q) ==
  /\ experiment.kind = "generated"
  /\ Write(q, "write", [experiment EXCEPT !.evaluation = begun + 1])

\* The experiment of an upload, made once, is its draft.
CreateUpload(q, reply) ==
  /\ experiment.kind = "uploaded" /\ begun = 0
  /\ Structure(reply) # "refused"
  /\ Begin(q, [op |-> "create",
               new |-> [Draft("uploaded") EXCEPT !.design = IF Structure(reply) = "parsed"
                                                            THEN begun + 1 ELSE 0]])

\* A file is parsed once more with the answers to its questions, and its design
\* replaced, whether or not it was finalised in the meantime.
SubmitAnswers(q, reply) ==
  /\ experiment.kind = "uploaded"
  /\ Structure(reply) = "parsed"
  /\ Write(q, "write", [experiment EXCEPT !.design = begun + 1])

FinalizeUpload(q, rows) ==
  /\ experiment.kind = "uploaded"
  /\ Write(q, "write", [experiment EXCEPT !.design = begun + 1,
                                          !.results = [NoResults EXCEPT !.unkeyed = rows],
                                          !.status = IF rows THEN "active" ELSE @])

DeleteExperiment(q) ==
  Begin(q, [op |-> "delete", of |-> share])

CreateShare(q, allow, expires) ==
  /\ ~ share.made /\ \A p \in Requests : work[p].op # "share"
  /\ Begin(q, [op |-> "share", of |-> [NoShare EXCEPT !.made = TRUE, !.allow = allow,
                                                      !.expires = expires]])

RevokeShare(q) ==
  /\ share.made /\ ~ share.revoked
  /\ Begin(q, [op |-> "revoke", of |-> share])

Resolvable == share.made /\ ~ share.revoked /\ share.expires # "past"

\* get_public_experiment and export_public_experiment.
View(q, op) ==
  /\ Resolvable
  /\ Begin(q, [op |-> op, of |-> share])

-----------------------------------------------------------------------------
\* A view holds the row of its link from its UPDATE to its commit: its response
\* is sent between them, and another UPDATE of the row waits.
Serving == {q \in Requests : work[q].op = "served"}

Columns == {"status", "design", "results", "evaluation"}
Writes(job) == job.op \in {"write", "merge"}
Written(job) == {col \in Columns : job.new[col] # job.seen[col]}

\* A mutant: all columns are written.
ColumnsAll(job) == Columns

\* The columns that an UPDATE of the session sets: those that changed.
ColumnsSet(job) == Written(job)

End(q) == work' = [work EXCEPT ![q] = Idle]

\* What is saved in a column once the request has committed: a merge adds the
\* cells that it brings.
After(job, col) ==
  IF job.op = "merge"
  THEN [saved.results EXCEPT !.cells = [c \in Cells |->
          IF job.new.results.cells[c] = job.stamp THEN job.stamp ELSE @[c]]]
  ELSE job.new[col]

CommitWrite(q) ==
  LET job == work[q]
      others == {p \in Requests \ {q} : Writes(work[p])}
  IN  /\ Writes(job)
      /\ experiment.there
      /\ experiment' = [col \in DOMAIN experiment |->
                          IF col \in ColumnsSet(job) THEN job.new[col] ELSE experiment[col]]
      /\ saved' = [col \in DOMAIN saved |-> IF col \in Written(job) THEN After(job, col)
                                             ELSE saved[col]]
      /\ contended' = (contended \/ \E p \in others : Written(work[p]) \cap Written(job) # {})
      /\ UNCHANGED <<share, shown, uncounted, shut>>

\* A mutant: the link stays.
DeleteLeavingShare(q) ==
  /\ work[q].op = "delete"
  /\ experiment' = [experiment EXCEPT !.there = FALSE]
  /\ UNCHANGED <<share, saved, shown, uncounted, shut, contended>>

CommitCreate(q) ==
  /\ work[q].op = "create"
  /\ experiment' = work[q].new
  /\ saved' = work[q].new
  /\ UNCHANGED <<share, shown, uncounted, shut, contended>>

\* The rows that refer to the experiment go with it.
CommitDelete(q) ==
  /\ work[q].op = "delete"
  /\ Serving = {}
  /\ experiment' = [experiment EXCEPT !.there = FALSE]
  /\ share' = NoShare
  /\ UNCHANGED <<saved, shown, uncounted, shut, contended>>

CommitShare(q) ==
  /\ work[q].op = "share"
  /\ experiment.there
  /\ share' = work[q].of
  /\ UNCHANGED <<experiment, saved, shown, uncounted, shut, contended>>

CommitRevoke(q) ==
  /\ work[q].op = "revoke"
  /\ share.made /\ Serving = {}
  /\ share' = [share EXCEPT !.revoked = TRUE]
  /\ shut' = TRUE
  /\ UNCHANGED <<experiment, saved, shown, uncounted, contended>>

\* Mutants: the counter is incremented in memory; the whole row is written.
CountedInMemory(of) == [share EXCEPT !.views = of.views + 1]
CountedWithRow(of) == [of EXCEPT !.views = share.views + 1]

\* The database increments the counter.
Counted(of) == [share EXCEPT !.views = @ + 1]

\* The response is on its way before the transaction ends.  The tables of a
\* link that withholds results are refused.
Serve(q) ==
  /\ \/ work[q].op = "view"
     \/ work[q].op = "download" /\ work[q].of.allow
  /\ share.made /\ Serving = {}
  /\ work' = [work EXCEPT ![q].op = "served"]
  /\ shown' = shown + 1
  /\ UNCHANGED <<experiment, share, begun, saved, uncounted, shut, contended>>

CommitView(q) ==
  /\ work[q].op = "served"
  /\ share' = Counted(work[q].of)
  /\ UNCHANGED <<experiment, saved, shown, uncounted, shut, contended>>

\* The handler, the model or the database fails, or the commit does after the
\* response: nothing is written.
Fail(q) ==
  /\ work[q] # Idle
  /\ End(q)
  /\ uncounted' = IF q \in Serving THEN uncounted + 1 ELSE uncounted
  /\ UNCHANGED <<experiment, share, begun, saved, shown, shut, contended>>

Commit(q) ==
  /\ CommitCreate(q) \/ CommitWrite(q) \/ CommitDelete(q) \/ CommitShare(q) \/ CommitRevoke(q) \/ CommitView(q)
  /\ End(q)
  /\ UNCHANGED begun

\* Time passes.
Expire ==
  /\ share.expires = "later"
  /\ share' = [share EXCEPT !.expires = "past"]
  /\ UNCHANGED <<experiment, work, begun, saved, shown, uncounted, shut, contended>>

Handle(q) ==
  \/ \E c \in Cells : AddResults(q, c)
  \/ \E status \in Statuses : UpdateExperiment(q, status)
  \/ \E reply \in Replies : CreateUpload(q, reply) \/ SubmitAnswers(q, reply)
  \/ Evaluate(q) \/ DeleteExperiment(q) \/ RevokeShare(q)
  \/ \E rows \in BOOLEAN : FinalizeUpload(q, rows)
  \/ \E allow \in BOOLEAN, expires \in {"never", "later"} : CreateShare(q, allow, expires)
  \/ \E op \in {"view", "download"} : View(q, op)

Next == Expire \/ \E q \in Requests : Handle(q) \/ Serve(q) \/ Commit(q) \/ Fail(q)
Spec == Init /\ [][Next]_vars

-----------------------------------------------------------------------------
\* The rows, the requests and what they have read have their types, and a
\* link has its experiment.
ExperimentsTypeOK ==
  /\ experiment \in Experiment /\ saved \in Experiment
  /\ share \in Share
  /\ work \in [Requests -> Job]
  /\ begun \in Stamps
  /\ share.made => experiment.there
  /\ shown \in Nat /\ uncounted \in Nat
  /\ shut \in BOOLEAN /\ contended \in BOOLEAN

\* Unless two requests under way change the same column, all that was saved
\* is there: results entered one by one, the design that was confirmed, the
\* evaluation and the status, whatever other requests wrote in between.
SavedStays == experiment.there /\ ~ contended =>
                \A col \in Columns : experiment[col] = saved[col]

\* Each time a link is served counts once, when views, a revocation and refused
\* downloads overlap: only the view whose response is sent and whose transaction
\* has not ended is not in the counter yet, and only those whose own commit
\* failed after the response never will be.
ViewsAreCounted ==
  share.made => shown = share.views + uncounted + (IF Serving = {} THEN 0 ELSE 1)

\* A link that was revoked stays revoked, whatever views of it were under way.
RevokedStays == share.made /\ shut => share.revoked

=============================================================================
