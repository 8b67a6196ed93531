------------------------------ MODULE Backups -------------------------------
(***************************************************************************)
(* The database scripts of a host whose backend is the service "app":       *)
(* backup-postgres.sh, restore-postgres.sh and restore-drill.sh, the object *)
(* store between them, and the admin_events rows in which they record their *)
(* runs through `python -m app.cli admin-event`.  Any step may fail, and    *)
(* any script may be killed before its exit trap runs.                      *)
(***************************************************************************)
EXTENDS Migrations

\* MaxRuns bounds the rows that are opened, MaxObjects the objects stored,
\* MaxWrites the writes of users.
CONSTANTS MaxRuns, MaxObjects, MaxWrites

ASSUME BackupsAssumption == {MaxRuns, MaxObjects, MaxWrites} \subseteq Nat

\* data: what users have written, and whether the database holds all of it
\* (a dropped database is not whole until pg_restore has put a whole dump back).
\* events: the rows by id.  opened: ids handed out.  store: the objects under
\* postgres/daily/, in key order.  backup, restore, drill: the scripts.
VARIABLES data, events, opened, store, backup, restore, drill
backupVars == <<data, events, opened, store, backup, restore, drill>>

Types == {"postgres_backup", "postgres_restore", "restore_drill"}
NoBackup == [pc |-> "idle", id |-> 0, dump |-> << >>]
NoRestore == [pc |-> "idle", id |-> 0, key |-> 0, target |-> "scratch", by |-> "operator"]
NoDrill == [pc |-> "idle", id |-> 0, key |-> 0]
\* What pg_dump writes and pg_restore reads: the database as one transaction
\* sees it.
Dump == [db |-> db, data |-> data, events |-> events]
\* What the object store holds of a dump: its bytes, other bytes of the same
\* size, or fewer.
Bytes == {"intact", "altered", "short"}

BackupsTypeOK ==
  /\ app \in {"up", "down", "gone"}
  /\ db.rev \in 0..Newest
  /\ data \in [writes : 0..MaxWrites, whole : BOOLEAN]
  /\ opened \in 0..MaxRuns
  /\ DOMAIN events \subseteq 1..opened
  /\ \A i \in DOMAIN events :
       events[i] \in [type : Types, status : {"in_progress", "success", "failed"},
                      key : 0..MaxObjects]
  /\ Len(store) <= MaxObjects
  /\ \A k \in DOMAIN store : store[k].bytes \in Bytes
  /\ backup.pc \in {"idle", "opened", "dumped", "uploaded"}
  /\ restore.pc \in {"idle", "opened", "verified", "stopped", "dropped", "loaded", "started"}
  /\ restore.target \in {"primary", "scratch"} /\ restore.by \in {"operator", "drill"}
  /\ drill.pc \in {"idle", "opened", "restored"}

BackupsInit ==
  /\ data = [writes |-> 0, whole |-> TRUE]
  /\ events = << >> /\ opened = 0
  /\ store = << >>
  /\ backup = NoBackup
  /\ restore = NoRestore
  /\ drill = NoDrill

-----------------------------------------------------------------------------
\* The CLI runs in the container of app and needs the table.
CliWorks == app = "up" /\ "admin_events" \in DOMAIN db.tables

\* start_event
Open(type) ==
  /\ CliWorks /\ opened < MaxRuns
  /\ opened' = opened + 1
  /\ events' = [i \in DOMAIN events \cup {opened + 1} |->
                  IF i \in DOMAIN events THEN events[i]
                  ELSE [type |-> type, status |-> "in_progress", key |-> 0]]

\* A mutant: the row says that the run is over, not how it ended.
ClosedAsDone(rows, id, status, key) ==
  IF id \in DOMAIN rows
  THEN [rows EXCEPT ![id].status = "done", ![id].key = key]
  ELSE rows
\* finish_event: a row that is gone is an error, any other is closed, whatever
\* its status was.
Closed(rows, id, status, key) ==
  IF id \in DOMAIN rows
  THEN [rows EXCEPT ![id].status = status, ![id].key = key]
  ELSE rows
close_via_cli(id, status, key) ==
  events' = IF CliWorks THEN Closed(events, id, status, key) ELSE events

\* What a step that only records leaves alone.
Elsewhere == <<app, db, data>>

UserWrites ==
  /\ app = "up" /\ data.writes < MaxWrites
  /\ data' = [data EXCEPT !.writes = @ + 1]
  /\ UNCHANGED <<app, db, events, opened, store, backup, restore, drill>>

-----------------------------------------------------------------------------
\* The lock keeps other backups out, not a restore.
BackupStart ==
  /\ backup.pc = "idle"
  /\ Open("postgres_backup")
  /\ backup' = [pc |-> "opened", id |-> opened', dump |-> << >>]
  /\ UNCHANGED <<Elsewhere, store, restore, drill>>

\* Alembic's head is asked of the app just before; the dump itself needs only
\* the database, in whatever state a restore of the site has it by then.
PgDump ==
  /\ backup.pc = "opened"
  /\ backup' = [backup EXCEPT !.pc = "dumped", !.dump = Dump]
  /\ UNCHANGED <<Elsewhere, events, opened, store, restore, drill>>

\* An upload that damages the object may still succeed.
Upload ==
  /\ backup.pc = "dumped" /\ Len(store) < MaxObjects
  /\ \E bytes \in Bytes :
       store' = Append(store, [dump |-> backup.dump, bytes |-> bytes, by |-> backup.id])
  /\ backup' = [backup EXCEPT !.pc = "uploaded"]
  /\ UNCHANGED <<Elsewhere, events, opened, restore, drill>>

\* A mutant: the upload ended without an error, that is enough.
TrustUpload ==
  /\ backup.pc = "uploaded"
  /\ events' = Closed(events, backup.id, "success", Len(store))
  /\ backup' = NoBackup
  /\ UNCHANGED <<Elsewhere, opened, store, restore, drill>>
\* The size of the stored object; the hash that is compared is the string that
\* the upload attached itself, and always agrees.  Then the exit trap: by the
\* CLI, or with psql when the CLI fails.
VerifyUpload ==
  /\ backup.pc = "uploaded"
  /\ events' = Closed(events, backup.id,
                      IF store[Len(store)].bytes # "short" THEN "success" ELSE "failed",
                      Len(store))
  /\ backup' = NoBackup
  /\ UNCHANGED <<Elsewhere, opened, store, restore, drill>>

BackupFails ==
  /\ backup.pc # "idle"
  /\ events' = Closed(events, backup.id, "failed", 0)
  /\ backup' = NoBackup
  /\ UNCHANGED <<Elsewhere, opened, store, restore, drill>>

-----------------------------------------------------------------------------
\* --skip-stop-app is refused for the database of the site.  The lock keeps
\* other restores out, not a backup.
RestoreStart(target, key, by) ==
  /\ restore.pc = "idle"
  /\ Open("postgres_restore")
  /\ restore' = [pc |-> "opened", id |-> opened', key |-> key, target |-> target, by |-> by]
  /\ UNCHANGED <<Elsewhere, store, backup>>

\* The newest daily object, or one that the operator names.
RestoreByHand ==
  /\ \E key \in 1..Len(store) : RestoreStart("primary", key, "operator")
  /\ UNCHANGED drill

RestoreEnds(status) ==
  /\ restore' = [restore EXCEPT !.pc = "idle", !.id = 0]
  /\ close_via_cli(restore.id, status, restore.key)

\* Download, hash of what was downloaded, alembic's revision, confirmation.
VerifyDownload ==
  /\ restore.pc = "opened"
  /\ store[restore.key].bytes = "intact"
  /\ restore' = [restore EXCEPT !.pc = "verified"]
  /\ UNCHANGED <<Elsewhere, events, opened, store, backup, drill>>

\* A mutant: the app is stopped for drills and left running otherwise.
StopForDrills ==
  /\ restore.pc = "verified"
  /\ app' = IF restore.target = "scratch" THEN "down" ELSE app
  /\ restore' = [restore EXCEPT !.pc = "stopped"]
  /\ UNCHANGED <<db, data, events, opened, store, backup, drill>>
StopApp ==
  /\ restore.pc = "verified"
  /\ app' = IF restore.target = "primary" THEN "down" ELSE app
  /\ restore' = [restore EXCEPT !.pc = "stopped"]
  /\ UNCHANGED <<db, data, events, opened, store, backup, drill>>

DropDatabase ==
  /\ restore.pc = "stopped"
  /\ restore' = [restore EXCEPT !.pc = "dropped"]
  /\ IF restore.target = "primary"
     THEN /\ db' = Empty
          /\ data' = [writes |-> 0, whole |-> FALSE]
          /\ events' = << >>
     ELSE UNCHANGED <<db, data, events>>
  /\ UNCHANGED <<app, opened, store, backup, drill>>

\* A pg_restore that takes --jobs=2 with its input on a pipe; one that refuses
\* it always ends in RestoreFails here.
PgRestore ==
  /\ restore.pc = "dropped"
  /\ restore' = [restore EXCEPT !.pc = "loaded"]
  /\ LET dump == store[restore.key].dump
     IN  IF restore.target = "primary"
         THEN db' = dump.db /\ data' = dump.data /\ events' = dump.events
         ELSE UNCHANGED <<db, data, events>>
  /\ UNCHANGED <<app, opened, store, backup, drill>>

\* The app starts before the migrations that the dump still lacks run.
StartApp ==
  /\ restore.pc = "loaded"
  /\ app' = IF restore.target = "primary" THEN "up" ELSE app
  /\ restore' = [restore EXCEPT !.pc = "started"]
  /\ UNCHANGED <<db, data, events, opened, store, backup, drill>>

SmokeTest ==
  /\ restore.pc = "started"
  /\ db' = IF restore.target = "primary" THEN UpgradeHead(db, Newest) ELSE db
  /\ RestoreEnds("success")
  /\ IF restore.by = "drill" THEN drill' = [drill EXCEPT !.pc = "restored"]
                             ELSE UNCHANGED drill
  /\ UNCHANGED <<app, data, opened, store, backup>>

\* A step fails: the trap closes the row through the CLI or not at all, and
\* leaves the app as it is.
RestoreFails ==
  /\ restore.pc # "idle"
  /\ RestoreEnds("failed")
  /\ UNCHANGED <<Elsewhere, opened, store, backup, drill>>

-----------------------------------------------------------------------------
DrillStart ==
  /\ drill.pc = "idle"
  /\ Open("restore_drill")
  /\ drill' = [pc |-> "opened", id |-> opened', key |-> 0]
  /\ UNCHANGED <<Elsewhere, store, backup, restore>>

DrillRestores ==
  /\ drill.pc = "opened" /\ drill.key = 0 /\ store # << >>
  /\ RestoreStart("scratch", Len(store), "drill")
  /\ drill' = [drill EXCEPT !.key = Len(store)]

\* Both smoke queries are recorded, not judged; the scratch database goes.
DrillSucceeds ==
  /\ drill.pc = "restored"
  /\ close_via_cli(drill.id, "success", drill.key)
  /\ drill' = NoDrill
  /\ UNCHANGED <<Elsewhere, opened, store, backup, restore>>

\* Nothing is stored, the restore fails or another one holds its lock, or the
\* scratch database cannot be dropped.
DrillFails ==
  /\ drill.pc # "idle"
  /\ restore.pc = "idle" \/ restore.by = "operator"
  /\ close_via_cli(drill.id, "failed", 0)
  /\ drill' = NoDrill
  /\ UNCHANGED <<Elsewhere, opened, store, backup, restore>>

\* A script is killed, and no trap runs.
Killed ==
  /\ \/ /\ backup.pc # "idle"
        /\ backup' = NoBackup
        /\ UNCHANGED <<restore, drill>>
     \/ /\ restore.pc # "idle"
        /\ restore' = [restore EXCEPT !.pc = "idle", !.id = 0]
        /\ UNCHANGED <<backup, drill>>
     \/ /\ drill.pc # "idle"
        /\ restore.pc = "idle" \/ restore.by = "operator"
        /\ drill' = NoDrill
        /\ UNCHANGED <<backup, restore>>
  /\ UNCHANGED <<Elsewhere, events, opened, store>>

BackupsNext ==
  \/ UserWrites
  \/ BackupStart \/ PgDump \/ Upload \/ VerifyUpload \/ BackupFails
  \/ RestoreByHand \/ VerifyDownload \/ StopApp \/ DropDatabase \/ PgRestore
  \/ StartApp \/ SmokeTest \/ RestoreFails
  \/ DrillStart \/ DrillRestores \/ DrillSucceeds \/ DrillFails
  \/ Killed

-----------------------------------------------------------------------------
\* What the success of a backup stands for: an object that its own run stored,
\* of the size of its dump.  The dump is whole, or a partial object that was
\* stored before it had been restored.
BackedUp(id, key) ==
  /\ store[key].by = id /\ store[key].bytes # "short"
  /\ store[key].dump.data.whole
     \/ \E k \in DOMAIN store : k < key /\ ~store[k].dump.data.whole

\* A success is recorded only of a stored object.  A backup that ran into a
\* restore of the site dumps a partial database, but its row was dropped with
\* it and no dump brings it back.  The object of a restore or a drill has the
\* bytes that were dumped.  This holds for every row, also after a restore has
\* put older rows back and when the run before was killed.
SuccessMeansStored ==
  \A i \in DOMAIN events :
    events[i].status = "success" =>
      /\ events[i].key \in DOMAIN store
      /\ IF events[i].type = "postgres_backup"
         THEN BackedUp(i, events[i].key)
         ELSE store[events[i].key].bytes = "intact"

\* Every stored dump is of a whole database: of what may run at the same time
\* the guide says "`flock` on `/var/lock/doe-backup.lock`"
\* (docs/deployment/vps-guide.md:768), as if one lock kept all scripts apart.
BackupsAreWhole == \A k \in DOMAIN store : store[k].dump.data.whole

\* While the app serves, it serves a whole database, unless a partial one has
\* been stored: neither a drill nor a restore that fails or is killed half-way
\* leaves the site on an empty or half-loaded one.
WholeWhileServed == app = "up" => data.whole \/ ~BackupsAreWhole
=============================================================================
