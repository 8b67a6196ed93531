----------------------------- MODULE BlueGreen ------------------------------
(***************************************************************************)
(* scripts/deploy-blue-green.sh: the two containers, the state file, Caddy  *)
(* and the steps of deploys and of a rollback, any of which may fail or be  *)
(* cut short.  The script takes no lock: several may run at once.  The      *)
(* migrations run against the database that the container which still       *)
(* serves is using.                                                         *)
(***************************************************************************)
EXTENDS Migrations

\* Releases: newest revisions of the images that are built.
\* Deploys: the deploys that may run at once.
\* Careful: the operator starts neither script before the files that a script
\* cut short left behind are repaired, and rolls back only to a colour that is
\* healthy and whose migrations have run.
\* DeployDuring, RollbackDuring: the points of the scripts that run at which a
\* deploy, or a rollback, is started all the same; none when scripts never overlap.
CONSTANTS Releases, Deploys, Careful, DeployDuring, RollbackDuring

Points == {"started", "starting", "healthy", "migrated", "written", "reloaded", "draining"}

ASSUME ReleasesAssumption == Releases \subseteq 1..Newest
ASSUME OperatorAssumption ==
  /\ Careful \in BOOLEAN
  /\ {DeployDuring, RollbackDuring} \subseteq SUBSET (Points \cup {"rollback"})

\* color: the container of each colour and the release of its image.
\* active: the state file.  snippet: the upstream in Caddy's file.  upstream:
\* the one that Caddy has loaded.  deploy, rollback: the running scripts.
\* window: both colours are down for maintenance.
VARIABLES color, active, snippet, upstream, deploy, rollback, window
blueGreenVars == <<color, active, snippet, upstream, deploy, rollback, window>>

Colors == {"blue", "green"}
other_color(c) == IF c = "blue" THEN "green" ELSE "blue"

NoScript == [pc |-> "idle", from |-> "blue", to |-> "blue"]
DeployPoints == {"idle"} \cup Points

BlueGreenTypeOK ==
  /\ color \in [Colors -> [state : {"stopped", "starting", "healthy"}, release : Releases]]
  /\ {active, snippet, upstream} \subseteq Colors
  /\ deploy \in [Deploys -> [pc : DeployPoints, from : Colors, to : Colors]]
  /\ rollback \in [pc : {"idle", "started", "written", "reloaded"}, from : Colors, to : Colors]
  /\ window \in BOOLEAN

\* Blue serves, as the script assumes when there is no state file yet.
BlueGreenInit ==
  /\ \E r \in Releases :
       /\ db = SchemaAt[r]
       /\ color = [c \in Colors |->
            [state |-> IF c = "blue" THEN "healthy" ELSE "stopped", release |-> r]]
  /\ active = "blue" /\ snippet = "blue" /\ upstream = "blue"
  /\ deploy = [d \in Deploys |-> NoScript] /\ rollback = NoScript
  /\ window = FALSE

Advance(script, pc) == [script EXCEPT !.pc = pc]
Running == {d \in Deploys : deploy[d].pc # "idle"}
NoneRuns == Running = {} /\ rollback.pc = "idle"
MayStart(during) ==
  /\ \A d \in Running : deploy[d].pc \in during
  /\ rollback.pc = "idle" \/ "rollback" \in during

\* What a look at the state file and at Caddy's file tells the operator.
FilesAgree == active = upstream /\ snippet = upstream

-----------------------------------------------------------------------------
\* The state file is read once, at the start.
StartDeploy(d) ==
  /\ deploy[d].pc = "idle" /\ ~window
  /\ app = "gone"
  /\ MayStart(DeployDuring)
  /\ Careful => FilesAgree
  /\ deploy' = [deploy EXCEPT ![d] =
       [pc |-> "started", from |-> active, to |-> other_color(active)]]
  /\ UNCHANGED <<app, db, color, active, snippet, upstream, rollback, window>>

\* build, unless --skip-build reuses the image, and up: a container that runs
\* is recreated when its image is new.
StartNext(d) ==
  /\ deploy[d].pc = "started"
  /\ \E r \in Releases :
       /\ ExpandOnly(r, db.rev) /\ ExpandOnly(db.rev, r)
       /\ color' = [color EXCEPT ![deploy[d].to] =
            IF @.state # "stopped" /\ @.release = r THEN @
            ELSE [state |-> "starting", release |-> r]]
  /\ deploy' = [deploy EXCEPT ![d] = Advance(@, "starting")]
  /\ UNCHANGED <<app, db, active, snippet, upstream, rollback, window>>

\* The health endpoint does not touch the database.
wait_healthy(d) ==
  /\ deploy[d].pc = "starting"
  /\ color[deploy[d].to].state # "stopped"
  /\ color' = [color EXCEPT ![deploy[d].to].state = "healthy"]
  /\ deploy' = [deploy EXCEPT ![d] = Advance(@, "healthy")]
  /\ UNCHANGED <<app, db, active, snippet, upstream, rollback, window>>

\* One transaction, in a container that runs.  alembic knows no revision that is
\* newer than its image, and exits.
Migrate(d) ==
  /\ deploy[d].pc = "healthy"
  /\ color[deploy[d].to].state # "stopped"
  /\ IF db.rev <= color[deploy[d].to].release
     THEN /\ db' = UpgradeHead(db, color[deploy[d].to].release)
          /\ deploy' = [deploy EXCEPT ![d] = Advance(@, "migrated")]
     ELSE /\ deploy' = [deploy EXCEPT ![d] = NoScript]
          /\ UNCHANGED db
  /\ UNCHANGED <<app, color, active, snippet, upstream, rollback, window>>

write_caddy_snippet(d) ==
  /\ deploy[d].pc = "migrated"
  /\ snippet' = deploy[d].to
  /\ deploy' = [deploy EXCEPT ![d] = Advance(@, "written")]
  /\ UNCHANGED <<app, db, color, active, upstream, rollback, window>>

reload_caddy(d) ==
  /\ deploy[d].pc = "written"
  /\ upstream' = snippet
  /\ deploy' = [deploy EXCEPT ![d] = Advance(@, "reloaded")]
  /\ UNCHANGED <<app, db, color, active, snippet, rollback, window>>

write_active_color(d) ==
  /\ deploy[d].pc = "reloaded"
  /\ active' = deploy[d].to
  /\ deploy' = [deploy EXCEPT ![d] = Advance(@, "draining")]
  /\ UNCHANGED <<app, db, color, snippet, upstream, rollback, window>>

\* After the drain: the colour that was active when the script began.
StopPrevious(d) ==
  /\ deploy[d].pc = "draining"
  /\ color' = [color EXCEPT ![deploy[d].from].state = "stopped"]
  /\ deploy' = [deploy EXCEPT ![d] = NoScript]
  /\ UNCHANGED <<app, db, active, snippet, upstream, rollback, window>>

\* A step fails, the operator interrupts the script, or --drain-seconds=0
\* leaves the previous colour running.
DeployEnds(d) ==
  /\ deploy[d].pc # "idle"
  /\ deploy' = [deploy EXCEPT ![d] = NoScript]
  /\ UNCHANGED <<app, db, color, active, snippet, upstream, rollback, window>>

-----------------------------------------------------------------------------
\* --rollback takes for granted that the other colour still runs: whether it
\* does is for the operator to see.
Rollback ==
  /\ rollback.pc = "idle" /\ ~window
  /\ MayStart(RollbackDuring)
  /\ Careful => /\ FilesAgree
                /\ color[other_color(active)].state = "healthy"
                /\ color[other_color(active)].release <= db.rev
  /\ ExpandOnly(color[other_color(active)].release, db.rev)
  /\ rollback' = [pc |-> "started", from |-> active, to |-> other_color(active)]
  /\ UNCHANGED <<app, db, color, active, snippet, upstream, deploy, window>>

RollbackStep ==
  /\ \/ /\ rollback.pc = "started"
        /\ snippet' = rollback.to
        /\ rollback' = Advance(rollback, "written")
        /\ UNCHANGED <<active, upstream>>
     \/ /\ rollback.pc = "written"
        /\ upstream' = snippet
        /\ rollback' = Advance(rollback, "reloaded")
        /\ UNCHANGED <<active, snippet>>
     \/ /\ rollback.pc = "reloaded"
        /\ active' = rollback.to
        /\ rollback' = NoScript
        /\ UNCHANGED <<snippet, upstream>>
  /\ UNCHANGED <<app, db, color, deploy, window>>

\* The operator starts the previous colour again before rolling back.
StartAgain ==
  /\ Running = {} /\ ~window
  /\ \E c \in Colors :
       /\ color[c].state = "stopped" /\ c # upstream
       /\ ExpandOnly(color[c].release, db.rev)
       /\ color' = [color EXCEPT ![c].state = "healthy"]
  /\ UNCHANGED <<app, db, active, snippet, upstream, deploy, rollback, window>>

\* The host restarts: the running scripts are gone, Caddy reads its file and
\* Docker starts the containers that were not stopped.
HostRestarts ==
  /\ app = "gone" /\ ~window
  /\ upstream' = snippet
  /\ deploy' = [d \in Deploys |-> NoScript]
  /\ rollback' = NoScript
  /\ UNCHANGED <<app, db, color, active, snippet, window>>

\* By hand, after a script that was cut short.
RepairFiles ==
  /\ NoneRuns /\ ~FilesAgree
  /\ active' = upstream
  /\ snippet' = upstream
  /\ UNCHANGED <<app, db, color, upstream, deploy, rollback, window>>

-----------------------------------------------------------------------------
\* Revisions that are not blue-green safe, and downgrades, run by hand while
\* both colours are down.
OpenWindow ==
  /\ NoneRuns /\ ~window
  /\ FilesAgree /\ app = "gone"
  /\ window' = TRUE
  /\ color' = [c \in Colors |-> [color[c] EXCEPT !.state = "stopped"]]
  /\ UNCHANGED <<app, db, active, snippet, upstream, deploy, rollback>>

UpgradeByHand ==
  /\ window /\ db.rev < Newest
  /\ db' = UpOne(db)
  /\ UNCHANGED <<app, blueGreenVars>>

DowngradeByHand ==
  /\ window /\ db.rev > 0
  /\ db' = DownOne(db)
  /\ UNCHANGED <<app, blueGreenVars>>

CloseWindow ==
  /\ window /\ db.rev \in Releases
  /\ window' = FALSE
  /\ color' = [color EXCEPT ![upstream] = [state |-> "healthy", release |-> db.rev]]
  /\ UNCHANGED <<app, db, active, snippet, upstream, deploy, rollback>>

DeployStep(d) ==
  \/ StartDeploy(d) \/ StartNext(d) \/ wait_healthy(d) \/ Migrate(d)
  \/ write_caddy_snippet(d) \/ reload_caddy(d) \/ write_active_color(d)
  \/ StopPrevious(d) \/ DeployEnds(d)

BlueGreenNext ==
  \/ \E d \in Deploys : DeployStep(d)
  \/ Rollback \/ RollbackStep
  \/ StartAgain \/ HostRestarts \/ RepairFiles
  \/ OpenWindow \/ UpgradeByHand \/ DowngradeByHand \/ CloseWindow

-----------------------------------------------------------------------------
\* On a blue-green host and outside a maintenance window Caddy's upstream is
\* a container that answers, and its code finds the columns it maps and may
\* leave out the others: through deploys that fail, migrations under the colour
\* that still serves, drains, rollbacks and restarts of the host.  It takes an
\* operator who is careful, and scripts that do not overlap.
TrafficIsServed ==
  app = "gone" /\ ~window =>
    /\ color[upstream].state = "healthy"
    /\ Works(color[upstream].release, db)

\* Whichever revisions were run up and down before, a revision of alembic
\* stands for one schema: every downgrade undoes its upgrade.
DowngradeRestores == db.tables = SchemaAt[db.rev].tables

=============================================================================
