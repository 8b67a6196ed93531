----------------------------- MODULE Operations -----------------------------
(***************************************************************************)
(* The operation of a host.  With the single service "app" the database    *)
(* scripts run, which call into its container; the blue-green script asks   *)
(* for that service to be gone.  A behaviour is that of one kind of host.   *)
(***************************************************************************)
EXTENDS BlueGreen, Backups

OperationsInit ==
  /\ app \in {"up", "gone"}
  /\ BlueGreenInit
  /\ BackupsInit
  /\ app = "up" => db.rev = Newest

OnSingleService == app # "gone" /\ BackupsNext /\ UNCHANGED blueGreenVars
OnBlueGreen == app = "gone" /\ BlueGreenNext /\ UNCHANGED backupVars

OperationsSpec ==
  OperationsInit /\ [][OnSingleService \/ OnBlueGreen]_<<app, db, blueGreenVars, backupVars>>

\* The scripts, the containers and the database stay within their states.
OperationsTypeOK == BlueGreenTypeOK /\ BackupsTypeOK

=============================================================================
