----------------------------- MODULE MCDatabaseWork -----------------------------
(***************************************************************************)
(* What a worker keeps on the database, in one run: the lease of its task, *)
(* which a heartbeat renews, and the connection it runs statements on.     *)
(* They share nothing, so each behaviour is about one of them.             *)
(***************************************************************************)
EXTENDS LeaseHeartbeat, ObservedConn

VARIABLE subject

\* Connections with ConnBeginTx or without an initializer.
ContextDrivers == {d \in Driver : d.beginTx \/ ~d.initializer}

\* The one that is not the subject stands still in one of its initial states.
WorkInit ==
  /\ subject \in {"lease", "connection"}
  /\ LeaseInit /\ Init
  /\ subject # "lease" => row.owner = CHOOSE w \in Worker : TRUE
  /\ subject # "connection" => driver = CHOOSE d \in Drivers : TRUE

WorkNext ==
  /\ UNCHANGED subject
  /\ IF subject = "lease" THEN LeaseNext ELSE UNCHANGED leaseVars
  /\ IF subject = "connection" THEN Next ELSE UNCHANGED vars

WorkSpec ==
  WorkInit /\ [][WorkNext]_<<subject, leaseVars, vars>> /\ LeaseFairness
=============================================================================
