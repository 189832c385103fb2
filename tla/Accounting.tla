----------------------------- MODULE Accounting -----------------------------
(***************************************************************************)
(* The accounting part of setup_controller: configure_mysql (unless the    *)
(* database is Cloud SQL), enable and restart slurmdbd, sleep 5 s, then    *)
(* `sacctmgr -i add cluster`, across crashes and reboots.  The database's  *)
(* users and grants and the cluster registry survive a reboot; slurmdbd    *)
(* is a separate process that comes up (or gives up) on its own schedule,  *)
(* at any point relative to the script's fixed sleep.                      *)
(***************************************************************************)
EXTENDS Naturals

CONSTANTS
    CloudSql,  \* cfg.cloudsql_secret is set: the database is managed elsewhere
    MaxBoots   \* boots (runs of the script) explored

\* What the constants are meant to be; the theorems of AccountingProofs take
\* it as their hypothesis.
AccountingAssumption == CloudSql \in BOOLEAN /\ MaxBoots \in Nat \ {0}

\* The hosts slurm's database user is created for, in the code's order.
Hosts == <<"localhost", "control_host">>

HostSet == {Hosts[1], Hosts[2]}

VARIABLES
    pc,        \* the step of the run
    host,      \* the index in Hosts of the user configure_mysql is at
    error,     \* why the run raised: "timeout", "exists" (MariaDB 1396), or "none"
    users,     \* hosts slurm has a database user for: persistent
    grants,    \* hosts whose slurm user holds the grant on slurm_acct_db: persistent
    dbd,       \* slurmdbd: "down", "starting" or "up"
    enabled,   \* slurmdbd is enabled at boot: persistent
    clusters,  \* the cluster is registered in the accounting database: persistent
    boots

avars == <<pc, host, error, users, grants, dbd, enabled, clusters, boots>>

Labels == {"boot", "mariadb", "drop", "create", "grant", "dbd", "register", "done", "failed"}

AccountingTypeOK ==
    /\ pc \in Labels /\ host \in 1..2
    /\ error \in {"none", "timeout", "exists"}
    /\ users \in SUBSET HostSet /\ grants \in SUBSET HostSet
    /\ dbd \in {"down", "starting", "up"} /\ enabled \in BOOLEAN
    /\ clusters \in BOOLEAN
    /\ boots \in 0..MaxBoots

Raise(e) == pc' = "failed" /\ error' = e

AccountingInit ==
    /\ pc = "boot" /\ host = 1 /\ error = "none"
    /\ users = {} /\ grants = {} /\ dbd = "down" /\ enabled = FALSE
    /\ clusters = FALSE /\ boots = 0

\* The node boots and the run reaches the accounting steps (configure_mysql
\* unless cloudsql_secret); slurmdbd, once enabled by an earlier run, is
\* started by systemd at boot.
Boot ==
    /\ pc = "boot" /\ boots < MaxBoots
    /\ boots' = boots + 1 /\ host' = 1 /\ error' = "none"
    /\ pc' = IF CloudSql THEN "dbd" ELSE "mariadb"
    /\ dbd' = IF enabled THEN "starting" ELSE "down"
    /\ UNCHANGED <<users, grants, enabled, clusters>>

\* The VM is reset wherever the run is.
Reboot ==
    /\ pc # "boot" /\ boots < MaxBoots
    /\ pc' = "boot" /\ dbd' = "down"
    /\ UNCHANGED <<host, error, users, grants, enabled, clusters, boots>>

\* mysql_slurm.cnf written if absent; enable and restart mariadb (timeout=30).
Mariadb ==
    /\ pc = "mariadb"
    /\ \/ pc' = "drop" /\ UNCHANGED error
       \/ Raise("timeout")
    /\ UNCHANGED <<host, users, grants, dbd, enabled, clusters, boots>>

\* `drop user` (check=False): removes the user and its grants; its failure
\* for a user that does not exist is ignored.
Drop(h) ==
    /\ pc = "drop" /\ h = Hosts[host]
    /\ users' = users \ {h} /\ grants' = grants \ {h}
    /\ pc' = "create" /\ UNCHANGED error
    /\ UNCHANGED <<host, dbd, enabled, clusters, boots>>

\* `create user` (checked, timeout=30): MariaDB refuses an existing user
\* (error 1396), which raises.
Create(h) ==
    /\ pc = "create" /\ h = Hosts[host]
    /\ \/ h \notin users /\ users' = users \cup {h} /\ pc' = "grant"
          /\ UNCHANGED error
       \/ h \in users /\ Raise("exists") /\ UNCHANGED users
       \/ Raise("timeout") /\ UNCHANGED users
    /\ UNCHANGED <<host, grants, dbd, enabled, clusters, boots>>

\* `grant all on slurm_acct_db.*` (checked, timeout=30); then the same three
\* commands for the control host, or slurmdbd after it.
Grant(h) ==
    /\ pc = "grant" /\ h = Hosts[host]
    /\ \/ /\ grants' = grants \cup {h} /\ UNCHANGED error
          /\ IF host = 1 THEN pc' = "drop" /\ host' = 2 ELSE pc' = "dbd" /\ UNCHANGED host
       \/ Raise("timeout") /\ UNCHANGED <<host, grants>>
    /\ UNCHANGED <<users, dbd, enabled, clusters, boots>>

\* `systemctl enable slurmdbd`, `systemctl restart slurmdbd` (timeout=30),
\* which returns once the daemon is started, not once it serves requests;
\* then time.sleep(5).
RestartDbd ==
    /\ pc = "dbd"
    /\ \/ enabled' = TRUE /\ dbd' = "starting" /\ pc' = "register" /\ UNCHANGED error
       \/ enabled' = TRUE /\ Raise("timeout") /\ UNCHANGED dbd
       \/ Raise("timeout") /\ UNCHANGED <<dbd, enabled>>
    /\ UNCHANGED <<host, users, grants, clusters, boots>>

\* slurmdbd connects to the database and serves requests, or exits.
DbdReady ==
    /\ dbd = "starting"
    /\ dbd' \in {"up", "down"}
    /\ UNCHANGED <<pc, host, error, users, grants, enabled, clusters, boots>>

\* `sacctmgr -i add cluster` (check=False, timeout=30): with slurmdbd up it
\* adds the cluster (rc 0) or reports "already exists"; with slurmdbd not
\* (yet) serving it cannot talk to the database and exits with rc 1, which
\* `elif result.returncode > 1` lets through.  Then the rest of the setup.
RegisterCluster ==
    /\ pc = "register"
    /\ \/ dbd = "up" /\ clusters' = TRUE /\ pc' = "done" /\ UNCHANGED error
       \/ dbd # "up" /\ pc' = "done" /\ UNCHANGED <<error, clusters>>
       \/ Raise("timeout") /\ UNCHANGED clusters
    /\ UNCHANGED <<host, users, grants, dbd, enabled, boots>>

AccountingNext ==
    \/ Boot \/ Reboot \/ Mariadb \/ RestartDbd \/ DbdReady \/ RegisterCluster
    \/ \E h \in HostSet : Drop(h) \/ Create(h) \/ Grant(h)

AccountingSpec == AccountingInit /\ [][AccountingNext]_avars

-----------------------------------------------------------------------------
(* Properties.                                                             *)

\* Spec section 5: a crashed or failed run converges on retry.  A crash at
\* any point of configure_mysql (between a drop and its create, a create
\* and its grant) never makes a later run's `create user` fail: each create
\* is preceded by the drop of the same user.
MysqlRerunSafe == error # "exists"

(* A statement of the spec that the code does not keep (a run expects a   *)
(* violation).                                                            *)

\* Spec section 4.4: cluster registration either succeeds ("already
\* exists" included) or escalates; so a controller whose setup went past
\* registration has its cluster in the accounting database.
ClusterRegisteredAfterSetup == pc = "done" => clusters

=============================================================================
