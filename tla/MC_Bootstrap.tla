---------------------------- MODULE MC_Bootstrap ----------------------------
(* Instances of Bootstrap for TLC: the constants the .cfg files bind.      *)
EXTENDS Bootstrap

CONSTANTS s1, s2, s3, s4, f1, f2, f3, f4

\* Two enabled controller scripts, a disabled one, and a login script.
CtlScripts == {s1, s2, s3, s4}
CtlScriptCat == [s \in CtlScripts |-> IF s = s4 THEN "login.d" ELSE "controller.d"]
CtlDisabled == {s3}

\* One script in compute.d and one in nodeset.d.
CmpScripts == {s1, s2}
CmpScriptCat == [s \in CmpScripts |-> IF s = s1 THEN "compute.d" ELSE "nodeset.d"]

\* The compute scripts and a login.d script, for the runs over every role.
RoleScripts == {s1, s2, s3}
RoleScriptCat == [s \in RoleScripts |-> CASE s = s1 -> "compute.d"
                                          [] s = s2 -> "nodeset.d"
                                          [] OTHER  -> "login.d"]

NoScripts == {}
NoScriptCat == [s \in {} |-> "controller.d"]

Timeouts(c, m, l) == [k \in TimeoutKeys |-> CASE k = "controller" -> c
                                              [] k = "compute" -> m
                                              [] OTHER -> l]

Cfg(r, disk, sql, hyb, t) ==
    [role |-> r, stateDisk |-> disk, cloudsql |-> sql, hybrid |-> hyb, timeout |-> t]

CtlConfigs ==
    {Cfg("controller", disk, sql, FALSE, Timeouts(Unset, Unset, Unset)) :
        disk \in BOOLEAN, sql \in BOOLEAN}
CtlDiskConfigs == {Cfg("controller", TRUE, TRUE, FALSE, Timeouts(Unset, Unset, Unset))}
CtlNoDiskConfigs == {Cfg("controller", FALSE, TRUE, FALSE, Timeouts(Unset, Unset, Unset))}

CmpHybridConfigs == {Cfg("compute", FALSE, FALSE, TRUE, Timeouts(Unset, 60, Unset))}

\* Every role, compute with and without the hybrid flag, and a timeout of 0
\* (no timeout) for the compute scripts.
AllRoleConfigs ==
    {Cfg("login", FALSE, FALSE, FALSE, Timeouts(Unset, Unset, 20)),
     Cfg("unknown", FALSE, FALSE, FALSE, Timeouts(Unset, Unset, Unset)),
     Cfg("compute", FALSE, FALSE, FALSE, Timeouts(Unset, 0, Unset)),
     Cfg("compute", FALSE, FALSE, TRUE, Timeouts(Unset, -1, Unset))}

\* Files below each directory the migration walks: one of slurm's per
\* directory, and a third party's file in the home and in /slurm.
MigFiles == {f1, f2, f3, f4}
MigFileDir == [f \in MigFiles |-> CASE f = f1 -> 1 [] f = f2 -> 2 [] f = f3 -> 3 [] OTHER -> 4]
MigInitOwner == [f \in MigFiles |-> [uid |-> OldId, gid |-> OldId]]
MixedInitOwner ==
    [f \in MigFiles |-> IF f \in {f1, f4} THEN [uid |-> OtherId, gid |-> OldId]
                                         ELSE [uid |-> OldId, gid |-> OldId]]
NoFiles == {}
NoFileDir == [f \in {} |-> 1]
NoInitOwner == [f \in {} |-> [uid |-> OldId, gid |-> OldId]]
=============================================================================
