------------------------------ MODULE Bootstrap ------------------------------
(***************************************************************************)
(* The node bootstrap of setup.py (slurm_files/scripts): one run of the    *)
(* startup script per boot, as a sequential program with a program         *)
(* counter.  A run writes the "being configured" banner, blocks until the  *)
(* configuration can be fetched, reconciles the directories and symlinks,  *)
(* dispatches on the node's role, runs the operator's hook scripts and     *)
(* writes the "complete" banner; any exception unwinds to the top-level    *)
(* handler of __main__.  A reboot (a crash, or the next boot of a finished *)
(* node) kills the run: the host's files (banner, fstab, keys, ownership,  *)
(* identity table) survive it, the process's locals do not.                *)
(*                                                                         *)
(* External commands are abstracted to their outcome: success, a timeout   *)
(* (TimeoutExpired, only for a call given a timeout), a non-zero exit of a *)
(* checked call (CalledProcessError, "cpe"), or any other exception        *)
(* ("other").  util.run checks the return code unless called with          *)
(* check=False; util is not part of src/, its behaviour is the one spec    *)
(* section 7 gives it.                                                     *)
(***************************************************************************)
EXTENDS Integers, Sequences, FiniteSets

CONSTANTS
    Modes,        \* command lines the node may be booted with
    Configs,      \* configurations the store may hold for the node
    Scripts,      \* hook scripts present under dirs.custom_scripts
    ScriptCat,    \* the category directory each script lies in
    Disabled,     \* the scripts whose name ends with ".disabled"
    Unset,        \* a timeout key absent from config.yaml
    OldId, NewId, OtherId,  \* slurm's original id, the hybrid_conf id, a third party's
    Files,        \* files below the directories the uid/gid migration walks
    FileDir,      \* the directory each of them lies below
    InitOwner,    \* their owner when the node first boots
    InitLinks,    \* the states the three symlink paths may have in the image
    MaxBoots,     \* number of boots (runs of the script) explored
    MaxRetries    \* config fetches that may fail in one run

RoleNames == {"controller", "compute", "login", "unknown"}
CategoryDirs == {"controller.d", "compute.d", "nodeset.d", "login.d"}
TimeoutKeys == {"controller", "compute", "login"}
Ids == {OldId, NewId, OtherId}
LinkStates == {"absent", "ours", "stale", "dangling", "occupied"}

ConfigType ==
    [role: RoleNames, stateDisk: BOOLEAN, cloudsql: BOOLEAN, hybrid: BOOLEAN,
     timeout: [TimeoutKeys -> Int \cup {Unset}]]

ASSUME ConstantsAssumption ==
    /\ Modes \subseteq {"main", "hybrid_bucket", "hybrid_nobucket"} /\ Modes # {}
    /\ Configs \subseteq ConfigType /\ Configs # {}
    /\ IsFiniteSet(Scripts)   \* the files of a directory tree
    /\ ScriptCat \in [Scripts -> CategoryDirs] /\ Disabled \subseteq Scripts
    /\ Unset \notin Int
    /\ OldId # NewId          \* hybrid_conf gives slurm ids other than the image's
    /\ FileDir \in [Files -> {1, 2, 3, 4}]
    /\ InitOwner \in [Files -> [uid: {OldId, OtherId}, gid: {OldId, OtherId}]]
    /\ InitLinks \subseteq LinkStates /\ InitLinks # {}
    /\ MaxBoots \in Nat \ {0} /\ MaxRetries \in Nat

Labels ==
    {"boot", "start_motd", "get_config", "cloud_ops", "configure_dirs",
     "dispatch", "ctl_prepare", "state_disk", "munge_disk", "jwt", "jwt_dd",
     "munge_key", "munge_dd", "ctl_storage", "ctl_scripts", "mysql", "dbd",
     "register", "ctl_services", "groupmod", "usermod", "chown",
     "cmp_prepare", "cmp_scripts", "cmp_services", "login_prepare",
     "login_services", "login_scripts", "login_status", "scripts",
     "hyb_genconf", "end_motd", "handler", "exited", "hung"}

Exceptions == {"timeout", "cpe", "other"}

VARIABLES
    \* the process: lost at every reboot
    pc, exc, raisedAt, hybridSetup, retries, queue, ran, ret, mig,
    \* how the node is booted and what the store holds: fixed for the node
    mode, cfg,
    \* the host: survives reboots
    motd, storeReady, fstab, links, jwt, munge, ids, owner, boots

procVars == <<pc, exc, raisedAt, hybridSetup, retries, queue, ran, ret, mig>>
hostVars == <<motd, storeReady, fstab, links, jwt, munge, ids, owner, boots>>
vars == <<procVars, mode, cfg, hostVars>>

Line == [entry: {"state", "munge", "foreign"}, tail: {"bare", "nl", "defaults", "bind"}]
KeyStates == {"absent", "empty", "full"}
Owner == [uid: Ids, gid: Ids]
ScriptResults == {"ok", "nonzero", "timeout", "hang"}

TypeOK ==
    /\ pc \in Labels
    /\ exc \in Exceptions \cup {"none"}
    /\ raisedAt \in Labels \cup {"none"}
    /\ hybridSetup \in BOOLEAN
    /\ retries \in 0..MaxRetries
    /\ queue \in SUBSET Scripts
    /\ ran \in Seq([script: Scripts, result: ScriptResults])
    /\ ret \in Labels
    /\ mig \in [curUid: Ids, curGid: Ids, need: BOOLEAN, dir: 0..4]
    /\ mode \in Modes
    /\ cfg \in Configs
    /\ motd \in {"none", "pending", "complete", "failed"}
    /\ storeReady \in BOOLEAN
    /\ fstab \in Seq(Line)
    /\ links \in [1..3 -> LinkStates]   \* /etc/slurm, scripts/etc, scripts/log
    /\ jwt \in KeyStates /\ munge \in KeyStates
    /\ ids \in Owner
    /\ owner \in [Files -> Owner]
    /\ boots \in 0..MaxBoots

-----------------------------------------------------------------------------
(* Control flow helpers.                                                   *)

Goto(l) == pc' = l /\ UNCHANGED <<exc, raisedAt>>

\* An exception propagates, uncaught, to the handler of __main__.
Raise(e) == pc' = "handler" /\ exc' = e /\ raisedAt' = pc

\* A block of calls whose only effect the model keeps is that they may raise.
Call(from, raises, to) ==
    /\ pc = from
    /\ Goto(to) \/ \E e \in raises : Raise(e)
    /\ UNCHANGED <<hybridSetup, retries, queue, ran, ret, mig, mode, cfg, hostVars>>

\* The exact-line test `fstab_entry not in f.readlines()`: a line read back
\* carries its newline and options, the constructed entry neither.
FstabHas(e) == \E i \in 1..Len(fstab) : fstab[i] = [entry |-> e, tail |-> "bare"]

AppendFstab(e, t) ==
    IF FstabHas(e) THEN fstab ELSE Append(fstab, [entry |-> e, tail |-> t])

\* _my_chown: change the uid (gid) if no guard is given or the guard matches.
MyChown(o, uid, gid, pu, pg) ==
    [uid |-> IF pu = "unguarded" \/ o.uid = pu THEN uid ELSE o.uid,
     gid |-> IF pg = "unguarded" \/ o.gid = pg THEN gid ELSE o.gid]

\* Mutant: nodeset.d forgotten for a compute node.
RoleDirsNoNodeset(r) ==
    CASE r = "controller" -> {"controller.d"}
      [] r = "compute"    -> {"compute.d"}
      [] r = "login"      -> {"login.d"}
      [] OTHER            -> {}

\* The script directories run_custom_scripts scans for a role.
RoleDirs(r) ==
    CASE r = "controller" -> {"controller.d"}
      [] r = "compute"    -> {"compute.d", "nodeset.d"}
      [] r = "login"      -> {"login.d"}
      [] OTHER            -> {}

\* Mutant: the ".disabled" suffix not filtered.
SelectedWithDisabled == {s \in Scripts : ScriptCat[s] \in RoleDirs(cfg.role)}

Selected == {s \in Scripts : ScriptCat[s] \in RoleDirs(cfg.role) /\ s \notin Disabled}

\* The configuration key of a script's category, chosen by the directory
\* name in its path.
TimeoutKey(s) ==
    CASE ScriptCat[s] = "controller.d" -> "controller"
      [] ScriptCat[s] = "login.d"      -> "login"
      [] OTHER                         -> "compute"

\* The configured timeout of a script's category; 300 when the key is absent.
CatTimeout(s) ==
    LET t == cfg.timeout[TimeoutKey(s)] IN IF t = Unset THEN 300 ELSE t

\* `timeout = None if not timeout or timeout < 0`: only a positive value bounds the run.
TimeoutBounded(s) == CatTimeout(s) > 0

-----------------------------------------------------------------------------
(* The startup script, one action per step of setup.py.                    *)

Init ==
    /\ pc = "boot" /\ exc = "none" /\ raisedAt = "none" /\ hybridSetup = FALSE
    /\ retries = 0 /\ queue = {} /\ ran = <<>> /\ ret = "boot"
    /\ mig = [curUid |-> OldId, curGid |-> OldId, need |-> FALSE, dir |-> 1]
    /\ mode \in Modes /\ cfg \in Configs
    /\ motd = "none" /\ storeReady \in BOOLEAN /\ fstab = <<>>
    /\ links \in [1..3 -> InitLinks] /\ jwt = "absent" /\ munge = "absent"
    /\ ids = [uid |-> OldId, gid |-> OldId] /\ owner = InitOwner /\ boots = 0

\* The node boots and runs the script: `if args.hybrid: setup_hybrid(args.bucket)
\* else: main()`.  Every local of the previous run is gone.
Boot ==
    /\ pc = "boot" /\ boots < MaxBoots
    /\ boots' = boots + 1
    /\ pc' = IF mode = "main" THEN "start_motd" ELSE "get_config"
    /\ exc' = "none" /\ raisedAt' = "none" /\ hybridSetup' = FALSE /\ retries' = 0
    /\ queue' = {} /\ ran' = <<>> /\ ret' = "boot" /\ mig' = mig
    /\ UNCHANGED <<mode, cfg, motd, storeReady, fstab, links, jwt, munge, ids, owner>>

\* The VM is reset (or the finished node reboots): the run is killed wherever it is.
Reboot ==
    /\ pc # "boot" /\ boots < MaxBoots
    /\ pc' = "boot"
    /\ UNCHANGED <<exc, raisedAt, hybridSetup, retries, queue, ran, ret, mig, mode, cfg, hostVars>>

\* start_motd: write the "being configured" banner, then `wall` it (timeout=30).
StartMotd ==
    /\ pc = "start_motd"
    /\ motd' = "pending"
    /\ Goto("get_config") \/ \E e \in {"timeout", "cpe"} : Raise(e)
    /\ UNCHANGED <<hybridSetup, retries, queue, ran, ret, mig, mode, cfg,
                   storeReady, fstab, links, jwt, munge, ids, owner, boots>>

\* get_config: a fetch that fails (not ready, or anything unexpected) is logged
\* and retried after a sleep; the loop is left only by a successful fetch.
GetConfigRetry ==
    /\ pc = "get_config" /\ retries < MaxRetries
    /\ retries' = retries + 1
    /\ UNCHANGED <<pc, exc, raisedAt, hybridSetup, queue, ran, ret, mig, mode, cfg, hostVars>>

GetConfig ==
    /\ pc = "get_config" /\ storeReady
    /\ hybridSetup' = (mode = "hybrid_bucket")
    /\ Goto(IF mode = "main" THEN "cloud_ops" ELSE "hyb_genconf")
    /\ UNCHANGED <<retries, queue, ran, ret, mig, mode, cfg, hostVars>>

\* The controller uploads config.yaml to the store.
StoreReady ==
    /\ ~storeReady /\ storeReady' = TRUE
    /\ UNCHANGED <<procVars, mode, cfg, motd, fstab, links, jwt, munge, ids, owner, boots>>

\* setup_cloud_ops: edits the ops-agent config and restarts it when it is active.
SetupCloudOps == Call("cloud_ops", Exceptions, "configure_dirs")

\* setup_hybrid: after get_config(bucket), generate the config files and return.
SetupHybrid == Call("hyb_genconf", {"other"}, "exited")

\* configure_dirs: mkdirp/chown the directories, then for each symlink path in
\* order: unlink it if it exists() (follows the link) and is a symlink, then
\* symlink_to, which raises FileExistsError on whatever is still there.
LinkBlocked(i) == links[i] \in {"dangling", "occupied"}

\* Mutant: symlink_to's FileExistsError suppressed; the run goes on.
ConfigureDirsSuppressExists ==
    /\ pc = "configure_dirs"
    /\ \/ Raise("other") /\ UNCHANGED links
       \/ /\ links' = [i \in 1..3 |-> IF LinkBlocked(i) THEN links[i] ELSE "ours"]
          /\ Goto("dispatch") \/ Raise("other")
    /\ UNCHANGED <<hybridSetup, retries, queue, ran, ret, mig, mode, cfg,
                   motd, storeReady, fstab, jwt, munge, ids, owner, boots>>

ConfigureDirs ==
    /\ pc = "configure_dirs"
    /\ \/ Raise("other") /\ UNCHANGED links
       \/ /\ links' = [i \in 1..3 |-> IF \A j \in 1..i : ~LinkBlocked(j) THEN "ours" ELSE links[i]]
          /\ IF \E j \in 1..3 : LinkBlocked(j)
               THEN Raise("other")
               ELSE Goto("dispatch") \/ Raise("other")
    /\ UNCHANGED <<hybridSetup, retries, queue, ran, ret, mig, mode, cfg,
                   motd, storeReady, fstab, jwt, munge, ids, owner, boots>>

\* main: call setup_<role>, or log.fatal for an unknown role and carry on.
Dispatch ==
    /\ pc = "dispatch"
    /\ Goto(CASE cfg.role = "controller" -> "ctl_prepare"
              [] cfg.role = "compute"    -> IF cfg.hybrid THEN "groupmod" ELSE "cmp_prepare"
              [] cfg.role = "login"      -> "login_prepare"
              [] OTHER                   -> "end_motd")
    /\ UNCHANGED <<hybridSetup, retries, queue, ran, ret, mig, mode, cfg, hostVars>>

\* setup_controller, up to the state disk: chown config.yaml, install_custom_scripts,
\* gen_controller_configs.
CtlPrepare == Call("ctl_prepare", {"other"}, IF cfg.stateDisk THEN "state_disk" ELSE "jwt")

\* The state disk is listed in /etc/fstab, so systemd mounted it at boot
\* (fstab does not change between a boot and this step).
StateListed == \E i \in 1..Len(fstab) : fstab[i].entry = "state"

\* mount_save_state_disk: realpath, `file -s` and mkfs may fail before the fstab
\* is read; the entry is appended unless the exact line is found; daemon-reload
\* may fail; `mount <state dir>` is refused (exit 32) when the disk is mounted
\* there already, and may fail otherwise; chown_slurm may raise after it.
MountSaveStateDisk ==
    /\ pc = "state_disk"
    /\ \/ \E e \in {"cpe", "other"} : Raise(e) /\ UNCHANGED fstab
       \/ /\ fstab' = AppendFstab("state", "defaults")
          /\ IF StateListed
               THEN Raise("cpe")
               ELSE Goto("munge_disk") \/ \E e \in {"cpe", "other"} : Raise(e)
    /\ UNCHANGED <<hybridSetup, retries, queue, ran, ret, mig, mode, cfg,
                   motd, storeReady, links, jwt, munge, ids, owner, boots>>

\* mount_munge_key_disk: makedirs and `mount --bind` come before the fstab
\* check, daemon-reload after it.
MountMungeKeyDisk ==
    /\ pc = "munge_disk"
    /\ \/ \E e \in {"cpe", "other"} : Raise(e) /\ UNCHANGED fstab
       \/ /\ fstab' = AppendFstab("munge", "bind")
          /\ Goto("jwt") \/ Raise("cpe")
    /\ UNCHANGED <<hybridSetup, retries, queue, ran, ret, mig, mode, cfg,
                   motd, storeReady, links, jwt, munge, ids, owner, boots>>

\* Path.exists() of a key file: true as soon as the file is created.
KeyExists(k) == k # "absent"

\* setup_jwt_key: an existing key file is kept; otherwise the shell's `>`
\* creates the (empty) file before dd writes 32 random bytes into it.
SetupJwtKey ==
    /\ pc = "jwt"
    /\ \/ KeyExists(jwt) /\ UNCHANGED jwt /\ (Goto("munge_key") \/ Raise("other"))
       \/ ~KeyExists(jwt) /\ jwt' = "empty" /\ Goto("jwt_dd")
    /\ UNCHANGED <<hybridSetup, retries, queue, ran, ret, mig, mode, cfg,
                   motd, storeReady, fstab, links, munge, ids, owner, boots>>

\* ... dd fills the file, or fails and leaves it empty; then chown_slurm.
JwtDd ==
    /\ pc = "jwt_dd"
    /\ \/ Raise("cpe") /\ UNCHANGED jwt
       \/ jwt' = "full" /\ (Goto("munge_key") \/ Raise("other"))
    /\ UNCHANGED <<hybridSetup, retries, queue, ran, ret, mig, mode, cfg,
                   motd, storeReady, fstab, links, munge, ids, owner, boots>>

\* setup_munge_key: an existing key is kept; otherwise `dd of=` creates the
\* file before it copies the 1024 bytes; then chown, chmod and a restart of munge.
SetupMungeKey ==
    /\ pc = "munge_key"
    /\ \/ KeyExists(munge) /\ UNCHANGED munge
          /\ (Goto("ctl_storage") \/ \E e \in Exceptions : Raise(e))
       \/ ~KeyExists(munge) /\ munge' = "empty" /\ Goto("munge_dd")
    /\ UNCHANGED <<hybridSetup, retries, queue, ran, ret, mig, mode, cfg,
                   motd, storeReady, fstab, links, jwt, ids, owner, boots>>

MungeDd ==
    /\ pc = "munge_dd"
    /\ \/ Raise("cpe") /\ UNCHANGED munge
       \/ munge' = "full" /\ (Goto("ctl_storage") \/ \E e \in Exceptions : Raise(e))
    /\ UNCHANGED <<hybridSetup, retries, queue, ran, ret, mig, mode, cfg,
                   motd, storeReady, fstab, links, jwt, ids, owner, boots>>

\* setup_sudoers, setup_network_storage.
CtlStorage == Call("ctl_storage", Exceptions, "ctl_scripts")

\* configure_mysql, unless the accounting database is Cloud SQL.
ConfigureMysql == Call("mysql", IF cfg.cloudsql THEN {} ELSE Exceptions, "dbd")

\* enable and restart slurmdbd, sleep 5.
StartSlurmdbd == Call("dbd", {"timeout", "cpe"}, "register")

\* `sacctmgr -i add cluster` (check=False): "already exists" or a return code
\* of at most 1 is let through, a higher one raised by check_returncode.
RegisterCluster == Call("register", {"timeout", "cpe"}, "ctl_services")

\* slurmctld, slurmrestd, nfs-server, setup_nfs_exports, the timers, the status
\* checks, sync_slurm and setup_maintenance_script.
CtlServices == Call("ctl_services", Exceptions, "end_motd")

-----------------------------------------------------------------------------
(* run_custom_scripts, called by the three role procedures.                *)

AfterScripts(l) ==
    CASE l = "ctl_scripts" -> "mysql"
      [] l = "cmp_scripts" -> "cmp_services"
      [] OTHER             -> "login_status"

\* Discover the enabled scripts of the role's directories; rglob gives them
\* in an order the file system chooses, so the next one is any of the rest.
RunCustomScripts ==
    /\ pc \in {"ctl_scripts", "cmp_scripts", "login_scripts"}
    /\ queue' = Selected /\ ret' = AfterScripts(pc) /\ Goto("scripts")
    /\ UNCHANGED <<hybridSetup, retries, ran, mig, mode, cfg, hostVars>>

\* Mutant: a non-zero exit only logged.
NonZeroExitIgnored(s) ==
    ran' = Append(ran, [script |-> s, result |-> "nonzero"]) /\ Goto("scripts")

\* `result.check_returncode()` after a script exited non-zero.
NonZeroExit(s) ==
    ran' = Append(ran, [script |-> s, result |-> "nonzero"]) /\ Raise("cpe")

\* One script: run() itself may raise (an OSError when the shell cannot be
\* started) before any result is logged; otherwise the result is logged,
\* then check_returncode raises on a non-zero exit; with no timeout a script
\* that never ends blocks the run.
ExecuteScript(s) ==
    /\ pc = "scripts" /\ s \in queue
    /\ queue' = queue \ {s}
    /\ \/ ran' = ran /\ Raise("other")
       \/ ran' = Append(ran, [script |-> s, result |-> "ok"]) /\ Goto("scripts")
       \/ NonZeroExit(s)
       \/ /\ TimeoutBounded(s)
          /\ ran' = Append(ran, [script |-> s, result |-> "timeout"]) /\ Raise("timeout")
       \/ /\ ~TimeoutBounded(s)
          /\ ran' = Append(ran, [script |-> s, result |-> "hang"]) /\ Goto("hung")
    /\ UNCHANGED <<hybridSetup, retries, ret, mig, mode, cfg, hostVars>>

RunScript == \E s \in queue : ExecuteScript(s)

ScriptsDone ==
    /\ pc = "scripts" /\ queue = {}
    /\ Goto(ret)
    /\ UNCHANGED <<hybridSetup, retries, queue, ran, ret, mig, mode, cfg, hostVars>>

-----------------------------------------------------------------------------
(* setup_compute and change_uid_gid_slurm; setup_login.                    *)

\* change_uid_gid_slurm, the group: remember the current gid; if it differs
\* from hybrid_conf's, `groupmod -g` (a failure raises: run is checked).
GroupMod ==
    /\ pc = "groupmod"
    /\ mig' = [mig EXCEPT !.curGid = ids.gid, !.need = (ids.gid # NewId)]
    /\ \/ ids.gid = NewId /\ UNCHANGED ids /\ Goto("usermod")
       \/ ids.gid # NewId /\ ids' = [ids EXCEPT !.gid = NewId] /\ Goto("usermod")
       \/ ids.gid # NewId /\ UNCHANGED ids /\ Raise("cpe")
    /\ UNCHANGED <<hybridSetup, retries, queue, ran, ret, mode, cfg,
                   motd, storeReady, fstab, links, jwt, munge, owner, boots>>

\* ... the user likewise with `usermod -u`; the ownership is migrated only if
\* one of the two ids differed.
UserMod ==
    /\ pc = "usermod"
    /\ LET need == mig.need \/ ids.uid # NewId
           next == IF need THEN "chown" ELSE "cmp_prepare"
       IN /\ mig' = [mig EXCEPT !.curUid = ids.uid, !.need = need, !.dir = 1]
          /\ \/ ids.uid = NewId /\ UNCHANGED ids /\ Goto(next)
             \/ ids.uid # NewId /\ ids' = [ids EXCEPT !.uid = NewId] /\ Goto(next)
             \/ ids.uid # NewId /\ UNCHANGED ids /\ Raise("cpe")
    /\ UNCHANGED <<hybridSetup, retries, queue, ran, ret, mode, cfg,
                   motd, storeReady, fstab, links, jwt, munge, owner, boots>>

\* Mutant: the index runs past the last root.
NextChownDirUncapped(d) == d + 1

\* Mutant: /slurm left out of the migration.
NextChownDirSkipLast(d) == IF d < 3 THEN d + 1 ELSE 0

\* The four recursive_chown calls in order: home, etc, the log directory,
\* /slurm; 0 once the last has run.
NextChownDir(d) == IF d < 4 THEN d + 1 ELSE 0

\* recursive_chown of the home (unguarded), then of etc, the log directory
\* and /slurm, each guarded by the ids slurm had before.  _my_chown stats and
\* chowns one path at a time along the walk: a missing root, or a path that
\* vanishes or cannot be chowned, raises with part of the tree done.
RecursiveChown ==
    /\ pc = "chown"
    /\ LET d == mig.dir
           pu == IF d = 1 THEN "unguarded" ELSE mig.curUid
           pg == IF d = 1 THEN "unguarded" ELSE mig.curGid
           tree == {f \in Files : FileDir[f] = d}
           Chowned(T) == [f \in Files |-> IF f \in T
                                            THEN MyChown(owner[f], NewId, NewId, pu, pg)
                                            ELSE owner[f]]
       IN \/ \E T \in SUBSET tree :
                owner' = Chowned(T) /\ Raise("other") /\ UNCHANGED mig
          \/ /\ owner' = Chowned(tree)
             /\ mig' = [mig EXCEPT !.dir = NextChownDir(d)]
             /\ Goto(IF NextChownDir(d) # 0 THEN "chown" ELSE "cmp_prepare")
    /\ UNCHANGED <<hybridSetup, retries, queue, ran, ret, mode, cfg,
                   motd, storeReady, fstab, links, jwt, munge, ids, boots>>

\* chown config.yaml, update_system_config("slurmd") (raises without a
\* sysconfig directory), install_custom_scripts, setup_nss_slurm,
\* setup_network_storage, the lspci probe.
CmpPrepare == Call("cmp_prepare", Exceptions, "cmp_scripts")

\* setup_sudoers, restart munge, enable and restart slurmd, the timer, status.
CmpServices == Call("cmp_services", Exceptions, "end_motd")

\* update_system_config("sackd"), install_custom_scripts.
LoginPrepare == Call("login_prepare", {"other"}, "login_services")

\* setup_network_storage, setup_sudoers, munge, sackd, the timer.
LoginServices == Call("login_services", Exceptions, "login_scripts")

\* the status checks of munge and sackd.
LoginStatus == Call("login_status", {"timeout", "cpe"}, "end_motd")

-----------------------------------------------------------------------------
(* The banner, and the handler of __main__.                                *)

\* end_motd: write the plain banner, then the "setup complete" wall (and,
\* off the controller, the /home note), each with timeout=30.
EndMotd ==
    /\ pc = "end_motd"
    /\ motd' = "complete"
    /\ Goto("exited") \/ \E e \in {"timeout", "cpe"} : Raise(e)
    /\ UNCHANGED <<hybridSetup, retries, queue, ran, ret, mig, mode, cfg,
                   storeReady, fstab, links, jwt, munge, ids, owner, boots>>

\* Mutant: the last clause, `except Exception`, only logging.
SignalledNoOther == {"timeout", "cpe"}

\* The exceptions whose except clause in __main__ calls failed_motd: all
\* three clauses do.
Signalled == {"timeout", "cpe", "other"}

\* Mutant: the config's hybrid flag tested instead of is_hybrid_setup.
FailedMotdCfgHybrid == IF cfg.hybrid THEN motd ELSE "failed"

\* failed_motd: the failure banner, except for a hybrid setup.
FailedMotd == IF hybridSetup THEN motd ELSE "failed"

\* TimeoutExpired, CalledProcessError and any other Exception are logged
\* and call failed_motd, which writes the failure banner unless
\* lookup().is_hybrid_setup; the process then ends (an exception of
\* failed_motd's own wall, after the banner is written, ends it too).
Handler ==
    /\ pc = "handler"
    /\ motd' = IF exc \in Signalled THEN FailedMotd ELSE motd
    /\ Goto("exited")
    /\ UNCHANGED <<hybridSetup, retries, queue, ran, ret, mig, mode, cfg,
                   storeReady, fstab, links, jwt, munge, ids, owner, boots>>

-----------------------------------------------------------------------------
Proc ==
    \/ Boot \/ StartMotd \/ GetConfigRetry \/ GetConfig \/ SetupCloudOps
    \/ SetupHybrid \/ ConfigureDirs \/ Dispatch
    \/ CtlPrepare \/ MountSaveStateDisk \/ MountMungeKeyDisk \/ SetupJwtKey
    \/ JwtDd \/ SetupMungeKey \/ MungeDd \/ CtlStorage \/ ConfigureMysql
    \/ StartSlurmdbd \/ RegisterCluster \/ CtlServices
    \/ RunCustomScripts \/ RunScript \/ ScriptsDone
    \/ GroupMod \/ UserMod \/ RecursiveChown \/ CmpPrepare \/ CmpServices
    \/ LoginPrepare \/ LoginServices \/ LoginStatus
    \/ EndMotd \/ Handler

Next == Proc \/ StoreReady \/ Reboot

Spec == Init /\ [][Next]_vars

-----------------------------------------------------------------------------
(* Properties.                                                             *)

\* The enabled hook scripts spec section 4.2 assigns to the node's role:
\* controller.d for a controller, compute.d and nodeset.d for a compute
\* node, login.d for a login node, none otherwise.
SpecScripts ==
    LET dirs == IF cfg.role = "controller" THEN {"controller.d"}
                ELSE IF cfg.role = "compute" THEN {"compute.d", "nodeset.d"}
                ELSE IF cfg.role = "login" THEN {"login.d"} ELSE {}
    IN {s \in Scripts : ScriptCat[s] \in dirs /\ s \notin Disabled}

\* A run that ended normally is announced as complete; a run of main() or of
\* a bucket-less hybrid setup aborted by any exception (a timeout, a failed
\* command, or an unclassified one: spec section 7) is announced as failed,
\* whatever banner an earlier boot left (end_motd, failed_motd and the
\* three except clauses of __main__).
BannerReflectsOutcome ==
    pc = "exited" =>
        /\ exc = "none" /\ mode = "main" => motd = "complete"
        /\ exc # "none" /\ mode # "hybrid_bucket" => motd = "failed"

\* Hook scripts form a fail-fast pipeline (run_custom_scripts): every script
\* before the last one run succeeded, and a script that failed, timed out or
\* hangs is the last thing the run does.
ScriptsFailFast ==
    /\ \A i \in 1..Len(ran) - 1 : ran[i].result = "ok"
    /\ Len(ran) > 0 /\ ran[Len(ran)].result # "ok" =>
           pc \in {"handler", "exited", "hung", "boot"}

\* A run of main() that ended normally ran each enabled script of its role's
\* directories exactly once, and each of them succeeded.
ScriptsCompleteOnSuccess ==
    pc = "exited" /\ exc = "none" /\ mode = "main" =>
        /\ Len(ran) = Cardinality(SpecScripts)
        /\ \A i \in 1..Len(ran) : ran[i].script \in SpecScripts /\ ran[i].result = "ok"
        /\ \A i, j \in 1..Len(ran) : i # j => ran[i].script # ran[j].script

\* When a hybrid compute node's run ends normally, no file below the slurm
\* directories is owned by slurm's original uid or gid any more
\* (change_uid_gid_slurm with recursive_chown).
MigrationConverged ==
    pc = "exited" /\ exc = "none" /\ mode = "main" /\ cfg.role = "compute" /\ cfg.hybrid =>
        \A f \in Files : owner[f].uid # OldId /\ owner[f].gid # OldId

\* The steps of main() that come after configure_dirs.
RoleSteps ==
    Labels \ {"boot", "start_motd", "get_config", "cloud_ops", "configure_dirs",
              "hyb_genconf", "handler", "exited"}

\* A run that got past configure_dirs, in this boot or after it, has each of
\* its three symlink paths (/etc/slurm, scripts/etc, scripts/log) pointing at
\* its target, whatever a previous boot or the image left there: a stale link
\* is replaced, and a path that cannot be relinked (a file, a directory, or a
\* dangling link that exists() does not see) stops the run at symlink_to.
LinksInPlace ==
    (\/ pc \in RoleSteps
     \/ pc \in {"handler", "exited"} /\ exc # "none" /\ raisedAt \in RoleSteps
     \/ pc = "exited" /\ exc = "none" /\ mode = "main")
        => \A i \in 1..3 : links[i] = "ours"

(* Statements of the spec that the code does not keep (runs expect a      *)
(* violation).                                                            *)

\* Spec section 8: the mount table reconciliation leaves one line per entry,
\* however often mount_save_state_disk and mount_munge_key_disk run.
FstabEntriesUnique ==
    \A e \in {"state", "munge"} :
        Cardinality({i \in 1..Len(fstab) : fstab[i].entry = e}) <= 1

\* Spec section 5: a crashed or failed run converges on retry; in particular a
\* controller whose run ended normally holds a complete JWT key and munge key.
KeysCompleteAfterSetup ==
    pc = "exited" /\ exc = "none" /\ mode = "main" /\ cfg.role = "controller" =>
        jwt = "full" /\ munge = "full"

\* Spec section 4.5: each ownership remap is guarded by slurm's previous ids,
\* so files owned by a third party keep their owner.
ThirdPartyOwnershipKept ==
    \A f \in Files :
        /\ InitOwner[f].uid = OtherId => owner[f].uid = OtherId
        /\ InitOwner[f].gid = OtherId => owner[f].gid = OtherId

\* Spec section 4.5: a failure to rename slurm's gid or uid is logged, not
\* raised; the run continues.
RenameFailureNotFatal == raisedAt \notin {"groupmod", "usermod"}

=============================================================================
