------------------------------- MODULE Mounts -------------------------------
(***************************************************************************)
(* mount_save_state_disk and mount_munge_key_disk of setup.py across       *)
(* reboots, with the kernel's mount table as well as /etc/fstab.  At boot  *)
(* systemd mounts what fstab lists; the controller's run then formats the  *)
(* disk if it has no file system, reconciles the fstab line, mounts the    *)
(* state directory, bind-mounts the munge directory and reconciles that    *)
(* line.  The kernel refuses to mount a file system where it is already    *)
(* mounted (util-linux mount exits 32, run() raises); `mount --bind` of a  *)
(* directory onto itself always succeeds and stacks one more mount.  The   *)
(* other ways these commands fail are Bootstrap's; here a step fails only  *)
(* because of the mount table.                                             *)
(***************************************************************************)
EXTENDS Naturals, Sequences

CONSTANTS MaxBoots   \* boots (runs of the script) explored

ASSUME MountsAssumption == MaxBoots \in Nat \ {0}

VARIABLES
    pc,          \* the step of the controller's run
    failedAt,    \* the step whose command raised, or "none"
    fstab,       \* /etc/fstab: survives reboots
    hasFs,       \* the state disk carries an ext4 file system: survives reboots
    stateMounts, \* file systems mounted on the state directory: lost at reboot
    mungeMounts, \* bind mounts stacked on the munge directory: lost at reboot
    boots

mvars == <<pc, failedAt, fstab, hasFs, stateMounts, mungeMounts, boots>>

Steps == {"state_fs", "state_fstab", "state_mount", "munge_bind", "munge_fstab"}

\* A line of fstab: its entry, and what follows the entry on the line.
Line == [entry: {"state", "munge"}, tail: {"bare", "defaults", "bind"}]

MountsTypeOK ==
    /\ pc \in Steps \cup {"boot", "done", "failed"}
    /\ failedAt \in Steps \cup {"none"}
    /\ fstab \in Seq(Line)
    /\ hasFs \in BOOLEAN
    /\ stateMounts \in Nat /\ mungeMounts \in Nat
    /\ boots \in 0..MaxBoots

\* Some line of fstab is for the entry e.
Listed(e) == \E i \in 1..Len(fstab) : fstab[i].entry = e

\* `fstab_entry not in f.readlines()`: the bare entry is compared with whole
\* lines, which carry their options and newline.
FstabHasExact(e) == \E i \in 1..Len(fstab) : fstab[i] = [entry |-> e, tail |-> "bare"]

AppendLine(e, t) ==
    IF FstabHasExact(e) THEN fstab ELSE Append(fstab, [entry |-> e, tail |-> t])

Fail(step) == pc' = "failed" /\ failedAt' = step

MountsInit ==
    /\ pc = "boot" /\ failedAt = "none" /\ fstab = <<>> /\ hasFs \in BOOLEAN
    /\ stateMounts = 0 /\ mungeMounts = 0 /\ boots = 0

\* The node boots: systemd mounts every file system fstab lists (the state
\* disk only if it has a file system), once per mount point, and the
\* startup script starts the controller's setup.
Boot ==
    /\ pc = "boot" /\ boots < MaxBoots
    /\ boots' = boots + 1
    /\ stateMounts' = IF Listed("state") /\ hasFs THEN 1 ELSE 0
    /\ mungeMounts' = IF Listed("munge") THEN 1 ELSE 0
    /\ pc' = "state_fs" /\ failedAt' = "none"
    /\ UNCHANGED <<fstab, hasFs>>

\* The VM is reset wherever the run is; the mount table is lost with it.
Reboot ==
    /\ pc # "boot" /\ boots < MaxBoots
    /\ pc' = "boot"
    /\ UNCHANGED <<failedAt, fstab, hasFs, stateMounts, mungeMounts, boots>>

\* realpath, `file -s`, and mkfs when the output names no file system.
StateFs ==
    /\ pc = "state_fs"
    /\ hasFs' = TRUE /\ pc' = "state_fstab"
    /\ UNCHANGED <<failedAt, fstab, stateMounts, mungeMounts, boots>>

\* The fstab line is appended unless found; systemctl daemon-reload.
StateFstab ==
    /\ pc = "state_fstab"
    /\ fstab' = AppendLine("state", "defaults") /\ pc' = "state_mount"
    /\ UNCHANGED <<failedAt, hasFs, stateMounts, mungeMounts, boots>>

\* Mutant: the mount skipped when the disk is mounted already.
StateMountSkipIfMounted ==
    /\ pc = "state_mount"
    /\ stateMounts' = 1 /\ pc' = "munge_bind"
    /\ UNCHANGED <<failedAt, fstab, hasFs, mungeMounts, boots>>

\* Mutant: the mount skipped when fstab lists the disk (taken as mounted by systemd).
StateMountSkipIfListed ==
    /\ pc = "state_mount"
    /\ \/ Listed("state") /\ pc' = "munge_bind" /\ UNCHANGED <<failedAt, stateMounts>>
       \/ ~Listed("state") /\ stateMounts = 0 /\ stateMounts' = 1 /\ pc' = "munge_bind"
          /\ UNCHANGED failedAt
    /\ UNCHANGED <<fstab, hasFs, mungeMounts, boots>>

\* makedirs, then `mount <state dir>`: refused when the disk is mounted
\* there already; then chown_slurm.
StateMount ==
    /\ pc = "state_mount"
    /\ \/ stateMounts = 0 /\ stateMounts' = 1 /\ pc' = "munge_bind"
          /\ UNCHANGED failedAt
       \/ stateMounts > 0 /\ Fail("state_mount") /\ UNCHANGED stateMounts
    /\ UNCHANGED <<fstab, hasFs, mungeMounts, boots>>

\* makedirs /var/spool/slurm/munge, then `mount --bind` onto dirs.munge.
MungeBind ==
    /\ pc = "munge_bind"
    /\ mungeMounts' = mungeMounts + 1 /\ pc' = "munge_fstab"
    /\ UNCHANGED <<failedAt, fstab, hasFs, stateMounts, boots>>

\* The bind line is appended unless found; daemon-reload; the rest of
\* setup_controller follows.
MungeFstab ==
    /\ pc = "munge_fstab"
    /\ fstab' = AppendLine("munge", "bind") /\ pc' = "done"
    /\ UNCHANGED <<failedAt, hasFs, stateMounts, mungeMounts, boots>>

MountsNext ==
    \/ Boot \/ Reboot \/ StateFs \/ StateFstab \/ StateMount \/ MungeBind
    \/ MungeFstab

MountsSpec == MountsInit /\ [][MountsNext]_mvars

-----------------------------------------------------------------------------
(* Properties.                                                             *)

\* When the controller's reconciliation has finished, slurm's state
\* directory is on the formatted disk and the munge directory is on the
\* persistent one (mount_save_state_disk, mount_munge_key_disk).
StateOnDisk ==
    pc = "done" => hasFs /\ stateMounts = 1 /\ mungeMounts >= 1

\* Spec section 3: bind mounts are reconciled, never duplicated: however
\* often the node boots and crashes, at most one bind mount lies on the
\* munge directory (mount_munge_key_disk binds on every run; only the
\* state disk's mount failing on re-runs keeps it from stacking).
BindMountsNotStacked == mungeMounts <= 1

(* A statement of the spec that the code does not keep (a run expects a   *)
(* violation).                                                            *)

\* Spec section 5: re-running the bootstrap on a provisioned node is safe;
\* the state disk's mount step never fails on a later boot.
StateMountRerunSafe == failedAt # "state_mount"

=============================================================================
