# Verification of the Slurm node bootstrap (`setup.py`)

This directory holds a TLA+ model of the node bootstrap script
`src/community/modules/scheduler/schedmd-slurm-gcp-v6-controller/modules/slurm_files/scripts/setup.py`.
It also holds the TLC configurations that model-check the model, and TLAPS proofs about it.
`PROJECT.json` lists the components, runs, mutants, source map, findings, hazards and theorems.

## 1. The system

`setup.py` runs once per boot of a cluster node. Its parts, as spec.md names them, are:

| Part | Code | What it does |
|---|---|---|
| ConfigAcquirer | `get_config` (598-612) | Loops until the configuration can be fetched. With a bucket, it sets `is_hybrid_setup`. |
| StatusSignaler | `start_motd`, `end_motd`, `failed_motd`, the `except` clauses of `__main__` (90-127, 647-683) | Sets the login banner to *being configured*, *complete* or *failed*, and `wall`s it. |
| RoleProvisioner | `main`, `setup_controller`, `setup_compute`, `setup_login`, `setup_hybrid` (374-467, 517-563, 614-635) | The ordered sequence of steps of each role. |
| ResourceReconciler | `mount_save_state_disk`, `mount_munge_key_disk`, `configure_dirs`, `setup_jwt_key`, `setup_munge_key`, `change_uid_gid_slurm`, `_my_chown`, `recursive_chown` (183-245, 345-371, 469-515) | Appends fstab lines, creates symlinks and key files, and migrates slurm's uid/gid. |
| ExtensionScriptRunner | `run_custom_scripts` (130-181) | Runs the operator's hook scripts for the role, with a timeout per category. It fails fast. |
| AccountingSetup | `configure_mysql`, the slurmdbd and `sacctmgr` steps of `setup_controller` (309-342, 392-408) | Creates slurm's database users, starts slurmdbd and registers the cluster. |

How they interact. `__main__` calls `setup_hybrid(bucket)` or `main()`.
- `main` writes the pending banner, blocks in `get_config`, and then runs `setup_cloud_ops` and `configure_dirs`.
- It then dispatches on the role. Each role procedure runs its steps and calls `run_custom_scripts` once.
- Finally `main` writes the complete banner.

Any exception unwinds to `__main__`:
- `TimeoutExpired`, `CalledProcessError` and any other `Exception` each have a clause. All three log and call `failed_motd`, which skips hybrid setups.

State that outlives a run:
- `/etc/motd`, `/etc/fstab`, the symlinks, the key files, the identity tables and file ownership;
- the state disk's file system, MariaDB's users and grants, the accounting database's clusters, and whether slurmdbd is enabled.

Everything else is lost when the VM is reset, or at the next boot: the locals, the queue of scripts, the migration's remembered ids and the kernel's mount table. At boot, systemd mounts what fstab lists and starts the services that are enabled.

## 2. The model

### `Bootstrap.tla`: the component module
The script is modelled as one sequential process with a program counter `pc`. There is one action per step of the code. External commands are abstracted to their outcome:
- success;
- `"timeout"`, which only a call given a timeout can raise;
- `"cpe"`, a non-zero exit of a checked call;
- `"other"`, any other exception.

`util.run` is not under `src/`. It checks the return code unless it is given `check=False`, following spec section 7.

| Variables | Meaning |
|---|---|
| `pc, exc, raisedAt` | Program counter, the exception in flight, and where it was raised. |
| `hybridSetup` | `lookup().is_hybrid_setup`. |
| `retries` | Config fetches that failed in this run, at most `MaxRetries`. |
| `queue, ran, ret` | Scripts still to run, results so far, and the label to return to after `run_custom_scripts`. |
| `mig` | `cur_uid`, `cur_gid`, `need_chown` and the index of the next `recursive_chown` root. |
| `mode, cfg` | The command line (`main`, `hybrid_bucket`, `hybrid_nobucket`) and the fetched configuration. Both are fixed. |
| `motd, fstab, links, jwt, munge, ids, owner` | Host state: banner, fstab lines, the three symlink paths, the key files, slurm's ids, and the owner of each file below the migrated roots. |
| `storeReady, boots` | Environment: whether the configuration is published, and how many boots have happened. |

Correspondence, action by action:
- `StartMotd`, `GetConfigRetry`/`GetConfig`, `SetupCloudOps`, `ConfigureDirs`, `Dispatch`, `SetupHybrid`, `EndMotd` and `Handler` are the steps of `main`, `setup_hybrid` and `__main__`.
- `CtlPrepare … CtlServices` are the controller's steps:
  - `MountSaveStateDisk` and `MountMungeKeyDisk` are the fstab reconciliation, modelled by the exact-line test `FstabHas`. When fstab already lists the state disk at the start of the step (`StateListed`), systemd mounted it at boot, and the script's own `mount` (line 203) is refused: the step can then only raise.
  - `SetupJwtKey`/`JwtDd` and `SetupMungeKey`/`MungeDd` create the key file first and fill it second, as the shell `>` and `dd of=` do.
- `ConfigureDirs` unlinks each symlink path that `exists()` (which follows the link) and is a symlink, then calls `symlink_to`. A path holding a file, a directory or a dangling link (`LinkBlocked`) makes `symlink_to` raise; the paths before it are already relinked.
- `GroupMod`, `UserMod` and `RecursiveChown` are `change_uid_gid_slurm`. `MyChown` is `_my_chown`. `RecursiveChown` visits the four roots in order: home (unguarded), etc, log, `/slurm`. A raise inside a walk leaves any subset of that root's files chowned.
- `RunCustomScripts`, `RunScript` (`ExecuteScript(s)`) and `ScriptsDone` are `run_custom_scripts`:
  - `Selected` is the directory and `.disabled` filter.
  - `CatTimeout` and `TimeoutBounded` are the timeout resolution: default 300, and a value ≤ 0 means no timeout.
  - Any remaining script may run next, because `rglob`'s order is not specified.
  - `run()` itself may raise before a result is logged; `ran` is then unchanged.
- A block of external calls whose only visible effect is an exception is one `Call(from, raises, to)` step. Examples are `CtlServices` and `CmpPrepare`.
- The environment has two actions:
  - `StoreReady` publishes the config.
  - `Reboot` kills the run anywhere. Host variables persist, and `Boot` resets the process variables.

`MC_Bootstrap.tla` instantiates the model for TLC. It uses:
- four scripts as model values, with categories, a disabled script, and a script in another role's directory;
- four files below the four roots;
- configurations built by `Cfg(role, stateDisk, cloudsql, hybrid, timeouts)`.

### Properties
- `TypeOK`.
- `BannerReflectsOutcome`: a normal end shows *complete*. An abort of a non-bucket run, by any exception, shows *failed*, whatever an earlier boot left.
- `ScriptsFailFast`: every script before the last one succeeded. A failed, timed-out or hung script is the last thing the run does.
- `ScriptsCompleteOnSuccess`: a normal end of `main` ran exactly the enabled scripts of the role's directories, once each, and all of them succeeded. It is compared with `SpecScripts`, the spec's statement of the set.
- `MigrationConverged`: a hybrid compute node whose run ended normally has no file left on slurm's old ids.
- `LinksInPlace`: a run past `configure_dirs` (still going, aborted later, or ended normally) has all three symlinks pointing at their targets, whatever the image or an earlier boot left at those paths.

Each passing-run property is killed by a mutant of a helper. `PROJECT.json` lists the mutants.

The type invariants `PipelineTypeOK`, `MountsTypeOK` and `AccountingTypeOK`, and `MysqlRerunSafe`, are not run by TLC. Each is a conjunct of an inductive invariant that a proof module proves for every value of the constants.

### `ScriptPipeline.tla` and `ScriptRunner.tla`: the hook scripts, abstract and detailed
`ScriptPipeline` is what spec section 4.2 promises of `run_custom_scripts`, with no paths, timeouts or return codes:
- a fixed set `Jobs` runs one job at a time;
- no job runs while a job of a lower `Rank` (an earlier directory of the list) is pending, and each job runs at most once;
- the first job that fails aborts the pipeline, and a job outside `Bounded` (run with no time bound) may block it for good;
- the pipeline completes when no job is left.

`ScriptRunner` is `run_custom_scripts` itself, with each script's path:
- `Path[s]` is the sequence of directories between `dirs.custom_scripts` and the file. Its first element is the directory `rglob` was started from.
- `RoleDirList` is the `custom_dirs` chain (133-144). `Selected` is the comprehension (145-150). `Discover` fixes the list, and `NextInOrder` takes the scripts of the first directory before those of the next one. Within a directory any order is allowed.
- `RawTimeout` is the if/elif chain of substring tests over the whole path (156-163). `EffTimeout` is line 164, with 0 standing for `None`.
- `Execute(s)` is one loop iteration. The script succeeds, exits non-zero (`check_returncode`), times out (only with a timeout), hangs (only without one), or `run` raises.

The refinement mapping (`Pipeline == INSTANCE ScriptPipeline WITH ...`):

| Abstract | Detailed |
|---|---|
| `Jobs`, `Bounded`, `Rank` | `Selected`, the selected scripts with `EffTimeout > 0`, the position of `Path[s][1]` in `RoleDirList` |
| `pending` | `Selected` before discovery, `queue` after it |
| `log` | `ran`, with non-zero exit, timeout and error all mapped to `"failed"` |
| `outcome` | `running` at discover/loop, `complete` at done, `aborted` at raised, `blocked` at hung |

`PipelineRefined == Pipeline!PipelineSpec` is checked as a temporal property, fairness included.

### `Mounts.tla`: the state and munge disks across reboots
This module adds what `Bootstrap` abstracts away, the kernel's mount table.
- `stateMounts` and `mungeMounts` count what is mounted on the two directories. They are lost at a reset, and `Boot` is systemd mounting what fstab lists.
- `fstab` and `hasFs` persist.
- `StateFs`, `StateFstab` and `StateMount` are `mount_save_state_disk`. `MungeBind` and `MungeFstab` are `mount_munge_key_disk`.
- Two facts about util-linux are assumed, because the code does not state them:
  - `mount <dir>` of a file system already mounted there exits 32, and `run()` raises;
  - `mount --bind d d2` always succeeds and stacks one more mount.

### `Accounting.tla`: MariaDB, slurmdbd and cluster registration
- `users` and `grants` are the MariaDB hosts that slurm has a user for, and that user's grants. `clusters` is the accounting database's registration, and `enabled` is `systemctl enable slurmdbd`. All four persist.
- `Drop`, `Create` and `Grant` are configure_mysql's three commands for `Hosts[host]`, first `localhost` and then the control host. `drop` is unchecked. `create` of an existing user fails, because MariaDB raises error 1396.
- `RestartDbd` is `enable` followed by `restart`. `restart` returns once the daemon is started, before it serves requests.
- `DbdReady` is the daemon coming up or exiting on its own schedule. It is an environment action, so it may happen before or after the fixed `sleep(5)`.
- `RegisterCluster` is `sacctmgr add cluster` with `check=False`. A return code of 1, which is what sacctmgr returns when it cannot reach slurmdbd, passes the `returncode > 1` test.

## 3. Runs

| Run | Bounds | Checks | Result |
|---|---|---|---|
| `MC_ctl.cfg` | controller with and without a state disk and Cloud SQL (4 configurations), timeout keys absent (default 300), two enabled scripts, a disabled one and a login.d one, symlinks absent or stale, 2 boots, 1 failed fetch | BannerReflectsOutcome, ScriptsFailFast, ScriptsCompleteOnSuccess | pass, 7 972 states |
| `MC_cmp.cfg` | hybrid compute, one file on slurm's old ids below each of the 4 roots, compute timeout 60, 1 boot | MigrationConverged, ScriptsCompleteOnSuccess | pass, 220 states |
| `MC_roles.cfg` | all modes; login (timeout 20), unknown, compute (timeout 0) and hybrid compute (timeout -1) roles; a compute.d, a nodeset.d and a login.d script; absent, dangling or occupied symlink paths, 2 boots | TypeOK, BannerReflectsOutcome, ScriptsFailFast, LinksInPlace | pass, 22 260 states |
| `MC_v_fstab.cfg` | controller with state disk, 2 boots | FstabEntriesUnique | violation: the line is appended again on the second run |
| `MC_v_keys.cfg` | controller without a state disk, 2 boots | KeysCompleteAfterSetup | violation: an empty key left by a failed dd or a reset is kept, and the second run ends normally |
| `MC_v_migrerun.cfg` | hybrid compute, 2 boots | MigrationConverged | violation: a reset after `usermod` and before `recursive_chown` is never repaired |
| `MC_v_thirdparty.cfg` | hybrid compute, third-party files | ThirdPartyOwnershipKept | violation: the unguarded home chown takes them |
| `MC_v_rename.cfg` | hybrid compute | RenameFailureNotFatal | violation: a failing `groupmod` raises |
| `MC_runner.cfg` (`MC_ScriptRunner`) | compute node; seven scripts in compute.d and nodeset.d, one in a `lib` subdirectory, one in a compute.d subdirectory named controller.d, one disabled, one in controller.d; compute timeout -5, controller 60 | RunnerTypeOK, PipelineRefined | pass, 170 states |
| `MC_mounts.cfg` (`MC_Mounts`) | controller with a state disk that may or may not be formatted, 4 boots, resets anywhere | StateOnDisk, BindMountsNotStacked | pass, 108 states |
| `MC_v_remount.cfg` | same, 2 boots | StateMountRerunSafe | violation: the second boot's `mount` of the state disk fails |
| `MC_v_register.cfg` | Cloud SQL, 1 boot | ClusterRegisteredAfterSetup | violation: sacctmgr runs before slurmdbd serves, and rc 1 is let through |

Why these bounds are enough:
- Two boots are what idempotence and crash-recovery questions need: one run is interrupted or completed, and a second one re-runs over what it left.
- One failed fetch exercises the retry loop.
- Four scripts cover:
  - two directories of one role;
  - a disabled script;
  - a script of another role;
  - every order of two or more enabled scripts.
- The timeout values cover each branch of line 164.
- The seven-script tree of `MC_ScriptRunner` covers each branch of the substring chain (156-163): a nested directory name, a `lib` subdirectory, the filter and a foreign directory. Two directories give the refinement's rank order something to check.
- Four boots of `Mounts` reach a boot after a failed re-mount, and a reset between the bind and its fstab line. `Accounting` is checked by TLC only for the registration race, with one boot. Its rerun safety is proved for every number of boots.
- One file per migrated root covers each `recursive_chown` call. The third-party owner covers the guards.

Fairness and liveness:
- `Bootstrap` states no liveness property. Its two unbounded waits, the `get_config` loop and a hook with no timeout, are capped or end in `"hung"` in the model (`MaxRetries`, `MaxBoots`), so an eventually-property would follow from those bounds rather than from the code. The hang itself is reached in `MC_roles` (timeouts 0 and -1), where `ScriptsFailFast` checks that nothing runs after it.
- `Reboot` has no fairness and is bounded by `MaxBoots`.
- `ScriptRunner` and `ScriptPipeline` assume weak fairness of their whole next-state relation: one thread runs the loop. `PipelineRefined` includes the abstract fairness, so TLC also checks that a runner that is not stuck in a hanging script eventually returns or raises.

## 4. Findings
1. **fstab duplicates** (`setup.py:196`, `:218`). The code compares a bare entry with lines that carry options and a newline.
2. **Empty key kept** (`:230`, `:241`). The file exists before `dd` fills it. On a controller without a state disk the next run skips the key and ends normally with it empty. (With a state disk, the next run already fails at the re-mount, finding 7.)
3. **Interrupted migration never completed** (`:496-515`). `need_chown` is recomputed from identity tables that were already changed.
4. **Home chowned without a guard** (`:512`).
5. **Rename failure raises** (`:498`, `:507`). With a checked `run`, the soft-fail branch is dead.
6. **Substring timeout** (`:156`). `ScriptRunner` models the timeout lookup as written. The lookup tests substrings of the whole path, so a compute.d script under a subdirectory named `controller.d` is given the controller's timeout. Spec section 4.2 gives each script the timeout of its category. `MC_runner` contains such a script, but no run states the spec's rule.
7. **Re-mount fails on reboot** (`:203`). After the first run, fstab lists the state disk and systemd mounts it at boot, so the script's own `mount` exits 32 and the controller's setup fails on every later boot. This also explains why bind mounts never stack (`BindMountsNotStacked` holds): the failing re-mount comes first.
8. **Cluster not registered** (`:399-408`). The fixed 5 s sleep races slurmdbd's start, and sacctmgr's rc 1 passes the `returncode > 1` test.

Sitting 1 listed a further finding: that an unclassified exception left the pending banner. It was a modelling error. Line 683 calls `failed_motd` in the `except Exception` clause as well. `Handler` now sends all three exception classes to `failed_motd`, and `BannerReflectsOutcome` checks every class.

## 5. Proofs (TLAPS)

### `BootstrapProofs.tla`
The proofs assume only `ConstantsAssumption`:
- well-formed configurations, script categories and initial owners;
- `MaxBoots ∈ Nat \ {0}`;
- `IsFiniteSet(Scripts)`, because the scripts are the files of a directory tree;
- `OldId # NewId`: hybrid_conf gives slurm ids other than the image's, otherwise there is nothing to migrate;
- `MaxRetries ∈ Nat`.

- **`TypeCorrect`**: `Spec => []TypeOK`. It uses `TypeOKInit` and `TypeOKStep`, with one step per action.
  - `CallTypeOK` covers every `Call` block.
  - `LabelMembers` and `ExceptionMembers` let the provers use the label sets without expanding them.
- **`FailFastHolds`**: `Spec => []ScriptsFailFast`. `ScriptsFailFast` is not inductive: a step into `"scripts"` must know that every earlier script succeeded. The strengthening `FailFastInv` adds that fact for every label at which the run is still going, which are all labels except handler, exited, hung and boot. TLC checked `FailFastInv` on the ctl and roles instances before the proof was written. The step case rests on two lemmas:
  - `RanKept`: every other step starts at a live label and leaves `ran` alone.
  - `ScriptStepFailFast`: a script appends one result, and a non-success result ends the pipeline.
- **`BannerReflectsOutcomeHolds`**: `Spec => []BannerReflectsOutcome`. The property only speaks of `exited`, so it is not inductive. The strengthening `BannerInv` (`TypeOK /\ BannerCore`) follows the run towards that label:
  - no exception is in flight at a label other than handler, exited and boot;
  - one is in flight at the handler;
  - `is_hybrid_setup` implies a hybrid setup with a bucket;
  - `hyb_genconf` is never reached from `main()`;
  - at `"scripts"`, the return label is one of the three steps after the scripts;
  - at `exited`, the banner matches how the run ended.

  TLC checked `BannerInv` on the ctl and roles instances first. Most steps of the run are handled together by `MidRunStep`, and `CallMidRun` covers the `Call` blocks. The proof has its own case for each step that starts or ends a run, sets the hybrid flag, runs the scripts or writes the banner.
- **`ScriptsCompleteHolds`**: `Spec => []ScriptsCompleteOnSuccess`, for every finite script tree. The one added assumption is `IsFiniteSet(Scripts)`, the files of a directory tree. The strengthening `ScriptsInv` adds `ScriptsCore` to `BannerInv`, splitting each run at `run_custom_scripts`:
  - before it (`PreScripts`), nothing has run and nothing is queued;
  - from it to a normal end, the logged scripts are distinct successes of `Selected`, none of them still queued (`RanOk`, `RanDistinct`);
  - `Len(ran) + Cardinality(queue) = Cardinality(Selected)`;
  - after the scripts (`PostScripts`), the queue is empty.

  A count is used instead of a bijection between `ran` and `Selected`. `ScriptOkStep` decrements it with `FS_RemoveElement`. `SelectedIsSpec` identifies the code's `RoleDirs` CASE with the spec's selection, and `SelectedUnknownRole` covers the unknown role's jump to `end_motd`. TLC checked `ScriptsInv` on the ctl, cmp and roles instances first.
- **`FstabCheckNeverMatchesHolds`**: `Spec => []FstabCheckNeverMatches`, for every configuration and any number of boots. The `fstab_entry not in f.readlines()` test of both mount steps never finds the entry, so `AppendFstab` always appends (finding 1). This is the general form of the `v_fstab` violation. The inductive invariant `NoBareLine` says that no line of the table is the bare entry. `FstabKept` shows that only the two mount steps write the table.
- **`MigrationConvergedFirstBoot`**: `Spec => [](boots <= 1 => MigrationConverged)`. On the first boot of a hybrid compute node, a normal end leaves no file owned by slurm's original uid or gid. The strengthening `MigInv` adds `MigCore` to `BannerInv`:
  - before `groupmod`, slurm still has the old ids;
  - at `usermod`, the old gid is remembered;
  - at each `chown` step, the roots below `mig.dir` are clean, and both remembered ids are the old ones;
  - from `cmp_prepare` to a normal end, every file is clean;
  - at `"scripts"`, the run returns to `cmp_services`.

  `MyChownClean` is the lemma on `_my_chown`: a remap that is unguarded or guarded by the old ids leaves the file clean. `OffPathStep`, `BeforeStep` and `AfterStep` group the steps by their side of the migration. TLC checked `MigInv` first on the ctl, cmp and roles instances and on the two-boot `v_migrerun` instance. With a second boot `MigrationConverged` is false (finding 3), so the hypothesis `boots <= 1` cannot be dropped.
- **`LinksInPlaceHolds`**: `Spec => []LinksInPlace`. `LinksInPlace` is not inductive by itself: the handler's step to `exited` must know that an exception in flight there came from a role step, and `setup_hybrid`'s step to `exited` that it is not a run of `main()`. The strengthening `LinksInv` adds `BannerInv`. `LinksKept` says that only `configure_dirs` touches the links, and `RoleStepGuard` that every other step after it starts at a role step, where the links are already in place.

### `ScriptPipelineProofs.tla`
- **`PipelineFailFastHolds`**: `PipelineSpec => []PipelineFailFast`, for any jobs, ranks and bounds. The abstract module has no model-checking run of its own. TLC checks it through `PipelineRefined`.
- `PipelineFailFast` is inductive once `PipelineTypeOK` is conjoined (`PipelineInv`). After a step that is not `ok`, the outcome leaves `running`, so nothing more is appended.

### `ScriptRunnerProofs.tla`: the refinement
- **`RunnerRefinesPipeline`**: `RunnerInit /\ [][RunnerNext]_rvars => Pipeline!PipelineInit /\ [][Pipeline!PipelineNext]_Pipeline!pvars`. This is the safety part of `PipelineRefined`, for every script tree, role and timeout configuration that satisfies `RunnerAssumption`. It rests on the following steps:
  - `RefineInit`.
  - `RefineStep`:
    - `Discover` is a stutter of the mapping, because `pending` is `Selected` on both sides;
    - `Execute(s)` is `Step(s)`, with the abstract result witnessed by `AbsResult(r)`;
    - `Finish` is `Complete`.
  - The invariant `RunnerInv`: types, `queue ⊆ Selected` after discovery, and `ran` empty before it. It is needed because `NextInOrder` only implies `Eligible` when the queue holds selected scripts.
  - The lemma `EffTimeoutNat` gives the mapped `Bounded`. Its proof follows the nested IF of `RawTimeout`.
  - The lemmas `AbsLogAppend` and `AbsResultCases` cover the mapped log.
- **`RunnerFailFast`**: `run_custom_scripts` is fail-fast for every configuration. The theorem of `ScriptPipelineProofs` is instantiated with the same mapping (`PP`), and then the steps are:
  - `SameInit`, `SameNext` and `SameFailFast` identify `PP`'s formulas with `Pipeline`'s.
- **`RunnerTypeCorrect`**: `RunnerSpec => []RunnerTypeOK`, from the same `RunnerInv`.
- The liveness half of `PipelineRefined`, the abstract weak fairness, is checked by TLC only.

### `MountsProofs.tla`
- **`BindMountsNotStackedHolds`**: `MountsSpec => []BindMountsNotStacked`, for every `MaxBoots`.
- `mungeMounts <= 1` is not inductive: a `MungeBind` needs to know that nothing is bound yet. The strengthening `BindInv` records the argument:
  - fstab lists the munge line only after the state line, and the state line only once the disk has a file system;
  - a run at the bind step has just mounted the state disk. That mount succeeded, so `stateMounts` was 0, and therefore nothing was bound.
- `ListedAppend` is the lemma for `AppendLine`.
- **`StateOnDiskHolds`**: `MountsSpec => []StateOnDisk`. The strengthening `DiskInv` records the order of the steps:
  - every step from the fstab entry onwards runs on a disk with a file system;
  - the munge steps follow exactly one state mount;
  - the munge fstab step follows a bind.

  TLC checked `DiskInv` with four boots first.

### `AccountingProofs.tla`
- **`MysqlRerunSafeHolds`**: under `AccountingAssumption` (`CloudSql` is a Boolean and `MaxBoots` a positive natural), `AccountingSpec => []MysqlRerunSafe`.
- The strengthening `MysqlInv` adds that at a `create` step the user of that host is absent. The step before it is always the `drop` of the same host, and a reset sends the run back to `boot`, never to `create`.

### What stays with TLC only
- Liveness: the fairness half of `PipelineRefined`, and anything that uses ENABLED.
- What a recursive definition computes for every input (induction over data). No module with a theorem uses one.
- The violations. `MigrationConverged` with more than one boot is among them (`v_migrerun`): it is false, so only its first-boot form is proved.

Every invariant of a passing run is now stated by a theorem.

## 6. Not modelled
- The content of files written by `configure_mysql`, `setup_cloud_ops`, `update_system_config`, `setup_sudoers`, `setup_nss_slurm` and the `conf`/`util` libraries. The Call steps keep their exceptions.
- `has_gpu` (line 547) returns the pipeline's status, which is `wc`'s and so always 0. It is a wrong value, not a control-flow bug, and no property is about the GPU probe.
- The `wall` inside `failed_motd` (line 127) can itself raise from within the `except` clause. The banner is already written at that point, so no property distinguishes the two outcomes.
- The modes set by `chown_slurm`.

## 7. Plan for the next steps
1. **A refinement for `Mounts`.** An abstract "the disks end up mounted once" specification, with `Mounts` shown to implement it, step by step.
2. **`Chown.tla`.** `_my_chown` and `recursive_chown` over a bounded tree, checked against the spec's guarded remap (section 8).
3. **Composition.** Run `Mounts` and `Accounting` as sub-steps of `Bootstrap`'s controller path. This would let one run show how the re-mount failure (finding 7) and the banner interact.
