--------------------------- MODULE BootstrapProofs ---------------------------
(***************************************************************************)
(* Proofs about Bootstrap for every value of its constants: the type       *)
(* invariant, the fail-fast discipline of the hook-script pipeline, the    *)
(* banner left at the end of a run, the completeness of the hook scripts   *)
(* on a normal end, the stability of the keys, the fstab test that never  *)
(* recognises its own lines, and the uid/gid migration of a hybrid compute *)
(* node on its first boot.                                                 *)
(***************************************************************************)
EXTENDS Bootstrap, SequenceTheorems, FiniteSetTheorems, TLAPS

\* Every label of the program counter, and every exception, is one of the
\* finite sets the type invariant names.
LEMMA LabelMembers ==
    /\ "boot" \in Labels
    /\ "start_motd" \in Labels
    /\ "get_config" \in Labels
    /\ "cloud_ops" \in Labels
    /\ "configure_dirs" \in Labels
    /\ "dispatch" \in Labels
    /\ "ctl_prepare" \in Labels
    /\ "state_disk" \in Labels
    /\ "munge_disk" \in Labels
    /\ "jwt" \in Labels
    /\ "jwt_dd" \in Labels
    /\ "munge_key" \in Labels
    /\ "munge_dd" \in Labels
    /\ "ctl_storage" \in Labels
    /\ "ctl_scripts" \in Labels
    /\ "mysql" \in Labels
    /\ "dbd" \in Labels
    /\ "register" \in Labels
    /\ "ctl_services" \in Labels
    /\ "groupmod" \in Labels
    /\ "usermod" \in Labels
    /\ "chown" \in Labels
    /\ "cmp_prepare" \in Labels
    /\ "cmp_scripts" \in Labels
    /\ "cmp_services" \in Labels
    /\ "login_prepare" \in Labels
    /\ "login_services" \in Labels
    /\ "login_scripts" \in Labels
    /\ "login_status" \in Labels
    /\ "scripts" \in Labels
    /\ "hyb_genconf" \in Labels
    /\ "end_motd" \in Labels
    /\ "handler" \in Labels
    /\ "exited" \in Labels
    /\ "hung" \in Labels
BY DEF Labels
LEMMA ExceptionMembers ==
    "timeout" \in Exceptions /\ "cpe" \in Exceptions /\ "other" \in Exceptions
BY DEF Exceptions

\* The small sets of records and values the host's state ranges over are
\* always expanded; the sets of labels and exceptions are used through
\* their members.
USE LabelMembers, ExceptionMembers
USE DEF Ids, Owner, Line, KeyStates, ScriptResults, LinkStates

\* The bounds on boots and on configuration fetches are natural numbers.
LEMMA BoundsNat == MaxBoots \in Nat /\ MaxRetries \in Nat
BY ConstantsAssumption

\* The type invariant split between the process's locals, the node's fixed
\* parameters and the host's persistent state.
ProcTypeOK ==
    /\ pc \in Labels
    /\ exc \in Exceptions \cup {"none"}
    /\ raisedAt \in Labels \cup {"none"}
    /\ hybridSetup \in BOOLEAN
    /\ retries \in 0..MaxRetries
    /\ queue \in SUBSET Scripts
    /\ ran \in Seq([script: Scripts, result: ScriptResults])
    /\ ret \in Labels
    /\ mig \in [curUid: Ids, curGid: Ids, need: BOOLEAN, dir: 0..4]

HostTypeOK ==
    /\ motd \in {"none", "pending", "complete", "failed"}
    /\ storeReady \in BOOLEAN
    /\ fstab \in Seq(Line)
    /\ links \in [1..3 -> LinkStates]
    /\ jwt \in KeyStates /\ munge \in KeyStates
    /\ ids \in Owner
    /\ owner \in [Files -> Owner]
    /\ boots \in 0..MaxBoots

LEMMA TypeOKSplit ==
    /\ TypeOK <=> ProcTypeOK /\ mode \in Modes /\ cfg \in Configs /\ HostTypeOK
    /\ TypeOK' <=> ProcTypeOK' /\ mode' \in Modes /\ cfg' \in Configs /\ HostTypeOK'
BY Zenon DEF TypeOK, ProcTypeOK, HostTypeOK

\* A block of calls that may only raise keeps the types: it moves the
\* program counter to a label or to the handler and changes nothing else.
LEMMA CallTypeOK ==
    ASSUME TypeOK, NEW from \in Labels, NEW raises \in SUBSET Exceptions,
           NEW to \in Labels, Call(from, raises, to)
    PROVE  TypeOK'
BY SMTT(60) DEF Call, Goto, Raise, TypeOK, hostVars

\* Every initial state is well typed.
LEMMA TypeOKInit == Init => TypeOK
<1> SUFFICES ASSUME Init PROVE TypeOK
  OBVIOUS
<1>1. owner \in [Files -> Owner]
  BY ConstantsAssumption DEF Init
<1>2. links \in [1..3 -> LinkStates]
  BY ConstantsAssumption, Zenon DEF Init
<1>3. mig \in [curUid: Ids, curGid: Ids, need: BOOLEAN, dir: 0..4]
  BY DEF Init
<1>4. /\ fstab \in Seq(Line)
      /\ ran \in Seq([script: Scripts, result: ScriptResults])
  BY EmptySeq DEF Init
<1>5. retries \in 0..MaxRetries /\ boots \in 0..MaxBoots
  BY ConstantsAssumption DEF Init
<1>6. QED
  BY <1>1, <1>2, <1>3, <1>4, <1>5, Zenon DEF Init, TypeOK

\* Every step of the program, of the store and of a reboot keeps the types.
LEMMA TypeOKStep == TypeOK /\ [Next]_vars => TypeOK'
<1> SUFFICES ASSUME TypeOK, [Next]_vars PROVE TypeOK'
  OBVIOUS
<1>1. CASE Boot
  <2>1. boots' \in 0..MaxBoots
    BY <1>1, ConstantsAssumption DEF Boot, TypeOK
  <2>2. ran' \in Seq([script: Scripts, result: ScriptResults])
    BY <1>1, EmptySeq DEF Boot
  <2>3. /\ pc' \in Labels /\ exc' \in Exceptions \cup {"none"}
        /\ raisedAt' \in Labels \cup {"none"} /\ ret' \in Labels
    BY <1>1 DEF Boot
  <2>4. retries' \in 0..MaxRetries
    BY <1>1, BoundsNat DEF Boot
  <2>5. mig' \in [curUid: Ids, curGid: Ids, need: BOOLEAN, dir: 0..4]
    BY <1>1 DEF Boot, TypeOK
  <2>6. ProcTypeOK'
    BY <1>1, <2>2, <2>3, <2>4, <2>5 DEF Boot, ProcTypeOK
  <2>7. HostTypeOK'
    BY <1>1, <2>1 DEF Boot, TypeOK, HostTypeOK
  <2>8. QED
    BY <1>1, <2>6, <2>7, TypeOKSplit DEF Boot, TypeOK
<1>2. CASE Reboot
  BY <1>2 DEF Reboot, TypeOK, hostVars
<1>3. CASE StartMotd
  BY <1>3 DEF StartMotd, Goto, Raise, TypeOK
<1>4. CASE GetConfigRetry
  BY <1>4, BoundsNat DEF GetConfigRetry, TypeOK, hostVars
<1>5. CASE GetConfig
  BY <1>5 DEF GetConfig, Goto, TypeOK, hostVars
<1>6. CASE StoreReady
  BY <1>6 DEF StoreReady, TypeOK, procVars
<1>7. CASE ConfigureDirs
  BY <1>7 DEF ConfigureDirs, Goto, Raise, TypeOK, LinkStates
<1>8. CASE Dispatch
  BY <1>8 DEF Dispatch, Goto, TypeOK, hostVars
<1>9. CASE SetupCloudOps \/ SetupHybrid \/ CtlPrepare \/ CtlStorage
             \/ ConfigureMysql \/ StartSlurmdbd \/ RegisterCluster \/ CtlServices
             \/ CmpPrepare \/ CmpServices \/ LoginPrepare \/ LoginServices
             \/ LoginStatus
  BY <1>9, CallTypeOK
     DEF SetupCloudOps, SetupHybrid, CtlPrepare, CtlStorage, ConfigureMysql,
         StartSlurmdbd, RegisterCluster, CtlServices, CmpPrepare, CmpServices,
         LoginPrepare, LoginServices, LoginStatus
<1>10. CASE MountSaveStateDisk \/ MountMungeKeyDisk
  <2>1. /\ AppendFstab("state", "defaults") \in Seq(Line)
        /\ AppendFstab("munge", "bind") \in Seq(Line)
    BY AppendProperties DEF AppendFstab, TypeOK, Line
  <2>2. QED
    BY <1>10, <2>1 DEF MountSaveStateDisk, MountMungeKeyDisk, Goto, Raise, TypeOK
<1>11. CASE SetupJwtKey \/ JwtDd \/ SetupMungeKey \/ MungeDd
  BY <1>11 DEF SetupJwtKey, JwtDd, SetupMungeKey, MungeDd, KeyExists, Goto,
               Raise, TypeOK, KeyStates
<1>12. CASE RunCustomScripts
  BY <1>12 DEF RunCustomScripts, AfterScripts, Selected, Goto, TypeOK, hostVars
<1>13. CASE RunScript
  <2>1. PICK s \in queue : ExecuteScript(s)
    BY <1>13 DEF RunScript
  <2>2. s \in Scripts
    BY <2>1 DEF TypeOK
  <2>3. \A r \in ScriptResults :
          Append(ran, [script |-> s, result |-> r]) \in Seq([script: Scripts, result: ScriptResults])
    BY <2>2, AppendProperties DEF TypeOK
  <2>4. ran' \in Seq([script: Scripts, result: ScriptResults])
    <3>1. ran' = ran \/ \E r \in ScriptResults : ran' = Append(ran, [script |-> s, result |-> r])
      BY <2>1 DEF ExecuteScript, NonZeroExit
    <3>2. QED
      BY <2>3, <3>1 DEF TypeOK
  <2>5. /\ pc' \in Labels /\ exc' \in Exceptions \cup {"none"}
        /\ raisedAt' \in Labels \cup {"none"}
    BY <2>1 DEF ExecuteScript, NonZeroExit, Goto, Raise, TypeOK
  <2>6. queue' \in SUBSET Scripts
    BY <2>1 DEF ExecuteScript, TypeOK
  <2>7. QED
    BY <2>1, <2>4, <2>5, <2>6 DEF ExecuteScript, TypeOK, hostVars
<1>14. CASE ScriptsDone
  BY <1>14 DEF ScriptsDone, Goto, TypeOK, hostVars
<1>15. CASE GroupMod
  <2>1. mig' \in [curUid: Ids, curGid: Ids, need: BOOLEAN, dir: 0..4] /\ ids' \in Owner
    BY <1>15 DEF GroupMod, TypeOK
  <2>2. pc' \in Labels /\ exc' \in Exceptions \cup {"none"} /\ raisedAt' \in Labels \cup {"none"}
    BY <1>15 DEF GroupMod, Goto, Raise, TypeOK
  <2>3. QED
    BY <1>15, <2>1, <2>2 DEF GroupMod, TypeOK
<1>16. CASE UserMod
  <2>1. 1 \in 0..4
    OBVIOUS
  <2>2. mig' \in [curUid: Ids, curGid: Ids, need: BOOLEAN, dir: 0..4]
    BY <1>16, <2>1, Zenon DEF UserMod, TypeOK
  <2>3. ids' \in Owner
    BY <1>16 DEF UserMod, TypeOK
  <2>4. pc' \in Labels /\ exc' \in Exceptions \cup {"none"} /\ raisedAt' \in Labels \cup {"none"}
    BY <1>16 DEF UserMod, Goto, Raise, TypeOK
  <2>5. QED
    BY <1>16, <2>2, <2>3, <2>4 DEF UserMod, TypeOK
<1>17. CASE RecursiveChown
  <2>1. mig' \in [curUid: Ids, curGid: Ids, need: BOOLEAN, dir: 0..4]
    <3>1. NextChownDir(mig.dir) \in 0..4
      BY DEF NextChownDir, TypeOK
    <3>2. QED
      BY <1>17, <3>1, Zenon DEF RecursiveChown, TypeOK
  <2>2. owner' \in [Files -> Owner]
    BY <1>17 DEF RecursiveChown, MyChown, TypeOK
  <2>3. pc' \in Labels /\ exc' \in Exceptions \cup {"none"} /\ raisedAt' \in Labels \cup {"none"}
    BY <1>17 DEF RecursiveChown, Goto, Raise, TypeOK
  <2>4. QED
    BY <1>17, <2>1, <2>2, <2>3 DEF RecursiveChown, TypeOK
<1>18. CASE EndMotd
  BY <1>18 DEF EndMotd, Goto, Raise, TypeOK
<1>19. CASE Handler
  BY <1>19 DEF Handler, Signalled, FailedMotd, Goto, TypeOK
<1>20. CASE UNCHANGED vars
  BY <1>20 DEF vars, procVars, hostVars, TypeOK
<1>21. QED
  BY <1>1, <1>2, <1>3, <1>4, <1>5, <1>6, <1>7, <1>8, <1>9, <1>10, <1>11,
     <1>12, <1>13, <1>14, <1>15, <1>16, <1>17, <1>18, <1>19, <1>20
     DEF Next, Proc

\* Type correctness: every variable keeps its type in every reachable state.
THEOREM TypeCorrect == Spec => []TypeOK
BY TypeOKInit, TypeOKStep, PTL DEF Spec

-----------------------------------------------------------------------------
(* The hook-script pipeline fails fast.  ScriptsFailFast is not inductive:  *)
(* a step into "scripts" must know that every script run so far succeeded. *)
(* The strengthening says so for every label at which the run is still     *)
(* going; only the handler, the end of the run, a hung script and a reboot *)
(* may see a failed script.                                                *)

PipelineEnded == {"handler", "exited", "hung", "boot"}

ScriptsOkBefore(n) == \A i \in 1..n : ran[i].result = "ok"

FailFastInv ==
    /\ TypeOK
    /\ ScriptsOkBefore(Len(ran) - 1)
    /\ pc \notin PipelineEnded => ScriptsOkBefore(Len(ran))

\* Every step other than a boot, a reboot, the handler and a hook script
\* starts at a label where the run is still going and leaves the scripts'
\* results alone.
LEMMA RanKept ==
    ASSUME TypeOK,
           \/ StartMotd \/ GetConfigRetry \/ GetConfig \/ ConfigureDirs
           \/ Dispatch \/ SetupCloudOps \/ SetupHybrid \/ CtlPrepare
           \/ MountSaveStateDisk \/ MountMungeKeyDisk \/ SetupJwtKey \/ JwtDd
           \/ SetupMungeKey \/ MungeDd \/ CtlStorage \/ ConfigureMysql
           \/ StartSlurmdbd \/ RegisterCluster \/ CtlServices \/ RunCustomScripts
           \/ ScriptsDone \/ GroupMod \/ UserMod \/ RecursiveChown \/ CmpPrepare
           \/ CmpServices \/ LoginPrepare \/ LoginServices \/ LoginStatus \/ EndMotd
    PROVE  pc \notin PipelineEnded /\ ran' = ran
BY DEF StartMotd, GetConfigRetry, GetConfig, ConfigureDirs, Dispatch,
       SetupCloudOps, SetupHybrid, CtlPrepare, MountSaveStateDisk,
       MountMungeKeyDisk, SetupJwtKey, JwtDd, SetupMungeKey, MungeDd, CtlStorage,
       ConfigureMysql, StartSlurmdbd, RegisterCluster, CtlServices,
       RunCustomScripts, ScriptsDone, GroupMod, UserMod, RecursiveChown,
       CmpPrepare, CmpServices, LoginPrepare, LoginServices, LoginStatus, EndMotd,
       Call, PipelineEnded, hostVars

\* A hook script runs only while every earlier one succeeded; it appends its
\* own result, and a result other than success ends the pipeline.
LEMMA ScriptStepFailFast ==
    ASSUME FailFastInv, NEW s \in queue, ExecuteScript(s)
    PROVE  FailFastInv'
<1> USE DEF FailFastInv
<1>1. ScriptsOkBefore(Len(ran)) /\ ran \in Seq([script: Scripts, result: ScriptResults])
  BY DEF ExecuteScript, PipelineEnded, TypeOK
<1>2. TypeOK'
  BY TypeOKStep DEF Next, Proc, RunScript
<1>3. CASE ran' = ran /\ pc' = "handler"
  <2>1. ScriptsOkBefore(Len(ran') - 1)
    BY <1>1, <1>3 DEF ScriptsOkBefore
  <2>2. QED
    BY <1>2, <1>3, <2>1 DEF PipelineEnded, ScriptsOkBefore
<1>4. CASE ran' # ran \/ pc' # "handler"
  <2>1. PICK r \in ScriptResults :
          /\ ran' = Append(ran, [script |-> s, result |-> r])
          /\ r # "ok" => pc' \in PipelineEnded
    BY <1>4 DEF ExecuteScript, NonZeroExit, Goto, Raise, PipelineEnded
  <2>2. \A i \in 1..Len(ran) : ran'[i].result = "ok"
    BY <1>1, <2>1 DEF ScriptsOkBefore
  <2>3. r = "ok" => \A i \in 1..Len(ran') : ran'[i].result = "ok"
    BY <1>1, <2>1, <2>2
  <2>4. Len(ran') - 1 = Len(ran)
    BY <1>1, <2>1
  <2>5. QED
    BY <1>2, <2>1, <2>2, <2>3, <2>4 DEF ScriptsOkBefore
<1>5. QED
  BY <1>3, <1>4

\* Hook scripts form a fail-fast pipeline (run_custom_scripts with check=True):
\* in every reachable state, every script before the last one run succeeded,
\* and a failed, timed-out or hung script is the last thing the run does.
THEOREM FailFastHolds == Spec => []ScriptsFailFast
<1>1. Init => FailFastInv
  BY TypeOKInit DEF Init, FailFastInv, ScriptsOkBefore
<1>2. FailFastInv /\ [Next]_vars => FailFastInv'
  <2> SUFFICES ASSUME FailFastInv, [Next]_vars PROVE FailFastInv'
    OBVIOUS
  <2>1. TypeOK'
    BY TypeOKStep DEF FailFastInv
  <2>2. CASE Boot
    BY <2>1, <2>2 DEF Boot, FailFastInv, ScriptsOkBefore
  <2>3. CASE Reboot \/ Handler
    BY <2>1, <2>3 DEF Reboot, Handler, Goto, FailFastInv, ScriptsOkBefore, PipelineEnded
  <2>4. CASE StoreReady \/ UNCHANGED vars
    BY <2>1, <2>4 DEF StoreReady, FailFastInv, ScriptsOkBefore, vars, procVars
  <2>5. CASE RunScript
    BY <2>5, ScriptStepFailFast DEF RunScript
  <2>6. CASE ~(Boot \/ Reboot \/ Handler \/ StoreReady \/ UNCHANGED vars \/ RunScript)
    <3>1. pc \notin PipelineEnded /\ ran' = ran
      BY <2>6, RanKept DEF Next, Proc, FailFastInv
    <3>2. QED
      BY <2>1, <3>1 DEF FailFastInv, ScriptsOkBefore
  <2>7. QED
    BY <2>2, <2>3, <2>4, <2>5, <2>6
<1>3. FailFastInv => ScriptsFailFast
  BY DEF FailFastInv, ScriptsOkBefore, ScriptsFailFast, PipelineEnded, TypeOK
<1>4. QED
  BY <1>1, <1>2, <1>3, PTL DEF Spec

-----------------------------------------------------------------------------
(* The banner tells how the run ended.  BannerReflectsOutcome speaks only  *)
(* of the end of a run; the strengthening follows the exception and the    *)
(* hybrid flag along the way: no exception is in flight while the run goes *)
(* on, one is at the handler, is_hybrid_setup is only set by a setup with  *)
(* a bucket, the hybrid generation step is never reached from main(), and  *)
(* run_custom_scripts returns to a step that is not the end of the run.    *)

Unwinding == {"handler", "exited", "boot"}

AfterLabels == {"mysql", "cmp_services", "login_status"}

BannerCore ==
    /\ hybridSetup => mode = "hybrid_bucket"
    /\ pc \notin Unwinding => exc = "none"
    /\ pc = "handler" => exc # "none"
    /\ pc = "hyb_genconf" => mode # "main"
    /\ pc = "scripts" => ret \in AfterLabels
    /\ pc = "exited" /\ exc = "none" /\ mode = "main" => motd = "complete"
    /\ pc = "exited" /\ exc # "none" /\ ~hybridSetup => motd = "failed"

BannerInv == TypeOK /\ BannerCore

\* run_custom_scripts returns to the step after the scripts of the role.
LEMMA AfterScriptsLabel == \A l : AfterScripts(l) \in AfterLabels
BY Zenon DEF AfterScripts, AfterLabels

\* A step in the middle of main() or of setup_hybrid: it neither ends the
\* run nor sets the hybrid flag, and it either goes on to an ordinary step
\* with no exception or raises one to the handler.
MidRunStep ==
    /\ pc \notin Unwinding
    /\ UNCHANGED <<mode, hybridSetup>>
    /\ \/ pc' \notin Unwinding \cup {"hyb_genconf", "scripts"} /\ exc' = exc
       \/ pc' = "handler" /\ exc' \in Exceptions

\* A block of calls of main() that may only raise is such a step.
LEMMA CallMidRun ==
    ASSUME NEW from, NEW raises \in SUBSET Exceptions, NEW to,
           from \notin Unwinding, to \notin Unwinding \cup {"hyb_genconf", "scripts"},
           Call(from, raises, to)
    PROVE  MidRunStep
BY DEF Call, Goto, Raise, MidRunStep

\* ... and such a step keeps the strengthening.
LEMMA MidRunBanner == BannerCore /\ MidRunStep => BannerCore'
BY DEF BannerCore, MidRunStep, Unwinding, Exceptions

\* The first state of the node is not inside a run.
LEMMA BannerInit == Init => BannerCore
BY DEF Init, BannerCore, Unwinding

\* Every step keeps the strengthening: one case per step that starts or
\* ends a run, sets the hybrid flag, enters or leaves the scripts, or
\* writes the banner, and the steps in the middle of a run together.
LEMMA BannerStep == TypeOK /\ BannerCore /\ [Next]_vars => BannerCore'
<1> SUFFICES ASSUME TypeOK, BannerCore, [Next]_vars PROVE BannerCore'
  OBVIOUS
<1>1. CASE Boot
  BY <1>1 DEF Boot, BannerCore, Unwinding
<1>2. CASE Reboot
  BY <1>2 DEF Reboot, BannerCore, Unwinding, hostVars
<1>3. CASE GetConfig
  BY <1>3 DEF GetConfig, Goto, BannerCore, Unwinding
<1>4. CASE StoreReady
  BY <1>4 DEF StoreReady, procVars, BannerCore
<1>5. CASE SetupHybrid
  BY <1>5 DEF SetupHybrid, Call, Goto, Raise, BannerCore, Unwinding, Exceptions
<1>6. CASE RunCustomScripts
  BY <1>6, AfterScriptsLabel DEF RunCustomScripts, Goto, BannerCore, Unwinding, hostVars
<1>7. CASE RunScript
  <2>1. PICK s \in queue : ExecuteScript(s)
    BY <1>7 DEF RunScript
  <2>2. QED
    BY <2>1 DEF ExecuteScript, NonZeroExit, Goto, Raise, BannerCore, Unwinding,
                Exceptions, hostVars
<1>8. CASE ScriptsDone
  BY <1>8 DEF ScriptsDone, Goto, BannerCore, Unwinding, AfterLabels, hostVars
<1>9. CASE EndMotd
  BY <1>9 DEF EndMotd, Goto, Raise, BannerCore, Unwinding, Exceptions
<1>10. CASE Handler
  <2>1. exc \in Signalled
    BY <1>10 DEF Handler, BannerCore, TypeOK, Signalled, Exceptions
  <2>2. QED
    BY <1>10, <2>1 DEF Handler, Goto, BannerCore, Unwinding, FailedMotd
<1>11. CASE UNCHANGED vars
  BY <1>11 DEF vars, procVars, hostVars, BannerCore
<1>12. CASE SetupCloudOps \/ CtlPrepare \/ CtlStorage \/ ConfigureMysql
             \/ StartSlurmdbd \/ RegisterCluster \/ CtlServices \/ CmpPrepare
             \/ CmpServices \/ LoginPrepare \/ LoginServices \/ LoginStatus
  <2>1. MidRunStep
    BY <1>12, CallMidRun, ExceptionMembers
       DEF SetupCloudOps, CtlPrepare, CtlStorage, ConfigureMysql, StartSlurmdbd,
           RegisterCluster, CtlServices, CmpPrepare, CmpServices, LoginPrepare,
           LoginServices, LoginStatus, Unwinding, Exceptions
  <2>2. QED
    BY <2>1, MidRunBanner
<1>13. CASE StartMotd \/ GetConfigRetry \/ ConfigureDirs \/ MountSaveStateDisk
             \/ MountMungeKeyDisk \/ SetupJwtKey \/ JwtDd \/ SetupMungeKey
             \/ MungeDd \/ GroupMod \/ UserMod \/ RecursiveChown
  <2>1. MidRunStep
    BY <1>13 DEF StartMotd, GetConfigRetry, ConfigureDirs, MountSaveStateDisk,
                 MountMungeKeyDisk, SetupJwtKey, JwtDd, SetupMungeKey, MungeDd,
                 GroupMod, UserMod, RecursiveChown, Goto, Raise, MidRunStep,
                 Unwinding, Exceptions
  <2>2. QED
    BY <2>1, MidRunBanner
<1>14. CASE Dispatch
  <2>1. MidRunStep
    BY <1>14, Zenon DEF Dispatch, Goto, MidRunStep, Unwinding
  <2>2. QED
    BY <2>1, MidRunBanner
<1>15. QED
  BY <1>1, <1>2, <1>3, <1>4, <1>5, <1>6, <1>7, <1>8, <1>9, <1>10, <1>11,
     <1>12, <1>13, <1>14 DEF Next, Proc

\* The banner left at the end of a run tells how the run ended: "setup
\* complete" after a normal end of main(), the failure banner after any
\* exception outside a hybrid setup with a bucket (end_motd, the three
\* except clauses of __main__ and failed_motd), for every configuration.
THEOREM BannerReflectsOutcomeHolds == Spec => []BannerReflectsOutcome
<1>1. Init => BannerInv
  BY TypeOKInit, BannerInit DEF BannerInv
<1>2. BannerInv /\ [Next]_vars => BannerInv'
  BY TypeOKStep, BannerStep DEF BannerInv
<1>3. BannerInv => BannerReflectsOutcome
  BY DEF BannerInv, BannerCore, BannerReflectsOutcome
<1>4. QED
  BY <1>1, <1>2, <1>3, PTL DEF Spec


-----------------------------------------------------------------------------
(* A run of main() that ends normally ran every selected hook script once, *)
(* successfully.  The strengthening splits the run at run_custom_scripts:  *)
(* before it nothing has run and nothing is queued; from it to the end of  *)
(* the run the scripts logged are distinct successes of the selection, not *)
(* in the queue, and with the queue they account for the whole selection;  *)
(* once the scripts are done the queue is empty.                           *)

PreScripts ==
    {"start_motd", "get_config", "cloud_ops", "configure_dirs", "dispatch",
     "ctl_prepare", "state_disk", "munge_disk", "jwt", "jwt_dd", "munge_key",
     "munge_dd", "ctl_storage", "ctl_scripts", "groupmod", "usermod", "chown",
     "cmp_prepare", "cmp_scripts", "login_prepare", "login_services",
     "login_scripts", "hyb_genconf"}

PostScripts ==
    {"mysql", "dbd", "register", "ctl_services", "cmp_services", "login_status",
     "end_motd"}

RanOk ==
    \A i \in 1..Len(ran) : ran[i].result = "ok" /\ ran[i].script \in Selected \ queue

RanDistinct ==
    \A i, j \in 1..Len(ran) : i # j => ran[i].script # ran[j].script

ScriptsCore ==
    /\ pc \in PreScripts => ran = <<>> /\ queue = {}
    /\ \/ pc \in {"scripts"} \cup PostScripts
       \/ pc = "exited" /\ exc = "none" /\ mode = "main"
       => /\ RanOk /\ RanDistinct /\ queue \subseteq Selected
          /\ Len(ran) + Cardinality(queue) = Cardinality(Selected)
          /\ pc # "scripts" => queue = {}

ScriptsInv == TypeOK /\ BannerCore /\ ScriptsCore

\* The selection of run_custom_scripts is finite, and it is the set of
\* scripts spec section 4.2 assigns to the role; an unknown role has none.
LEMMA SelectedFinite == IsFiniteSet(Selected)
BY ConstantsAssumption, FS_Subset DEF Selected

LEMMA SelectedIsSpec == Selected = SpecScripts
<1>1. RoleDirs(cfg.role) = IF cfg.role = "controller" THEN {"controller.d"}
                           ELSE IF cfg.role = "compute" THEN {"compute.d", "nodeset.d"}
                           ELSE IF cfg.role = "login" THEN {"login.d"} ELSE {}
  BY Zenon DEF RoleDirs
<1>2. QED
  BY <1>1 DEF Selected, SpecScripts

LEMMA SelectedUnknownRole ==
    cfg.role \notin {"controller", "compute", "login"} => Selected = {}
<1>1. cfg.role \notin {"controller", "compute", "login"} => RoleDirs(cfg.role) = {}
  BY Zenon DEF RoleDirs
<1>2. QED
  BY <1>1 DEF Selected

\* A step that stays on one side of run_custom_scripts and touches neither
\* the log of scripts nor the queue: it goes on to a step of the same side
\* or raises to the handler.
PhaseStep(P) ==
    /\ pc \in P
    /\ UNCHANGED <<ran, queue, cfg>>
    /\ pc' \in P \cup {"handler"}

LEMMA CallPhase ==
    ASSUME NEW P, NEW from \in P, NEW raises, NEW to \in P, Call(from, raises, to)
    PROVE  PhaseStep(P)
BY DEF Call, Goto, Raise, PhaseStep

LEMMA PreScriptsStep == ScriptsCore /\ PhaseStep(PreScripts) => ScriptsCore'
BY DEF ScriptsCore, PhaseStep, PreScripts, PostScripts

LEMMA PostScriptsStep == ScriptsCore /\ PhaseStep(PostScripts) => ScriptsCore'
BY DEF ScriptsCore, PhaseStep, PreScripts, PostScripts, RanOk, RanDistinct, Selected

\* Every initial state is before the scripts of any run.
LEMMA ScriptsInit == Init => ScriptsCore
BY DEF Init, ScriptsCore, PreScripts, PostScripts

\* A script run successfully is logged and leaves the queue: the log and
\* the queue still account for the whole selection.
LEMMA ScriptOkStep ==
    ASSUME TypeOK, ScriptsCore, pc = "scripts", NEW s \in queue,
           queue' = queue \ {s}, ran' = Append(ran, [script |-> s, result |-> "ok"]),
           pc' = "scripts", UNCHANGED cfg
    PROVE  ScriptsCore'
<1> DEFINE r == [script |-> s, result |-> "ok"]
<1>1. /\ RanOk /\ RanDistinct /\ queue \subseteq Selected
      /\ Len(ran) + Cardinality(queue) = Cardinality(Selected)
  BY DEF ScriptsCore
<1>2. ran \in Seq([script: Scripts, result: ScriptResults])
  BY DEF TypeOK
<1>3. /\ Len(ran') = Len(ran) + 1
      /\ \A i \in 1..Len(ran) : ran'[i] = ran[i]
      /\ ran'[Len(ran) + 1] = r
  BY <1>2, AppendProperties
<1>4. Selected' = Selected
  BY DEF Selected
<1>5. RanOk'
  BY <1>1, <1>3, <1>4 DEF RanOk
<1>6. RanDistinct'
  BY <1>1, <1>3 DEF RanOk, RanDistinct
<1>7. /\ IsFiniteSet(queue)
      /\ Cardinality(queue') = Cardinality(queue) - 1
      /\ Cardinality(queue) \in Nat
  BY <1>1, SelectedFinite, FS_Subset, FS_RemoveElement, FS_CardinalityType
<1>8. Len(ran') + Cardinality(queue') = Cardinality(Selected')
  BY <1>1, <1>3, <1>4, <1>7, <1>2, LenProperties
<1>9. QED
  BY <1>1, <1>4, <1>5, <1>6, <1>8 DEF ScriptsCore, PreScripts

\* Every step keeps the strengthening: one case per step that enters,
\* runs or leaves the scripts, starts or ends a run, or dispatches on the
\* role, and the steps on either side of the scripts together.
LEMMA ScriptsStep ==
    TypeOK /\ BannerCore /\ ScriptsCore /\ [Next]_vars => ScriptsCore'
<1> SUFFICES ASSUME TypeOK, BannerCore, ScriptsCore, [Next]_vars PROVE ScriptsCore'
  OBVIOUS
<1>1. CASE Boot
  BY <1>1 DEF Boot, ScriptsCore, PreScripts, PostScripts
<1>2. CASE Reboot
  BY <1>2 DEF Reboot, ScriptsCore, PreScripts, PostScripts
<1>3. CASE StoreReady
  BY <1>3 DEF StoreReady, procVars, ScriptsCore, RanOk, RanDistinct, Selected
<1>4. CASE UNCHANGED vars
  BY <1>4 DEF vars, procVars, ScriptsCore, RanOk, RanDistinct, Selected
<1>5. CASE SetupHybrid
  BY <1>5 DEF SetupHybrid, Call, Goto, Raise, BannerCore, ScriptsCore,
              PreScripts, PostScripts
<1>6. CASE Handler
  BY <1>6 DEF Handler, Goto, BannerCore, ScriptsCore, PreScripts, PostScripts
<1>7. CASE Dispatch
  <2>1. cfg.role \in {"controller", "compute", "login"} =>
          pc' \in {"ctl_prepare", "groupmod", "cmp_prepare", "login_prepare"}
    BY <1>7, Zenon DEF Dispatch, Goto
  <2>2. cfg.role \notin {"controller", "compute", "login"} => pc' = "end_motd"
    BY <1>7, Zenon DEF Dispatch, Goto
  <2>3. CASE cfg.role \in {"controller", "compute", "login"}
    <3>1. PhaseStep(PreScripts)
      BY <1>7, <2>1, <2>3 DEF Dispatch, PhaseStep, PreScripts
    <3>2. QED
      BY <3>1, PreScriptsStep
  <2>4. CASE cfg.role \notin {"controller", "compute", "login"}
    <3>1. ran = <<>> /\ queue = {} /\ Selected = {}
      BY <1>7, SelectedUnknownRole, <2>4 DEF Dispatch, ScriptsCore, PreScripts
    <3>2. Selected' = Selected
      BY <1>7 DEF Dispatch, Selected
    <3>3. QED
      BY <1>7, <2>2, <2>4, <3>1, <3>2, FS_EmptySet
         DEF Dispatch, ScriptsCore, RanOk, RanDistinct, PreScripts, PostScripts
  <2>5. QED
    BY <2>3, <2>4
<1>8. CASE RunCustomScripts
  <2>1. Cardinality(Selected) \in Nat
    BY SelectedFinite, FS_CardinalityType
  <2>2. ran = <<>>
    BY <1>8 DEF RunCustomScripts, ScriptsCore, PreScripts
  <2>3. Selected' = Selected
    BY <1>8 DEF RunCustomScripts, Selected
  <2>4. QED
    BY <1>8, <2>1, <2>2, <2>3
       DEF RunCustomScripts, Goto, ScriptsCore, RanOk, RanDistinct, PreScripts, PostScripts
<1>9. CASE RunScript
  <2>1. PICK s \in queue : ExecuteScript(s)
    BY <1>9 DEF RunScript
  <2>2. CASE ran' = Append(ran, [script |-> s, result |-> "ok"]) /\ Goto("scripts")
    BY <2>1, <2>2, ScriptOkStep DEF ExecuteScript, Goto
  <2>3. CASE ~(ran' = Append(ran, [script |-> s, result |-> "ok"]) /\ Goto("scripts"))
    <3>1. pc' \in {"handler", "hung"}
      BY <2>1, <2>3 DEF ExecuteScript, NonZeroExit, Goto, Raise
    <3>2. QED
      BY <3>1 DEF ScriptsCore, PreScripts, PostScripts
  <2>4. QED
    BY <2>2, <2>3
<1>10. CASE ScriptsDone
  <2>1. pc' \in PostScripts
    BY <1>10, AfterScriptsLabel DEF ScriptsDone, Goto, BannerCore, AfterLabels, PostScripts
  <2>2. QED
    BY <1>10, <2>1 DEF ScriptsDone, Goto, ScriptsCore, RanOk, RanDistinct,
                       Selected, PreScripts, PostScripts
<1>11. CASE EndMotd
  BY <1>11 DEF EndMotd, Goto, Raise, ScriptsCore, RanOk, RanDistinct, Selected,
               PreScripts, PostScripts
<1>12. CASE SetupCloudOps \/ CtlPrepare \/ CtlStorage \/ CmpPrepare
             \/ LoginPrepare \/ LoginServices
  <2>1. PhaseStep(PreScripts)
    BY <1>12, CallPhase DEF SetupCloudOps, CtlPrepare, CtlStorage, CmpPrepare,
                            LoginPrepare, LoginServices, PreScripts
  <2>2. QED
    BY <2>1, PreScriptsStep
<1>13. CASE ConfigureMysql \/ StartSlurmdbd \/ RegisterCluster \/ CtlServices
             \/ CmpServices \/ LoginStatus
  <2>1. PhaseStep(PostScripts)
    BY <1>13, CallPhase DEF ConfigureMysql, StartSlurmdbd, RegisterCluster,
                            CtlServices, CmpServices, LoginStatus, PostScripts
  <2>2. QED
    BY <2>1, PostScriptsStep
<1>14. CASE StartMotd \/ GetConfigRetry \/ GetConfig \/ ConfigureDirs
             \/ MountSaveStateDisk \/ MountMungeKeyDisk \/ SetupJwtKey \/ JwtDd
             \/ SetupMungeKey \/ MungeDd \/ GroupMod \/ UserMod \/ RecursiveChown
  <2>1. PhaseStep(PreScripts)
    BY <1>14 DEF StartMotd, GetConfigRetry, GetConfig, ConfigureDirs,
                 MountSaveStateDisk, MountMungeKeyDisk, SetupJwtKey, JwtDd,
                 SetupMungeKey, MungeDd, GroupMod, UserMod, RecursiveChown,
                 Goto, Raise, PhaseStep, PreScripts
  <2>2. QED
    BY <2>1, PreScriptsStep
<1>15. QED
  BY <1>1, <1>2, <1>3, <1>4, <1>5, <1>6, <1>7, <1>8, <1>9, <1>10, <1>11,
     <1>12, <1>13, <1>14 DEF Next, Proc

\* A run of main() that ends normally (end_motd reached and its walls
\* done) ran each enabled hook script of its role's directories exactly
\* once, and each succeeded, for every script tree and configuration
\* (run_custom_scripts with its fail-fast check_returncode).
THEOREM ScriptsCompleteHolds == Spec => []ScriptsCompleteOnSuccess
<1>1. Init => ScriptsInv
  BY TypeOKInit, BannerInit, ScriptsInit DEF ScriptsInv
<1>2. ScriptsInv /\ [Next]_vars => ScriptsInv'
  BY TypeOKStep, BannerStep, ScriptsStep DEF ScriptsInv
<1>3. ScriptsInv => ScriptsCompleteOnSuccess
  <2> SUFFICES ASSUME ScriptsInv, pc = "exited", exc = "none", mode = "main"
               PROVE  /\ Len(ran) = Cardinality(SpecScripts)
                      /\ \A i \in 1..Len(ran) :
                            ran[i].script \in SpecScripts /\ ran[i].result = "ok"
                      /\ \A i, j \in 1..Len(ran) : i # j => ran[i].script # ran[j].script
    BY DEF ScriptsCompleteOnSuccess
  <2>1. /\ RanOk /\ RanDistinct /\ queue = {}
        /\ Len(ran) + Cardinality(queue) = Cardinality(Selected)
    BY DEF ScriptsInv, ScriptsCore
  <2>2. ran \in Seq([script: Scripts, result: ScriptResults])
    BY DEF ScriptsInv, TypeOK
  <2>3. Len(ran) = Cardinality(Selected)
    BY <2>1, <2>2, FS_EmptySet, LenProperties
  <2>4. QED
    BY <2>1, <2>3, SelectedIsSpec DEF RanOk, RanDistinct
<1>4. QED
  BY <1>1, <1>2, <1>3, PTL DEF Spec

-----------------------------------------------------------------------------
(* The reconciliation of /etc/fstab never recognises its own lines: the    *)
(* script appends an entry with its options and, read back, every line     *)
(* carries its newline, while the test compares the bare entry.  So the    *)
(* test never matches and every mount step that gets to it appends again.  *)

\* No line of the mount table is the bare entry the test looks for.
NoBareLine == \A i \in 1..Len(fstab) : fstab[i].tail # "bare"

\* mount_save_state_disk and mount_munge_key_disk find their entry in no
\* reachable mount table, so each of their runs appends one more line.
FstabCheckNeverMatches ==
    \A e \in {"state", "munge"}, t \in {"defaults", "bind"} :
        AppendFstab(e, t) = Append(fstab, [entry |-> e, tail |-> t])

\* A table without a bare line never has the entry, and appending a line
\* with options keeps it without one.
LEMMA NoBareNotFound ==
    ASSUME NoBareLine, NEW e PROVE ~FstabHas(e)
BY DEF NoBareLine, FstabHas

LEMMA AppendKeepsNoBare ==
    ASSUME fstab \in Seq(Line), NoBareLine, NEW e, NEW t \in {"defaults", "bind"}
    PROVE  \A i \in 1..Len(AppendFstab(e, t)) : AppendFstab(e, t)[i].tail # "bare"
<1>1. AppendFstab(e, t) = Append(fstab, [entry |-> e, tail |-> t])
  BY NoBareNotFound DEF AppendFstab
<1>2. QED
  BY <1>1, AppendProperties DEF NoBareLine

\* No step other than the two mount steps of the controller writes the
\* mount table.
LEMMA FstabKept ==
    ASSUME \/ Boot \/ Reboot \/ StartMotd \/ GetConfigRetry \/ GetConfig
           \/ StoreReady \/ ConfigureDirs \/ Dispatch \/ SetupCloudOps
           \/ SetupHybrid \/ CtlPrepare \/ SetupJwtKey \/ JwtDd \/ SetupMungeKey
           \/ MungeDd \/ CtlStorage \/ ConfigureMysql \/ StartSlurmdbd
           \/ RegisterCluster \/ CtlServices \/ RunCustomScripts \/ RunScript
           \/ ScriptsDone \/ GroupMod \/ UserMod \/ RecursiveChown \/ CmpPrepare
           \/ CmpServices \/ LoginPrepare \/ LoginServices \/ LoginStatus
           \/ EndMotd \/ Handler
    PROVE  fstab' = fstab
BY DEF Boot, Reboot, StartMotd, GetConfigRetry, GetConfig, StoreReady,
       ConfigureDirs, Dispatch, SetupCloudOps, SetupHybrid, CtlPrepare,
       SetupJwtKey, JwtDd, SetupMungeKey, MungeDd, CtlStorage, ConfigureMysql,
       StartSlurmdbd, RegisterCluster, CtlServices, RunCustomScripts, RunScript,
       ExecuteScript, ScriptsDone, GroupMod, UserMod, RecursiveChown, CmpPrepare,
       CmpServices, LoginPrepare, LoginServices, LoginStatus, EndMotd, Handler,
       Call, hostVars

\* For every configuration and any number of boots, the exact-line test of
\* mount_save_state_disk and mount_munge_key_disk never finds the entry the
\* script wrote, so each of their runs appends a duplicate line.
THEOREM FstabCheckNeverMatchesHolds == Spec => []FstabCheckNeverMatches
<1> DEFINE Inv == TypeOK /\ NoBareLine
<1>1. Init => Inv
  BY TypeOKInit DEF Init, NoBareLine
<1>2. Inv /\ [Next]_vars => Inv'
  <2> SUFFICES ASSUME Inv, [Next]_vars PROVE NoBareLine'
    BY TypeOKStep
  <2>1. fstab \in Seq(Line)
    BY DEF TypeOK
  <2>2. CASE MountSaveStateDisk \/ MountMungeKeyDisk
    BY <2>1, <2>2, AppendKeepsNoBare DEF MountSaveStateDisk, MountMungeKeyDisk, NoBareLine
  <2>3. CASE UNCHANGED vars
    BY <2>3 DEF vars, hostVars, NoBareLine
  <2>4. CASE ~(MountSaveStateDisk \/ MountMungeKeyDisk \/ UNCHANGED vars)
    BY <2>4, FstabKept DEF Next, Proc, NoBareLine
  <2>5. QED
    BY <2>2, <2>3, <2>4
<1>3. Inv => FstabCheckNeverMatches
  BY NoBareNotFound DEF FstabCheckNeverMatches, AppendFstab
<1>4. QED
  BY <1>1, <1>2, <1>3, PTL DEF Spec

-----------------------------------------------------------------------------
(* The uid/gid migration of a hybrid compute node on its first boot.       *)
(* change_uid_gid_slurm renames slurm's group and user to hybrid_conf's    *)
(* ids and recursive_chown walks the four roots, remapping what the old    *)
(* ids owned.  On a later boot the renamed identity table hides a          *)
(* migration a reboot interrupted (the v_migrerun run), so the theorem     *)
(* speaks of the first boot.  The strengthening follows the run: before    *)
(* groupmod slurm still has the old ids, usermod sees the old gid          *)
(* remembered, each chown step leaves the roots already walked clean, and  *)
(* from cmp_prepare on every file is clean.                                *)

BeforeMig == {"start_motd", "get_config", "cloud_ops", "configure_dirs", "dispatch", "groupmod"}

AfterMig == {"cmp_prepare", "cmp_scripts", "scripts", "cmp_services", "end_motd"}

\* The first run of main() on a hybrid compute node.
HybridFirstRun == boots <= 1 /\ mode = "main" /\ cfg.role = "compute" /\ cfg.hybrid

\* An owner that is neither slurm's original uid nor its original gid.
Clean(o) == o.uid # OldId /\ o.gid # OldId

MigCore ==
    /\ boots = 0 => pc = "boot" /\ ids = [uid |-> OldId, gid |-> OldId]
    /\ HybridFirstRun =>
       /\ pc \in BeforeMig \cup {"usermod", "chown"} \cup AfterMig
                 \cup {"handler", "exited", "hung", "boot"}
       /\ pc \in BeforeMig => ids = [uid |-> OldId, gid |-> OldId]
       /\ pc = "usermod" => ids.uid = OldId /\ mig.curGid = OldId
       /\ pc = "chown" =>
             /\ mig.curUid = OldId /\ mig.curGid = OldId /\ mig.dir \in 1..4
             /\ \A f \in Files : FileDir[f] < mig.dir => Clean(owner[f])
       /\ pc \in AfterMig \/ (pc = "exited" /\ exc = "none") =>
             \A f \in Files : Clean(owner[f])
       /\ pc = "scripts" => ret = "cmp_services"

MigInv == TypeOK /\ BannerCore /\ MigCore

\* The remap of one file by a step of recursive_chown, unguarded or guarded
\* by slurm's original ids, leaves it owned by neither of them.
LEMMA MyChownClean ==
    ASSUME NEW o, NEW pu \in {"unguarded", OldId}, NEW pg \in {"unguarded", OldId}
    PROVE  Clean(MyChown(o, NewId, NewId, pu, pg))
BY ConstantsAssumption DEF MyChown, Clean

\* Only a boot changes the boot count, and it only increments it.
LEMMA BootsKept ==
    ASSUME [Next]_vars, ~Boot
    PROVE  boots' = boots
BY DEF Next, Proc, vars, hostVars, Reboot, StoreReady, StartMotd, GetConfigRetry,
       GetConfig, ConfigureDirs, Dispatch, SetupCloudOps, SetupHybrid, CtlPrepare,
       MountSaveStateDisk, MountMungeKeyDisk, SetupJwtKey, JwtDd, SetupMungeKey,
       MungeDd, CtlStorage, ConfigureMysql, StartSlurmdbd, RegisterCluster,
       CtlServices, RunCustomScripts, RunScript, ExecuteScript, ScriptsDone,
       GroupMod, UserMod, RecursiveChown, CmpPrepare, CmpServices, LoginPrepare,
       LoginServices, LoginStatus, EndMotd, Handler, Call

\* A step of the controller's or the login node's path: it is never taken
\* on the first run of a hybrid compute node.
OffPathStep ==
    /\ pc \notin BeforeMig \cup {"usermod", "chown"} \cup AfterMig
                 \cup {"handler", "exited", "hung", "boot"}
    /\ UNCHANGED <<boots, mode, cfg>>

LEMMA OffPathMig == MigCore /\ OffPathStep => MigCore'
BY DEF MigCore, OffPathStep, HybridFirstRun

\* A step before the migration: it keeps slurm's ids and goes on to a step
\* before the migration or raises.
BeforeStep ==
    /\ pc \in BeforeMig \ {"groupmod"}
    /\ UNCHANGED <<boots, mode, cfg, ids>>
    /\ HybridFirstRun => pc' \in BeforeMig \cup {"handler"}

LEMMA BeforeMigStep == MigCore /\ BeforeStep => MigCore'
BY DEF MigCore, BeforeStep, HybridFirstRun, BeforeMig, AfterMig

\* A step after the migration: it keeps the owners and goes on to a step
\* after it, ends the run, raises or hangs in a script.
AfterStep ==
    /\ pc \in AfterMig
    /\ UNCHANGED <<boots, mode, cfg, owner>>
    /\ HybridFirstRun =>
          /\ pc' \in AfterMig \cup {"handler", "hung", "exited"}
          /\ pc' = "scripts" => ret' = "cmp_services"

LEMMA AfterMigStep == MigCore /\ AfterStep => MigCore'
BY DEF MigCore, AfterStep, HybridFirstRun, BeforeMig, AfterMig

\* Every step keeps the strengthening: the boot, the reboot, the handler,
\* the three steps of change_uid_gid_slurm and the entry into the scripts
\* have a case of their own; the other steps go by the side of the
\* migration they lie on.
LEMMA MigStep == TypeOK /\ BannerCore /\ MigCore /\ [Next]_vars => MigCore'
<1> SUFFICES ASSUME TypeOK, BannerCore, MigCore, [Next]_vars PROVE MigCore'
  OBVIOUS
<1> USE DEF MigCore, HybridFirstRun, BeforeMig, AfterMig
<1>1. CASE Boot
  BY <1>1 DEF Boot, TypeOK
<1>2. CASE Reboot
  BY <1>2 DEF Reboot, hostVars
<1>3. CASE StoreReady
  BY <1>3 DEF StoreReady, procVars
<1>4. CASE UNCHANGED vars
  BY <1>4 DEF vars, procVars, hostVars
<1>5. CASE Handler
  BY <1>5 DEF Handler, Goto, BannerCore
<1>6. CASE GroupMod
  BY <1>6 DEF GroupMod, Goto, Raise
<1>7. CASE UserMod
  BY <1>7, ConstantsAssumption DEF UserMod, Goto, Raise
<1>8. CASE RecursiveChown
  <2> DEFINE d == mig.dir
             pu == IF d = 1 THEN "unguarded" ELSE mig.curUid
             pg == IF d = 1 THEN "unguarded" ELSE mig.curGid
             tree == {f \in Files : FileDir[f] = d}
  <2>1. CASE Raise("other") /\ UNCHANGED mig
    BY <1>8, <2>1 DEF RecursiveChown, Raise
  <2>2. CASE /\ owner' = [f \in Files |-> IF f \in tree
                                            THEN MyChown(owner[f], NewId, NewId, pu, pg)
                                            ELSE owner[f]]
             /\ mig' = [mig EXCEPT !.dir = NextChownDir(d)]
             /\ Goto(IF NextChownDir(d) # 0 THEN "chown" ELSE "cmp_prepare")
    <3> SUFFICES ASSUME HybridFirstRun' PROVE MigCore'
      BY <1>8 DEF RecursiveChown
    <3>0. pc = "chown" /\ UNCHANGED <<boots, mode, cfg, exc>>
      BY <1>8, <2>2 DEF RecursiveChown, Goto
    <3>1. /\ HybridFirstRun /\ pc = "chown" /\ boots # 0
          /\ UNCHANGED <<boots, mode, cfg, exc>>
      BY <3>0
    <3>2. /\ mig.curUid = OldId /\ mig.curGid = OldId /\ d \in 1..4
          /\ \A f \in Files : FileDir[f] < d => Clean(owner[f])
      BY <3>1
    <3>3. pu \in {"unguarded", OldId} /\ pg \in {"unguarded", OldId}
      BY <3>2
    <3>4. \A f \in Files : FileDir[f] = d => Clean(owner'[f])
      BY <2>2, <3>3, MyChownClean
    <3>5. \A f \in Files : FileDir[f] < d => owner'[f] = owner[f]
      BY <2>2, <3>2
    <3>6. \A f \in Files : FileDir[f] \in 1..4
      BY ConstantsAssumption
    <3>7. \A f \in Files : FileDir[f] <= d => Clean(owner'[f])
      BY <3>2, <3>4, <3>5, <3>6
    <3>8. CASE d < 4
      <4>1. pc' = "chown" /\ mig'.dir = d + 1 /\ mig'.curUid = OldId /\ mig'.curGid = OldId
        BY <2>2, <3>2, <3>8 DEF NextChownDir, Goto, TypeOK
      <4>2. QED
        BY <3>1, <3>2, <3>6, <3>7, <3>8, <4>1
    <3>9. CASE d = 4
      <4>1. pc' = "cmp_prepare"
        BY <2>2, <3>9 DEF NextChownDir, Goto
      <4>2. QED
        BY <3>1, <3>2, <3>6, <3>7, <3>9, <4>1
    <3>10. QED
      BY <3>2, <3>8, <3>9
  <2>3. QED
    BY <1>8, <2>1, <2>2 DEF RecursiveChown
<1>9. CASE RunCustomScripts
  <2>1. CASE pc = "cmp_scripts"
    <3>1. AfterStep
      BY <1>9, <2>1 DEF RunCustomScripts, AfterScripts, Goto, AfterStep, hostVars
    <3>2. QED
      BY <3>1, AfterMigStep
  <2>2. CASE pc # "cmp_scripts"
    <3>1. OffPathStep
      BY <1>9, <2>2 DEF RunCustomScripts, OffPathStep, hostVars
    <3>2. QED
      BY <3>1, OffPathMig
  <2>3. QED
    BY <2>1, <2>2
<1>10. CASE RunScript
  <2>1. PICK s \in queue : ExecuteScript(s)
    BY <1>10 DEF RunScript
  <2>2. AfterStep
    BY <2>1 DEF ExecuteScript, NonZeroExit, Goto, Raise, AfterStep, hostVars
  <2>3. QED
    BY <2>2, AfterMigStep
<1>11. CASE ScriptsDone \/ CmpPrepare \/ CmpServices \/ EndMotd
  <2>1. AfterStep
    BY <1>11 DEF ScriptsDone, CmpPrepare, CmpServices, EndMotd, Call, Goto, Raise,
                 AfterStep, hostVars
  <2>2. QED
    BY <2>1, AfterMigStep
<1>12. CASE Dispatch
  <2>1. cfg.role = "compute" /\ cfg.hybrid => pc' = "groupmod"
    BY <1>12, Zenon DEF Dispatch, Goto
  <2>2. BeforeStep
    BY <1>12, <2>1 DEF Dispatch, BeforeStep, hostVars
  <2>3. QED
    BY <2>2, BeforeMigStep
<1>13. CASE StartMotd \/ GetConfigRetry \/ GetConfig \/ SetupCloudOps \/ ConfigureDirs
  <2>1. BeforeStep
    BY <1>13 DEF StartMotd, GetConfigRetry, GetConfig, SetupCloudOps, ConfigureDirs,
                 Call, Goto, Raise, BeforeStep, hostVars
  <2>2. QED
    BY <2>1, BeforeMigStep
<1>14. CASE SetupHybrid \/ CtlPrepare \/ MountSaveStateDisk \/ MountMungeKeyDisk
             \/ SetupJwtKey \/ JwtDd \/ SetupMungeKey \/ MungeDd \/ CtlStorage
             \/ ConfigureMysql \/ StartSlurmdbd \/ RegisterCluster \/ CtlServices
             \/ LoginPrepare \/ LoginServices \/ LoginStatus
  <2>1. OffPathStep
    BY <1>14 DEF SetupHybrid, CtlPrepare, MountSaveStateDisk, MountMungeKeyDisk,
                 SetupJwtKey, JwtDd, SetupMungeKey, MungeDd, CtlStorage,
                 ConfigureMysql, StartSlurmdbd, RegisterCluster, CtlServices,
                 LoginPrepare, LoginServices, LoginStatus, Call, OffPathStep, hostVars
  <2>2. QED
    BY <2>1, OffPathMig
<1>15. QED
  BY <1>1, <1>2, <1>3, <1>4, <1>5, <1>6, <1>7, <1>8, <1>9, <1>10, <1>11,
     <1>12, <1>13, <1>14 DEF Next, Proc

\* On the first boot of a hybrid compute node, a run that ends normally has
\* left no file below the four roots owned by slurm's original uid or gid,
\* for every tree of files and every initial ownership
\* (change_uid_gid_slurm, recursive_chown and _my_chown).
THEOREM MigrationConvergedFirstBoot == Spec => [](boots <= 1 => MigrationConverged)
<1>1. Init => MigInv
  BY TypeOKInit, BannerInit DEF MigInv, Init, MigCore, HybridFirstRun, BeforeMig, AfterMig
<1>2. MigInv /\ [Next]_vars => MigInv'
  BY TypeOKStep, BannerStep, MigStep DEF MigInv
<1>3. MigInv => (boots <= 1 => MigrationConverged)
  BY DEF MigInv, MigCore, HybridFirstRun, MigrationConverged, Clean
<1>4. QED
  BY <1>1, <1>2, <1>3, PTL DEF Spec

-----------------------------------------------------------------------------
(* The symlinks are in place once a run is past configure_dirs.  Only      *)
(* configure_dirs touches them, and every other step either starts at a    *)
(* label after it, where the links are already in place, or is one of the *)
(* few steps before it, which cannot reach a label after it.               *)

\* No step other than configure_dirs touches the three symlink paths.
LEMMA LinksKept ==
    ASSUME \/ Boot \/ Reboot \/ StartMotd \/ GetConfigRetry \/ GetConfig
           \/ StoreReady \/ Dispatch \/ SetupCloudOps \/ SetupHybrid
           \/ CtlPrepare \/ MountSaveStateDisk \/ MountMungeKeyDisk
           \/ SetupJwtKey \/ JwtDd \/ SetupMungeKey \/ MungeDd \/ CtlStorage
           \/ ConfigureMysql \/ StartSlurmdbd \/ RegisterCluster \/ CtlServices
           \/ RunCustomScripts \/ RunScript \/ ScriptsDone \/ GroupMod \/ UserMod
           \/ RecursiveChown \/ CmpPrepare \/ CmpServices \/ LoginPrepare
           \/ LoginServices \/ LoginStatus \/ EndMotd \/ Handler
    PROVE  links' = links
BY DEF Boot, Reboot, StartMotd, GetConfigRetry, GetConfig, StoreReady,
       Dispatch, SetupCloudOps, SetupHybrid, CtlPrepare, MountSaveStateDisk,
       MountMungeKeyDisk, SetupJwtKey, JwtDd, SetupMungeKey, MungeDd, CtlStorage,
       ConfigureMysql, StartSlurmdbd, RegisterCluster, CtlServices,
       RunCustomScripts, RunScript, ExecuteScript, ScriptsDone, GroupMod, UserMod,
       RecursiveChown, CmpPrepare, CmpServices, LoginPrepare, LoginServices,
       LoginStatus, EndMotd, Handler, Call, hostVars

\* The steps of the roles, the scripts and end_motd start after configure_dirs.
LEMMA RoleStepGuard ==
    ASSUME \/ Dispatch \/ CtlPrepare \/ MountSaveStateDisk \/ MountMungeKeyDisk
           \/ SetupJwtKey \/ JwtDd \/ SetupMungeKey \/ MungeDd \/ CtlStorage
           \/ ConfigureMysql \/ StartSlurmdbd \/ RegisterCluster \/ CtlServices
           \/ RunCustomScripts \/ RunScript \/ ScriptsDone \/ GroupMod \/ UserMod
           \/ RecursiveChown \/ CmpPrepare \/ CmpServices \/ LoginPrepare
           \/ LoginServices \/ LoginStatus \/ EndMotd
    PROVE  pc \in RoleSteps
BY DEF Dispatch, CtlPrepare, MountSaveStateDisk, MountMungeKeyDisk,
       SetupJwtKey, JwtDd, SetupMungeKey, MungeDd, CtlStorage, ConfigureMysql,
       StartSlurmdbd, RegisterCluster, CtlServices, RunCustomScripts, RunScript,
       ExecuteScript, ScriptsDone, GroupMod, UserMod, RecursiveChown, CmpPrepare,
       CmpServices, LoginPrepare, LoginServices, LoginStatus, EndMotd, Call,
       RoleSteps, Labels

LinksInv == TypeOK /\ BannerCore /\ LinksInPlace

LEMMA LinksStep == LinksInv /\ [Next]_vars => LinksInPlace'
<1> SUFFICES ASSUME LinksInv, [Next]_vars PROVE LinksInPlace'
  OBVIOUS
<1> USE DEF LinksInv
<1>1. CASE ConfigureDirs
  <2>1. CASE pc' = "dispatch"
    <3>1. \A j \in 1..3 : ~LinkBlocked(j)
      BY <1>1, <2>1 DEF ConfigureDirs, Goto, Raise
    <3>2. \A i \in 1..3 : links'[i] = "ours"
      BY <1>1, <2>1, <3>1 DEF ConfigureDirs, Raise
    <3>3. QED
      BY <3>2 DEF LinksInPlace
  <2>2. CASE pc' = "handler"
    BY <1>1, <2>2 DEF ConfigureDirs, Goto, Raise, LinksInPlace, RoleSteps
  <2>3. QED
    BY <1>1, <2>1, <2>2 DEF ConfigureDirs, Goto, Raise
<1>2. CASE ~ConfigureDirs /\ pc \in RoleSteps
  <2>1. \A i \in 1..3 : links[i] = "ours"
    BY <1>2 DEF LinksInPlace
  <2>2. links' = links
    BY <1>2, LinksKept DEF Next, Proc, vars, hostVars
  <2>3. QED
    BY <2>1, <2>2 DEF LinksInPlace
<1>3. CASE ~ConfigureDirs /\ pc \notin RoleSteps
  <2>1. \/ Boot \/ Reboot \/ StartMotd \/ GetConfigRetry \/ GetConfig
        \/ StoreReady \/ SetupCloudOps \/ SetupHybrid \/ Handler
        \/ UNCHANGED vars
    BY <1>3, RoleStepGuard DEF Next, Proc
  <2>2. CASE Boot \/ Reboot \/ StartMotd \/ GetConfigRetry \/ GetConfig
             \/ SetupCloudOps
    BY <2>2 DEF Boot, Reboot, StartMotd, GetConfigRetry, GetConfig,
                SetupCloudOps, Call, Goto, Raise, LinksInPlace, RoleSteps
  <2>3. CASE SetupHybrid
    <3>1. exc = "none" /\ mode # "main"
      BY <2>3 DEF SetupHybrid, Call, BannerCore, Unwinding
    <3>2. QED
      BY <2>3, <3>1 DEF SetupHybrid, Call, Goto, Raise, LinksInPlace, RoleSteps
  <2>4. CASE Handler
    <3>1. pc = "handler" /\ exc # "none"
      BY <2>4 DEF Handler, BannerCore
    <3>2. QED
      BY <2>4, <3>1 DEF Handler, Goto, LinksInPlace, RoleSteps
  <2>5. CASE StoreReady \/ UNCHANGED vars
    BY <2>5 DEF StoreReady, LinksInPlace, vars, procVars, hostVars
  <2>6. QED
    BY <2>1, <2>2, <2>3, <2>4, <2>5
<1>4. QED
  BY <1>1, <1>2, <1>3

\* A run that got past configure_dirs, in this boot or after it, has each of
\* its three symlink paths pointing at its target, for every state the image
\* or an earlier boot left them in (configure_dirs's unlink and symlink_to).
THEOREM LinksInPlaceHolds == Spec => []LinksInPlace
<1>1. Init => LinksInv
  BY TypeOKInit, BannerInit DEF LinksInv, Init, LinksInPlace, RoleSteps
<1>2. LinksInv /\ [Next]_vars => LinksInv'
  BY TypeOKStep, BannerStep, LinksStep DEF LinksInv
<1>3. LinksInv => LinksInPlace
  BY DEF LinksInv
<1>4. QED
  BY <1>1, <1>2, <1>3, PTL DEF Spec

=============================================================================
