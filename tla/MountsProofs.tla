---------------------------- MODULE MountsProofs ----------------------------
(***************************************************************************)
(* Bind mounts never stack on the munge directory, and a finished run has  *)
(* the state directory on its disk, for every number of boots: proofs of   *)
(* the two invariants the MC_mounts run checks.                            *)
(***************************************************************************)
EXTENDS Mounts, SequenceTheorems, TLAPS

\* Why at most one bind mount: the munge line is only ever written after
\* the state line, which is only written once the disk is formatted; so a
\* boot that binds the munge directory from fstab also mounts the state
\* disk, and the run then fails at `mount` before it binds again.
BindInv ==
    /\ MountsTypeOK
    /\ Listed("state") => hasFs
    /\ Listed("munge") => Listed("state")
    /\ mungeMounts <= 1
    /\ pc \in {"state_fs", "state_fstab", "state_mount"} =>
           (mungeMounts = 1 => stateMounts = 1)
    /\ pc = "state_fstab" => hasFs
    /\ pc = "munge_bind" => mungeMounts = 0
    /\ pc \in {"state_mount", "munge_bind", "munge_fstab"} => Listed("state")

LEMMA BindInvInit == MountsInit => BindInv
BY MountsAssumption DEF MountsInit, BindInv, MountsTypeOK, Listed, Steps

\* Appending a line keeps the lines there were and adds one for e.
LEMMA ListedAppend ==
    ASSUME fstab \in Seq(Line), NEW e \in {"state", "munge"}, NEW t,
           [entry |-> e, tail |-> t] \in Line,
           fstab' = AppendLine(e, t)
    PROVE  /\ fstab' \in Seq(Line)
           /\ \A x \in {"state", "munge"} : Listed(x)' <=> (Listed(x) \/ x = e)
<1>1. CASE FstabHasExact(e)
  <2>1. Listed(e)
    BY <1>1 DEF FstabHasExact, Listed
  <2> QED
    BY <1>1, <2>1 DEF AppendLine, Listed
<1>2. CASE ~FstabHasExact(e)
  BY <1>2 DEF AppendLine, Listed
<1> QED
  BY <1>1, <1>2

LEMMA BindInvStep == BindInv /\ [MountsNext]_mvars => BindInv'
<1> SUFFICES ASSUME BindInv, [MountsNext]_mvars PROVE BindInv'
  OBVIOUS
<1>0. UNCHANGED fstab => \A x \in {"state", "munge"} : Listed(x)' = Listed(x)
  BY DEF Listed
<1>1. CASE Boot
  <2>1. MountsTypeOK'
    BY <1>1, MountsAssumption DEF Boot, BindInv, MountsTypeOK, Steps
  <2>2. mungeMounts' = 1 => stateMounts' = 1
    BY <1>1, <1>0 DEF Boot, BindInv
  <2> QED
    BY <1>1, <1>0, <2>1, <2>2 DEF Boot, BindInv
<1>2. CASE Reboot
  BY <1>2 DEF Reboot, BindInv, MountsTypeOK, Listed, Steps
<1>3. CASE StateFs
  BY <1>3, <1>0 DEF StateFs, BindInv, MountsTypeOK, Steps
<1>4. CASE StateFstab
  <2>1. fstab' \in Seq(Line) /\ \A x \in {"state", "munge"} : Listed(x)' <=> (Listed(x) \/ x = "state")
    BY <1>4, ListedAppend DEF StateFstab, BindInv, MountsTypeOK, Line
  <2> QED
    BY <1>4, <2>1 DEF StateFstab, BindInv, MountsTypeOK, Steps
<1>5. CASE StateMount
  BY <1>5 DEF StateMount, Fail, BindInv, MountsTypeOK, Listed, Steps
<1>6. CASE MungeBind
  BY <1>6 DEF MungeBind, BindInv, MountsTypeOK, Listed, Steps
<1>7. CASE MungeFstab
  <2>1. fstab' \in Seq(Line) /\ \A x \in {"state", "munge"} : Listed(x)' <=> (Listed(x) \/ x = "munge")
    BY <1>7, ListedAppend DEF MungeFstab, BindInv, MountsTypeOK, Line
  <2> QED
    BY <1>7, <2>1 DEF MungeFstab, BindInv, MountsTypeOK, Steps
<1>8. CASE UNCHANGED mvars
  BY <1>8 DEF mvars, BindInv, MountsTypeOK, Listed, Steps
<1> QED
  BY <1>1, <1>2, <1>3, <1>4, <1>5, <1>6, <1>7, <1>8 DEF MountsNext

\* However often the controller boots and crashes, at most one bind mount
\* lies on the munge directory (the MC_mounts run checks it for four boots).
THEOREM BindMountsNotStackedHolds == MountsSpec => []BindMountsNotStacked
<1>1. MountsInit => BindInv
  BY BindInvInit
<1>2. BindInv /\ [MountsNext]_mvars => BindInv'
  BY BindInvStep
<1>3. BindInv => BindMountsNotStacked
  BY DEF BindInv, BindMountsNotStacked
<1> QED
  BY <1>1, <1>2, <1>3, PTL DEF MountsSpec
-----------------------------------------------------------------------------
\* Why a finished run has the state directory on the formatted disk: each
\* step of the run establishes one fact that the later steps keep (mkfs,
\* then the state mount, then the bind), and only a reset, which sends the
\* run back to its start, undoes a mount.
DiskInv ==
    /\ MountsTypeOK
    /\ pc \in {"state_fstab", "state_mount", "munge_bind", "munge_fstab", "done"} => hasFs
    /\ pc \in {"munge_bind", "munge_fstab", "done"} => stateMounts = 1
    /\ pc \in {"munge_fstab", "done"} => mungeMounts >= 1

LEMMA DiskInvInit == MountsInit => DiskInv
BY MountsAssumption DEF MountsInit, DiskInv, MountsTypeOK, Steps

LEMMA DiskInvStep == DiskInv /\ [MountsNext]_mvars => DiskInv'
<1> SUFFICES ASSUME DiskInv, [MountsNext]_mvars PROVE DiskInv'
  OBVIOUS
<1>1. CASE Boot
  BY <1>1, MountsAssumption DEF Boot, DiskInv, MountsTypeOK, Steps
<1>2. CASE Reboot
  BY <1>2 DEF Reboot, DiskInv, MountsTypeOK, Steps
<1>3. CASE StateFs
  BY <1>3 DEF StateFs, DiskInv, MountsTypeOK, Steps
<1>4. CASE StateFstab
  <2>1. fstab' \in Seq(Line)
    BY <1>4, ListedAppend DEF StateFstab, DiskInv, MountsTypeOK, Line
  <2> QED
    BY <1>4, <2>1 DEF StateFstab, DiskInv, MountsTypeOK, Steps
<1>5. CASE StateMount
  BY <1>5 DEF StateMount, Fail, DiskInv, MountsTypeOK, Steps
<1>6. CASE MungeBind
  BY <1>6 DEF MungeBind, DiskInv, MountsTypeOK, Steps
<1>7. CASE MungeFstab
  <2>1. fstab' \in Seq(Line)
    BY <1>7, ListedAppend DEF MungeFstab, DiskInv, MountsTypeOK, Line
  <2> QED
    BY <1>7, <2>1 DEF MungeFstab, DiskInv, MountsTypeOK, Steps
<1>8. CASE UNCHANGED mvars
  BY <1>8 DEF mvars, DiskInv, MountsTypeOK, Steps
<1> QED
  BY <1>1, <1>2, <1>3, <1>4, <1>5, <1>6, <1>7, <1>8 DEF MountsNext

\* Whatever boots and resets came before, a controller whose mount steps
\* have all run (mount_save_state_disk, mount_munge_key_disk) has its state
\* directory mounted once, from a formatted disk, and the munge directory
\* bound.
THEOREM StateOnDiskHolds == MountsSpec => []StateOnDisk
<1>1. MountsInit => DiskInv
  BY DiskInvInit
<1>2. DiskInv /\ [MountsNext]_mvars => DiskInv'
  BY DiskInvStep
<1>3. DiskInv => StateOnDisk
  BY DEF DiskInv, StateOnDisk
<1> QED
  BY <1>1, <1>2, <1>3, PTL DEF MountsSpec
=============================================================================
