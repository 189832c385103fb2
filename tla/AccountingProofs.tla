-------------------------- MODULE AccountingProofs --------------------------
(***************************************************************************)
(* configure_mysql is safe to re-run after a crash at any of its steps,    *)
(* for every number of boots.                                              *)
(***************************************************************************)
EXTENDS Accounting, TLAPS

\* The user a `create user` is about to create never exists: it was
\* dropped by the step before, in this run.
MysqlInv ==
    /\ AccountingTypeOK
    /\ error # "exists"
    /\ pc = "create" => Hosts[host] \notin users

LEMMA MysqlInvInit == AccountingAssumption /\ AccountingInit => MysqlInv
<1> SUFFICES ASSUME AccountingAssumption, AccountingInit PROVE MysqlInv
  OBVIOUS
<1>1. boots \in 0..MaxBoots
  BY DEF AccountingAssumption, AccountingInit
<1>2. users \in SUBSET HostSet /\ grants \in SUBSET HostSet
  BY DEF AccountingInit
<1>3. pc \in Labels /\ host \in 1..2 /\ error = "none"
  BY DEF AccountingInit, Labels
<1> QED
  BY <1>1, <1>2, <1>3 DEF AccountingInit, MysqlInv, AccountingTypeOK

LEMMA MysqlInvStep ==
    AccountingAssumption /\ MysqlInv /\ [AccountingNext]_avars => MysqlInv'
<1> SUFFICES ASSUME AccountingAssumption, MysqlInv, [AccountingNext]_avars PROVE MysqlInv'
  OBVIOUS
<1>1. CASE Boot
  BY <1>1 DEF AccountingAssumption, Boot, MysqlInv, AccountingTypeOK, Labels
<1>2. CASE Reboot
  BY <1>2 DEF Reboot, MysqlInv, AccountingTypeOK, Labels
<1>3. CASE Mariadb
  BY <1>3 DEF Mariadb, Raise, MysqlInv, AccountingTypeOK, Labels
<1>4. CASE RestartDbd
  BY <1>4 DEF RestartDbd, Raise, MysqlInv, AccountingTypeOK, Labels
<1>5. CASE DbdReady
  BY <1>5 DEF DbdReady, MysqlInv, AccountingTypeOK
<1>6. CASE RegisterCluster
  BY <1>6 DEF RegisterCluster, Raise, MysqlInv, AccountingTypeOK, Labels
<1>7. ASSUME NEW h \in HostSet, Drop(h) PROVE MysqlInv'
  BY <1>7 DEF Drop, MysqlInv, AccountingTypeOK, Labels, HostSet
<1>8. ASSUME NEW h \in HostSet, Create(h) PROVE MysqlInv'
  BY <1>8 DEF Create, Raise, MysqlInv, AccountingTypeOK, Labels, HostSet
<1>9. ASSUME NEW h \in HostSet, Grant(h) PROVE MysqlInv'
  BY <1>9 DEF Grant, Raise, MysqlInv, AccountingTypeOK, Labels, HostSet
<1>10. CASE UNCHANGED avars
  BY <1>10 DEF avars, MysqlInv, AccountingTypeOK
<1> QED
  BY <1>1, <1>2, <1>3, <1>4, <1>5, <1>6, <1>7, <1>8, <1>9, <1>10 DEF AccountingNext

\* However the runs of setup_controller crash and restart, no `create user`
\* of configure_mysql fails because the user exists, whether the database
\* is Cloud SQL or not and however many boots there are.
THEOREM MysqlRerunSafeHolds ==
    ASSUME AccountingAssumption PROVE AccountingSpec => []MysqlRerunSafe
<1>1. AccountingInit => MysqlInv
  BY MysqlInvInit
<1>2. MysqlInv /\ [AccountingNext]_avars => MysqlInv'
  BY MysqlInvStep
<1>3. MysqlInv => MysqlRerunSafe
  BY DEF MysqlInv, MysqlRerunSafe
<1> QED
  BY <1>1, <1>2, <1>3, PTL DEF AccountingSpec
=============================================================================
