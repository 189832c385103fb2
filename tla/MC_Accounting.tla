---------------------------- MODULE MC_Accounting ----------------------------
(* Accounting for TLC; the .cfg files bind its one constant.               *)
EXTENDS Accounting
=============================================================================
