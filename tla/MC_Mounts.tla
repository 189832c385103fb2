------------------------------ MODULE MC_Mounts ------------------------------
(* Mounts for TLC; the .cfg files bind its one constant.                   *)
EXTENDS Mounts
=============================================================================
