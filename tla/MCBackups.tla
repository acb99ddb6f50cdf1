------------------------------ MODULE MCBackups ------------------------------
(***************************************************************************)
(* Instances of Backups for TLC: two backups, in one second or in two,     *)
(* which is what it takes for one to touch the file of another, a late     *)
(* copy of each task, and a restore of either.                             *)
(***************************************************************************)
EXTENDS Backups
=============================================================================
