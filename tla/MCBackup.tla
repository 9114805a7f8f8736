------------------------------- MODULE MCBackup -------------------------------
(***************************************************************************)
(* Instances of BackupController for TLC.                                  *)
(***************************************************************************)
EXTENDS BackupController
===============================================================================
