----------------------------- MODULE MCBackupRun -----------------------------
(***************************************************************************)
(* The instance of BackupRun for TLC that shows two uploads of one second; *)
(* MCRetention has the others.                                             *)
(***************************************************************************)
EXTENDS BackupRun
=============================================================================
