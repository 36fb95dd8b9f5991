-------------------------- MODULE MCBackupDatabase --------------------------
(***************************************************************************)
(* BackupDatabase for TLC with and without a passphrase, which is drawn at *)
(* the start.  The .cfg file gives the constants of an encrypted backup; a *)
(* plain bundle has one write more, so that both objects are equally long. *)
(***************************************************************************)
EXTENDS BackupDatabase

VARIABLE encrypted

Plain == INSTANCE BackupDatabase WITH Encrypted <- FALSE, Chunks <- Chunks + 1

MCInit == \/ encrypted = TRUE /\ Init
          \/ encrypted = FALSE /\ Plain!Init

MCNext == /\ UNCHANGED encrypted
          /\ \/ encrypted = TRUE /\ Next
             \/ encrypted = FALSE /\ Plain!Next

\* Fairness of the encrypted pipeline, and of the plain one.
MCFairness ==
  /\ WF_vars(IF encrypted THEN Encoding ELSE Plain!Encoding)
  /\ WF_vars(IF encrypted THEN Producing ELSE Plain!Producing)
  /\ WF_vars(encrypted = TRUE /\ (GpgEncrypts \/ GpgFinishes))
  /\ WF_vars(encrypted = TRUE /\ GpgKilled)
  /\ WF_vars(encrypted = TRUE /\ (CopierBreaks \/ CopierDrains))
  /\ WF_vars(CloseReaderOnCancel)
  /\ WF_vars(encrypted = TRUE /\ CloseWriterOnCancel)
  /\ WF_vars(IF encrypted THEN Uploading ELSE Plain!Uploading)
  /\ WF_vars(PartEnds) /\ WF_vars(PublishEnds) /\ WF_vars(Returning)

MCSpec == MCInit /\ [][MCNext]_<<vars, encrypted>> /\ MCFairness
=============================================================================
