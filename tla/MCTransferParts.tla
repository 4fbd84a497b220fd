-------------------------- MODULE MCTransferParts --------------------------
(***************************************************************************)
(* Small instances of five parts that share no state and carry data over a *)
(* while: an upload in chunks, the camera backup, the desktop client's     *)
(* workers, the files of an object store, and the cutting of a stream into *)
(* chunks.  One of them moves in a behaviour, and fairness is asked of     *)
(* that one.                                                               *)
(***************************************************************************)
EXTENDS Uploads, BackupLedger, GuiWorker, ObjectFiles, StreamChunks

VARIABLE moving     \* the part that moves

MCAddedAt(s) == s
MCGear(b) == b

transferVars == <<moving, uploadsVars, backupVars, guiVars, objectVars, streamVars>>

TransferInit ==
    /\ moving \in {"upload", "backup", "gui", "object", "stream"}
    /\ UploadsInit /\ BackupInit /\ GuiInit /\ ObjectInit /\ StreamInit

TransferNext ==
    /\ UNCHANGED moving
    /\ \/ moving = "upload" /\ UploadsNext /\ UNCHANGED <<backupVars, guiVars, objectVars, streamVars>>
       \/ moving = "backup" /\ BackupNext  /\ UNCHANGED <<uploadsVars, guiVars, objectVars, streamVars>>
       \/ moving = "gui"    /\ GuiNext     /\ UNCHANGED <<uploadsVars, backupVars, objectVars, streamVars>>
       \/ moving = "object" /\ ObjectNext  /\ UNCHANGED <<uploadsVars, backupVars, guiVars, streamVars>>
       \/ moving = "stream" /\ StreamNext  /\ UNCHANGED <<uploadsVars, backupVars, guiVars, objectVars>>

TransferSpec ==
    /\ TransferInit /\ [][TransferNext]_transferVars
    /\ WF_uploadsVars(moving = "upload" /\ UploadsServer)
    /\ WF_uploadsVars(moving = "upload" /\ UploadsClient)
    /\ \A r \in BackupRun : WF_backupVars(moving = "backup" /\ BackupGoesOn(r))
    /\ WF_guiVars(moving = "gui" /\ Poll)

\* Every part's variables have their types.
TransferTypeOK == UploadsTypeOK /\ BackupTypeOK /\ GuiTypeOK /\ ObjectFilesTypeOK /\ StreamTypeOK

=============================================================================
