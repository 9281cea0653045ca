-------------------------- MODULE CheckpointStore --------------------------
(***************************************************************************)
(* The file a session checkpoint is saved to (src/runtime/state_store.c):  *)
(* one writer, one destination name, and the directory that holds it.  The *)
(* writer fills a temporary file, makes it durable, links it under the     *)
(* destination name without replacing anything, removes the temporary name *)
(* and makes the directory durable.  Every call may fail.  The machine may *)
(* stop at any point.  A directory entry that was changed and not yet made *)
(* durable has its old or its new value after a stop; a file that was not  *)
(* made durable has any content.  The file system is external and modelled *)
(* by those two facts.  The temporary name itself is not tracked: another  *)
(* process takes another one, and one left behind by a stop is never read. *)
(* LinkUnsynced and WriterCloseAlways are wrong variants of the            *)
(* definitions they precede; no action uses them.                          *)
(***************************************************************************)
CONSTANTS Image,          \* what a complete checkpoint may hold
          NoFile,         \* the destination name does not exist
          Torn            \* a file whose content is not a complete checkpoint

ASSUME ImageAssumption == /\ NoFile \notin Image /\ Torn \notin Image
                          /\ NoFile # Torn

VARIABLES
    writer,               \* the step of state_file_writer it is at
    image,                \* what the caller of the save wants on disk
    synced,               \* the temporary file is durable
    linked,               \* destination_exists: this writer made the link
    dest,                 \* what the destination name leads to now
    disk,                 \* what it may lead to after a stop
    saved                 \* the image of the save that returned YVEX_OK

storeVars == <<writer, image, synced, linked, dest, disk, saved>>

StoreTypeOK ==
    /\ writer \in {"idle", "write", "fsync", "link", "unlink", "fsyncdir",
                   "failed"}
    /\ image \in Image \cup {NoFile}
    /\ synced \in BOOLEAN /\ linked \in BOOLEAN
    /\ dest \in Image \cup {NoFile, Torn}
    /\ disk \in SUBSET (Image \cup {NoFile, Torn}) /\ disk # {}
    /\ saved \in Image \cup {NoFile}

StoreInit ==
    /\ writer = "idle" /\ image = NoFile
    /\ synced = FALSE /\ linked = FALSE
    /\ dest = NoFile /\ disk = {NoFile}
    /\ saved = NoFile
-----------------------------------------------------------------------------
\* The writer is closed and its record cleared.
WriterEnd == /\ writer' = "idle" /\ image' = NoFile
             /\ synced' = FALSE /\ linked' = FALSE

\* A call of the writer that fails; the save goes on to close the writer.
Fail == writer' = "failed" /\ UNCHANGED <<image, synced, linked,
                                          dest, disk, saved>>

\* state_file_writer_open: a fresh exclusive name beside the destination.
WriterOpen(i) ==
    /\ writer = "idle"
    /\ image' = i
    /\ \/ writer' = "write"
       \/ writer' = "failed"
    /\ synced' = FALSE /\ linked' = FALSE
    /\ UNCHANGED <<dest, disk, saved>>

\* state_file_writer_write, once for each record of the file.
WriterWrite ==
    /\ writer = "write"
    /\ \/ writer' = "fsync" /\ UNCHANGED <<image, synced, linked,
                                           dest, disk, saved>>
       \/ Fail

\* state_file_writer_publish, fsync and close of the file.
WriterSync ==
    /\ writer = "fsync"
    /\ \/ writer' = "link" /\ synced' = TRUE
          /\ UNCHANGED <<image, linked, dest, disk, saved>>
       \/ Fail

\* What a name that leads to the file may be found to hold after a stop.
Durable == IF synced THEN image ELSE Torn

LinkUnsynced ==
    /\ writer \in {"fsync", "link"} /\ dest = NoFile
    /\ writer' = "unlink" /\ linked' = TRUE
    /\ dest' = image /\ disk' = disk \cup {Durable}
    /\ UNCHANGED <<image, synced, saved>>

\* linkat: fails when the destination exists.
Link ==
    /\ writer = "link" /\ dest = NoFile
    /\ writer' = "unlink" /\ linked' = TRUE
    /\ dest' = image /\ disk' = disk \cup {Durable}
    /\ UNCHANGED <<image, synced, saved>>

LinkFails == writer = "link" /\ Fail

\* unlinkat of the temporary name.
WriterUnlink ==
    /\ writer = "unlink"
    /\ \/ writer' = "fsyncdir"
          /\ UNCHANGED <<image, synced, linked, dest, disk, saved>>
       \/ Fail

\* fsync of the directory and the successful return of the save.
WriterPublish ==
    /\ writer = "fsyncdir"
    /\ saved' = image
    /\ disk' = {dest}
    /\ WriterEnd
    /\ UNCHANGED dest

WriterPublishFails == writer = "fsyncdir" /\ Fail

WriterCloseAlways ==
    /\ writer = "failed"
    /\ dest' \in {dest, NoFile}
    /\ disk' \in {disk \cup {dest'}, {dest'}}
    /\ WriterEnd
    /\ UNCHANGED saved

\* state_file_writer_close after a failure: it removes the names this writer
\* made and makes the directory durable; the result of each call is ignored.
WriterClose ==
    /\ writer = "failed"
    /\ dest' \in (IF linked THEN {dest, NoFile} ELSE {dest})
    /\ disk' \in {disk \cup {dest'}, {dest'}}
    /\ WriterEnd
    /\ UNCHANGED saved

\* The machine stops and comes back; the next writer has another process
\* number in its temporary name.
Stop ==
    /\ dest' \in disk /\ disk' = {dest'}
    /\ WriterEnd
    /\ UNCHANGED saved

WriterStep == \/ WriterWrite \/ WriterSync \/ Link \/ LinkFails
              \/ WriterUnlink \/ WriterPublish \/ WriterPublishFails
              \/ WriterClose

StoreNext == (\E i \in Image : WriterOpen(i)) \/ WriterStep \/ Stop

StoreSpec == StoreInit /\ [][StoreNext]_storeVars
-----------------------------------------------------------------------------
\* No partial checkpoint is ever visible under the destination name, now or
\* after a stop at this point: state_file_writer_publish makes the file
\* durable before it links it.
DestinationComplete == ({dest} \cup disk) \subseteq Image \cup {NoFile}

\* A save that returned YVEX_OK is still there, with the same content, after
\* any later save to the same name, failed or not, and after any stop.
SavedSurvives == saved # NoFile => dest = saved /\ disk = {saved}
=============================================================================
