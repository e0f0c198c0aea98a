----------------------------- MODULE AtomicFile -----------------------------
(***************************************************************************)
(* What Writer.Write promises to whoever reads the configuration file      *)
(* (writer.go:77-80): the file is replaced as a whole, never half-written, *)
(* and after a power loss it is whole too, if perhaps an earlier one.      *)
(***************************************************************************)
CONSTANTS Contents, \* complete configurations
          Nothing   \* no file

VARIABLES file,     \* what a reader finds
          durable   \* what it would find after a power loss

AtomicFileTypeOK == /\ file \in Contents \cup {Nothing}
                    /\ durable \in Contents \cup {Nothing}

AtomicFileInit == AtomicFileTypeOK

Publish(c) == file' = c /\ UNCHANGED durable
Persist == durable' = file /\ UNCHANGED file
PowerLoss == file' = durable /\ UNCHANGED durable

AtomicFileNext == (\E c \in Contents : Publish(c)) \/ Persist \/ PowerLoss

AtomicFileSpec == AtomicFileInit /\ [][AtomicFileNext]_<<file, durable>>
=============================================================================
