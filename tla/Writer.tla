------------------------------- MODULE Writer -------------------------------
(***************************************************************************)
(* internal/config/writer.go: Writer.Write, call by call, over a file      *)
(* system that keeps data in memory until it is synced.                    *)
(*                                                                         *)
(* The file system is external.  Directory entries and modes reach the     *)
(* disk in the order they were made, at a time of its own choosing; the    *)
(* data of a file reaches it on Sync or at any time.  A crash of the       *)
(* process loses Writer.last; a power loss also loses what is not on disk. *)
(***************************************************************************)
CONSTANTS Contents, \* complete configurations
          Nothing,  \* no file, no content
          Partial,  \* a prefix of a configuration
          Inodes    \* as many files as the volume can hold

ASSUME ContentsAssumption == Nothing \notin Contents /\ Partial \notin Contents
ASSUME InodesAssumption == Nothing \notin Inodes

VARIABLES data,     \* each file's data as processes see it
          disk,     \* each file's data on disk
          readable, \* the files Gatus may read (mode 0644)
          target,   \* the file named w.path
          onDisk,   \* the same directory entry on disk
          temps,    \* the files that have a temporary name
          last,     \* Writer.last
          pc,       \* the next call Write makes, or idle
          content,  \* Write's argument
          tmp,      \* Write's temporary file
          result,   \* how the latest Write returned
          before,   \* what a reader found when it was called (history)
          unread,   \* the call could not read the old file (history)
          orphans   \* temporary files no Write will remove (history)

fileVars == <<data, disk, readable, target, onDisk, temps>>
callVars == <<content, tmp, before, unread>>
vars == <<fileVars, callVars, last, pc, result, orphans>>

View == IF target = Nothing THEN Nothing ELSE data[target]
DiskView == IF onDisk = Nothing THEN Nothing ELSE disk[onDisk]

(* Nothing has been published yet. *)
Init ==
    /\ data = [i \in Inodes |-> Nothing]
    /\ disk = [i \in Inodes |-> Nothing]
    /\ readable = {}
    /\ target = Nothing
    /\ onDisk = Nothing
    /\ temps = {}
    /\ last = Nothing
    /\ pc = "idle"
    /\ content = Nothing
    /\ tmp = Nothing
    /\ result = "none"
    /\ before = Nothing
    /\ unread = FALSE
    /\ orphans = {}

-----------------------------------------------------------------------------
(* Write. *)

(* Mutant of Unchanged: a first write does not look at the disk. *)
UnchangedInMemory(c, readSucceeds) == last # Nothing /\ c = last

(* The content is what was written last or, on a first write, what is on disk
   already, as far as it can be read. *)
Unchanged(c, readSucceeds) ==
    IF last = Nothing THEN readSucceeds /\ c = View ELSE c = last

Begin(c, readSucceeds) ==
    /\ pc = "idle"
    /\ content' = c
    /\ before' = View
    /\ unread' = (last = Nothing /\ target # Nothing /\ ~readSucceeds)
    /\ IF Unchanged(c, readSucceeds)
         THEN last' = c /\ result' = "unchanged" /\ UNCHANGED pc
         ELSE pc' = "create" /\ result' = "none" /\ UNCHANGED last
    /\ UNCHANGED <<fileVars, tmp, orphans>>

(* MkdirAll and CreateTemp: an empty file only its owner can read. *)
Free == Inodes \ (temps \cup {target, onDisk})

(* Mutant of CreateTemp: the old file is removed first. *)
CreateTempInstead(i) ==
    /\ pc = "create"
    /\ i \in Inodes \ (temps \cup {target, onDisk})
    /\ target' = Nothing
    /\ tmp' = i
    /\ temps' = temps \cup {i}
    /\ data' = [data EXCEPT ![i] = Nothing]
    /\ disk' = [disk EXCEPT ![i] = Nothing]
    /\ readable' = readable \ {i}
    /\ pc' = "write"
    /\ UNCHANGED <<onDisk, last, content, before, unread, result, orphans>>

CreateTemp(i) ==
    /\ pc = "create"
    /\ i \in Free
    /\ tmp' = i
    /\ temps' = temps \cup {i}
    /\ data' = [data EXCEPT ![i] = Nothing]
    /\ disk' = [disk EXCEPT ![i] = Nothing]
    /\ readable' = readable \ {i}
    /\ pc' = "write"
    /\ UNCHANGED <<target, onDisk, last, content, before, unread, result, orphans>>

CreateFails ==
    /\ pc = "create"
    /\ result' = "error"
    /\ pc' = "idle"
    /\ UNCHANGED <<fileVars, callVars, last, orphans>>

(* tmp.Write may be caught, or fail, half way. *)
WriteSome ==
    /\ pc = "write"
    /\ data' = [data EXCEPT ![tmp] = Partial]
    /\ UNCHANGED <<disk, readable, target, onDisk, temps, callVars, last, pc,
                   result, orphans>>

WriteAll ==
    /\ pc = "write"
    /\ data' = [data EXCEPT ![tmp] = content]
    /\ pc' = "sync"
    /\ UNCHANGED <<disk, readable, target, onDisk, temps, callVars, last,
                   result, orphans>>

(* Mutant of Sync: no sync. *)
SkipSync ==
    /\ pc = "sync"
    /\ pc' = "close"
    /\ UNCHANGED <<fileVars, callVars, last, result, orphans>>

Sync ==
    /\ pc = "sync"
    /\ disk' = [disk EXCEPT ![tmp] = data[tmp]]
    /\ pc' = "close"
    /\ UNCHANGED <<data, readable, target, onDisk, temps, callVars, last,
                   result, orphans>>

Close ==
    /\ pc = "close"
    /\ pc' = "chmod"
    /\ UNCHANGED <<fileVars, callVars, last, result, orphans>>

(* Mutant of Chmod: it names the target instead of the temporary file. *)
ChmodTarget ==
    /\ pc = "chmod"
    /\ readable' = readable \cup {target}
    /\ pc' = "rename"
    /\ UNCHANGED <<data, disk, target, onDisk, temps, callVars, last, result,
                   orphans>>

Chmod ==
    /\ pc = "chmod"
    /\ readable' = readable \cup {tmp}
    /\ pc' = "rename"
    /\ UNCHANGED <<data, disk, target, onDisk, temps, callVars, last, result,
                   orphans>>

Rename ==
    /\ pc = "rename"
    /\ target' = tmp
    /\ temps' = temps \ {tmp}
    /\ last' = content
    /\ result' = "changed"
    /\ pc' = "idle"
    /\ UNCHANGED <<data, disk, readable, onDisk, callVars, orphans>>

(* Mutants of CallFails: the temporary file is not removed; the content is
   remembered though it was not published. *)
CallFailsLeaving ==
    /\ pc \in {"write", "sync", "close", "chmod", "rename"}
    /\ result' = "error"
    /\ pc' = "idle"
    /\ UNCHANGED <<fileVars, callVars, last, orphans>>

CallFailsRemembering ==
    /\ pc \in {"write", "sync", "close", "chmod", "rename"}
    /\ last' = content
    /\ pc' = "remove"
    /\ UNCHANGED <<fileVars, callVars, result, orphans>>

(* Any of these calls can fail; the deferred Remove then runs. *)
CallFails ==
    /\ pc \in {"write", "sync", "close", "chmod", "rename"}
    /\ pc' = "remove"
    /\ UNCHANGED <<fileVars, callVars, last, result, orphans>>

(* Mutant of Remove: the error of the failed call is swallowed. *)
RemoveAndCarryOn(succeeds) ==
    /\ pc = "remove"
    /\ temps' = IF succeeds THEN temps \ {tmp} ELSE temps
    /\ orphans' = IF succeeds THEN orphans ELSE orphans \cup {tmp}
    /\ result' = "changed"
    /\ pc' = "idle"
    /\ UNCHANGED <<data, disk, readable, target, onDisk, callVars, last>>

(* The error of Remove is ignored. *)
Remove(succeeds) ==
    /\ pc = "remove"
    /\ temps' = IF succeeds THEN temps \ {tmp} ELSE temps
    /\ orphans' = IF succeeds THEN orphans ELSE orphans \cup {tmp}
    /\ result' = "error"
    /\ pc' = "idle"
    /\ UNCHANGED <<data, disk, readable, target, onDisk, callVars, last>>

-----------------------------------------------------------------------------
(* The file system and the machine. *)

FlushData(i) ==
    /\ disk' = [disk EXCEPT ![i] = data[i]]
    /\ UNCHANGED <<data, readable, target, onDisk, temps, callVars, last, pc,
                   result, orphans>>

FlushDirectory ==
    /\ onDisk' = target
    /\ UNCHANGED <<data, disk, readable, target, temps, callVars, last, pc,
                   result, orphans>>

Restarted ==
    /\ last' = Nothing
    /\ pc' = "idle"
    /\ content' = Nothing
    /\ tmp' = Nothing
    /\ before' = Nothing
    /\ unread' = FALSE
    /\ result' = "none"

ProcessCrash ==
    /\ Restarted
    /\ orphans' = temps
    /\ UNCHANGED fileVars

(* A temporary name survives a power loss or does not. *)
LosePower(survivors) ==
    /\ Restarted
    /\ survivors \subseteq temps
    /\ data' = disk
    /\ target' = onDisk
    /\ temps' = survivors
    /\ orphans' = survivors
    /\ UNCHANGED <<disk, readable, onDisk>>

Next ==
    \/ \E c \in Contents, readSucceeds \in BOOLEAN : Begin(c, readSucceeds)
    \/ \E i \in Inodes : CreateTemp(i)
    \/ CreateFails
    \/ WriteSome \/ WriteAll \/ Sync \/ Close \/ Chmod \/ Rename
    \/ CallFails
    \/ \E succeeds \in BOOLEAN : Remove(succeeds)
    \/ \E i \in Inodes : FlushData(i)
    \/ FlushDirectory
    \/ ProcessCrash
    \/ \E survivors \in SUBSET temps : LosePower(survivors)

Spec == Init /\ [][Next]_vars

-----------------------------------------------------------------------------
(* Properties. *)

(* Every variable keeps its type. *)
TypeOK ==
    /\ data \in [Inodes -> Contents \cup {Nothing, Partial}]
    /\ disk \in [Inodes -> Contents \cup {Nothing, Partial}]
    /\ readable \subseteq Inodes
    /\ target \in Inodes \cup {Nothing}
    /\ onDisk \in Inodes \cup {Nothing}
    /\ temps \subseteq Inodes
    /\ last \in Contents \cup {Nothing}
    /\ pc \in {"idle", "create", "write", "sync", "close", "chmod", "rename",
              "remove"}
    /\ content \in Contents \cup {Nothing}
    /\ tmp \in Inodes \cup {Nothing}
    /\ result \in {"none", "unchanged", "changed", "error"}
    /\ before \in Contents \cup {Nothing, Partial}
    /\ unread \in BOOLEAN
    /\ orphans \subseteq Inodes

(* Whatever crashes and whenever, Gatus finds no file or a whole one that it
   may read, in memory and on disk. *)
ReaderFindsWholeFile ==
    /\ target # Nothing => data[target] \in Contents /\ target \in readable
    /\ onDisk # Nothing => disk[onDisk] \in Contents /\ onDisk \in readable

(* An error leaves the previous file in place; a success leaves the argument
   there, also when nothing was written because of Writer.last. *)
ResultTellsTheFile ==
    /\ result = "error" => View = before
    /\ result \in {"unchanged", "changed"} => View = content

(* Writer.last never disagrees with the file. *)
LastIsPublished == last # Nothing => View = last

(* Between two calls there are no temporary files but those of a crash or of a
   failed Remove: no failing Write leaves one behind. *)
NoLeftovers == pc = "idle" => temps \subseteq orphans

(* The file is replaced only by a different content, so Gatus reloads only for
   a change (writer.go:63-66), also across restarts (writer.go:86-87) unless the
   first write could not read the old file: it is then written anew, equal or
   not. *)
NoNeedlessReload ==
    [][target' # target /\ last' # Nothing => View' # View \/ unread]_vars

(* Write implements the atomic file its comment promises. *)
Atomic == INSTANCE AtomicFile WITH file <- View, durable <- DiskView
AtomicFileSpec == Atomic!AtomicFileSpec
=============================================================================
