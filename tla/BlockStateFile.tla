--------------------------- MODULE BlockStateFile ---------------------------
(***************************************************************************)
(* The durable IP block list: StateWriter and                              *)
(* persist_client_ip_blocklist_atomically of                               *)
(* src/src/security/ip_blocking_persistence.rs, one action per file-system *)
(* call, each of which may fail, with process crashes and power losses     *)
(* between any two of them.                                                *)
(*                                                                         *)
(* The file system is modelled from what the code relies on: a rename is   *)
(* atomic, its effect survives a power loss only once the directory has    *)
(* been synced, and a file renamed before its data were synced may be      *)
(* unreadable after a power loss.                                          *)
(***************************************************************************)
EXTENDS Naturals

CONSTANTS Content, \* the block lists that can be serialized
          NoFile,  \* there is no state file
          Torn,    \* a state file whose bytes cannot be parsed
          Fallible \* the calls that may fail, each named by its value of wpc

ASSUME ContentAssumption ==
  NoFile \notin Content /\ Torn \notin Content /\ NoFile # Torn

VARIABLES
  file,    \* what reading writer.path gives now
  shadow,  \* earlier contents that a power loss may bring back
  temp,    \* the temporary file of the write in progress
  left,    \* number of temporary files of this writer on disk
  orphan,  \* cleanup_temp: "None", or "Some" path
  wpc,     \* the next call of persist_client_ip_blocklist_atomically
  buf      \* the serialized block list, NoFile when there is none

dvars == <<file, shadow, temp, left, orphan, wpc, buf>>

Outcomes == {"ok", "err"}

DiskTypeOK ==
  /\ file \in Content \cup {NoFile, Torn}
  /\ shadow \subseteq Content \cup {NoFile, Torn}
  /\ temp \in {"none", "partial", "synced"}
  /\ left \in Nat
  /\ orphan \in {"None", "Some"}
  /\ wpc \in {"free", "clean", "serialize", "create", "write", "rename",
              "sync", "unlink"} \cup Outcomes
  /\ buf \in Content \cup {NoFile}

\* A new process: no file of an earlier writer is known to it.
FreshWriter ==
  /\ temp' = "none"
  /\ left' = 0
  /\ orphan' = "None"
  /\ wpc' = "free"
  /\ buf' = NoFile

MayFail == wpc \in Fallible

-----------------------------------------------------------------------------
(* persist_client_ip_blocklist_atomically, call by call *)

\* The call: take the known orphan, if any.
BeginWrite ==
  /\ wpc = "free"
  /\ wpc' = IF orphan = "Some" THEN "clean" ELSE "serialize"
  /\ UNCHANGED <<file, shadow, temp, left, orphan, buf>>

\* Mutant: a failing clean-up does not stop the call.
CleanOrphanAnyway ==
  /\ wpc = "clean"
  /\ wpc' = "serialize"
  /\ orphan' = "None"
  /\ \/ left' = IF left > 0 THEN left - 1 ELSE 0
     \/ UNCHANGED left
  /\ UNCHANGED <<file, shadow, temp, buf>>

\* remove_file(orphan): gone (or not found), or the call is given up.
CleanOrphan ==
  /\ wpc = "clean"
  /\ \/ /\ wpc' = "serialize"
        /\ orphan' = "None"
        /\ left' = IF left > 0 THEN left - 1 ELSE 0
     \/ /\ MayFail
        /\ wpc' = "err"
        /\ UNCHANGED <<orphan, left>>
  /\ UNCHANGED <<file, shadow, temp, buf>>

\* The unexpired records c become bytes, unless they exceed MAX_STATE_BYTES.
Serialize(c) ==
  /\ wpc = "serialize"
  /\ \/ wpc' = "create" /\ buf' = c
     \/ MayFail /\ wpc' = "err" /\ UNCHANGED buf
  /\ UNCHANGED <<file, shadow, temp, left, orphan>>

\* open with create_new, or an error before anything was created.
CreateTemp ==
  /\ wpc = "create"
  /\ \/ /\ wpc' = "write"
        /\ temp' = "partial"
        /\ left' = left + 1
     \/ /\ MayFail
        /\ wpc' = "err"
        /\ UNCHANGED <<temp, left>>
  /\ UNCHANGED <<file, shadow, orphan, buf>>

\* Mutant: no sync_all before the rename.
WriteTempUnsynced ==
  /\ wpc = "write"
  /\ \/ wpc' = "rename"
     \/ MayFail /\ wpc' = "unlink"
  /\ UNCHANGED <<file, shadow, temp, left, orphan, buf>>

\* write_all, flush and sync_all.
WriteTemp ==
  /\ wpc = "write"
  /\ \/ wpc' = "rename" /\ temp' = "synced"
     \/ MayFail /\ wpc' = "unlink" /\ UNCHANGED temp
  /\ UNCHANGED <<file, shadow, left, orphan, buf>>

\* rename(temp, writer.path).
RenameTemp ==
  /\ wpc = "rename"
  /\ \/ /\ wpc' = "sync"
        /\ file' = buf
        /\ shadow' = shadow \cup {file}
                            \cup (IF temp = "synced" THEN {} ELSE {Torn})
        /\ temp' = "none"
        /\ left' = left - 1
     \/ /\ MayFail
        /\ wpc' = "unlink"
        /\ UNCHANGED <<file, shadow, temp, left>>
  /\ UNCHANGED <<orphan, buf>>

\* Mutant: the directory is not synced.
SyncNothing ==
  /\ wpc = "sync"
  /\ wpc' = "ok"
  /\ UNCHANGED <<file, shadow, temp, left, orphan, buf>>

\* sync_all on the parent directory.
SyncDirectory ==
  /\ wpc = "sync"
  /\ \/ wpc' = "ok" /\ shadow' = {}
     \/ MayFail /\ wpc' = "unlink" /\ UNCHANGED shadow
  /\ UNCHANGED <<file, temp, left, orphan, buf>>

\* The error path: remove_file(temp), remembering the path when that fails.
UnlinkTemp ==
  /\ wpc = "unlink"
  /\ wpc' = "err"
  /\ temp' = "none"
  /\ \/ left' = (IF temp = "none" THEN left ELSE left - 1) /\ UNCHANGED orphan
     \/ MayFail /\ orphan' = "Some" /\ UNCHANGED left
  /\ UNCHANGED <<file, shadow, buf>>

\* The caller takes the result.
EndWrite ==
  /\ wpc \in Outcomes
  /\ wpc' = "free"
  /\ buf' = NoFile
  /\ UNCHANGED <<file, shadow, temp, left, orphan>>

WriteStep ==
  \/ CleanOrphan \/ CreateTemp \/ WriteTemp
  \/ RenameTemp \/ SyncDirectory \/ UnlinkTemp

-----------------------------------------------------------------------------
\* The process dies: what it renamed stays visible.
ProcessCrash ==
  /\ FreshWriter
  /\ UNCHANGED <<file, shadow>>

\* The machine dies: an unsynced rename may or may not have happened.
PowerLoss ==
  /\ FreshWriter
  /\ file' \in {file} \cup shadow
  /\ shadow' = {}

Init ==
  /\ file \in Content \cup {NoFile}
  /\ shadow = {}
  /\ temp = "none"
  /\ left = 0
  /\ orphan = "None"
  /\ wpc = "free"
  /\ buf = NoFile

Next ==
  \/ BeginWrite
  \/ \E c \in Content : Serialize(c)
  \/ WriteStep
  \/ EndWrite
  \/ ProcessCrash
  \/ PowerLoss

Spec == Init /\ [][Next]_dvars

-----------------------------------------------------------------------------
(* Properties *)

\* The comment on StateWriter.cleanup_temp: at most one orphan per live
\* writer, and none that the next write would not remove first.  (The writer
\* may also remember a path that no longer exists.)
OneTemporary ==
  /\ left <= 1
  /\ (wpc \in {"free", "ok", "err"} /\ left = 1) => orphan = "Some"

\* A write reported as successful is the only content that any crash can
\* leave (the rename and the directory sync both come before Ok).
AcknowledgedIsDurable == wpc = "ok" => (file = buf /\ shadow = {})

\* The file is replaced as a whole: whatever fails and whenever the machine
\* dies, the writer implements the abstract file above, whose possible
\* contents are always complete.
Abstract == INSTANCE AtomicBlockFile WITH poss <- {file} \cup shadow

ImplementsAtomicFile == Abstract!Spec
=============================================================================
