------------------------ MODULE BlockStateFileProofs ------------------------
(* Theorems about BlockStateFile, for every set of contents and whatever   *)
(* calls may fail.                                                         *)
EXTENDS BlockStateFile, TLAPS

\* The strengthening of OneTemporary and AcknowledgedIsDurable: the
\* temporary file on disk is the one of the write in progress or the one
\* remembered as an orphan, what is renamed has been synced, and no earlier
\* content outlives a successful sync.
WriterInv ==
  /\ DiskTypeOK
  /\ left <= 1
  /\ wpc \in {"free", "clean", "err"} /\ left = 1 => orphan = "Some"
  /\ wpc = "clean" => orphan = "Some"
  /\ wpc \in {"serialize", "create"} => left = 0 /\ orphan = "None"
  /\ wpc \in {"write", "rename"} => left = 1 /\ orphan = "None"
  /\ wpc = "write" => temp = "partial"
  /\ wpc = "rename" => temp = "synced"
  /\ wpc \in {"sync", "ok"} => left = 0 /\ orphan = "None" /\ temp = "none" /\ file = buf
  /\ wpc = "unlink" => orphan = "None" /\ (left = 0 <=> temp = "none")
  /\ wpc = "ok" => shadow = {}
  /\ Torn \notin {file} \cup shadow
  /\ wpc \in {"create", "write", "rename", "sync", "ok"} => buf \in Content

LEMMA WriterInit == Init => WriterInv
BY ContentAssumption DEF Init, WriterInv, DiskTypeOK, Outcomes

LEMMA WriterStep == WriterInv /\ [Next]_dvars => WriterInv'
<1> SUFFICES ASSUME WriterInv, [Next]_dvars PROVE WriterInv'
    OBVIOUS
<1> USE DEF WriterInv, DiskTypeOK, Outcomes
<1>1. CASE BeginWrite
      BY <1>1 DEF BeginWrite
<1>2. ASSUME NEW c \in Content, Serialize(c) PROVE WriterInv'
      BY <1>2 DEF Serialize
<1>3. CASE CleanOrphan
      BY <1>3 DEF CleanOrphan
<1>4. CASE CreateTemp
      BY <1>4 DEF CreateTemp
<1>5. CASE WriteTemp
      BY <1>5 DEF WriteTemp
<1>6. CASE RenameTemp
  <2>1. wpc = "rename" /\ temp = "synced" /\ left = 1 /\ buf \in Content
        BY <1>6 DEF RenameTemp
  <2>2. CASE wpc' = "sync"
    <3>1. file' = buf /\ temp' = "none" /\ left' = 0 /\ UNCHANGED <<orphan, buf>>
          BY <1>6, <2>1, <2>2 DEF RenameTemp
    <3>2. shadow' = shadow \cup {file}
          BY <1>6, <2>1, <2>2 DEF RenameTemp
    <3>3. shadow' \subseteq Content \cup {NoFile, Torn} /\ Torn \notin {file'} \cup shadow'
          BY <2>1, <3>1, <3>2, ContentAssumption
    <3>4. QED
          BY <2>1, <2>2, <3>1, <3>3
  <2>3. CASE wpc' # "sync"
        BY <1>6, <2>1, <2>3 DEF RenameTemp
  <2>4. QED
        BY <2>2, <2>3
<1>7. CASE SyncDirectory
      BY <1>7 DEF SyncDirectory
<1>8. CASE UnlinkTemp
      BY <1>8 DEF UnlinkTemp
<1>9. CASE EndWrite
      BY <1>9 DEF EndWrite
<1>10. CASE ProcessCrash
      BY <1>10 DEF ProcessCrash, FreshWriter
<1>11. CASE PowerLoss
      BY <1>11 DEF PowerLoss, FreshWriter
<1>12. CASE UNCHANGED dvars
      BY <1>12 DEF dvars
<1>13. QED
      BY <1>1, <1>2, <1>3, <1>4, <1>5, <1>6, <1>7, <1>8, <1>9, <1>10, <1>11,
         <1>12 DEF Next, WriteStep

LEMMA WriterInductive == Spec => []WriterInv
<1>1. Init => WriterInv
      BY WriterInit
<1>2. WriterInv /\ [Next]_dvars => WriterInv'
      BY WriterStep
<1>3. QED
      BY <1>1, <1>2, PTL DEF Spec

\* The variables of the writer keep their types.
THEOREM DiskTyped == Spec => []DiskTypeOK
<1>1. WriterInv => DiskTypeOK
      BY DEF WriterInv
<1>2. QED
      BY <1>1, WriterInductive, PTL

\* No sequence of failing calls, failing clean-ups and crashes leaves a live
\* writer with two temporary files, or with one that it has forgotten.
THEOREM AtMostOneTemporary == Spec => []OneTemporary
<1>1. WriterInv => OneTemporary
      BY DEF WriterInv, OneTemporary, DiskTypeOK
<1>2. QED
      BY <1>1, WriterInductive, PTL

\* Ok is returned only for a list that every later crash leaves on disk.
THEOREM AcknowledgedWrites == Spec => []AcknowledgedIsDurable
<1>1. WriterInv => AcknowledgedIsDurable
      BY DEF WriterInv, AcknowledgedIsDurable
<1>2. QED
      BY <1>1, WriterInductive, PTL

-----------------------------------------------------------------------------
(* The refinement: only a rename, a successful directory sync and a power   *)
(* loss change the contents that a crash may leave.                         *)

LEMMA AbstractInit == Init => Abstract!Init
BY DEF Init, Abstract!Init

LEMMA AbstractStep ==
  WriterInv /\ [Next]_dvars => [Abstract!Next]_({file} \cup shadow)
<1> SUFFICES ASSUME WriterInv, [Next]_dvars
             PROVE  [Abstract!Next]_({file} \cup shadow)
    OBVIOUS
<1>1. CASE RenameTemp
  <2>1. /\ buf \in Content
        /\ \/ UNCHANGED <<file, shadow>>
           \/ file' = buf /\ shadow' = shadow \cup {file}
        BY <1>1 DEF RenameTemp, WriterInv
  <2>2. CASE file' = buf /\ shadow' = shadow \cup {file}
    <3>1. ({file} \cup shadow)' = ({file} \cup shadow) \cup {buf}
          BY <2>2
    <3>2. QED
          BY <2>1, <3>1 DEF Abstract!Next, Abstract!Attempt
  <2>3. QED
        BY <2>1, <2>2
<1>2. CASE SyncDirectory
  <2>1. file' = file /\ (shadow' = {} \/ shadow' = shadow)
        BY <1>2 DEF SyncDirectory
  <2>2. QED
        BY <2>1 DEF Abstract!Next, Abstract!Settle
<1>3. CASE PowerLoss
      BY <1>3 DEF PowerLoss, Abstract!Next, Abstract!Settle
<1>4. CASE UNCHANGED <<file, shadow>>
      BY <1>4
<1>5. QED
      BY <1>1, <1>2, <1>3, <1>4
      DEF Next, WriteStep, BeginWrite, Serialize, CleanOrphan, CreateTemp,
          WriteTemp, UnlinkTemp, EndWrite, ProcessCrash, dvars

\* The writer implements the abstract file: a reader that opens the file
\* after any crash finds one complete content, old or new.
THEOREM WriterRefinesAtomicFile == Spec => ImplementsAtomicFile
<1>1. Init => Abstract!Init
      BY AbstractInit
<1>2. WriterInv /\ [Next]_dvars => [Abstract!Next]_({file} \cup shadow)
      BY AbstractStep
<1>3. QED
      BY <1>1, <1>2, WriterInductive, PTL
      DEF Spec, ImplementsAtomicFile, Abstract!Spec
=============================================================================
