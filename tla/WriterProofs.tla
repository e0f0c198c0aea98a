---------------------------- MODULE WriterProofs ----------------------------
(* Proofs about Writer, for any contents and any volume. *)
EXTENDS Writer, TLAPS

(* A file that has the configuration's name, in memory or on disk, is whole,
   synced, readable and no temporary file. *)
Sound(i) == /\ i \in Inodes \ temps
            /\ data[i] \in Contents
            /\ disk[i] = data[i]
            /\ i \in readable

NamesAreSound == /\ target # Nothing => Sound(target)
                 /\ onDisk # Nothing => Sound(onDisk)

(* What a call has done to its temporary file so far. *)
CallInv ==
    /\ pc \notin {"idle", "create"} => tmp \in temps
    /\ pc \notin {"idle", "remove"} => content \in Contents
    /\ pc \in {"sync", "close", "chmod", "rename"} => data[tmp] = content
    /\ pc \in {"close", "chmod", "rename"} => disk[tmp] = content
    /\ pc = "rename" => tmp \in readable

FileInv == TypeOK /\ NamesAreSound /\ CallInv

LEMMA FileInit == Init => FileInv
BY DEF Init, FileInv, TypeOK, NamesAreSound, CallInv

LEMMA TypeStep == FileInv /\ [Next]_vars => TypeOK'
<1> SUFFICES ASSUME FileInv, [Next]_vars PROVE TypeOK'
  OBVIOUS
<1> USE DEF FileInv, TypeOK
<1>1. ASSUME NEW c \in Contents, NEW ok \in BOOLEAN, Begin(c, ok) PROVE TypeOK'
  <2>1. before' \in Contents \cup {Nothing, Partial}
    BY <1>1 DEF Begin, View
  <2> QED
    BY <1>1, <2>1 DEF Begin, fileVars
<1>2. ASSUME NEW i \in Inodes, CreateTemp(i) PROVE TypeOK'
  BY <1>2 DEF CreateTemp
<1>3. CASE CreateFails \/ CallFails
  BY <1>3 DEF CreateFails, CallFails, fileVars, callVars
<1>4. CASE WriteSome
  BY <1>4 DEF WriteSome, callVars
<1>5. CASE WriteAll
  BY <1>5 DEF WriteAll, callVars
<1>6. CASE Sync
  <2>1. tmp \in Inodes
    BY <1>6 DEF Sync, CallInv
  <2> QED
    BY <1>6, <2>1 DEF Sync, callVars
<1>7. CASE Close
  BY <1>7 DEF Close, fileVars, callVars
<1>8. CASE Chmod
  BY <1>8 DEF Chmod, callVars, CallInv
<1>9. CASE Rename
  BY <1>9 DEF Rename, callVars
<1>10. ASSUME NEW succeeds \in BOOLEAN, Remove(succeeds) PROVE TypeOK'
  BY <1>10 DEF Remove, callVars, CallInv
<1>11. ASSUME NEW i \in Inodes, FlushData(i) PROVE TypeOK'
  BY <1>11 DEF FlushData, callVars
<1>12. CASE FlushDirectory
  BY <1>12 DEF FlushDirectory, callVars
<1>13. CASE ProcessCrash
  BY <1>13 DEF ProcessCrash, Restarted, fileVars
<1>14. ASSUME NEW survivors \in SUBSET temps, LosePower(survivors) PROVE TypeOK'
  BY <1>14 DEF LosePower, Restarted
<1>15. CASE UNCHANGED vars
  BY <1>15 DEF vars, fileVars, callVars
<1> QED
  BY <1>1, <1>2, <1>3, <1>4, <1>5, <1>6, <1>7, <1>8, <1>9, <1>10, <1>11, <1>12,
     <1>13, <1>14, <1>15 DEF Next

LEMMA NamesStep == FileInv /\ [Next]_vars => NamesAreSound'
<1> SUFFICES ASSUME FileInv, [Next]_vars PROVE NamesAreSound'
  OBVIOUS
<1> USE DEF FileInv, TypeOK, NamesAreSound, Sound
<1>1. CASE UNCHANGED fileVars
  BY <1>1 DEF fileVars
<1>2. ASSUME NEW i \in Inodes, CreateTemp(i) PROVE NamesAreSound'
  BY <1>2 DEF CreateTemp, Free
<1>3. CASE WriteSome \/ WriteAll
  <2>1. tmp \in temps
    BY <1>3 DEF WriteSome, WriteAll, CallInv
  <2> QED
    BY <1>3, <2>1 DEF WriteSome, WriteAll
<1>4. CASE Sync
  <2>1. tmp \in temps
    BY <1>4 DEF Sync, CallInv
  <2> QED
    BY <1>4, <2>1 DEF Sync
<1>5. CASE Chmod
  BY <1>5 DEF Chmod
<1>6. CASE Rename
  BY <1>6 DEF Rename, CallInv
<1>7. ASSUME NEW succeeds \in BOOLEAN, Remove(succeeds) PROVE NamesAreSound'
  BY <1>7 DEF Remove
<1>8. ASSUME NEW i \in Inodes, FlushData(i) PROVE NamesAreSound'
  BY <1>8 DEF FlushData
<1>9. CASE FlushDirectory
  BY <1>9 DEF FlushDirectory
<1>10. ASSUME NEW survivors \in SUBSET temps, LosePower(survivors)
       PROVE  NamesAreSound'
  BY <1>10 DEF LosePower
<1>11. CASE \/ \E c \in Contents, ok \in BOOLEAN : Begin(c, ok)
            \/ CreateFails \/ Close \/ CallFails \/ ProcessCrash
  BY <1>1, <1>11 DEF Begin, CreateFails, Close, CallFails, ProcessCrash
<1> QED
  BY <1>1, <1>2, <1>3, <1>4, <1>5, <1>6, <1>7, <1>8, <1>9, <1>10, <1>11
  DEF Next, vars

LEMMA CallStep == FileInv /\ [Next]_vars => CallInv'
<1> SUFFICES ASSUME FileInv, [Next]_vars PROVE CallInv'
  OBVIOUS
<1> USE DEF FileInv, TypeOK, CallInv
<1>1. ASSUME NEW c \in Contents, NEW ok \in BOOLEAN, Begin(c, ok) PROVE CallInv'
  BY <1>1 DEF Begin
<1>2. ASSUME NEW i \in Inodes, CreateTemp(i) PROVE CallInv'
  BY <1>2 DEF CreateTemp
<1>3. CASE CreateFails \/ CallFails
  BY <1>3 DEF CreateFails, CallFails, fileVars, callVars
<1>4. CASE WriteSome
  BY <1>4 DEF WriteSome, callVars
<1>5. CASE WriteAll
  BY <1>5 DEF WriteAll, callVars
<1>6. CASE Sync
  BY <1>6 DEF Sync, callVars
<1>7. CASE Close
  BY <1>7 DEF Close, fileVars, callVars
<1>8. CASE Chmod
  BY <1>8 DEF Chmod, callVars
<1>9. CASE Rename
  BY <1>9 DEF Rename
<1>10. ASSUME NEW succeeds \in BOOLEAN, Remove(succeeds) PROVE CallInv'
  BY <1>10 DEF Remove
<1>11. ASSUME NEW i \in Inodes, FlushData(i) PROVE CallInv'
  BY <1>11 DEF FlushData, callVars
<1>12. CASE FlushDirectory
  BY <1>12 DEF FlushDirectory, callVars
<1>13. CASE ProcessCrash \/ \E survivors \in SUBSET temps : LosePower(survivors)
  BY <1>13 DEF ProcessCrash, LosePower, Restarted
<1>14. CASE UNCHANGED vars
  BY <1>14 DEF vars, fileVars, callVars
<1> QED
  BY <1>1, <1>2, <1>3, <1>4, <1>5, <1>6, <1>7, <1>8, <1>9, <1>10, <1>11, <1>12,
     <1>13, <1>14 DEF Next

LEMMA FileAlways == Spec => []FileInv
<1>1. FileInv /\ [Next]_vars => FileInv'
  BY TypeStep, NamesStep, CallStep DEF FileInv
<1> QED
  BY FileInit, <1>1, PTL DEF Spec

(* Every variable keeps its type. *)
THEOREM TypeCorrect == Spec => []TypeOK
<1>1. FileInv => TypeOK
  BY DEF FileInv
<1> QED
  BY FileAlways, <1>1, PTL

(* A reader never finds a partial or an unreadable file, after any number of
   crashes and power losses. *)
THEOREM FileIsWhole == Spec => []ReaderFindsWholeFile
<1>1. FileInv => ReaderFindsWholeFile
  BY DEF FileInv, NamesAreSound, Sound, ReaderFindsWholeFile
<1> QED
  BY FileAlways, <1>1, PTL

-----------------------------------------------------------------------------
(* Write implements AtomicFile. *)

LEMMA AtomicInit == Init => Atomic!AtomicFileInit
BY DEF Init, View, DiskView, Atomic!AtomicFileInit, Atomic!AtomicFileTypeOK

LEMMA AtomicStep ==
    ASSUME FileInv, [Next]_vars
    PROVE  [Atomic!AtomicFileNext]_<<View, DiskView>>
<1> USE DEF FileInv, TypeOK, NamesAreSound, Sound, View, DiskView
<1>1. CASE UNCHANGED <<data, disk, target, onDisk>>
  BY <1>1
<1>2. ASSUME NEW i \in Inodes, CreateTemp(i)
      PROVE  UNCHANGED <<View, DiskView>>
  BY <1>2 DEF CreateTemp, Free
<1>3. CASE WriteSome \/ WriteAll \/ Sync
  <2>1. tmp \in temps
    BY <1>3 DEF WriteSome, WriteAll, Sync, CallInv
  <2>2. UNCHANGED <<View, DiskView>>
    BY <1>3, <2>1 DEF WriteSome, WriteAll, Sync
  <2> QED
    BY <2>2
<1>4. CASE Rename
  <2>1. View' = content /\ content \in Contents /\ UNCHANGED DiskView
    BY <1>4, InodesAssumption DEF Rename, CallInv
  <2> QED
    BY <2>1 DEF Atomic!AtomicFileNext, Atomic!Publish
<1>5. ASSUME NEW i \in Inodes, FlushData(i)
      PROVE  UNCHANGED <<View, DiskView>>
  BY <1>5 DEF FlushData
<1>6. CASE FlushDirectory
  <2>1. DiskView' = View /\ UNCHANGED View
    BY <1>6 DEF FlushDirectory
  <2> QED
    BY <2>1 DEF Atomic!AtomicFileNext, Atomic!Persist
<1>7. ASSUME NEW survivors \in SUBSET temps, LosePower(survivors)
      PROVE  Atomic!PowerLoss
  BY <1>7 DEF LosePower, Atomic!PowerLoss
<1>8. CASE \/ \E c \in Contents, ok \in BOOLEAN : Begin(c, ok)
           \/ CreateFails \/ Close \/ Chmod \/ CallFails \/ ProcessCrash
           \/ \E succeeds \in BOOLEAN : Remove(succeeds)
  BY <1>1, <1>8 DEF Begin, CreateFails, Close, Chmod, CallFails, ProcessCrash,
                    Remove, fileVars
<1> QED
  BY <1>1, <1>2, <1>3, <1>4, <1>5, <1>6, <1>7, <1>8
  DEF Next, vars, fileVars, Atomic!AtomicFileNext

(* Write, with its failures, crashes and power losses, is an atomic file. *)
THEOREM WriterIsAtomic == Spec => AtomicFileSpec
<1>1. FileInv /\ [Next]_vars => [Atomic!AtomicFileNext]_<<View, DiskView>>
  BY AtomicStep
<1> QED
  BY AtomicInit, FileAlways, <1>1, PTL
  DEF Spec, AtomicFileSpec, Atomic!AtomicFileSpec

-----------------------------------------------------------------------------
(* While a call runs the reader still finds what it found before, and what is
   remembered of earlier calls agrees with the file. *)
ResultInv ==
    /\ pc # "idle" => before = View /\ result = "none"
    /\ ResultTellsTheFile
    /\ LastIsPublished

(* How a step changes what the reader finds. *)
LEMMA ViewStep ==
    ASSUME FileInv, [Next]_vars
    PROVE  \/ UNCHANGED View
           \/ Rename /\ View' = content
           \/ \E survivors \in SUBSET temps : LosePower(survivors)
<1> USE DEF FileInv, TypeOK, NamesAreSound, Sound, View
<1>1. CASE UNCHANGED <<data, target>>
  BY <1>1
<1>2. ASSUME NEW i \in Inodes, CreateTemp(i) PROVE UNCHANGED View
  BY <1>2 DEF CreateTemp, Free
<1>3. CASE WriteSome \/ WriteAll
  BY <1>3 DEF WriteSome, WriteAll, CallInv
<1>4. CASE Rename
  BY <1>4, InodesAssumption DEF Rename, CallInv
<1>5. CASE \/ \E c \in Contents, ok \in BOOLEAN : Begin(c, ok)
           \/ CreateFails \/ Sync \/ Close \/ Chmod \/ CallFails \/ ProcessCrash
           \/ \E succeeds \in BOOLEAN : Remove(succeeds)
           \/ \E i \in Inodes : FlushData(i)
           \/ FlushDirectory
  BY <1>1, <1>5 DEF Begin, CreateFails, Sync, Close, Chmod, CallFails,
                    ProcessCrash, Remove, FlushData, FlushDirectory, fileVars
<1> QED
  BY <1>1, <1>2, <1>3, <1>4, <1>5 DEF Next, vars, fileVars

LEMMA ResultStep == FileInv /\ ResultInv /\ [Next]_vars => ResultInv'
<1> SUFFICES ASSUME FileInv, ResultInv, [Next]_vars PROVE ResultInv'
  OBVIOUS
<1> USE DEF ResultInv, ResultTellsTheFile, LastIsPublished
<1>1. CASE UNCHANGED <<callVars, last, pc, result>>
  <2>1. ~Rename
    BY <1>1 DEF Rename
  <2>2. ASSUME NEW survivors \in SUBSET temps, LosePower(survivors)
        PROVE  last = Nothing /\ result = "none" /\ pc = "idle"
    BY <1>1, <2>2 DEF LosePower, Restarted
  <2> QED
    BY <1>1, <2>1, <2>2, ViewStep DEF callVars
<1>2. ASSUME NEW c \in Contents, NEW ok \in BOOLEAN, Begin(c, ok) PROVE ResultInv'
  <2>1. UNCHANGED View
    BY <1>2 DEF Begin, fileVars, View
  <2> QED
    BY <1>2, <2>1 DEF Begin, Unchanged
<1>3. CASE Rename
  <2>1. View' = content
    BY <1>3, ViewStep, InodesAssumption DEF Rename, View, FileInv, CallInv, TypeOK
  <2> QED
    BY <1>3, <2>1 DEF Rename, callVars
<1>4. CASE ProcessCrash \/ \E survivors \in SUBSET temps : LosePower(survivors)
  BY <1>4 DEF ProcessCrash, LosePower, Restarted
<1>5. ASSUME NEW i \in Inodes, CreateTemp(i) PROVE ResultInv'
  <2>1. UNCHANGED View
    BY <1>5, ViewStep DEF CreateTemp, Rename, LosePower, Restarted
  <2> QED
    BY <1>5, <2>1 DEF CreateTemp
<1>6. ASSUME UNCHANGED View,
             \/ CreateFails
             \/ \E succeeds \in BOOLEAN : Remove(succeeds)
      PROVE  ResultInv'
  BY <1>6 DEF CreateFails, Remove, callVars
<1>7. ASSUME UNCHANGED View,
             WriteAll \/ Sync \/ Close \/ Chmod \/ CallFails
      PROVE  ResultInv'
  BY <1>7 DEF WriteAll, Sync, Close, Chmod, CallFails, callVars
<1>8. CASE \/ WriteSome \/ FlushDirectory
           \/ \E i \in Inodes : FlushData(i)
           \/ UNCHANGED vars
  BY <1>1, <1>8 DEF WriteSome, FlushDirectory, FlushData, vars
<1> QED
  BY <1>2, <1>3, <1>4, <1>5, <1>6, <1>7, <1>8, ViewStep DEF Next

LEMMA ResultAlways == Spec => []ResultInv
<1>1. Init => ResultInv
  BY DEF Init, ResultInv, ResultTellsTheFile, LastIsPublished
<1> QED
  BY <1>1, FileAlways, ResultStep, PTL DEF Spec

(* A failed Write leaves the file alone, a successful one leaves its argument. *)
THEOREM ResultIsTrue == Spec => []ResultTellsTheFile
<1>1. ResultInv => ResultTellsTheFile
  BY DEF ResultInv
<1> QED
  BY ResultAlways, <1>1, PTL

(* Writer.last never disagrees with the file. *)
THEOREM LastIsTrue == Spec => []LastIsPublished
<1>1. ResultInv => LastIsPublished
  BY DEF ResultInv
<1> QED
  BY ResultAlways, <1>1, PTL

-----------------------------------------------------------------------------
(* The temporary files, while a call runs: its own and those nobody will
   remove.  NoLeftovers alone is not inductive, it says nothing until the call
   is over. *)
LeftoversInv ==
    temps \subseteq orphans \cup IF pc \in {"idle", "create"} THEN {} ELSE {tmp}

LEMMA LeftoversStep == LeftoversInv /\ [Next]_vars => LeftoversInv'
<1> SUFFICES ASSUME LeftoversInv, [Next]_vars PROVE LeftoversInv'
  OBVIOUS
<1> USE DEF LeftoversInv
<1>1. CASE UNCHANGED <<temps, tmp, pc, orphans>>
  BY <1>1
<1>2. ASSUME NEW c \in Contents, NEW ok \in BOOLEAN, Begin(c, ok) PROVE LeftoversInv'
  BY <1>2 DEF Begin, fileVars
<1>3. ASSUME NEW i \in Inodes, CreateTemp(i) PROVE LeftoversInv'
  BY <1>3 DEF CreateTemp
<1>4. CASE CreateFails \/ CallFails
  BY <1>4 DEF CreateFails, CallFails, fileVars, callVars
<1>5. CASE WriteAll \/ Sync \/ Close \/ Chmod
  BY <1>5 DEF WriteAll, Sync, Close, Chmod, fileVars, callVars
<1>6. CASE Rename
  BY <1>6 DEF Rename, callVars
<1>7. ASSUME NEW succeeds \in BOOLEAN, Remove(succeeds) PROVE LeftoversInv'
  BY <1>7 DEF Remove, callVars
<1>8. CASE ProcessCrash
  BY <1>8 DEF ProcessCrash, Restarted, fileVars
<1>9. ASSUME NEW survivors \in SUBSET temps, LosePower(survivors)
      PROVE  LeftoversInv'
  BY <1>9 DEF LosePower, Restarted
<1>10. CASE \/ WriteSome \/ FlushDirectory
            \/ \E i \in Inodes : FlushData(i)
            \/ UNCHANGED vars
  BY <1>1, <1>10 DEF WriteSome, FlushDirectory, FlushData, vars, fileVars,
                     callVars
<1> QED
  BY <1>2, <1>3, <1>4, <1>5, <1>6, <1>7, <1>8, <1>9, <1>10 DEF Next

(* Between two calls the only temporary files are those of a crash or of a
   failed Remove: however Write fails, it cleans up. *)
THEOREM NothingIsLeftOver == Spec => []NoLeftovers
<1>1. Init => LeftoversInv
  BY DEF Init, LeftoversInv
<1>2. LeftoversInv => NoLeftovers
  BY DEF LeftoversInv, NoLeftovers
<1> QED
  BY <1>1, <1>2, LeftoversStep, PTL DEF Spec

-----------------------------------------------------------------------------
(* A call that got past the comparison has something new to publish, until it
   is over, or could not read the old file: the comparison is with Writer.last or
   the file on disk, and the former is always what the reader finds. *)
NewsInv == pc # "idle" => View # content \/ unread

LEMMA NewsStep == FileInv /\ ResultInv /\ NewsInv /\ [Next]_vars => NewsInv'
<1> SUFFICES ASSUME FileInv, ResultInv, NewsInv, [Next]_vars PROVE NewsInv'
  OBVIOUS
<1> USE DEF NewsInv
<1>1. ASSUME NEW c \in Contents, NEW ok \in BOOLEAN, Begin(c, ok) PROVE NewsInv'
  <2>1. UNCHANGED View
    BY <1>1 DEF Begin, fileVars, View
  <2>2. pc' # "idle" => c # View \/ unread'
    <3>1. CASE last = Nothing /\ target = Nothing
      BY <1>1, <3>1, ContentsAssumption DEF View
    <3>2. CASE last = Nothing /\ target # Nothing
      BY <1>1, <3>2 DEF Begin, Unchanged
    <3>3. CASE last # Nothing
      BY <1>1, <3>3 DEF Begin, Unchanged, ResultInv, LastIsPublished
    <3> QED
      BY <3>1, <3>2, <3>3
  <2> QED
    BY <1>1, <2>1, <2>2 DEF Begin
<1>2. CASE Rename \/ CreateFails \/ ProcessCrash
           \/ (\E succeeds \in BOOLEAN : Remove(succeeds))
           \/ (\E survivors \in SUBSET temps : LosePower(survivors))
  BY <1>2 DEF Rename, CreateFails, ProcessCrash, Remove, LosePower, Restarted
<1>3. ASSUME UNCHANGED View, UNCHANGED <<content, unread>>, pc' # "idle" => pc # "idle"
      PROVE  NewsInv'
  BY <1>3
<1>4. CASE \/ \E i \in Inodes : CreateTemp(i) \/ FlushData(i)
           \/ WriteSome \/ WriteAll \/ Sync \/ Close \/ Chmod \/ CallFails
           \/ FlushDirectory
           \/ UNCHANGED vars
  <2>1. UNCHANGED <<content, unread>> /\ (pc' # "idle" => pc # "idle")
    BY <1>4 DEF CreateTemp, FlushData, WriteSome, WriteAll, Sync, Close, Chmod,
                CallFails, FlushDirectory, callVars, vars
  <2>2. UNCHANGED View \/ pc' = "idle"
    BY ViewStep DEF Rename, LosePower, Restarted
  <2> QED
    BY <1>3, <2>1, <2>2
<1> QED
  BY <1>1, <1>2, <1>4 DEF Next

(* The file is replaced only by another content, so Gatus never reloads what it
   has, except by the first Writes after a restart that fail to read it. *)
THEOREM NoReloadIsNeedless == Spec => NoNeedlessReload
<1>1. Init => NewsInv
  BY DEF Init, NewsInv
<1>2. ASSUME FileInv, NewsInv, [Next]_vars
      PROVE  [target' # target /\ last' # Nothing => View' # View \/ unread]_vars
  <2>1. CASE Rename
    <3>1. View' = content
      BY <1>2, <2>1, InodesAssumption
         DEF FileInv, TypeOK, CallInv, Rename, View
    <3> QED
      BY <1>2, <2>1, <3>1 DEF NewsInv, Rename
  <2>2. CASE \E survivors \in SUBSET temps : LosePower(survivors)
    BY <2>2 DEF LosePower, Restarted
  <2>3. CASE ~Rename /\ ~\E survivors \in SUBSET temps : LosePower(survivors)
    <3>1. UNCHANGED target
      BY <1>2, <2>3 DEF Next, Begin, CreateTemp, CreateFails, WriteSome,
         WriteAll, Sync, Close, Chmod, CallFails, Remove, FlushData,
         FlushDirectory, ProcessCrash, fileVars, vars
    <3> QED
      BY <3>1
  <2> QED
    BY <2>1, <2>2, <2>3
<1> QED
  BY <1>1, <1>2, FileAlways, ResultAlways, NewsStep, PTL
     DEF Spec, NoNeedlessReload
=============================================================================
