------------------------ MODULE CagTruthProofs ------------------------
(***************************************************************************)
(* What the engine believes is so: a cache file that a row of the table    *)
(* names is on disk, a slot that the map calls hot holds the document's KV *)
(* state, and its file is or will be there for when it no longer does.     *)
(***************************************************************************)
EXTENDS CagCacheProofs

\* What a cache file needs to last as long as its row: a restart brings the same
\* model, and every fingerprint check that passes leaves its marker behind.
FilesLast ==
    /\ Faults \cap {"props", "anonymous", "marker"} = {}
    /\ "restart" \in Faults => \A m, n \in Model : m = n

\* The marker vouches for every file, so no check wipes any.
MarkerVouches ==
    memo \/ (\E d \in Doc : files[d] # NoFile) => marker = model

\* Whoever got past a fingerprint check has left the memo behind.
CheckedPc == {"warm_slot", "warm_chat", "warm_save", "hot_slot", "recheck",
              "restore", "chat", "resave"}
UnlinkingPc == {"gone_unlink", "resave_unlink", "del_unlink"}
MarkingPc == {"mark_cached", "resave_mark"}

\* Who removes a file has seen the row deleted, ids are never reused, and who
\* is about to name a file in a row has written it.
Sound(p) ==
    /\ pc[p] \in CheckedPc => memo
    /\ pc[p] \notin {"idle", "insert"} => row[doc[p]] # "unborn"
    /\ pc[p] \in UnlinkingPc => row[doc[p]] = "gone"
    /\ pc[p] \in MarkingPc /\ row[doc[p]] \in Status => files[doc[p]] # NoFile

\* A row that does not exist yet names nothing.
UnbornUnnamed == \A d \in Doc : row[d] = "unborn" => ~hasFile[d]

DiskInv ==
    /\ MarkerVouches
    /\ UnbornUnnamed
    /\ CachedFileExists
    /\ \A p \in Process : Sound(p)

\* Rows are born once and die once.
RowsAge ==
    \A d \in Doc :
        /\ row[d] = "gone" => row'[d] = "gone"
        /\ row[d] # "unborn" => row'[d] # "unborn"

\* A file stays while its row lives.
FilesStay ==
    \A d \in Doc : files[d] # NoFile /\ row'[d] \in Status => files'[d] # NoFile

\* A row comes to name a file only when the file is there.
NamesAreBacked ==
    \A d \in Doc :
        /\ hasFile'[d] => hasFile[d] \/ files'[d] # NoFile
        /\ row'[d] = "unborn" => hasFile'[d] = hasFile[d]

\* A step that ages rows, spares the files of live ones, and answers for
\* whichever process it moves.
LEMMA DiskStep ==
    ASSUME TypeOK, DiskInv, RowsAge, FilesStay, NamesAreBacked, MarkerVouches',
           memo => memo',
           \A q \in Process :
               \/ pc'[q] = pc[q] /\ doc'[q] = doc[q]
               \/ Sound(q)'
    PROVE  DiskInv'
<1>1. row \in [Doc -> Status \cup {"unborn", "gone"}]
  BY DEF TypeOK, StoreTypeOK
<1>2. UnbornUnnamed'
  BY DEF DiskInv, UnbornUnnamed, RowsAge, NamesAreBacked
<1>3. CachedFileExists'
  <2> SUFFICES ASSUME NEW d \in Doc, row'[d] \in Status, hasFile'[d]
               PROVE  files'[d] # NoFile
    BY DEF CachedFileExists, Live
  <2>1. CASE row[d] \in Status
    BY <2>1 DEF DiskInv, CachedFileExists, Live, FilesStay, NamesAreBacked
  <2>2. CASE row[d] \notin Status
    <3>1. row[d] = "unborn"
      BY <1>1, <2>2 DEF RowsAge, Status
    <3> QED BY <3>1 DEF DiskInv, UnbornUnnamed, NamesAreBacked
  <2> QED BY <2>1, <2>2
<1>4. ASSUME NEW q \in Process PROVE Sound(q)'
  <2> SUFFICES ASSUME pc'[q] = pc[q], doc'[q] = doc[q] PROVE Sound(q)'
    OBVIOUS
  <2>1. Sound(q)
    BY DEF DiskInv
  <2>2. pc[q] # "idle" => doc[q] \in Doc
    BY DEF TypeOK, ThreadTypeOK
  <2>3. pc[q] \notin {"idle", "insert"} => row'[doc[q]] # "unborn"
    BY <2>1, <2>2 DEF Sound, RowsAge
  <2>4. pc[q] \in UnlinkingPc => row'[doc[q]] = "gone"
    BY <2>1, <2>2 DEF Sound, RowsAge, UnlinkingPc
  <2>5. ASSUME pc[q] \in MarkingPc, row'[doc[q]] \in Status
        PROVE  files'[doc[q]] # NoFile
    <3>1. row[doc[q]] \in Status
      BY <1>1, <2>1, <2>2, <2>5 DEF Sound, RowsAge, Status, MarkingPc
    <3> QED BY <2>1, <2>2, <2>5, <3>1 DEF Sound, FilesStay, MarkingPc
  <2>6. pc[q] \in CheckedPc => memo'
    BY <2>1 DEF Sound
  <2> QED BY <2>3, <2>4, <2>5, <2>6 DEF Sound
<1> QED BY <1>2, <1>3, <1>4 DEF DiskInv

\* A step that leaves the directory, the marker and the table alone.
LEMMA DiskSame ==
    ASSUME TypeOK, DiskInv, UNCHANGED <<model, files, checkVars, storeVars>>,
           \A q \in Process :
               \/ pc'[q] = pc[q] /\ doc'[q] = doc[q]
               \/ Sound(q)'
    PROVE  DiskInv'
<1>1. RowsAge /\ FilesStay /\ NamesAreBacked /\ MarkerVouches' /\ (memo => memo')
  BY DEF RowsAge, FilesStay, NamesAreBacked, DiskInv, MarkerVouches, checkVars,
         storeVars
<1> QED BY <1>1, DiskStep

\* No fingerprint check removes a file, and those that pass leave the memo.
LEMMA CheckSpares ==
    ASSUME TypeOK, DiskInv, FilesLast, NEW force, UNCHANGED model,
           CheckReturns(force) \/ CheckRaises(force)
    PROVE  /\ files' = files
           /\ MarkerVouches'
           /\ memo => memo'
           /\ CheckReturns(force) => memo'
<1>1. CASE CheckRaises(force)
  BY <1>1 DEF CheckRaises, CheckReturns, checkVars, DiskInv, MarkerVouches, FilesLast
<1>2. CASE CheckReturns(force) /\ ~NeedsCheck(force)
  <2>1. UNCHANGED <<files, memo, marker>> /\ memo = TRUE
    BY <1>2 DEF CheckReturns, NeedsCheck, checkVars, DiskInv, TypeOK, EngineTypeOK
  <2> QED BY <2>1 DEF DiskInv, MarkerVouches
<1>3. CASE CheckReturns(force) /\ NeedsCheck(force)
  <2>1. Fingerprint
    BY <1>3 DEF CheckReturns, FilesLast
  <2>2. marker' = model /\ memo' = TRUE
    BY <2>1 DEF Fingerprint, FilesLast
  <2>3. CacheFiles = {} \/ marker = model
    BY DEF DiskInv, MarkerVouches, CacheFiles
  <2>4. files' = files
    BY <2>1, <2>3 DEF Fingerprint
  <2> QED BY <2>2, <2>4 DEF MarkerVouches
<1> QED BY <1>1, <1>2, <1>3

\* A save writes a file for its document and removes none.
LEMMA SavedIsFile ==
    ASSUME TypeOK, NEW s \in Slot, NEW d \in Doc
    PROVE  /\ SlotSave(s, d) => files'[d] # NoFile
           /\ SlotSave(s, d) =>
                  \A e \in Doc : files[e] # NoFile => files'[e] # NoFile
BY PhysicalInSlot, EmptyAssumption DEF SlotSave, TypeOK, ServerTypeOK

\* Only the file of a deleted document is ever removed.
LEMMA GoneUnlinked ==
    ASSUME TypeOK, DiskInv, NEW d \in Doc, row[d] = "gone",
           UNCHANGED <<model, memo, marker, row, hasFile>>,
           Unlink(d) \/ UNCHANGED files
    PROVE  RowsAge /\ FilesStay /\ NamesAreBacked /\ MarkerVouches'
<1>1. \A e \in Doc : files'[e] = files[e] \/ (e = d /\ files'[e] = NoFile)
  BY DEF Unlink, TypeOK, ServerTypeOK
<1> QED
  BY <1>1 DEF RowsAge, FilesStay, NamesAreBacked, DiskInv, MarkerVouches, Status

\* Every step of a request thread.
LEMMA DiskThreadSteps ==
    ASSUME TypeOK, DiskInv, FilesLast, NEW t \in Thread, Arrival(t) \/ ThreadStep(t)
    PROVE  DiskInv'
<1>1. t \in Process /\ (pc[t] # "idle" => doc[t] \in Doc) /\ Sound(t)
  BY BusyType, ThreadIsProcess DEF DiskInv
<1>2. /\ pc \in [Process -> LockedPc \cup FreePc]
      /\ doc \in [Process -> Doc \cup {None}]
  BY DEF TypeOK, ThreadTypeOK
<1>3. CASE IngestGivesUp(t)
  <2>1. UNCHANGED <<model, files, checkVars, storeVars>>
    BY <1>3 DEF IngestGivesUp, serverVars
  <2>2. \A q \in Process \ {t} : pc'[q] = pc[q] /\ doc'[q] = doc[q]
    BY <1>1, <1>2, <1>3 DEF IngestGivesUp, Goto, Finish, At, localVars
  <2>3. Sound(t)'
    BY <1>1, <1>2, <1>3
    DEF IngestGivesUp, Sound, Goto, Finish, At, localVars, serverVars, storeVars,
        checkVars, Live, CheckedPc, UnlinkingPc, MarkingPc, Status
  <2> QED BY <2>1, <2>2, <2>3, DiskSame
<1>4. CASE WarmSlot(t)
  <2>1. UNCHANGED <<model, files, checkVars, storeVars>>
    BY <1>4 DEF WarmSlot, serverVars
  <2>2. \A q \in Process \ {t} : pc'[q] = pc[q] /\ doc'[q] = doc[q]
    BY <1>1, <1>2, <1>4 DEF WarmSlot, Goto, Finish, At, localVars
  <2>3. Sound(t)'
    BY <1>1, <1>2, <1>4
    DEF WarmSlot, Sound, Goto, Finish, At, localVars, serverVars, storeVars,
        checkVars, Live, CheckedPc, UnlinkingPc, MarkingPc, Status
  <2> QED BY <2>1, <2>2, <2>3, DiskSame
<1>5. CASE WarmChat(t)
  <2>1. UNCHANGED <<model, files, checkVars, storeVars>>
    BY <1>5 DEF WarmChat, serverVars
  <2>2. \A q \in Process \ {t} : pc'[q] = pc[q] /\ doc'[q] = doc[q]
    BY <1>1, <1>2, <1>5 DEF WarmChat, Goto, Finish, At, localVars
  <2>3. Sound(t)'
    BY <1>1, <1>2, <1>5
    DEF WarmChat, Sound, Goto, Finish, At, localVars, serverVars, storeVars,
        checkVars, Live, CheckedPc, UnlinkingPc, MarkingPc, Status
  <2> QED BY <2>1, <2>2, <2>3, DiskSame
<1>6. CASE IngestGoneUnmap(t)
  <2>1. UNCHANGED <<model, files, checkVars, storeVars>>
    BY <1>6 DEF IngestGoneUnmap, serverVars
  <2>2. \A q \in Process \ {t} : pc'[q] = pc[q] /\ doc'[q] = doc[q]
    BY <1>1, <1>2, <1>6 DEF IngestGoneUnmap, Goto, Finish, At, localVars
  <2>3. Sound(t)'
    BY <1>1, <1>2, <1>6
    DEF IngestGoneUnmap, Sound, Goto, Finish, At, localVars, serverVars, storeVars,
        checkVars, Live, CheckedPc, UnlinkingPc, MarkingPc, Status
  <2> QED BY <2>1, <2>2, <2>3, DiskSame
<1>7. CASE QueryRead(t)
  <2>1. UNCHANGED <<model, files, checkVars, storeVars>>
    BY <1>7 DEF QueryRead, serverVars
  <2>2. \A q \in Process \ {t} : pc'[q] = pc[q] /\ doc'[q] = doc[q]
    BY <1>1, <1>2, <1>7 DEF QueryRead, Goto, Finish, At, localVars
  <2>3. Sound(t)'
    BY <1>1, <1>2, <1>7
    DEF QueryRead, Sound, Goto, Finish, At, localVars, serverVars, storeVars,
        checkVars, Live, CheckedPc, UnlinkingPc, MarkingPc, Status
  <2> QED BY <2>1, <2>2, <2>3, DiskSame
<1>8. CASE QuerySlot(t)
  <2>1. UNCHANGED <<model, files, checkVars, storeVars>>
    BY <1>8 DEF QuerySlot, serverVars
  <2>2. \A q \in Process \ {t} : pc'[q] = pc[q] /\ doc'[q] = doc[q]
    BY <1>1, <1>2, <1>8 DEF QuerySlot, Goto, Finish, At, localVars
  <2>3. Sound(t)'
    BY <1>1, <1>2, <1>8
    DEF QuerySlot, Sound, Goto, Finish, At, localVars, serverVars, storeVars,
        checkVars, Live, CheckedPc, UnlinkingPc, MarkingPc, Status
  <2> QED BY <2>1, <2>2, <2>3, DiskSame
<1>9. CASE QueryRestore(t)
  <2>1. UNCHANGED <<model, files, checkVars, storeVars>>
    BY <1>9 DEF QueryRestore, serverVars
  <2>2. \A q \in Process \ {t} : pc'[q] = pc[q] /\ doc'[q] = doc[q]
    BY <1>1, <1>2, <1>9 DEF QueryRestore, Goto, Finish, At, localVars
  <2>3. Sound(t)'
    BY <1>1, <1>2, <1>9
    DEF QueryRestore, Sound, Goto, Finish, At, localVars, serverVars, storeVars,
        checkVars, Live, CheckedPc, UnlinkingPc, MarkingPc, Status
  <2> QED BY <2>1, <2>2, <2>3, DiskSame
<1>10. CASE QueryChat(t)
  <2>1. UNCHANGED <<model, files, checkVars, storeVars>>
    BY <1>10 DEF QueryChat
  <2>2. ASSUME NEW q \in Process, pc'[q] # pc[q] \/ doc'[q] # doc[q]
        PROVE  Sound(q)'
    <3>1. pc[t] = "chat" /\ row' = row /\ memo' = memo
      BY <1>10 DEF QueryChat, storeVars, checkVars
    <3>2. pc'[q] = "idle" \/ (pc'[q] = "resave" /\ doc'[q] = doc[t])
      BY <1>1, <1>2, <1>10, <2>2, EngineAssumption DEF QueryChat, Spawn, Finish, At
    <3> QED
      BY <1>1, <3>1, <3>2 DEF Sound, CheckedPc, UnlinkingPc, MarkingPc
  <2> QED BY <2>1, <2>2, DiskSame
<1>11. CASE QueryChatFails(t)
  <2>1. UNCHANGED <<model, files, checkVars, storeVars>>
    BY <1>11 DEF QueryChatFails, serverVars
  <2>2. \A q \in Process \ {t} : pc'[q] = pc[q] /\ doc'[q] = doc[q]
    BY <1>1, <1>2, <1>11 DEF QueryChatFails, Goto, Finish, At, localVars
  <2>3. Sound(t)'
    BY <1>1, <1>2, <1>11
    DEF QueryChatFails, Sound, Goto, Finish, At, localVars, serverVars, storeVars,
        checkVars, Live, CheckedPc, UnlinkingPc, MarkingPc, Status
  <2> QED BY <2>1, <2>2, <2>3, DiskSame
<1>12. CASE QueryUnmap(t)
  <2>1. UNCHANGED <<model, files, checkVars, storeVars>>
    BY <1>12 DEF QueryUnmap, serverVars
  <2>2. \A q \in Process \ {t} : pc'[q] = pc[q] /\ doc'[q] = doc[q]
    BY <1>1, <1>2, <1>12 DEF QueryUnmap, Goto, Finish, At, localVars
  <2>3. Sound(t)'
    BY <1>1, <1>2, <1>12
    DEF QueryUnmap, Sound, Goto, Finish, At, localVars, serverVars, storeVars,
        checkVars, Live, CheckedPc, UnlinkingPc, MarkingPc, Status
  <2> QED BY <2>1, <2>2, <2>3, DiskSame
<1>13. CASE DeleteUnmap(t)
  <2>1. UNCHANGED <<model, files, checkVars, storeVars>>
    BY <1>13 DEF DeleteUnmap, serverVars
  <2>2. \A q \in Process \ {t} : pc'[q] = pc[q] /\ doc'[q] = doc[q]
    BY <1>1, <1>2, <1>13 DEF DeleteUnmap, Goto, Finish, At, localVars
  <2>3. Sound(t)'
    BY <1>1, <1>2, <1>13
    DEF DeleteUnmap, Sound, Goto, Finish, At, localVars, serverVars, storeVars,
        checkVars, Live, CheckedPc, UnlinkingPc, MarkingPc, Status
  <2> QED BY <2>1, <2>2, <2>3, DiskSame
<1>14. CASE IngestFind(t)
  <2>1. UNCHANGED <<model, files, checkVars, storeVars>>
    BY <1>14 DEF IngestFind, serverVars
  <2>2. \A q \in Process \ {t} : pc'[q] = pc[q] /\ doc'[q] = doc[q]
    BY <1>1, <1>2, <1>14 DEF IngestFind, At
  <2>3. Sound(t)'
    BY <1>1, <1>2, <1>14
    DEF IngestFind, Sound, At, storeVars, CheckedPc, UnlinkingPc, MarkingPc
  <2> QED BY <2>1, <2>2, <2>3, DiskSame
<1>15. CASE WarmLock(t)
  <2>1. PICK force \in BOOLEAN :
            \/ CheckReturns(force) /\ Goto(t, "warm_slot")
            \/ CheckRaises(force) /\ Goto(t, "mark_failed")
    BY <1>15 DEF WarmLock
  <2>2. UNCHANGED <<model, storeVars>> /\ pc[t] # "idle" /\ pc[t] # "insert"
    BY <1>15 DEF WarmLock
  <2>3. files' = files /\ MarkerVouches' /\ (memo => memo')
    BY <2>1, <2>2, CheckSpares
  <2>4. RowsAge /\ FilesStay /\ NamesAreBacked
    BY <2>2, <2>3 DEF RowsAge, FilesStay, NamesAreBacked, storeVars
  <2>5. \A q \in Process \ {t} : pc'[q] = pc[q] /\ doc'[q] = doc[q]
    BY <1>1, <1>2, <2>1 DEF Goto, Finish, At, localVars
  <2>6. CheckReturns(force) => memo'
    BY <2>2, CheckSpares
  <2>7. Sound(t)'
    BY <1>1, <1>2, <2>1, <2>2, <2>6
    DEF Sound, Goto, Finish, At, localVars, storeVars, CheckedPc, UnlinkingPc,
        MarkingPc
  <2> QED BY <2>3, <2>4, <2>5, <2>7, DiskStep
<1>16. CASE QueryLock(t)
  <2>1. PICK force \in BOOLEAN :
            \/ CheckReturns(force) /\ Goto(t, "hot_slot")
            \/ CheckRaises(force) /\ Finish(t)
    BY <1>16 DEF QueryLock
  <2>2. UNCHANGED <<model, storeVars>> /\ pc[t] # "idle" /\ pc[t] # "insert"
    BY <1>16 DEF QueryLock
  <2>3. files' = files /\ MarkerVouches' /\ (memo => memo')
    BY <2>1, <2>2, CheckSpares
  <2>4. RowsAge /\ FilesStay /\ NamesAreBacked
    BY <2>2, <2>3 DEF RowsAge, FilesStay, NamesAreBacked, storeVars
  <2>5. \A q \in Process \ {t} : pc'[q] = pc[q] /\ doc'[q] = doc[q]
    BY <1>1, <1>2, <2>1 DEF Goto, Finish, At, localVars
  <2>6. CheckReturns(force) => memo'
    BY <2>2, CheckSpares
  <2>7. Sound(t)'
    BY <1>1, <1>2, <2>1, <2>2, <2>6
    DEF Sound, Goto, Finish, At, localVars, storeVars, CheckedPc, UnlinkingPc,
        MarkingPc
  <2> QED BY <2>3, <2>4, <2>5, <2>7, DiskStep
<1>17. CASE QueryRecheck(t)
  <2>1. PICK force \in BOOLEAN :
            \/ CheckReturns(force) /\ Goto(t, "restore")
            \/ CheckRaises(force) /\ Finish(t)
    BY <1>17 DEF QueryRecheck
  <2>2. UNCHANGED <<model, storeVars>> /\ pc[t] # "idle" /\ pc[t] # "insert"
    BY <1>17 DEF QueryRecheck
  <2>3. files' = files /\ MarkerVouches' /\ (memo => memo')
    BY <2>1, <2>2, CheckSpares
  <2>4. RowsAge /\ FilesStay /\ NamesAreBacked
    BY <2>2, <2>3 DEF RowsAge, FilesStay, NamesAreBacked, storeVars
  <2>5. \A q \in Process \ {t} : pc'[q] = pc[q] /\ doc'[q] = doc[q]
    BY <1>1, <1>2, <2>1 DEF Goto, Finish, At, localVars
  <2>6. CheckReturns(force) => memo'
    BY <2>2, CheckSpares
  <2>7. Sound(t)'
    BY <1>1, <1>2, <2>1, <2>2, <2>6
    DEF Sound, Goto, Finish, At, localVars, storeVars, CheckedPc, UnlinkingPc,
        MarkingPc
  <2> QED BY <2>3, <2>4, <2>5, <2>7, DiskStep
<1>18. CASE IngestInsert(t)
  <2>1. UNCHANGED <<model, files, memo, marker>>
    BY <1>18 DEF IngestInsert, serverVars, checkVars
  <2>2. RowsAge
    BY <1>1, <1>18
    DEF IngestInsert, RowsAge, InsertDocument, storeVars, Status, TypeOK, StoreTypeOK
  <2>3. NamesAreBacked
    BY <1>1, <1>18, <2>1
    DEF IngestInsert, NamesAreBacked, Sound, MarkingPc, InsertDocument, storeVars,
        Status,
        TypeOK, StoreTypeOK
  <2>4. FilesStay /\ MarkerVouches'
    BY <2>1 DEF FilesStay, DiskInv, MarkerVouches
  <2>5. \A q \in Process \ {t} : pc'[q] = pc[q] /\ doc'[q] = doc[q]
    BY <1>1, <1>2, <1>18 DEF IngestInsert, Goto, Finish, At, localVars
  <2>6. Sound(t)'
    BY <1>1, <1>2, <1>18
    DEF IngestInsert, Sound, InsertDocument, RowFound, Goto, Finish, At,
        localVars, storeVars,
        Live, CheckedPc, UnlinkingPc, MarkingPc, Status, TypeOK, StoreTypeOK
  <2> QED BY <2>1, <2>2, <2>3, <2>4, <2>5, <2>6, DiskStep
<1>19. CASE IngestMarkCached(t)
  <2>1. UNCHANGED <<model, files, memo, marker>>
    BY <1>19 DEF IngestMarkCached, serverVars, checkVars
  <2>2. RowsAge
    BY <1>1, <1>19
    DEF IngestMarkCached, RowsAge, MarkCached, RowFound, Live, storeVars, Status,
        TypeOK, StoreTypeOK
  <2>3. NamesAreBacked
    BY <1>1, <1>19, <2>1
    DEF IngestMarkCached, NamesAreBacked, Sound, MarkingPc, MarkCached, RowFound,
        Live, storeVars, Status,
        TypeOK, StoreTypeOK
  <2>4. FilesStay /\ MarkerVouches'
    BY <2>1 DEF FilesStay, DiskInv, MarkerVouches
  <2>5. \A q \in Process \ {t} : pc'[q] = pc[q] /\ doc'[q] = doc[q]
    BY <1>1, <1>2, <1>19 DEF IngestMarkCached, Goto, Finish, At, localVars
  <2>6. Sound(t)'
    BY <1>1, <1>2, <1>19
    DEF IngestMarkCached, Sound, MarkCached, RowFound, Live, Goto, Finish, At,
        localVars, storeVars,
        Live, CheckedPc, UnlinkingPc, MarkingPc, Status, TypeOK, StoreTypeOK
  <2> QED BY <2>1, <2>2, <2>3, <2>4, <2>5, <2>6, DiskStep
<1>20. CASE IngestMarkFailed(t)
  <2>1. UNCHANGED <<model, files, memo, marker>>
    BY <1>20 DEF IngestMarkFailed, serverVars, checkVars
  <2>2. RowsAge
    BY <1>1, <1>20
    DEF IngestMarkFailed, RowsAge, MarkFailed, Live, storeVars, Status, TypeOK,
        StoreTypeOK
  <2>3. NamesAreBacked
    BY <1>1, <1>20, <2>1
    DEF IngestMarkFailed, NamesAreBacked, Sound, MarkingPc, MarkFailed, Live,
        storeVars, Status,
        TypeOK, StoreTypeOK
  <2>4. FilesStay /\ MarkerVouches'
    BY <2>1 DEF FilesStay, DiskInv, MarkerVouches
  <2>5. \A q \in Process \ {t} : pc'[q] = pc[q] /\ doc'[q] = doc[q]
    BY <1>1, <1>2, <1>20 DEF IngestMarkFailed, Goto, Finish, At, localVars
  <2>6. Sound(t)'
    BY <1>1, <1>2, <1>20
    DEF IngestMarkFailed, Sound, MarkFailed, Live, RowFound, Goto, Finish, At,
        localVars, storeVars,
        Live, CheckedPc, UnlinkingPc, MarkingPc, Status, TypeOK, StoreTypeOK
  <2> QED BY <2>1, <2>2, <2>3, <2>4, <2>5, <2>6, DiskStep
<1>21. CASE DeleteRow(t)
  <2>1. UNCHANGED <<model, files, memo, marker>>
    BY <1>21 DEF DeleteRow, serverVars, checkVars
  <2>2. RowsAge
    BY <1>1, <1>21
    DEF DeleteRow, RowsAge, DeleteDocument, Live, storeVars, Status, TypeOK, StoreTypeOK
  <2>3. NamesAreBacked
    BY <1>1, <1>21, <2>1
    DEF DeleteRow, NamesAreBacked, Sound, MarkingPc, DeleteDocument, Live,
        storeVars, Status,
        TypeOK, StoreTypeOK
  <2>4. FilesStay /\ MarkerVouches'
    BY <2>1 DEF FilesStay, DiskInv, MarkerVouches
  <2>5. \A q \in Process \ {t} : pc'[q] = pc[q] /\ doc'[q] = doc[q]
    BY <1>1, <1>2, <1>21 DEF DeleteRow, Goto, Finish, At, localVars
  <2>6. Sound(t)'
    BY <1>1, <1>2, <1>21
    DEF DeleteRow, Sound, DeleteDocument, Live, RowFound, Goto, Finish, At,
        localVars, storeVars,
        Live, CheckedPc, UnlinkingPc, MarkingPc, Status, TypeOK, StoreTypeOK
  <2> QED BY <2>1, <2>2, <2>3, <2>4, <2>5, <2>6, DiskStep
<1>22. CASE WarmSave(t)
  <2>1. UNCHANGED <<model, memo, marker, row, hasFile, doc>> /\ pc[t] = "warm_save"
    BY <1>22 DEF WarmSave, storeVars, checkVars, Goto, localVars
  <2>2. /\ \A d \in Doc : files[d] # NoFile => files'[d] # NoFile
        /\ pc'[t] = "mark_cached" => files'[doc[t]] # NoFile
    BY <1>1, <1>2, <1>22, <2>1, BusyType, SavedIsFile
    DEF WarmSave, SlotSaveFails, Goto, At
  <2>3. RowsAge /\ FilesStay /\ NamesAreBacked
    BY <2>1, <2>2 DEF RowsAge, FilesStay, NamesAreBacked
  <2>4. MarkerVouches'
    BY <1>1, <2>1 DEF DiskInv, MarkerVouches, Sound, CheckedPc
  <2>5. /\ \A q \in Process \ {t} : pc'[q] = pc[q]
        /\ pc'[t] \in {"mark_cached", "mark_failed"}
    BY <1>1, <1>2, <1>22 DEF WarmSave, Goto, At
  <2>6. Sound(t)'
    BY <1>1, <2>1, <2>2, <2>5 DEF Sound, CheckedPc, UnlinkingPc, MarkingPc
  <2> QED BY <2>1, <2>3, <2>4, <2>5, <2>6, DiskStep
<1>23. CASE IngestGoneUnlink(t)
  <2>1. UNCHANGED <<model, memo, marker, row, hasFile>> /\ pc[t] \in UnlinkingPc
    BY <1>23 DEF IngestGoneUnlink, storeVars, checkVars, UnlinkingPc
  <2>2. Unlink(doc[t]) \/ UNCHANGED files
    BY <1>23 DEF IngestGoneUnlink
  <2>3. RowsAge /\ FilesStay /\ NamesAreBacked /\ MarkerVouches'
    BY <1>1, <2>1, <2>2, GoneUnlinked DEF Sound, UnlinkingPc
  <2>4. \A q \in Process \ {t} : pc'[q] = pc[q] /\ doc'[q] = doc[q]
    BY <1>1, <1>2, <1>23 DEF IngestGoneUnlink, Goto, Finish, At, localVars
  <2>5. Sound(t)'
    BY <1>1, <1>2, <1>23, <2>1
    DEF IngestGoneUnlink, Sound, Goto, Finish, At, localVars, CheckedPc,
        UnlinkingPc, MarkingPc
  <2> QED BY <2>1, <2>3, <2>4, <2>5, DiskStep
<1>24. CASE DeleteUnlink(t)
  <2>1. UNCHANGED <<model, memo, marker, row, hasFile>> /\ pc[t] \in UnlinkingPc
    BY <1>24 DEF DeleteUnlink, storeVars, checkVars, UnlinkingPc
  <2>2. Unlink(doc[t]) \/ UNCHANGED files
    BY <1>24 DEF DeleteUnlink
  <2>3. RowsAge /\ FilesStay /\ NamesAreBacked /\ MarkerVouches'
    BY <1>1, <2>1, <2>2, GoneUnlinked DEF Sound, UnlinkingPc
  <2>4. \A q \in Process \ {t} : pc'[q] = pc[q] /\ doc'[q] = doc[q]
    BY <1>1, <1>2, <1>24 DEF DeleteUnlink, Goto, Finish, At, localVars
  <2>5. Sound(t)'
    BY <1>1, <1>2, <1>24, <2>1
    DEF DeleteUnlink, Sound, Goto, Finish, At, localVars, CheckedPc, UnlinkingPc,
        MarkingPc
  <2> QED BY <2>1, <2>3, <2>4, <2>5, DiskStep
<1> QED
  BY <1>3, <1>4, <1>5, <1>6, <1>7, <1>8, <1>9, <1>10,
     <1>11, <1>12, <1>13, <1>14, <1>15, <1>16, <1>17, <1>18,
     <1>19, <1>20, <1>21, <1>22, <1>23, <1>24
  DEF Arrival, ThreadStep

\* Every step of a deferred re-save.
LEMMA DiskWorkerSteps ==
    ASSUME TypeOK, DiskInv, NEW w \in Worker, WorkerStep(w)
    PROVE  DiskInv'
<1>1. /\ w \in Process /\ slot[w] \in Slot /\ (pc[w] # "idle" => doc[w] \in Doc)
      /\ Sound(w)
  BY BusyType, ThreadIsProcess DEF DiskInv
<1>2. /\ pc \in [Process -> LockedPc \cup FreePc]
      /\ doc \in [Process -> Doc \cup {None}]
  BY DEF TypeOK, ThreadTypeOK
<1>3. CASE ResaveSave(w)
  <2>1. UNCHANGED <<model, memo, marker, row, hasFile>> /\ pc[w] = "resave"
    BY <1>3 DEF ResaveSave, storeVars, checkVars
  <2>2. /\ \A d \in Doc : files[d] # NoFile => files'[d] # NoFile
        /\ pc'[w] = "resave_mark" => files'[doc[w]] # NoFile
    BY <1>1, <1>2, <1>3, <2>1, SavedIsFile
    DEF ResaveSave, SlotSaveFails, Goto, Finish, At
  <2>3. RowsAge /\ FilesStay /\ NamesAreBacked
    BY <2>1, <2>2 DEF RowsAge, FilesStay, NamesAreBacked
  <2>4. MarkerVouches'
    BY <1>1, <2>1 DEF DiskInv, MarkerVouches, Sound, CheckedPc
  <2>5. \A q \in Process \ {w} : pc'[q] = pc[q] /\ doc'[q] = doc[q]
    BY <1>1, <1>2, <1>3 DEF ResaveSave, Goto, Finish, At, localVars
  <2>6. pc'[w] = "idle" \/ (pc'[w] = "resave_mark" /\ doc'[w] = doc[w])
    BY <1>1, <1>2, <1>3 DEF ResaveSave, Goto, Finish, At, localVars
  <2>7. Sound(w)'
    BY <1>1, <2>1, <2>2, <2>6 DEF Sound, CheckedPc, UnlinkingPc, MarkingPc
  <2> QED BY <2>1, <2>3, <2>4, <2>5, <2>7, DiskStep
<1>4. CASE ResaveMark(w)
  <2>1. UNCHANGED <<model, files, memo, marker>>
    BY <1>4 DEF ResaveMark, serverVars, checkVars
  <2>2. RowsAge
    BY <1>1, <1>4
    DEF ResaveMark, RowsAge, MarkCached, RowFound, Live, storeVars, Status, TypeOK,
        StoreTypeOK
  <2>3. NamesAreBacked
    BY <1>1, <1>4, <2>1
    DEF ResaveMark, NamesAreBacked, Sound, MarkingPc, MarkCached, RowFound, Live,
        storeVars, Status, TypeOK, StoreTypeOK
  <2>4. FilesStay /\ MarkerVouches'
    BY <2>1 DEF FilesStay, DiskInv, MarkerVouches
  <2>5. \A q \in Process \ {w} : pc'[q] = pc[q] /\ doc'[q] = doc[q]
    BY <1>1, <1>2, <1>4 DEF ResaveMark, Goto, Finish, At, localVars
  <2>6. Sound(w)'
    BY <1>1, <1>2, <1>4
    DEF ResaveMark, Sound, RowFound, Goto, Finish, At, localVars, storeVars, Live,
        CheckedPc, UnlinkingPc, MarkingPc, Status, TypeOK, StoreTypeOK
  <2> QED BY <2>1, <2>2, <2>3, <2>4, <2>5, <2>6, DiskStep
<1>5. CASE ResaveUnlink(w)
  <2>1. UNCHANGED <<model, memo, marker, row, hasFile>> /\ pc[w] = "resave_unlink"
    BY <1>5 DEF ResaveUnlink, storeVars, checkVars
  <2>2. Unlink(doc[w]) \/ UNCHANGED files
    BY <1>5 DEF ResaveUnlink
  <2>3. RowsAge /\ FilesStay /\ NamesAreBacked /\ MarkerVouches'
    BY <1>1, <2>1, <2>2, GoneUnlinked DEF Sound, UnlinkingPc
  <2>4. \A q \in Process \ {w} : pc'[q] = pc[q] /\ doc'[q] = doc[q]
    BY <1>1, <1>2, <1>5 DEF ResaveUnlink, Finish, At
  <2>5. Sound(w)'
    BY <1>1, <1>2, <1>5
    DEF ResaveUnlink, Sound, Finish, At, CheckedPc, UnlinkingPc, MarkingPc
  <2> QED BY <2>1, <2>3, <2>4, <2>5, DiskStep
<1> QED BY <1>3, <1>4, <1>5 DEF WorkerStep

\* There are no files at first.
LEMMA DiskInit == Init => DiskInv
<1> SUFFICES ASSUME Init PROVE DiskInv
  OBVIOUS
<1>1. MarkerVouches
  BY DEF Init, ServerInit, MarkerVouches
<1>2. UnbornUnnamed /\ CachedFileExists
  BY DEF Init, StoreInit, UnbornUnnamed, CachedFileExists, Live, Status
<1>3. \A p \in Process : Sound(p)
  BY DEF Init, Sound, CheckedPc, UnlinkingPc, MarkingPc
<1> QED BY <1>1, <1>2, <1>3 DEF DiskInv

\* Every step keeps the files of live rows and who answers for them.
LEMMA DiskNext ==
    ASSUME FilesLast
    PROVE  TypeOK /\ DiskInv /\ [Next]_vars => DiskInv'
<1> SUFFICES ASSUME TypeOK, DiskInv, [Next]_vars PROVE DiskInv'
  OBVIOUS
<1>1. CASE \E t \in Thread : Arrival(t) \/ ThreadStep(t)
  BY <1>1, DiskThreadSteps
<1>2. CASE \E w \in Worker : WorkerStep(w)
  BY <1>2, DiskWorkerSteps
<1>3. CASE Crash
  <2>1. UNCHANGED <<model, files, marker, row, hasFile>> /\ memo' = FALSE
    BY <1>3 DEF Crash, serverVars, storeVars
  <2>2. MarkerVouches' /\ UnbornUnnamed' /\ CachedFileExists'
    BY <2>1 DEF DiskInv, MarkerVouches, UnbornUnnamed, CachedFileExists, Live
  <2>3. \A p \in Process : Sound(p)'
    BY <1>3 DEF Crash, Sound, CheckedPc, UnlinkingPc, MarkingPc
  <2> QED BY <2>2, <2>3 DEF DiskInv
<1>4. CASE Restart
  <2>1. model' = model
    BY <1>4 DEF Restart, ServerRestart, FilesLast, TypeOK, ServerTypeOK
  <2> QED BY <1>4, <2>1, DiskSame DEF Restart, ServerRestart, localVars
<1>5. CASE Resize
  BY <1>5, DiskSame DEF Resize, ServerResize, localVars
<1>6. CASE UNCHANGED vars
  BY <1>6, DiskSame DEF vars, serverVars, localVars
<1> QED BY <1>1, <1>2, <1>3, <1>4, <1>5, <1>6 DEF Next

\* A cache file that a row names is on disk for as long as the row lives, while
\* the model stays and /props and the marker work: through restarts, crashes, a drifting
\* slot count, failing server calls, unlinks, updates and thread starts.
THEOREM NamedFileExists ==
    ASSUME FilesLast
    PROVE  Spec => []CachedFileExists
<1>1. DiskInv => CachedFileExists
  BY DEF DiskInv
<1> QED BY <1>1, DiskInit, DiskNext, TypeCorrect, PTL DEF Spec

-----------------------------------------------------------------------------
\* The slot map.

\* What the map needs to be right: nobody takes the slots' memory away.
SlotsLast == Faults \cap {"restart", "drift"} = {}

Holds(s, d) == kv[s] # Empty /\ kv[s].doc = d

\* A query is filling slot s with document d, or its completion failed there
\* and it has yet to unmap it.
Answers(t, s, d) ==
    pc[t] \in AnsweringPc \cup {"unmap"} /\ slot[t] = s /\ doc[t] = d

\* What a warm is about to save is there, and its document's.
WarmFilled == \A t \in Thread : pc[t] = "warm_save" => Holds(slot[t], doc[t])

\* A slot the map calls hot holds the document, or a query answers for it.
HotKept ==
    \A s \in Slot : slots[s] # None =>
        Holds(s, slots[s]) \/ \E t \in Thread : Answers(t, s, slots[s])

HotInv ==
    /\ total = CagSlots
    /\ AnswerMapped
    /\ WarmClaimed
    /\ WarmFilled
    /\ HotKept

\* The map only loses entries, and what it does not lose keeps its state.
HotSteady ==
    /\ total' = total
    /\ \A s \in Slot : slots'[s] = None \/ slots'[s] = slots[s]
    /\ \A s \in Slot : slots'[s] = slots[s] => kv'[s] = kv[s]

\* A query that owes an unmap still does, or has just paid.
UnmapsOwed ==
    \A q \in Thread : pc[q] = "unmap" =>
        \/ pc'[q] = "unmap" /\ doc'[q] = doc[q] /\ slot'[q] = slot[q]
        \/ slots'[slot[q]] # doc[q]

\* Such a step keeps the map right.
LEMMA QuietHot ==
    ASSUME TypeOK, HotInv, FillersSteady, HotSteady, UnmapsOwed
    PROVE  HotInv'
<1>1. \A t \in Thread : slot[t] \in Slot
  BY ThreadIsProcess DEF TypeOK, ThreadTypeOK
<1>2. AnswerMapped'
  BY <1>1 DEF HotInv, AnswerMapped, FillersSteady, HotSteady
<1>3. WarmClaimed'
  BY <1>1 DEF HotInv, WarmClaimed, FillersSteady, HotSteady
<1>4. WarmFilled'
  <2> SUFFICES ASSUME NEW t \in Thread, pc'[t] = "warm_save"
               PROVE  Holds(slot[t], doc[t])' /\ slot'[t] = slot[t] /\ doc'[t] = doc[t]
    BY DEF WarmFilled, Holds
  <2>1. pc[t] = "warm_save" /\ slot'[t] = slot[t] /\ doc'[t] = doc[t]
    BY DEF FillersSteady, WarmingPc
  <2>2. slots[slot[t]] = None /\ Holds(slot[t], doc[t])
    BY <2>1 DEF HotInv, WarmClaimed, WarmFilled, WarmingPc
  <2>3. kv'[slot[t]] = kv[slot[t]]
    BY <1>1, <2>2 DEF HotSteady
  <2> QED BY <2>1, <2>2, <2>3 DEF Holds
<1>5. HotKept'
  <2> SUFFICES ASSUME NEW s \in Slot, slots'[s] # None
               PROVE  \/ Holds(s, slots[s])' \/ \E t \in Thread : Answers(t, s, slots[s])'
    BY DEF HotKept
  <2>1. slots'[s] = slots[s] /\ kv'[s] = kv[s]
    BY DEF HotSteady
  <2>2. CASE Holds(s, slots[s])
    BY <2>1, <2>2 DEF Holds
  <2>3. ASSUME NEW t \in Thread, Answers(t, s, slots[s])
        PROVE  Answers(t, s, slots[s])'
    BY <2>1, <2>3 DEF Answers, FillersSteady, UnmapsOwed
  <2> QED BY <2>1, <2>2, <2>3 DEF HotInv, HotKept
<1> QED BY <1>2, <1>3, <1>4, <1>5 DEF HotInv, HotSteady

\* A move outside the slots, by a thread that owes no unmap.
LEMMA SteadyUnmaps ==
    ASSUME TypeOK, NEW p \in Process, pc[p] # "unmap",
           \A q \in Process \ {p} : pc'[q] = pc[q] /\ doc'[q] = doc[q] /\ slot'[q] = slot[q]
    PROVE  UnmapsOwed
BY ThreadIsProcess DEF UnmapsOwed

\* A check clears the map as a whole or leaves it.
LEMMA CheckHot ==
    ASSUME TypeOK, NEW force, CheckReturns(force) \/ CheckRaises(force),
           UNCHANGED <<kv, total>>
    PROVE  HotSteady
<1>1. \A s \in Slot : slots'[s] = None \/ slots'[s] = slots[s]
  BY CheckShrinks
<1> QED BY <1>1 DEF HotSteady

\* The owner of the lock works on slot s alone, and answers for what it leaves.
LEMMA FillHot ==
    ASSUME TypeOK, LockHeld, HotInv, NEW t \in Thread, pc[t] \in LockedPc,
           NEW s \in Slot,
           \A q \in Thread \ {t} : pc'[q] = pc[q] /\ doc'[q] = doc[q] /\ slot'[q] = slot[q],
           \A x \in Slot \ {s} : slots'[x] = slots[x] /\ kv'[x] = kv[x],
           pc[t] \in AnsweringPc => slot[t] = s,
           pc'[t] \in AnsweringPc => slot'[t] = s /\ slots'[s] \in {doc'[t], None},
           pc'[t] \in WarmingPc => slot'[t] = s /\ slots'[s] = None,
           pc'[t] = "warm_save" => Holds(s, doc[t])' ,
           \/ slots'[s] = None \/ Holds(s, slots[s])' \/ Answers(t, s, slots[s])',
           total' = total
    PROVE  HotInv'
<1>1. \A q \in Thread \ {t} : pc'[q] \notin LockedPc /\ pc[q] \notin LockedPc
  BY ThreadIsProcess DEF LockHeld
<1>2. AnsweringPc \cup WarmingPc \subseteq LockedPc
  BY DEF AnsweringPc, WarmingPc, LockedPc
<1>3. AnswerMapped' /\ WarmClaimed'
  BY <1>1, <1>2 DEF AnswerMapped, WarmClaimed
<1>4. WarmFilled'
  BY <1>1, <1>2 DEF WarmFilled, WarmingPc, Holds
<1>5. HotKept'
  <2> SUFFICES ASSUME NEW x \in Slot, slots'[x] # None
               PROVE  \/ Holds(x, slots[x])' \/ \E q \in Thread : Answers(q, x, slots[x])'
    BY DEF HotKept
  <2>1. CASE x = s
    BY <2>1
  <2>2. CASE x # s
    <3>1. slots'[x] = slots[x] /\ kv'[x] = kv[x]
      BY <2>2
    <3>2. CASE Holds(x, slots[x])
      BY <3>1, <3>2 DEF Holds
    <3>3. ASSUME NEW q \in Thread, Answers(q, x, slots[x])
          PROVE  Answers(q, x, slots[x])'
      <4>1. q # t
        BY <2>2, <3>3 DEF Answers, LockedPc
      <4> QED BY <3>1, <3>3, <4>1 DEF Answers
    <3> QED BY <3>1, <3>2, <3>3 DEF HotInv, HotKept
  <2> QED BY <2>1, <2>2
<1> QED BY <1>3, <1>4, <1>5 DEF HotInv

\* An evaluation fills its slot with the document.
LEMMA EvaluatedHolds ==
    ASSUME TypeOK, NEW s \in Slot, NEW d \in Doc
    PROVE  Evaluated(s, d) # Empty /\ Evaluated(s, d).doc = d
BY EvaluatedType, EvaluatedNamed, EmptyAssumption

\* The steps of a request thread that fill no slot.
LEMMA QuietHotSteps ==
    ASSUME TypeOK, LockHeld, HotInv, NEW t \in Thread,
           \/ Arrival(t) \/ IngestInsert(t) \/ IngestGivesUp(t) \/ WarmLock(t)
           \/ IngestMarkCached(t) \/ IngestMarkFailed(t) \/ IngestGoneUnlink(t)
           \/ IngestGoneUnmap(t) \/ QueryLock(t) \/ QueryUnmap(t) \/ DeleteUnlink(t)
           \/ DeleteUnmap(t)
    PROVE  HotInv'
<1>1. t \in Process /\ slot[t] \in Slot /\ (pc[t] # "idle" => doc[t] \in Doc)
  BY BusyType, ThreadIsProcess
<1>2. CASE IngestFind(t)
  <2>1. HotSteady
    BY <1>2 DEF IngestFind, HotSteady, serverVars, mapVars
  <2>2. /\ pc[t] \notin AnsweringPc \cup WarmingPc \cup {"unmap"}
        /\ pc'[t] \notin AnsweringPc \cup WarmingPc
        /\ \A q \in Process \ {t} :
              pc'[q] = pc[q] /\ doc'[q] = doc[q] /\ slot'[q] = slot[q]
    BY <1>1, <1>2 DEF IngestFind, At, AnsweringPc, WarmingPc, TypeOK, ThreadTypeOK
  <2> QED BY <1>1, <2>1, <2>2, SteadyMove, SteadyUnmaps, QuietHot
<1>3. CASE IngestInsert(t)
  <2>1. HotSteady
    BY <1>3 DEF IngestInsert, HotSteady, serverVars, mapVars
  <2>2. /\ pc[t] \notin AnsweringPc \cup WarmingPc \cup {"unmap"}
        /\ pc'[t] \notin AnsweringPc \cup WarmingPc
        /\ \A q \in Process \ {t} :
              pc'[q] = pc[q] /\ doc'[q] = doc[q] /\ slot'[q] = slot[q]
    BY <1>1, <1>3 DEF IngestInsert, At, AnsweringPc, WarmingPc, TypeOK, ThreadTypeOK
  <2> QED BY <1>1, <2>1, <2>2, SteadyMove, SteadyUnmaps, QuietHot
<1>4. CASE IngestGivesUp(t)
  <2>1. HotSteady
    BY <1>4 DEF IngestGivesUp, HotSteady, serverVars, mapVars
  <2>2. /\ pc[t] \notin AnsweringPc \cup WarmingPc \cup {"unmap"}
        /\ pc'[t] \notin AnsweringPc \cup WarmingPc
        /\ \A q \in Process \ {t} :
              pc'[q] = pc[q] /\ doc'[q] = doc[q] /\ slot'[q] = slot[q]
    BY <1>1, <1>4, MoveAlone DEF IngestGivesUp, AnsweringPc, WarmingPc
  <2> QED BY <1>1, <2>1, <2>2, SteadyMove, SteadyUnmaps, QuietHot
<1>5. CASE WarmLock(t)
  <2>1. HotSteady
    BY <1>5, CheckHot DEF WarmLock
  <2>2. Goto(t, "warm_slot") \/ Goto(t, "mark_failed")
    BY <1>5 DEF WarmLock
  <2>3. /\ pc[t] \notin AnsweringPc \cup WarmingPc \cup {"unmap"}
        /\ pc'[t] \notin AnsweringPc \cup WarmingPc
        /\ \A q \in Process \ {t} :
              pc'[q] = pc[q] /\ doc'[q] = doc[q] /\ slot'[q] = slot[q]
    BY <1>1, <1>5, <2>2, MoveAlone DEF WarmLock, AnsweringPc, WarmingPc
  <2> QED BY <1>1, <2>1, <2>3, SteadyMove, SteadyUnmaps, QuietHot
<1>6. CASE IngestMarkCached(t)
  <2>1. HotSteady
    BY <1>6 DEF IngestMarkCached, HotSteady, serverVars, mapVars
  <2>2. /\ pc[t] \notin AnsweringPc \cup WarmingPc \cup {"unmap"}
        /\ pc'[t] \notin AnsweringPc \cup WarmingPc
        /\ \A q \in Process \ {t} :
              pc'[q] = pc[q] /\ doc'[q] = doc[q] /\ slot'[q] = slot[q]
    BY <1>1, <1>6, MoveAlone DEF IngestMarkCached, AnsweringPc, WarmingPc
  <2> QED BY <1>1, <2>1, <2>2, SteadyMove, SteadyUnmaps, QuietHot
<1>7. CASE IngestMarkFailed(t)
  <2>1. HotSteady
    BY <1>7 DEF IngestMarkFailed, HotSteady, serverVars, mapVars
  <2>2. /\ pc[t] \notin AnsweringPc \cup WarmingPc \cup {"unmap"}
        /\ pc'[t] \notin AnsweringPc \cup WarmingPc
        /\ \A q \in Process \ {t} :
              pc'[q] = pc[q] /\ doc'[q] = doc[q] /\ slot'[q] = slot[q]
    BY <1>1, <1>7, MoveAlone DEF IngestMarkFailed, AnsweringPc, WarmingPc
  <2> QED BY <1>1, <2>1, <2>2, SteadyMove, SteadyUnmaps, QuietHot
<1>8. CASE IngestGoneUnlink(t)
  <2>1. HotSteady
    BY <1>8 DEF IngestGoneUnlink, HotSteady, serverVars, mapVars
  <2>2. /\ pc[t] \notin AnsweringPc \cup WarmingPc \cup {"unmap"}
        /\ pc'[t] \notin AnsweringPc \cup WarmingPc
        /\ \A q \in Process \ {t} :
              pc'[q] = pc[q] /\ doc'[q] = doc[q] /\ slot'[q] = slot[q]
    BY <1>1, <1>8, MoveAlone DEF IngestGoneUnlink, AnsweringPc, WarmingPc
  <2> QED BY <1>1, <2>1, <2>2, SteadyMove, SteadyUnmaps, QuietHot
<1>9. CASE QueryRead(t)
  <2>1. HotSteady
    BY <1>9 DEF QueryRead, HotSteady, serverVars, mapVars
  <2>2. /\ pc[t] \notin AnsweringPc \cup WarmingPc \cup {"unmap"}
        /\ pc'[t] \notin AnsweringPc \cup WarmingPc
        /\ \A q \in Process \ {t} :
              pc'[q] = pc[q] /\ doc'[q] = doc[q] /\ slot'[q] = slot[q]
    BY <1>1, <1>9 DEF QueryRead, At, AnsweringPc, WarmingPc, TypeOK, ThreadTypeOK
  <2> QED BY <1>1, <2>1, <2>2, SteadyMove, SteadyUnmaps, QuietHot
<1>10. CASE QueryLock(t)
  <2>1. HotSteady
    BY <1>10, CheckHot DEF QueryLock
  <2>2. Goto(t, "hot_slot") \/ Finish(t)
    BY <1>10 DEF QueryLock
  <2>3. /\ pc[t] \notin AnsweringPc \cup WarmingPc \cup {"unmap"}
        /\ pc'[t] \notin AnsweringPc \cup WarmingPc
        /\ \A q \in Process \ {t} :
              pc'[q] = pc[q] /\ doc'[q] = doc[q] /\ slot'[q] = slot[q]
    BY <1>1, <1>10, <2>2, MoveAlone DEF QueryLock, AnsweringPc, WarmingPc
  <2> QED BY <1>1, <2>1, <2>3, SteadyMove, SteadyUnmaps, QuietHot
<1>11. CASE DeleteRow(t)
  <2>1. HotSteady
    BY <1>11 DEF DeleteRow, HotSteady, serverVars, mapVars
  <2>2. /\ pc[t] \notin AnsweringPc \cup WarmingPc \cup {"unmap"}
        /\ pc'[t] \notin AnsweringPc \cup WarmingPc
        /\ \A q \in Process \ {t} :
              pc'[q] = pc[q] /\ doc'[q] = doc[q] /\ slot'[q] = slot[q]
    BY <1>1, <1>11 DEF DeleteRow, At, AnsweringPc, WarmingPc, TypeOK, ThreadTypeOK
  <2> QED BY <1>1, <2>1, <2>2, SteadyMove, SteadyUnmaps, QuietHot
<1>12. CASE DeleteUnlink(t)
  <2>1. HotSteady
    BY <1>12 DEF DeleteUnlink, HotSteady, serverVars, mapVars
  <2>2. /\ pc[t] \notin AnsweringPc \cup WarmingPc \cup {"unmap"}
        /\ pc'[t] \notin AnsweringPc \cup WarmingPc
        /\ \A q \in Process \ {t} :
              pc'[q] = pc[q] /\ doc'[q] = doc[q] /\ slot'[q] = slot[q]
    BY <1>1, <1>12, MoveAlone DEF DeleteUnlink, AnsweringPc, WarmingPc
  <2> QED BY <1>1, <2>1, <2>2, SteadyMove, SteadyUnmaps, QuietHot
<1>13. CASE IngestGoneUnmap(t)
  <2>1. HotSteady
    BY <1>13 DEF IngestGoneUnmap, HotSteady, serverVars
  <2>2. /\ pc[t] \notin AnsweringPc \cup WarmingPc \cup {"unmap"}
        /\ pc'[t] \notin AnsweringPc \cup WarmingPc
        /\ \A q \in Process \ {t} :
              pc'[q] = pc[q] /\ doc'[q] = doc[q] /\ slot'[q] = slot[q]
    BY <1>1, <1>13, MoveAlone DEF IngestGoneUnmap, AnsweringPc, WarmingPc
  <2> QED BY <1>1, <2>1, <2>2, SteadyMove, SteadyUnmaps, QuietHot
<1>14. CASE QueryUnmap(t)
  <2>1. HotSteady /\ (slots'[slot[t]] # doc[t])
    BY <1>1, <1>14, EngineAssumption
    DEF QueryUnmap, HotSteady, serverVars, TypeOK, EngineTypeOK
  <2>2. /\ pc[t] \notin AnsweringPc \cup WarmingPc
        /\ pc'[t] \notin AnsweringPc \cup WarmingPc
        /\ \A q \in Process \ {t} :
              pc'[q] = pc[q] /\ doc'[q] = doc[q] /\ slot'[q] = slot[q]
    BY <1>1, <1>14, MoveAlone DEF QueryUnmap, AnsweringPc, WarmingPc
  <2>3. UnmapsOwed
    BY <2>1, <2>2, ThreadIsProcess DEF UnmapsOwed
  <2> QED BY <1>1, <2>1, <2>2, <2>3, SteadyMove, QuietHot
<1>15. CASE DeleteUnmap(t)
  <2>1. pc[t] = "del_unmap" /\ total' = total
    BY <1>15 DEF DeleteUnmap
  <2>2. /\ pc'[t] \in {"idle", "del_unmap"}
        /\ \A q \in Process \ {t} :
              pc'[q] = pc[q] /\ doc'[q] = doc[q] /\ slot'[q] = slot[q]
    BY <1>1, <1>15 DEF DeleteUnmap, Finish, At, localVars, TypeOK, ThreadTypeOK
  <2>3. HotSteady
    <3>1. CASE UNCHANGED <<kv, mapVars>>
      BY <2>1, <3>1 DEF HotSteady, mapVars
    <3>2. ASSUME NEW s \in Slot, slots[s] = doc[t],
                 SlotErase(s) \/ UNCHANGED kv,
                 slots' = [slots EXCEPT ![s] = None]
          PROVE  HotSteady
      <4>1. Physical(s) = s /\ slots[s] # None
        BY <1>1, <2>1, <3>2, SlotIsPhysical, EngineAssumption DEF HotInv
      <4> QED
        BY <2>1, <3>2, <4>1
        DEF HotSteady, SlotErase, TypeOK, ServerTypeOK, EngineTypeOK
    <3> QED BY <1>15, <3>1, <3>2 DEF DeleteUnmap
  <2> QED
    BY <1>1, <2>1, <2>2, <2>3, SteadyMove, SteadyUnmaps, QuietHot
    DEF AnsweringPc, WarmingPc
<1> QED
  BY <1>2, <1>3, <1>4, <1>5, <1>6, <1>7, <1>8, <1>9,
     <1>10, <1>11, <1>12, <1>13, <1>14, <1>15
  DEF Arrival

\* The steps of a request thread that claim a slot or fill it.
LEMMA FillHotSteps ==
    ASSUME TypeOK, LockHeld, HotInv, NEW t \in Thread,
           \/ WarmSlot(t) \/ WarmChat(t) \/ WarmSave(t) \/ QuerySlot(t)
           \/ QueryRecheck(t) \/ QueryRestore(t) \/ QueryChat(t)
           \/ QueryChatFails(t)
    PROVE  HotInv'
<1>1. t \in Process /\ slot[t] \in Slot /\ (pc[t] # "idle" => doc[t] \in Doc)
  BY BusyType, ThreadIsProcess
<1>2. total = CagSlots /\ Physical(slot[t]) = slot[t]
  BY <1>1, SlotIsPhysical DEF HotInv
<1>3. Thread \subseteq Process /\ None \notin Doc /\ Thread \cap Worker = {}
  BY ThreadIsProcess, EngineAssumption
<1>4. CASE WarmSlot(t)
  <2>1. PICK s \in SlotFor(doc[t]) :
            /\ SlotErase(s) \/ UNCHANGED kv
            /\ slots' = [slots EXCEPT ![s] = None]
            /\ slot' = [slot EXCEPT ![t] = s]
    BY <1>4 DEF WarmSlot
  <2>2. s \in Slot /\ Physical(s) = s
    BY <1>1, <1>2, <1>4, SlotForInSlot, SlotIsPhysical DEF WarmSlot
  <2>3. /\ pc' = [pc EXCEPT ![t] = "warm_chat"] /\ pc[t] = "warm_slot"
        /\ doc' = doc /\ total' = total
    BY <1>4 DEF WarmSlot, At
  <2>4. \A x \in Slot \ {s} : slots'[x] = slots[x] /\ kv'[x] = kv[x]
    BY <2>1, <2>2 DEF SlotErase, TypeOK, ServerTypeOK, EngineTypeOK
  <2>5. slots'[s] = None /\ slot'[t] = s
    BY <1>1, <2>1, <2>2 DEF TypeOK, EngineTypeOK, ThreadTypeOK
  <2>6. /\ pc'[t] = "warm_chat"
        /\ \A q \in Thread \ {t} : pc'[q] = pc[q] /\ doc'[q] = doc[q] /\ slot'[q] = slot[q]
    BY <1>1, <1>3, <2>1, <2>3 DEF TypeOK, ThreadTypeOK
  <2> QED
    BY <2>2, <2>3, <2>4, <2>5, <2>6, FillHot DEF AnsweringPc, WarmingPc, LockedPc
<1>5. CASE WarmChat(t)
  <2>1. pc[t] = "warm_chat" /\ doc[t] \in Doc /\ UNCHANGED <<slots, total, doc, slot>>
    BY <1>1, <1>5 DEF WarmChat, Goto, localVars, mapVars
  <2>2. slots[slot[t]] = None
    BY <2>1 DEF HotInv, WarmClaimed, WarmingPc
  <2>3. \A x \in Slot \ {slot[t]} : kv'[x] = kv[x]
    BY <1>1, <1>2, <1>5 DEF WarmChat, Chat, ChatFails, TypeOK, ServerTypeOK
  <2>4. \A q \in Thread \ {t} : pc'[q] = pc[q]
    BY <1>1, <1>3, <1>5 DEF WarmChat, Goto, At, TypeOK, ThreadTypeOK
  <2>5. \/ pc'[t] = "mark_failed"
        \/ pc'[t] = "warm_save" /\ Chat(slot[t], doc[t])
    BY <1>1, <1>5 DEF WarmChat, Goto, At, TypeOK, ThreadTypeOK
  <2>6. Chat(slot[t], doc[t]) => Holds(slot[t], doc[t])'
    BY <1>1, <1>2, <2>1, EvaluatedHolds DEF Chat, Holds, TypeOK, ServerTypeOK
  <2> QED
    BY <1>1, <2>1, <2>2, <2>3, <2>4, <2>5, <2>6, FillHot
    DEF AnsweringPc, WarmingPc, LockedPc
<1>6. CASE WarmSave(t)
  <2>1. /\ pc[t] = "warm_save" /\ doc[t] \in Doc /\ UNCHANGED <<kv, total, doc, slot>>
        /\ pc' = [pc EXCEPT ![t] = pc'[t]] /\ pc'[t] \in {"mark_cached", "mark_failed"}
    BY <1>1, <1>6 DEF WarmSave, Goto, At, localVars, TypeOK, ThreadTypeOK
  <2>2. slots' = slots \/ slots' = [slots EXCEPT ![slot[t]] = doc[t]]
    BY <1>6 DEF WarmSave, mapVars
  <2>3. slots[slot[t]] = None /\ Holds(slot[t], doc[t])
    BY <2>1 DEF HotInv, WarmClaimed, WarmFilled, WarmingPc
  <2>4. /\ \A x \in Slot \ {slot[t]} : slots'[x] = slots[x]
        /\ slots'[slot[t]] \in {None, doc[t]}
    BY <1>1, <2>2, <2>3 DEF TypeOK, EngineTypeOK
  <2>5. \A q \in Thread \ {t} : pc'[q] = pc[q]
    BY <1>1, <1>3, <2>1 DEF TypeOK, ThreadTypeOK
  <2>6. slots'[slot[t]] = None \/ Holds(slot[t], slots[slot[t]])'
    BY <2>1, <2>3, <2>4 DEF Holds
  <2> QED
    BY <1>1, <2>1, <2>4, <2>5, <2>6, FillHot DEF AnsweringPc, WarmingPc, LockedPc
<1>7. CASE QuerySlot(t)
  <2>1. PICK s \in SlotFor(doc[t]) :
            /\ slots' = [slots EXCEPT ![s] = doc[t]]
            /\ slot' = [slot EXCEPT ![t] = s]
            /\ At(t, IF slots[s] # doc[t] /\ file[t] THEN "recheck" ELSE "chat")
    BY <1>7 DEF QuerySlot
  <2>2. s \in Slot /\ pc[t] = "hot_slot"
    BY <1>1, <1>7, SlotForInSlot DEF QuerySlot
  <2>3. UNCHANGED <<kv, total, doc>>
    BY <1>7 DEF QuerySlot, serverVars
  <2>4. /\ pc'[t] \in {"recheck", "chat"}
        /\ \A q \in Thread \ {t} : pc'[q] = pc[q] /\ slot'[q] = slot[q]
    BY <1>1, <1>3, <2>1 DEF At, TypeOK, ThreadTypeOK
  <2>5. /\ slots'[s] = doc[t] /\ slot'[t] = s
        /\ \A x \in Slot \ {s} : slots'[x] = slots[x]
    BY <1>1, <2>1, <2>2 DEF TypeOK, EngineTypeOK, ThreadTypeOK
  <2>6. Answers(t, s, slots[s])'
    BY <2>3, <2>4, <2>5 DEF Answers, AnsweringPc
  <2> QED
    BY <2>2, <2>3, <2>4, <2>5, <2>6, FillHot DEF AnsweringPc, WarmingPc, LockedPc
<1>8. CASE QueryRecheck(t)
  <2>1. Goto(t, "restore") /\ pc[t] = "recheck" /\ UNCHANGED <<doc, slot>>
    BY <1>2, <1>8 DEF QueryRecheck, CheckRaises, Goto, localVars
  <2>2. HotSteady
    BY <1>8, CheckHot DEF QueryRecheck
  <2>3. FillersSteady /\ UnmapsOwed
    BY <1>1, <1>3, <2>1
    DEF FillersSteady, UnmapsOwed, Goto, At, AnsweringPc, WarmingPc, TypeOK,
        ThreadTypeOK
  <2> QED BY <2>2, <2>3, QuietHot
<1>9. CASE QueryRestore(t)
  <2>1. /\ pc[t] = "restore" /\ doc[t] \in Doc
        /\ pc' = [pc EXCEPT ![t] = "chat"]
        /\ UNCHANGED <<slots, total, doc, slot>>
    BY <1>1, <1>9 DEF QueryRestore, At, mapVars
  <2>2. \A x \in Slot \ {slot[t]} : kv'[x] = kv[x]
    BY <1>1, <1>2, <1>9
    DEF QueryRestore, SlotRestore, SlotRestoreFails, TypeOK, ServerTypeOK
  <2>3. pc'[t] = "chat" /\ \A q \in Thread \ {t} : pc'[q] = pc[q]
    BY <1>1, <1>3, <2>1 DEF TypeOK, ThreadTypeOK
  <2>4. slots[slot[t]] \in {doc[t], None}
    BY <2>1 DEF HotInv, AnswerMapped, AnsweringPc
  <2>5. slots'[slot[t]] = None \/ Answers(t, slot[t], slots[slot[t]])'
    BY <2>1, <2>3, <2>4 DEF Answers, AnsweringPc
  <2> QED
    BY <1>1, <2>1, <2>2, <2>3, <2>4, <2>5, FillHot
    DEF AnsweringPc, WarmingPc, LockedPc
<1>10. CASE QueryChat(t)
  <2>1. pc[t] = "chat" /\ doc[t] \in Doc /\ UNCHANGED <<slots, total>>
    BY <1>1, <1>10 DEF QueryChat, mapVars
  <2>2. /\ kv'[slot[t]] # Empty /\ kv'[slot[t]].doc = doc[t]
        /\ \A x \in Slot \ {slot[t]} : kv'[x] = kv[x]
    BY <1>1, <1>2, <1>10, <2>1, EvaluatedHolds DEF QueryChat, Chat, TypeOK, ServerTypeOK
  <2>3. /\ pc'[t] = "idle"
        /\ \A q \in Thread \ {t} : pc'[q] = pc[q] /\ doc'[q] = doc[q] /\ slot'[q] = slot[q]
    BY <1>1, <1>3, <1>10 DEF QueryChat, Spawn, Finish, At, TypeOK, ThreadTypeOK
  <2>4. slots[slot[t]] \in {doc[t], None}
    BY <2>1 DEF HotInv, AnswerMapped, AnsweringPc
  <2>5. \/ slots'[slot[t]] = None
        \/ kv'[slot[t]] # Empty /\ kv'[slot[t]].doc = slots'[slot[t]]
    BY <2>1, <2>2, <2>4
  <2> QED
    BY <1>1, <2>1, <2>2, <2>3, <2>4, <2>5, FillHot
    DEF AnsweringPc, WarmingPc, LockedPc, Holds
<1>11. CASE QueryChatFails(t)
  <2>1. /\ pc[t] = "chat" /\ doc[t] \in Doc
        /\ pc' = [pc EXCEPT ![t] = "unmap"]
        /\ UNCHANGED <<slots, total, doc, slot>>
    BY <1>1, <1>11 DEF QueryChatFails, Goto, At, localVars, mapVars
  <2>2. \A x \in Slot \ {slot[t]} : kv'[x] = kv[x]
    BY <1>1, <1>2, <1>11 DEF QueryChatFails, ChatFails, TypeOK, ServerTypeOK
  <2>3. pc'[t] = "unmap" /\ \A q \in Thread \ {t} : pc'[q] = pc[q]
    BY <1>1, <1>3, <2>1 DEF TypeOK, ThreadTypeOK
  <2>4. slots[slot[t]] \in {doc[t], None}
    BY <2>1 DEF HotInv, AnswerMapped, AnsweringPc
  <2>5. slots'[slot[t]] = None \/ Answers(t, slot[t], slots[slot[t]])'
    BY <2>1, <2>3, <2>4 DEF Answers
  <2> QED
    BY <1>1, <2>1, <2>2, <2>3, <2>5, FillHot DEF AnsweringPc, WarmingPc, LockedPc
<1> QED
  BY <1>4, <1>5, <1>6, <1>7, <1>8, <1>9, <1>10, <1>11

LEMMA HotInit == Init => HotInv
BY ThreadIsProcess
DEF Init, ServerInit, HotInv, AnswerMapped, WarmClaimed, WarmFilled, HotKept,
    AnsweringPc, WarmingPc

LEMMA HotNext ==
    ASSUME SlotsLast, TypeOK, LockHeld, HotInv, [Next]_vars
    PROVE  HotInv'
<1>1. CASE \E t \in Thread : Arrival(t) \/ ThreadStep(t)
  BY <1>1, QuietHotSteps, FillHotSteps DEF ThreadStep
<1>2. ASSUME NEW w \in Worker, WorkerStep(w) PROVE HotInv'
  <2>1. w \in Process /\ w \notin Thread
    BY ThreadIsProcess, EngineAssumption
  <2>2. \A q \in Thread : pc'[q] = pc[q] /\ doc'[q] = doc[q] /\ slot'[q] = slot[q]
    BY <1>2, <2>1, ThreadIsProcess
    DEF WorkerStep, ResaveSave, ResaveMark, ResaveUnlink, Goto, Finish, At,
        localVars, TypeOK, ThreadTypeOK
  <2>3. HotSteady
    BY <1>2
    DEF WorkerStep, ResaveSave, ResaveMark, ResaveUnlink, HotSteady, serverVars,
        mapVars
  <2>4. FillersSteady /\ UnmapsOwed
    BY <2>2 DEF FillersSteady, UnmapsOwed
  <2> QED BY <2>3, <2>4, QuietHot
<1>3. CASE Crash
  BY <1>3, ThreadIsProcess
  DEF Crash, serverVars, HotInv, AnswerMapped, WarmClaimed, WarmFilled, HotKept,
      AnsweringPc, WarmingPc
<1>4. CASE Restart \/ Resize
  BY <1>4 DEF Restart, Resize, ServerRestart, ServerResize, SlotsLast
<1>5. CASE UNCHANGED vars
  <2>1. HotSteady /\ FillersSteady /\ UnmapsOwed
    BY <1>5
    DEF vars, serverVars, mapVars, localVars, HotSteady, FillersSteady, UnmapsOwed
  <2> QED BY <2>1, QuietHot
<1> QED BY <1>1, <1>2, <1>3, <1>4, <1>5 DEF Next

LEMMA HotTells == LockHeld /\ HotInv => HotMapTruthful
<1> SUFFICES ASSUME LockHeld, HotInv, lock = None,
                    NEW s \in Slot, slots[s] # None
             PROVE  \/ Reuses(s, slots[s])
                    \/ \E t \in Thread : pc[t] = "unmap" /\ slot[t] = s /\ doc[t] = slots[s]
  BY DEF HotMapTruthful
<1>1. Physical(s) = s
  BY SlotIsPhysical DEF HotInv
<1>2. \A t \in Thread : pc[t] \notin AnsweringPc
  BY ThreadIsProcess, EngineAssumption DEF LockHeld, LockedPc, AnsweringPc
<1> QED BY <1>1, <1>2 DEF HotInv, HotKept, Holds, Answers, Reuses

\* A slot the map calls hot does hold the document whenever the big lock is
\* free, but for a query whose completion failed there and that has yet to
\* unmap it: through crashes, wipes, deletes, evictions and failing erases,
\* completions, saves and restores, as long as the server keeps its memory.
THEOREM HotIsHot ==
    ASSUME SlotsLast
    PROVE  Spec => []HotMapTruthful
<1>1. TypeOK /\ LockHeld /\ HotInv /\ [Next]_vars => HotInv'
  BY HotNext
<1> QED BY <1>1, HotInit, HotTells, TypeCorrect, LockDiscipline, PTL DEF Spec

-----------------------------------------------------------------------------
\* What the map holds is on disk.

\* What the last step of every healing needs: completions and saves answer, a
\* thread can be started for a re-save, and no check raises once a slot is mapped.
ResavesLand == Faults \cap {"llama", "drift", "spawn"} = {}

\* Process p will save document d from slot s if its file turns out to be missing.
BackingPc == AnsweringPc \cup {"resave"}
Backs(p, s, d) ==
    /\ slot[p] = s /\ doc[p] = d
    /\ pc[p] = "resave" \/ (pc[p] \in AnsweringPc /\ label[p] = "recomputed")

Backed(s) == files[slots[s]] # NoFile \/ \E p \in Process : Backs(p, s, slots[s])

\* Who removes a file has seen the row deleted, and everyone at work has a row.
Aged(p) ==
    /\ pc[p] \notin {"idle", "insert"} => row[doc[p]] # "unborn"
    /\ pc[p] \in UnlinkingPc => row[doc[p]] = "gone"

\* A slot is mapped only once the document's row was born, and while the row
\* lives there is a file, or somebody who is going to write it.
PersistInv ==
    /\ total = CagSlots
    /\ \A s \in Slot : slots[s] # None => row[slots[s]] # "unborn"
    /\ \A s \in Slot : slots[s] \in Live => Backed(s)
    /\ \A p \in Process : Aged(p)

\* An entry of the map stays, goes, or is made for a document with a row and with
\* a file or a process to back it.
MapSettled ==
    \A s \in Slot :
        \/ slots'[s] \in {slots[s], None}
        \/ slots'[s] \in Doc /\ row'[slots'[s]] # "unborn" /\ Backed(s)'

\* Where the entry stays and the row lives, the file stays.
MappedFilesStay ==
    \A s \in Slot :
        slots'[s] = slots[s] /\ slots[s] \in Doc /\ row'[slots[s]] \in Status =>
            (files[slots[s]] # NoFile => files'[slots[s]] # NoFile)

\* Where the entry stays, whoever backs it passes that on or has written the file.
BackersStay ==
    \A s \in Slot, p \in Process :
        slots'[s] = slots[s] /\ slots[s] \in Doc /\ Backs(p, s, slots[s]) => Backed(s)'

\* A step that keeps to all this keeps the invariant.
LEMMA PersistStep ==
    ASSUME TypeOK, PersistInv, RowsAge, MapSettled, MappedFilesStay, BackersStay,
           total' = total,
           \A q \in Process :
               \/ pc'[q] = pc[q] /\ doc'[q] = doc[q]
               \/ Aged(q)'
    PROVE  PersistInv'
<1>1. /\ row \in [Doc -> Status \cup {"unborn", "gone"}]
      /\ slots \in [Slot -> Doc \cup {None}] /\ None \notin Doc
  BY EngineAssumption DEF TypeOK, StoreTypeOK, EngineTypeOK
<1>2. total' = CagSlots
  BY DEF PersistInv
<1>3. ASSUME NEW s \in Slot, slots'[s] # None
      PROVE  row'[slots'[s]] # "unborn"
  <2>1. CASE slots'[s] = slots[s]
    BY <1>1, <1>3, <2>1 DEF PersistInv, RowsAge
  <2> QED BY <1>3, <2>1 DEF MapSettled
<1>4. ASSUME NEW s \in Slot, slots'[s] \in Doc, row'[slots'[s]] \in Status
      PROVE  Backed(s)'
  <2>1. CASE slots'[s] = slots[s]
    <3>1. slots[s] \in Doc /\ row'[slots[s]] \in Status
      BY <1>4, <2>1
    <3>2. row[slots[s]] # "unborn" /\ row[slots[s]] # "gone"
      BY <1>1, <3>1 DEF PersistInv, RowsAge, Status
    <3>3. Backed(s)
      BY <1>1, <3>1, <3>2 DEF PersistInv, Live
    <3>4. CASE files[slots[s]] # NoFile
      BY <2>1, <3>1, <3>4 DEF MappedFilesStay, Backed
    <3>5. CASE \E p \in Process : Backs(p, s, slots[s])
      BY <2>1, <3>1, <3>5 DEF BackersStay
    <3> QED BY <3>3, <3>4, <3>5 DEF Backed
  <2> QED BY <1>1, <1>4, <2>1 DEF MapSettled
<1>5. ASSUME NEW q \in Process PROVE Aged(q)'
  <2> SUFFICES ASSUME pc'[q] = pc[q], doc'[q] = doc[q] PROVE Aged(q)'
    OBVIOUS
  <2>1. Aged(q) /\ (pc[q] # "idle" => doc[q] \in Doc)
    BY BusyType DEF PersistInv
  <2> QED BY <2>1 DEF Aged, RowsAge, UnlinkingPc
<1> QED BY <1>2, <1>3, <1>4, <1>5 DEF PersistInv, Live

\* A process that backs nothing moves, and nobody else does.
LEMMA BackersUntouched ==
    ASSUME NEW p \in Process, pc[p] \notin BackingPc,
           \A q \in Process \ {p} :
               pc'[q] = pc[q] /\ doc'[q] = doc[q] /\ slot'[q] = slot[q] /\ label'[q] = label[q]
    PROVE  BackersStay
BY DEF BackersStay, Backs, BackingPc, Backed

\* Every check that returns keeps the files of the entries it keeps, and none raises.
LEMMA CheckPersists ==
    ASSUME TypeOK, PersistInv, NEW force, CheckReturns(force) \/ CheckRaises(force)
    PROVE  CheckReturns(force) /\ MapSettled /\ MappedFilesStay
<1>1. CheckReturns(force)
  BY DEF CheckRaises, PersistInv
<1>2. MapSettled
  BY CheckShrinks DEF MapSettled
<1>3. CASE files' = files
  BY <1>1, <1>2, <1>3 DEF MappedFilesStay
<1>4. CASE files' # files
  <2>1. \A s \in Slot : slots'[s] = None
    BY <1>1, <1>4 DEF CheckReturns, Fingerprint
  <2> QED BY <1>1, <1>2, <2>1, EngineAssumption DEF MappedFilesStay
<1> QED BY <1>1, <1>2, <1>3, <1>4

\* The steps of a request thread that leave the table and the directory alone and
\* back nothing before or after.
LEMMA PlainPersistSteps ==
    ASSUME TypeOK, PersistInv, NEW t \in Thread,
           \/ IngestFind(t) \/ IngestGivesUp(t) \/ WarmSlot(t) \/ WarmChat(t)
           \/ IngestGoneUnmap(t) \/ QueryRead(t) \/ QueryUnmap(t) \/ DeleteUnmap(t)
    PROVE  PersistInv'
<1>1. t \in Process /\ slot[t] \in Slot /\ (pc[t] # "idle" => doc[t] \in Doc) /\ Aged(t)
  BY BusyType, ThreadIsProcess DEF PersistInv
<1>2. UNCHANGED <<row, files, total>>
  BY DEF IngestFind, IngestGivesUp, WarmSlot, WarmChat, IngestGoneUnmap, QueryRead,
         QueryUnmap, DeleteUnmap, serverVars, storeVars
<1>3. \A s \in Slot : slots'[s] \in {slots[s], None}
  BY <1>1, SlotForInSlot
  DEF IngestFind, IngestGivesUp, WarmSlot, WarmChat, IngestGoneUnmap, QueryRead,
      QueryUnmap, DeleteUnmap, mapVars, TypeOK, EngineTypeOK
<1>4. RowsAge /\ MapSettled /\ MappedFilesStay
  BY <1>2, <1>3 DEF RowsAge, MapSettled, MappedFilesStay
<1>5. /\ pc[t] \notin BackingPc
      /\ \A q \in Process \ {t} :
             pc'[q] = pc[q] /\ doc'[q] = doc[q] /\ slot'[q] = slot[q] /\ label'[q] = label[q]
  BY <1>1
  DEF IngestFind, IngestGivesUp, WarmSlot, WarmChat, IngestGoneUnmap, QueryRead,
      QueryUnmap, DeleteUnmap, Goto, Finish, At, localVars, BackingPc, AnsweringPc,
      TypeOK, ThreadTypeOK
<1>6. Aged(t)'
  BY <1>1, <1>2
  DEF IngestFind, IngestGivesUp, WarmSlot, WarmChat, IngestGoneUnmap, QueryRead,
      QueryUnmap, DeleteUnmap, Goto, Finish, At, localVars, Aged, UnlinkingPc, Live,
      Status, TypeOK, ThreadTypeOK
<1> QED BY <1>1, <1>2, <1>4, <1>5, <1>6, BackersUntouched, PersistStep

\* The steps of a request thread that run a statement on the table.
LEMMA TablePersistSteps ==
    ASSUME TypeOK, PersistInv, NEW t \in Thread,
           \/ IngestInsert(t) \/ IngestMarkCached(t) \/ IngestMarkFailed(t)
           \/ DeleteRow(t)
    PROVE  PersistInv'
<1>1. t \in Process /\ (pc[t] # "idle" => doc[t] \in Doc) /\ Aged(t)
  BY BusyType, ThreadIsProcess DEF PersistInv
<1>2. UNCHANGED <<slots, files, total>>
  BY DEF IngestInsert, IngestMarkCached, IngestMarkFailed, DeleteRow, serverVars,
         mapVars
<1>3. RowsAge
  BY <1>1
  DEF IngestInsert, IngestMarkCached, IngestMarkFailed, DeleteRow, RowsAge,
      InsertDocument, MarkCached, MarkFailed, DeleteDocument, RowFound, Live,
      storeVars, Status, TypeOK, StoreTypeOK
<1>4. MapSettled /\ MappedFilesStay
  BY <1>2 DEF MapSettled, MappedFilesStay
<1>5. /\ pc[t] \notin BackingPc
      /\ \A q \in Process \ {t} :
             pc'[q] = pc[q] /\ doc'[q] = doc[q] /\ slot'[q] = slot[q] /\ label'[q] = label[q]
  BY <1>1
  DEF IngestInsert, IngestMarkCached, IngestMarkFailed, DeleteRow, Goto, Finish, At,
      localVars, BackingPc, AnsweringPc, TypeOK, ThreadTypeOK
<1>6. Aged(t)'
  BY <1>1
  DEF IngestInsert, IngestMarkCached, IngestMarkFailed, DeleteRow, InsertDocument,
      DeleteDocument, RowFound, Goto, Finish, At, localVars, Aged, UnlinkingPc, Live,
      storeVars, Status, TypeOK, StoreTypeOK, ThreadTypeOK
<1> QED BY <1>1, <1>2, <1>3, <1>4, <1>5, <1>6, BackersUntouched, PersistStep

\* Removing the file of a deleted document touches no live one.
LEMMA GonePersists ==
    ASSUME TypeOK, NEW d \in Doc, row[d] = "gone", Unlink(d) \/ UNCHANGED files,
           UNCHANGED <<slots, row>>
    PROVE  RowsAge /\ MapSettled /\ MappedFilesStay
<1>1. \A e \in Doc : files'[e] = files[e] \/ e = d
  BY DEF Unlink, TypeOK, ServerTypeOK
<1> QED BY <1>1 DEF RowsAge, MapSettled, MappedFilesStay, Status

\* The steps of a request thread that check, write or remove files.
LEMMA FilePersistSteps ==
    ASSUME TypeOK, PersistInv, NEW t \in Thread,
           \/ WarmLock(t) \/ QueryLock(t) \/ WarmSave(t)
           \/ IngestGoneUnlink(t) \/ DeleteUnlink(t)
    PROVE  PersistInv'
<1>1. t \in Process /\ slot[t] \in Slot /\ (pc[t] # "idle" => doc[t] \in Doc) /\ Aged(t)
  BY BusyType, ThreadIsProcess DEF PersistInv
<1>2. UNCHANGED <<row, total>>
  BY DEF WarmLock, QueryLock, WarmSave, IngestGoneUnlink, DeleteUnlink, storeVars
<1>3. /\ pc[t] \notin BackingPc
      /\ \A q \in Process \ {t} :
             pc'[q] = pc[q] /\ doc'[q] = doc[q] /\ slot'[q] = slot[q] /\ label'[q] = label[q]
  BY <1>1
  DEF WarmLock, QueryLock, WarmSave, IngestGoneUnlink, DeleteUnlink, Goto, Finish,
      At, localVars, BackingPc, AnsweringPc, TypeOK, ThreadTypeOK
<1>4. Aged(t)'
  BY <1>1, <1>2
  DEF WarmLock, QueryLock, WarmSave, IngestGoneUnlink, DeleteUnlink, Goto, Finish,
      At, localVars, Aged, UnlinkingPc, TypeOK, ThreadTypeOK
<1>5. RowsAge
  BY <1>2 DEF RowsAge
<1>6. MapSettled /\ MappedFilesStay
  <2>1. CASE WarmLock(t) \/ QueryLock(t)
    BY <2>1, CheckPersists DEF WarmLock, QueryLock
  <2>2. CASE WarmSave(t)
    <3>1. pc[t] = "warm_save" /\ doc[t] \in Doc /\ row'[doc[t]] # "unborn"
      BY <1>1, <1>2, <2>2 DEF WarmSave, Aged
    <3>2. \A d \in Doc : files[d] # NoFile => files'[d] # NoFile
      BY <1>1, <2>2, <3>1, SavedIsFile DEF WarmSave, SlotSaveFails
    <3>3. CASE UNCHANGED mapVars
      BY <3>2, <3>3 DEF mapVars, MapSettled, MappedFilesStay
    <3>4. CASE /\ SlotSave(slot[t], doc[t])
               /\ slots' = [slots EXCEPT ![slot[t]] = doc[t]]
      <4>1. files'[doc[t]] # NoFile
        BY <1>1, <3>1, <3>4, SavedIsFile
      <4>2. \A s \in Slot : slots'[s] = IF s = slot[t] THEN doc[t] ELSE slots[s]
        BY <1>1, <3>4 DEF TypeOK, EngineTypeOK
      <4> QED BY <3>1, <3>2, <4>1, <4>2 DEF MapSettled, MappedFilesStay, Backed
    <3> QED BY <2>2, <3>3, <3>4 DEF WarmSave
  <2>3. CASE IngestGoneUnlink(t) \/ DeleteUnlink(t)
    <3>1. doc[t] \in Doc /\ row[doc[t]] = "gone" /\ UNCHANGED slots
      BY <1>1, <2>3 DEF IngestGoneUnlink, DeleteUnlink, Aged, UnlinkingPc, mapVars
    <3> QED
      BY <1>2, <2>3, <3>1, GonePersists DEF IngestGoneUnlink, DeleteUnlink
  <2> QED BY <2>1, <2>2, <2>3
<1> QED BY <1>1, <1>2, <1>3, <1>4, <1>5, <1>6, BackersUntouched, PersistStep

\* The steps of a query between the choice of its slot and its answer.
LEMMA AnswerPersistSteps ==
    ASSUME TypeOK, PersistInv, ResavesLand, NEW t \in Thread,
           \/ QuerySlot(t) \/ QueryRecheck(t) \/ QueryRestore(t) \/ QueryChat(t)
           \/ QueryChatFails(t)
    PROVE  PersistInv'
<1>1. t \in Process /\ slot[t] \in Slot /\ (pc[t] # "idle" => doc[t] \in Doc) /\ Aged(t)
  BY BusyType, ThreadIsProcess DEF PersistInv
<1>2. UNCHANGED <<row, total>> /\ pc[t] # "idle" /\ row[doc[t]] # "unborn" /\ RowsAge
  BY <1>1
  DEF QuerySlot, QueryRecheck, QueryRestore, QueryChat, QueryChatFails, storeVars,
      serverVars, Aged, RowsAge
<1>3. CASE QuerySlot(t)
  <2>1. PICK s \in SlotFor(doc[t]) :
            /\ slot' = [slot EXCEPT ![t] = s]
            /\ slots' = [slots EXCEPT ![s] = doc[t]]
            /\ label' = [label EXCEPT ![t] = IF slots[s] = doc[t] THEN "memory"
                                                               ELSE "recomputed"]
            /\ At(t, IF slots[s] # doc[t] /\ file[t] THEN "recheck" ELSE "chat")
    BY <1>3 DEF QuerySlot
  <2>2. s \in Slot /\ pc[t] = "hot_slot" /\ UNCHANGED <<files, doc>>
    BY <1>3, SlotForInSlot DEF QuerySlot, serverVars
  <2>3. /\ pc'[t] \in {"recheck", "chat"} /\ slot'[t] = s
        /\ slots[s] # doc[t] => label'[t] = "recomputed"
        /\ \A q \in Process \ {t} :
               pc'[q] = pc[q] /\ slot'[q] = slot[q] /\ label'[q] = label[q]
    BY <1>1, <2>1 DEF At, TypeOK, ThreadTypeOK
  <2>4. BackersStay
    BY <1>1, <2>2, <2>3, BackersUntouched DEF BackingPc, AnsweringPc
  <2>5. \A x \in Slot : slots'[x] = IF x = s THEN doc[t] ELSE slots[x]
    BY <2>1, <2>2 DEF TypeOK, EngineTypeOK
  <2>6. slots[s] # doc[t] => Backed(s)'
    BY <1>1, <2>2, <2>3, <2>5 DEF Backed, Backs, AnsweringPc
  <2>7. MapSettled
    BY <1>1, <1>2, <2>5, <2>6 DEF MapSettled
  <2>8. MappedFilesStay
    BY <2>2 DEF MappedFilesStay
  <2>9. Aged(t)'
    BY <1>2, <2>2, <2>3 DEF Aged, UnlinkingPc
  <2> QED BY <1>2, <2>2, <2>3, <2>4, <2>7, <2>8, <2>9, PersistStep
<1>4. CASE QueryRecheck(t)
  <2>1. MapSettled /\ MappedFilesStay /\ Goto(t, "restore") /\ pc[t] = "recheck"
    BY <1>4, CheckPersists DEF QueryRecheck, CheckRaises, PersistInv
  <2>2. /\ UNCHANGED <<doc, slot, label>> /\ pc'[t] = "restore"
        /\ \A q \in Process \ {t} : pc'[q] = pc[q]
    BY <1>1, <2>1 DEF Goto, At, localVars, TypeOK, ThreadTypeOK
  <2>3. \A p \in Process, s \in Slot, d \in Doc : Backs(p, s, d) => Backs(p, s, d)'
    BY <2>1, <2>2 DEF Backs, AnsweringPc
  <2>4. BackersStay
    BY <2>3 DEF BackersStay, Backed
  <2>5. Aged(t)'
    BY <1>2, <2>2 DEF Aged, UnlinkingPc
  <2> QED BY <1>2, <2>1, <2>2, <2>4, <2>5, PersistStep
<1>5. CASE QueryRestore(t)
  <2>1. /\ UNCHANGED <<files, slots, doc, slot>> /\ pc[t] = "restore"
        /\ pc'[t] = "chat" /\ \A q \in Process \ {t} : pc'[q] = pc[q]
    BY <1>1, <1>5 DEF QueryRestore, At, mapVars, TypeOK, ThreadTypeOK
  <2>2. /\ \A q \in Process \ {t} : label'[q] = label[q]
        /\ label'[t] = label[t] \/ files[doc[t]] # NoFile
    BY <1>1, <1>5 DEF QueryRestore, SlotRestore, TypeOK, ThreadTypeOK
  <2>3. \A p \in Process, s \in Slot, d \in Doc :
            Backs(p, s, d) => Backs(p, s, d)' \/ files'[d] # NoFile
    BY <2>1, <2>2 DEF Backs, AnsweringPc
  <2>4. BackersStay
    BY <2>3 DEF BackersStay, Backed
  <2>5. MapSettled /\ MappedFilesStay
    BY <2>1 DEF MapSettled, MappedFilesStay
  <2>6. Aged(t)'
    BY <1>2, <2>1 DEF Aged, UnlinkingPc
  <2> QED BY <1>2, <2>1, <2>4, <2>5, <2>6, PersistStep
<1>6. CASE QueryChat(t)
  <2>1. UNCHANGED <<files, slots>> /\ pc[t] = "chat"
    BY <1>6 DEF QueryChat, mapVars
  <2>2. \A q \in Process :
            \/ pc'[q] = pc[q] /\ doc'[q] = doc[q] /\ slot'[q] = slot[q] /\ label'[q] = label[q]
            \/ q = t /\ pc'[q] = "idle"
            \/ /\ pc[q] = "idle" /\ pc'[q] = "resave"
               /\ doc'[q] = doc[t] /\ slot'[q] = slot[t]
    BY <1>1, <1>6, <2>1, EngineAssumption, ThreadIsProcess
    DEF QueryChat, Spawn, Finish, At, TypeOK, ThreadTypeOK
  <2>3. label[t] = "recomputed" =>
            \E w \in Process : pc'[w] = "resave" /\ doc'[w] = doc[t] /\ slot'[w] = slot[t]
    BY <1>1, <1>6, <2>1, EngineAssumption, ThreadIsProcess
    DEF QueryChat, Spawn, ResavesLand, TypeOK, ThreadTypeOK
  <2>4. ASSUME NEW p \in Process, NEW s \in Slot, NEW d \in Doc, Backs(p, s, d)
        PROVE  \E q \in Process : Backs(q, s, d)'
    <3>1. CASE p = t
      BY <2>1, <2>3, <2>4, <3>1 DEF Backs
    <3>2. CASE p # t
      BY <2>2, <2>4, <3>2 DEF Backs, AnsweringPc
    <3> QED BY <3>1, <3>2
  <2>5. BackersStay
    BY <2>1, <2>4 DEF BackersStay, Backed
  <2>6. MapSettled /\ MappedFilesStay
    BY <2>1 DEF MapSettled, MappedFilesStay
  <2>7. \A q \in Process : (pc'[q] = pc[q] /\ doc'[q] = doc[q]) \/ Aged(q)'
    BY <1>2, <2>2 DEF Aged, UnlinkingPc
  <2> QED BY <1>2, <2>5, <2>6, <2>7, PersistStep
<1>7. CASE QueryChatFails(t)
  BY <1>7 DEF QueryChatFails, ChatFails, ResavesLand
<1> QED BY <1>3, <1>4, <1>5, <1>6, <1>7

\* Every step of a deferred re-save.  It gives up only when the slot has gone to
\* another document, and then that one has its own backing.
LEMMA WorkerPersistSteps ==
    ASSUME TypeOK, PersistInv, ResavesLand, NEW w \in Worker, WorkerStep(w)
    PROVE  PersistInv'
<1>1. w \in Process /\ slot[w] \in Slot /\ (pc[w] # "idle" => doc[w] \in Doc) /\ Aged(w)
  BY BusyType, ThreadIsProcess DEF PersistInv
<1>2. UNCHANGED <<slots, total>>
  BY DEF WorkerStep, ResaveSave, ResaveMark, ResaveUnlink, serverVars, mapVars
<1>3. \A q \in Process \ {w} :
          pc'[q] = pc[q] /\ doc'[q] = doc[q] /\ slot'[q] = slot[q] /\ label'[q] = label[q]
  BY <1>1
  DEF WorkerStep, ResaveSave, ResaveMark, ResaveUnlink, Goto, Finish, At, localVars,
      TypeOK, ThreadTypeOK
<1>4. MapSettled
  BY <1>2 DEF MapSettled
<1>5. CASE ResaveSave(w)
  <2>1. pc[w] = "resave" /\ doc[w] \in Doc /\ row' = row
    BY <1>1, <1>5 DEF ResaveSave, storeVars
  <2>2. \/ slots[slot[w]] = doc[w] /\ SlotSave(slot[w], doc[w])
        \/ slots[slot[w]] # doc[w] /\ files' = files
    BY <1>5 DEF ResaveSave, SlotSaveFails, ResavesLand
  <2>3. /\ \A d \in Doc : files[d] # NoFile => files'[d] # NoFile
        /\ slots[slot[w]] = doc[w] => files'[doc[w]] # NoFile
    BY <1>1, <2>1, <2>2, SavedIsFile
  <2>4. BackersStay
    <3> SUFFICES ASSUME NEW s \in Slot, NEW p \in Process, slots'[s] = slots[s],
                        Backs(p, s, slots[s])
                 PROVE  Backed(s)'
      BY DEF BackersStay
    <3>1. CASE p = w
      BY <2>3, <3>1 DEF Backs, Backed
    <3>2. CASE p # w
      BY <1>3, <3>2 DEF Backs, Backed
    <3> QED BY <3>1, <3>2
  <2>5. Aged(w)'
    BY <1>1, <1>5, <2>1
    DEF ResaveSave, Goto, Finish, At, localVars, Aged, UnlinkingPc, TypeOK, ThreadTypeOK
  <2>6. RowsAge /\ MappedFilesStay
    BY <2>1, <2>3 DEF RowsAge, MappedFilesStay
  <2> QED BY <1>2, <1>3, <1>4, <2>4, <2>5, <2>6, PersistStep
<1>6. CASE ResaveMark(w)
  <2>1. pc[w] = "resave_mark" /\ files' = files
    BY <1>6 DEF ResaveMark, serverVars
  <2>2. RowsAge
    BY <1>1, <1>6, <2>1
    DEF ResaveMark, MarkCached, RowFound, RowsAge, Live, storeVars, Status, TypeOK,
        StoreTypeOK
  <2>3. Aged(w)'
    BY <1>1, <1>6, <2>1
    DEF ResaveMark, RowFound, Live, storeVars, Goto, Finish, At, localVars, Aged,
        UnlinkingPc, TypeOK, ThreadTypeOK, StoreTypeOK
  <2>4. MappedFilesStay
    BY <2>1 DEF MappedFilesStay
  <2>5. BackersStay
    BY <1>1, <1>3, <2>1, BackersUntouched DEF BackingPc, AnsweringPc
  <2> QED BY <1>2, <1>3, <1>4, <2>2, <2>3, <2>4, <2>5, PersistStep
<1>7. CASE ResaveUnlink(w)
  <2>1. pc[w] = "resave_unlink" /\ row' = row /\ (Unlink(doc[w]) \/ UNCHANGED files)
    BY <1>7 DEF ResaveUnlink, storeVars
  <2>2. RowsAge /\ MappedFilesStay
    BY <1>1, <1>2, <2>1, GonePersists DEF Aged, UnlinkingPc
  <2>3. Aged(w)'
    BY <1>1, <1>7 DEF ResaveUnlink, Finish, At, Aged, UnlinkingPc, TypeOK, ThreadTypeOK
  <2>4. BackersStay
    BY <1>1, <1>3, <2>1, BackersUntouched DEF BackingPc, AnsweringPc
  <2> QED BY <1>2, <1>3, <1>4, <2>2, <2>3, <2>4, PersistStep
<1> QED BY <1>5, <1>6, <1>7 DEF WorkerStep

-----------------------------------------------------------------------------
\* And what is on disk is what the slot holds.

\* Whatever slot s holds of its document, the file holds, or somebody will write it.
Matched(s) ==
    \/ kv[s] = Empty
    \/ files[slots[s]] \in {kv[s], NoFile}
    \/ \E p \in Process : Backs(p, s, slots[s])

MatchInv == \A s \in Slot : slots[s] # None => Matched(s)

\* The entry, the slot and the file stay as they are, or are lost.
EntryKept(s) ==
    /\ slots'[s] = slots[s]
    /\ kv'[s] \in {kv[s], Empty}
    /\ files'[slots[s]] \in {files[slots[s]], NoFile}

\* Each entry goes, is matched afresh, or stays with whoever backs it.
LEMMA MatchStep ==
    ASSUME MatchInv,
           \A s \in Slot :
               \/ slots'[s] = None
               \/ Matched(s)'
               \/ EntryKept(s) /\ \A p \in Process : Backs(p, s, slots[s]) => Matched(s)'
    PROVE  MatchInv'
<1> SUFFICES ASSUME NEW s \in Slot, slots'[s] # None, EntryKept(s),
                    \A p \in Process : Backs(p, s, slots[s]) => Matched(s)'
             PROVE  Matched(s)'
  BY DEF MatchInv
<1>1. Matched(s)
  BY DEF MatchInv, EntryKept
<1> QED BY <1>1 DEF Matched, EntryKept

\* A process that backs nothing moves, and fills no slot the map names.
LEMMA QuietMatch ==
    ASSUME MatchInv, NEW p \in Process, pc[p] \notin BackingPc,
           \A q \in Process \ {p} :
               pc'[q] = pc[q] /\ doc'[q] = doc[q] /\ slot'[q] = slot[q] /\ label'[q] = label[q],
           \A s \in Slot : slots'[s] = None \/ EntryKept(s)
    PROVE  MatchInv'
<1>1. ASSUME NEW s \in Slot, EntryKept(s), NEW q \in Process, Backs(q, s, slots[s])
      PROVE  Matched(s)'
  <2>1. q # p
    BY <1>1 DEF Backs, BackingPc
  <2>2. Backs(q, s, slots[s])'
    BY <1>1, <2>1 DEF Backs, EntryKept
  <2> QED BY <2>2 DEF Matched
<1> QED BY <1>1, MatchStep

\* What a check keeps of the map it leaves on disk.
LEMMA CheckMatch ==
    ASSUME TypeOK, NEW force, CheckReturns(force) \/ CheckRaises(force), UNCHANGED kv
    PROVE  \A s \in Slot : slots'[s] = None \/ EntryKept(s)
<1>1. CASE files' = files
  BY <1>1, CheckShrinks DEF EntryKept
<1>2. CASE files' # files
  BY <1>2 DEF CheckReturns, CheckRaises, Fingerprint
<1> QED BY <1>1, <1>2

\* The steps of a request thread that put nothing in a slot the map names and
\* write no file.
LEMMA QuietMatchSteps ==
    ASSUME TypeOK, NameInv, MatchInv, NEW t \in Thread,
           \/ Arrival(t) \/ IngestInsert(t) \/ IngestGivesUp(t) \/ WarmLock(t)
           \/ WarmSlot(t) \/ WarmChat(t) \/ IngestMarkCached(t) \/ IngestMarkFailed(t)
           \/ IngestGoneUnlink(t) \/ IngestGoneUnmap(t) \/ QueryLock(t) \/ QueryUnmap(t)
           \/ DeleteUnlink(t) \/ DeleteUnmap(t)
    PROVE  MatchInv'
<1>1. /\ t \in Process /\ slot[t] \in Slot /\ (pc[t] # "idle" => doc[t] \in Doc)
      /\ slots \in [Slot -> Doc \cup {None}] /\ kv \in [Slot -> State \cup {Empty}]
      /\ \A s \in Slot : Physical(s) = s
  BY BusyType, ThreadIsProcess, SlotIsPhysical
  DEF NameInv, TypeOK, EngineTypeOK, ServerTypeOK
<1>2. /\ pc[t] \notin BackingPc
      /\ \A q \in Process \ {t} :
             pc'[q] = pc[q] /\ doc'[q] = doc[q] /\ slot'[q] = slot[q] /\ label'[q] = label[q]
  <2>1. CASE Arrival(t) \/ IngestInsert(t) \/ IngestGivesUp(t) \/ WarmLock(t)
             \/ WarmSlot(t) \/ WarmChat(t)
    BY <1>1, <2>1
    DEF Arrival, IngestFind, QueryRead, DeleteRow, IngestInsert, IngestGivesUp, WarmLock,
        WarmSlot, WarmChat, Goto, Finish, At, localVars, BackingPc, AnsweringPc, TypeOK,
        ThreadTypeOK
  <2>2. CASE IngestMarkCached(t) \/ IngestMarkFailed(t) \/ IngestGoneUnlink(t)
             \/ IngestGoneUnmap(t) \/ QueryLock(t) \/ QueryUnmap(t) \/ DeleteUnlink(t)
             \/ DeleteUnmap(t)
    BY <1>1, <2>2
    DEF IngestMarkCached, IngestMarkFailed, IngestGoneUnlink, IngestGoneUnmap, QueryLock,
        QueryUnmap, DeleteUnlink, DeleteUnmap, Goto, Finish, At, localVars, BackingPc,
        AnsweringPc, TypeOK, ThreadTypeOK
  <2> QED BY <2>1, <2>2
<1>3. \A s \in Slot : slots'[s] = None \/ EntryKept(s)
  <2>1. CASE \/ Arrival(t) \/ IngestInsert(t) \/ IngestGivesUp(t) \/ IngestMarkCached(t)
             \/ IngestMarkFailed(t)
    BY <2>1
    DEF Arrival, IngestFind, QueryRead, DeleteRow, IngestInsert, IngestGivesUp,
        IngestMarkCached, IngestMarkFailed, EntryKept, serverVars, mapVars
  <2>2. CASE WarmLock(t) \/ QueryLock(t)
    BY <2>2, CheckMatch DEF WarmLock, QueryLock
  <2>3. CASE WarmSlot(t)
    <3>1. PICK s \in SlotFor(doc[t]) :
              /\ SlotErase(s) \/ UNCHANGED kv
              /\ slots' = [slots EXCEPT ![s] = None]
      BY <2>3 DEF WarmSlot
    <3>2. s \in Slot /\ files' = files
      BY <2>3, SlotForInSlot DEF WarmSlot
    <3> QED BY <1>1, <3>1, <3>2 DEF SlotErase, EntryKept
  <2>4. CASE WarmChat(t)
    <3>1. slots[slot[t]] = None /\ UNCHANGED <<slots, files>>
      BY <2>4 DEF WarmChat, NameInv, WarmClaimed, WarmingPc, mapVars
    <3>2. \A s \in Slot \ {slot[t]} : kv'[s] = kv[s]
      BY <1>1, <2>4 DEF WarmChat, Chat, ChatFails
    <3> QED BY <3>1, <3>2 DEF EntryKept
  <2>5. CASE IngestGoneUnlink(t) \/ DeleteUnlink(t)
    BY <1>1, <2>5
    DEF IngestGoneUnlink, DeleteUnlink, Unlink, EntryKept, mapVars, TypeOK, ServerTypeOK
  <2>6. CASE IngestGoneUnmap(t) \/ QueryUnmap(t)
    BY <1>1, <2>6 DEF IngestGoneUnmap, QueryUnmap, EntryKept, serverVars
  <2>7. CASE DeleteUnmap(t)
    <3>1. CASE UNCHANGED <<kv, mapVars>>
      BY <2>7, <3>1 DEF DeleteUnmap, EntryKept, mapVars
    <3>2. CASE ~UNCHANGED <<kv, mapVars>>
      <4>1. PICK s \in Slot : /\ SlotErase(s) \/ UNCHANGED kv
                              /\ slots' = [slots EXCEPT ![s] = None]
        BY <2>7, <3>2 DEF DeleteUnmap
      <4> QED BY <1>1, <2>7, <4>1 DEF DeleteUnmap, SlotErase, EntryKept
    <3> QED BY <3>1, <3>2
  <2> QED BY <2>1, <2>2, <2>3, <2>4, <2>5, <2>6, <2>7
<1> QED BY <1>1, <1>2, <1>3, QuietMatch

\* The steps of a request thread that fill a slot or write a file.
LEMMA FillMatchSteps ==
    ASSUME ResavesLand, TypeOK, NameInv, MapInv, MatchInv, NEW t \in Thread,
           \/ WarmSave(t) \/ QuerySlot(t) \/ QueryRecheck(t) \/ QueryRestore(t)
           \/ QueryChat(t) \/ QueryChatFails(t)
    PROVE  MatchInv'
<1>1. /\ t \in Process /\ slot[t] \in Slot /\ (pc[t] # "idle" => doc[t] \in Doc)
      /\ slots \in [Slot -> Doc \cup {None}] /\ kv \in [Slot -> State \cup {Empty}]
      /\ files \in [Doc -> State \cup {Empty, NoFile}]
      /\ None \notin Doc
      /\ \A s \in Slot : Physical(s) = s
  BY BusyType, ThreadIsProcess, SlotIsPhysical, EngineAssumption
  DEF NameInv, TypeOK, EngineTypeOK, ServerTypeOK
<1>2. CASE WarmSave(t)
  <2>1. pc[t] = "warm_save" /\ doc[t] \in Doc /\ UNCHANGED kv
    BY <1>1, <1>2 DEF WarmSave
  <2>2. \A s \in Slot : slots[s] # doc[t]
    BY <1>1, <2>1 DEF MapInv, WarmUnmapped, NameInv, WarmClaimed, WarmingPc
  <2>3. /\ pc[t] \notin BackingPc
        /\ \A q \in Process \ {t} :
               pc'[q] = pc[q] /\ doc'[q] = doc[q] /\ slot'[q] = slot[q] /\ label'[q] = label[q]
    BY <1>1, <1>2
    DEF WarmSave, Goto, At, localVars, BackingPc, AnsweringPc, TypeOK, ThreadTypeOK
  <2>4. \A d \in Doc \ {doc[t]} : files'[d] = files[d]
    BY <1>1, <1>2 DEF WarmSave, SlotSave, SlotSaveFails
  <2>5. CASE UNCHANGED mapVars
    <3>1. \A s \in Slot : slots'[s] = None \/ EntryKept(s)
      BY <1>1, <2>1, <2>2, <2>4, <2>5 DEF EntryKept, mapVars
    <3> QED BY <1>1, <2>3, <3>1, QuietMatch
  <2>6. CASE /\ SlotSave(slot[t], doc[t])
             /\ slots' = [slots EXCEPT ![slot[t]] = doc[t]]
    <3>1. ASSUME NEW s \in Slot, s = slot[t] PROVE Matched(s)'
      BY <1>1, <2>1, <2>6, <3>1 DEF SlotSave, Matched
    <3>2. \A s \in Slot \ {slot[t]} : slots'[s] = None \/ EntryKept(s)
      BY <1>1, <2>1, <2>2, <2>4, <2>6 DEF EntryKept
    <3>3. \A p \in Process, s \in Slot \ {slot[t]} :
              EntryKept(s) /\ Backs(p, s, slots[s]) => Matched(s)'
      BY <2>3 DEF Backs, BackingPc, Matched, EntryKept
    <3> QED BY <1>1, <3>1, <3>2, <3>3, MatchStep
  <2> QED BY <1>2, <2>5, <2>6 DEF WarmSave
<1>3. CASE QuerySlot(t)
  <2>1. PICK s \in SlotFor(doc[t]) :
            /\ slot' = [slot EXCEPT ![t] = s]
            /\ slots' = [slots EXCEPT ![s] = doc[t]]
            /\ label' = [label EXCEPT ![t] = IF slots[s] = doc[t] THEN "memory"
                                                               ELSE "recomputed"]
            /\ At(t, IF slots[s] # doc[t] /\ file[t] THEN "recheck" ELSE "chat")
    BY <1>3 DEF QuerySlot
  <2>2. s \in Slot /\ pc[t] = "hot_slot" /\ UNCHANGED <<kv, files, doc>>
    BY <1>3, SlotForInSlot DEF QuerySlot, serverVars
  <2>3. /\ pc'[t] \in {"recheck", "chat"} /\ slot'[t] = s
        /\ slots[s] # doc[t] => label'[t] = "recomputed"
        /\ \A q \in Process \ {t} :
               pc'[q] = pc[q] /\ slot'[q] = slot[q] /\ label'[q] = label[q]
    BY <1>1, <2>1 DEF At, TypeOK, ThreadTypeOK
  <2>4. \A x \in Slot : slots'[x] = IF x = s THEN doc[t] ELSE slots[x]
    BY <1>1, <2>1, <2>2
  <2>5. slots[s] # doc[t] => Matched(s)'
    <3> SUFFICES ASSUME slots[s] # doc[t] PROVE Backs(t, s, slots[s])'
      BY <1>1 DEF Matched
    <3> QED BY <2>2, <2>3, <2>4 DEF Backs, AnsweringPc
  <2>6. \A x \in Slot : EntryKept(x) \/ (x = s /\ slots[s] # doc[t])
    BY <2>2, <2>4 DEF EntryKept
  <2>7. ASSUME NEW p \in Process, NEW x \in Slot, EntryKept(x), Backs(p, x, slots[x])
        PROVE  Matched(x)'
    <3>1. p # t
      BY <2>2, <2>7 DEF Backs, AnsweringPc
    <3> QED BY <2>2, <2>3, <2>7, <3>1 DEF Backs, EntryKept, Matched
  <2> QED BY <2>5, <2>6, <2>7, MatchStep
<1>4. CASE QueryRecheck(t)
  <2>1. /\ CheckReturns(TRUE) /\ Goto(t, "restore") /\ pc[t] = "recheck"
        /\ UNCHANGED <<kv, total>>
    BY <1>4 DEF QueryRecheck, CheckRaises, NameInv
  <2>2. \A s \in Slot : slots'[s] = None \/ EntryKept(s)
    BY <2>1, CheckMatch
  <2>3. /\ UNCHANGED <<doc, slot, label>> /\ pc'[t] = "restore"
        /\ \A q \in Process \ {t} : pc'[q] = pc[q]
    BY <1>1, <2>1 DEF Goto, At, localVars, TypeOK, ThreadTypeOK
  <2>4. \A p \in Process, s \in Slot, d \in Doc : Backs(p, s, d) => Backs(p, s, d)'
    BY <2>1, <2>3 DEF Backs, AnsweringPc
  <2>5. \A p \in Process, s \in Slot :
            slots'[s] # None /\ EntryKept(s) /\ Backs(p, s, slots[s]) => Matched(s)'
    BY <1>1, <2>4 DEF EntryKept, Matched
  <2> QED BY <2>2, <2>5, MatchStep
<1>5. CASE QueryRestore(t)
  <2>1. /\ UNCHANGED <<files, slots, doc, slot>> /\ pc[t] = "restore"
        /\ pc'[t] = "chat" /\ \A q \in Process \ {t} : pc'[q] = pc[q]
        /\ \A q \in Process \ {t} : label'[q] = label[q]
    BY <1>1, <1>5 DEF QueryRestore, At, mapVars, TypeOK, ThreadTypeOK
  <2>2. slots[slot[t]] \in {doc[t], None}
    BY <2>1 DEF NameInv, AnswerMapped, AnsweringPc
  <2>3. CASE SlotRestore(slot[t], doc[t])
    <3>1. /\ kv'[slot[t]] = files[doc[t]]
          /\ \A s \in Slot \ {slot[t]} : kv'[s] = kv[s]
      BY <1>1, <2>3 DEF SlotRestore
    <3>2. \A s \in Slot : s = slot[t] => slots'[s] = None \/ Matched(s)'
      BY <2>1, <2>2, <3>1 DEF Matched
    <3>3. \A s \in Slot \ {slot[t]} : EntryKept(s)
      BY <2>1, <3>1 DEF EntryKept
    <3>4. \A p \in Process, s \in Slot \ {slot[t]} : Backs(p, s, slots[s]) => Matched(s)'
      BY <2>1 DEF Backs, Matched
    <3> QED BY <3>2, <3>3, <3>4, MatchStep
  <2>4. CASE ~SlotRestore(slot[t], doc[t])
    <3>1. UNCHANGED <<kv, label>>
      BY <1>5, <2>4 DEF QueryRestore, SlotRestoreFails, ResavesLand
    <3>2. \A s \in Slot : EntryKept(s)
      BY <2>1, <3>1 DEF EntryKept
    <3>3. \A p \in Process, s \in Slot : Backs(p, s, slots[s]) => Matched(s)'
      BY <2>1, <3>1 DEF Backs, AnsweringPc, Matched
    <3> QED BY <3>2, <3>3, MatchStep
  <2> QED BY <2>3, <2>4
<1>6. CASE QueryChat(t)
  <2>1. UNCHANGED <<files, slots>> /\ pc[t] = "chat"
    BY <1>6 DEF QueryChat, mapVars
  <2>2. slots[slot[t]] \in {doc[t], None}
    BY <2>1 DEF NameInv, AnswerMapped, AnsweringPc
  <2>3. /\ \A s \in Slot \ {slot[t]} : kv'[s] = kv[s]
        /\ Reuses(slot[t], doc[t]) => kv' = kv
    BY <1>1, <1>6 DEF QueryChat, Chat, Evaluated
  <2>4. \A q \in Process \ {t} :
            \/ pc'[q] = pc[q] /\ doc'[q] = doc[q] /\ slot'[q] = slot[q] /\ label'[q] = label[q]
            \/ pc[q] = "idle"
    BY <1>1, <1>6, <2>1, EngineAssumption, ThreadIsProcess
    DEF QueryChat, Spawn, Finish, At, TypeOK, ThreadTypeOK
  <2>5. label[t] = "recomputed" \/ ~Reuses(slot[t], doc[t]) =>
            \E w \in Process : pc'[w] = "resave" /\ doc'[w] = doc[t] /\ slot'[w] = slot[t]
    BY <1>1, <1>6, <2>1, EngineAssumption, ThreadIsProcess
    DEF QueryChat, Spawn, ResavesLand, TypeOK, ThreadTypeOK
  <2>6. ASSUME NEW p \in Process \ {t}, NEW s \in Slot, Backs(p, s, slots[s])
        PROVE  Matched(s)'
    <3>1. Backs(p, s, slots[s])'
      BY <2>1, <2>4, <2>6 DEF Backs, AnsweringPc
    <3> QED BY <3>1 DEF Matched
  <2>7. \A s \in Slot \ {slot[t]} : EntryKept(s) /\ ~Backs(t, s, slots[s])
    BY <2>1, <2>3 DEF EntryKept, Backs
  <2>8. CASE label[t] = "recomputed" \/ ~Reuses(slot[t], doc[t])
    <3>1. \A s \in Slot : s = slot[t] => slots'[s] = None \/ Matched(s)'
      BY <2>1, <2>2, <2>5, <2>8 DEF Backs, Matched
    <3> QED BY <2>6, <2>7, <3>1, MatchStep
  <2>9. CASE label[t] # "recomputed" /\ Reuses(slot[t], doc[t])
    <3>1. EntryKept(slot[t]) /\ ~Backs(t, slot[t], slots[slot[t]])
      BY <2>1, <2>3, <2>9 DEF EntryKept, Backs
    <3> QED BY <2>6, <2>7, <3>1, MatchStep
  <2> QED BY <2>8, <2>9
<1>7. CASE QueryChatFails(t)
  BY <1>7 DEF QueryChatFails, ChatFails, ResavesLand
<1> QED BY <1>2, <1>3, <1>4, <1>5, <1>6, <1>7

\* Every step of a deferred re-save.
LEMMA WorkerMatchSteps ==
    ASSUME ResavesLand, TypeOK, NameInv, MapInv, MatchInv, NEW w \in Worker, WorkerStep(w)
    PROVE  MatchInv'
<1>1. /\ w \in Process /\ slot[w] \in Slot /\ (pc[w] # "idle" => doc[w] \in Doc)
      /\ files \in [Doc -> State \cup {Empty, NoFile}]
      /\ slots \in [Slot -> Doc \cup {None}]
      /\ \A s \in Slot : Physical(s) = s
  BY BusyType, ThreadIsProcess, SlotIsPhysical
  DEF NameInv, TypeOK, ServerTypeOK, EngineTypeOK
<1>2. UNCHANGED <<slots, kv>>
  BY DEF WorkerStep, ResaveSave, ResaveMark, ResaveUnlink, serverVars, mapVars
<1>3. \A q \in Process \ {w} :
          pc'[q] = pc[q] /\ doc'[q] = doc[q] /\ slot'[q] = slot[q] /\ label'[q] = label[q]
  BY <1>1
  DEF WorkerStep, ResaveSave, ResaveMark, ResaveUnlink, Goto, Finish, At, localVars,
      TypeOK, ThreadTypeOK
<1>4. CASE ResaveSave(w)
  <2>1. pc[w] = "resave" /\ doc[w] \in Doc
    BY <1>1, <1>4 DEF ResaveSave
  <2>2. \A p \in Process \ {w}, s \in Slot : Backs(p, s, slots[s]) => Matched(s)'
    BY <1>2, <1>3 DEF Backs, Matched
  <2>3. CASE slots[slot[w]] = doc[w]
    <3>1. files' = [files EXCEPT ![doc[w]] = kv[slot[w]]]
      BY <1>1, <1>4, <2>3 DEF ResaveSave, SlotSaveFails, SlotSave, ResavesLand
    <3>2. \A s \in Slot : s = slot[w] => Matched(s)'
      BY <1>1, <1>2, <2>1, <2>3, <3>1 DEF Matched
    <3>3. \A s \in Slot \ {slot[w]} : slots[s] # doc[w]
      BY <1>1, <2>1, <2>3, EngineAssumption DEF MapInv, SlotMapInjective
    <3>4. \A s \in Slot \ {slot[w]} : slots'[s] = None \/ EntryKept(s)
      BY <1>1, <1>2, <3>1, <3>3 DEF EntryKept
    <3>5. \A s \in Slot \ {slot[w]} : ~Backs(w, s, slots[s])
      BY DEF Backs
    <3> QED BY <2>2, <3>2, <3>4, <3>5, MatchStep
  <2>4. CASE slots[slot[w]] # doc[w]
    <3>1. \A s \in Slot : EntryKept(s) /\ ~Backs(w, s, slots[s])
      BY <1>2, <1>4, <2>4 DEF ResaveSave, EntryKept, Backs
    <3> QED BY <2>2, <3>1, MatchStep
  <2> QED BY <2>3, <2>4
<1>5. CASE ResaveMark(w) \/ ResaveUnlink(w)
  <2>1. pc[w] \notin BackingPc
    BY <1>5 DEF ResaveMark, ResaveUnlink, BackingPc, AnsweringPc
  <2>2. \A s \in Slot : slots'[s] = None \/ EntryKept(s)
    BY <1>1, <1>2, <1>5 DEF ResaveMark, ResaveUnlink, Unlink, EntryKept, serverVars
  <2> QED BY <1>1, <1>3, <2>1, <2>2, QuietMatch
<1> QED BY <1>4, <1>5 DEF WorkerStep

LEMMA MatchNext ==
    ASSUME ResavesLand, TypeOK, NameInv, MapInv, MatchInv, [Next]_vars
    PROVE  MatchInv'
<1>1. CASE \E t \in Thread : Arrival(t) \/ ThreadStep(t)
  BY <1>1, QuietMatchSteps, FillMatchSteps DEF ThreadStep
<1>2. CASE \E w \in Worker : WorkerStep(w)
  BY <1>2, WorkerMatchSteps
<1>3. CASE Crash
  BY <1>3 DEF Crash, MatchInv
<1>4. CASE Restart
  <2>1. \A s \in Slot : kv'[s] = Empty
    BY <1>4 DEF Restart, ServerRestart
  <2> QED BY <2>1 DEF MatchInv, Matched
<1>5. CASE Resize
  BY <1>5 DEF Resize, ServerResize, ResavesLand
<1>6. CASE UNCHANGED vars
  BY <1>6
  DEF vars, serverVars, mapVars, localVars, MatchInv, Matched, Backs
<1> QED BY <1>1, <1>2, <1>3, <1>4, <1>5, <1>6 DEF Next

LEMMA MatchInit == Init => MatchInv
BY DEF Init, MatchInv

LEMMA PersistInit == Init => PersistInv
<1> SUFFICES ASSUME Init PROVE PersistInv
  OBVIOUS
<1>1. total = CagSlots /\ \A s \in Slot : slots[s] = None
  BY DEF Init, ServerInit
<1>2. \A p \in Process : Aged(p)
  BY DEF Init, Aged, UnlinkingPc
<1> QED BY <1>1, <1>2, EngineAssumption DEF PersistInv, Live

LEMMA PersistNext ==
    ASSUME ResavesLand, TypeOK, PersistInv, [Next]_vars
    PROVE  PersistInv'
<1>1. CASE \E t \in Thread : Arrival(t) \/ ThreadStep(t)
  BY <1>1, PlainPersistSteps, TablePersistSteps, FilePersistSteps, AnswerPersistSteps
  DEF Arrival, ThreadStep
<1>2. CASE \E w \in Worker : WorkerStep(w)
  BY <1>2, WorkerPersistSteps
<1>3. CASE Crash
  <2>1. total' = total /\ \A s \in Slot : slots'[s] = None
    BY <1>3 DEF Crash, serverVars
  <2>2. \A p \in Process : Aged(p)'
    BY <1>3 DEF Crash, Aged, UnlinkingPc
  <2> QED BY <2>1, <2>2, EngineAssumption DEF PersistInv, Live
<1>4. CASE Restart \/ UNCHANGED vars
  <2>1. UNCHANGED <<files, total, row, slots, pc, doc, slot, label>>
    BY <1>4
    DEF Restart, ServerRestart, vars, serverVars, storeVars, mapVars, localVars
  <2> QED BY <2>1 DEF PersistInv, Live, Backed, Backs, Aged
<1>5. CASE Resize
  BY <1>5 DEF Resize, ServerResize, ResavesLand
<1> QED BY <1>1, <1>2, <1>3, <1>4, <1>5 DEF Next

\* At rest nobody is about to write a file, so a file that is there is the slot's.
LEMMA RestMatches ==
    ASSUME TypeOK, NameInv, MatchInv, Quiescent, NEW s \in Slot, slots[s] \in Live,
           files[slots[s]] # NoFile
    PROVE  kv[Physical(s)] \in {Empty, files[slots[s]]}
<1>1. Physical(s) = s /\ slots[s] # None
  BY SlotIsPhysical, EngineAssumption DEF NameInv, Live
<1>2. \A p \in Process : ~Backs(p, s, slots[s])
  BY DEF Quiescent, Backs, AnsweringPc
<1> QED BY <1>1, <1>2 DEF MatchInv, Matched

\* At rest, every live document the map calls hot has its cache file, and what its
\* slot holds of it the file holds too: through restarts on any model, wipes, crashes,
\* lost replies, deletes and failing updates, unlinks and checks, as long as the server
\* answers what it is asked to evaluate and to save and a re-save finds a thread.  A
\* slot or a file that holds nothing, as after a restart, has nothing to lose.
THEOREM HotOutlivesEviction ==
    ASSUME ResavesLand
    PROVE  Spec => []HotIsPersisted
<1> DEFINE Keeps == TypeOK /\ LockHeld /\ NameInv /\ MapInv /\ PersistInv /\ MatchInv
<1>1. Init => Keeps
  BY TypeInit, LockInit, NameInit, MapInit, PersistInit, MatchInit
<1>2. Keeps /\ [Next]_vars => Keeps'
  BY TypeNext, LockNext, NameNext, MapNext, PersistNext, MatchNext
  DEF ResavesLand, NamesReliable
<1>3. Keeps => HotIsPersisted
  <2> SUFFICES ASSUME Keeps, Quiescent, NEW s \in Slot, slots[s] \in Live
               PROVE  /\ files[slots[s]] # NoFile
                      /\ kv[Physical(s)] \in {Empty, files[slots[s]]}
    BY DEF HotIsPersisted
  <2>1. files[slots[s]] # NoFile
    BY DEF PersistInv, Backed, Backs, Quiescent, AnsweringPc
  <2> QED BY <2>1, RestMatches
<1> QED BY <1>1, <1>2, <1>3, PTL DEF Spec
=============================================================================
