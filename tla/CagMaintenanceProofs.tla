------------------------ MODULE CagMaintenanceProofs ------------------------
(***************************************************************************)
(* What maintenance() leaves alone: the files that a row or a save in      *)
(* flight has a claim to, the shape of the slot map, and what the engine   *)
(* promises without it.                                                    *)
(***************************************************************************)
EXTENDS CagMaintenance, CagTruthProofs

\* An engine step as maintenance sees it; a crash ends the sweep and is apart.
EngineMoves ==
    \/ \E t \in Thread : Arrival(t) \/ ThreadStep(t)
    \/ \E w \in Worker : WorkerStep(w)
    \/ Restart
    \/ Resize

\* No row names the file of d and no save is about to be named.
Unclaimed(d) == d \in Live => ~hasFile[d] /\ AllNamed(d)

\* A save that is still to be named is younger than the grace period.
NamedIsYoung ==
    \A p \in Process : pc[p] \in MarkingPc /\ row[doc[p]] \in Status => doc[p] \in young

\* Between the read of the table and the glob, a row can come to name only a
\* young file; what the loop may still unlink, or is about to, is unclaimed.
SweepInv ==
    /\ sweep = "listed" => \A d \in Live : hasFile[d] => d \in known \cup young
    /\ sweep = "looking" => \A d \in found \ recent : Unclaimed(d)
    /\ target # None => Unclaimed(target)
    /\ NamedIsYoung

MaintInv == TypeOK /\ MaintTypeOK /\ DiskInv /\ SweepInv

\* What the spared files need: files last as long as their rows, and no file is
\* written between the look at its age and its unlink.
SweepTimely == FilesLast /\ "race" \notin Faults

\* A row comes to name a file only through a process that has written it, and a
\* process comes to owe a row its name only by writing the file.
LEMMA ClaimsBegin ==
    ASSUME TypeOK, EngineMoves, NEW d \in Doc
    PROVE  /\ hasFile'[d] =>
                  \/ hasFile[d]
                  \/ \E p \in Process : pc[p] \in MarkingPc /\ doc[p] = d /\ d \in Live
           /\ \A p \in Process : pc'[p] \in MarkingPc /\ doc'[p] = d =>
                  \/ pc[p] \in MarkingPc /\ doc[p] = d
                  \/ d \in Written
           /\ row[d] = "gone" => row'[d] = "gone"
<1>1. /\ Thread \subseteq Process /\ Worker \subseteq Process
      /\ \A p \in Process : pc[p] # "idle" => doc[p] \in Doc
  BY BusyType, ThreadIsProcess
<1>2. CASE Restart \/ Resize
  BY <1>2 DEF Restart, Resize, storeVars, localVars
<1>3. ASSUME NEW t \in Thread, Arrival(t) \/ ThreadStep(t)
      PROVE  /\ hasFile'[d] =>
                    \/ hasFile[d]
                    \/ pc[t] \in MarkingPc /\ doc[t] = d /\ d \in Live
             /\ row[d] = "gone" => row'[d] = "gone"
  <2>1. CASE \/ IngestFind(t) \/ QueryRead(t) \/ IngestGivesUp(t) \/ WarmLock(t)
             \/ WarmSlot(t) \/ WarmChat(t) \/ WarmSave(t) \/ IngestGoneUnlink(t)
             \/ IngestGoneUnmap(t) \/ QueryLock(t) \/ QuerySlot(t) \/ QueryRecheck(t)
             \/ QueryRestore(t) \/ QueryChat(t) \/ QueryChatFails(t) \/ QueryUnmap(t)
             \/ DeleteUnlink(t) \/ DeleteUnmap(t)
    <3>1. UNCHANGED <<row, hasFile>>
      BY <2>1
      DEF IngestFind, QueryRead, IngestGivesUp, WarmLock, WarmSlot, WarmChat, WarmSave,
          IngestGoneUnlink, IngestGoneUnmap, QueryLock, QuerySlot, QueryRecheck,
          QueryRestore, QueryChat, QueryChatFails, QueryUnmap, DeleteUnlink, DeleteUnmap,
          storeVars
    <3> QED BY <3>1
  <2>2. CASE DeleteRow(t) \/ IngestInsert(t)
    BY <1>1, <2>2
    DEF DeleteRow, IngestInsert, storeVars, InsertDocument, DeleteDocument, Status, TypeOK,
        StoreTypeOK
  <2>3. CASE IngestMarkCached(t) \/ IngestMarkFailed(t)
    BY <1>1, <2>3
    DEF IngestMarkCached, IngestMarkFailed, storeVars, MarkCached, MarkFailed, RowFound,
        Live, Status, MarkingPc, TypeOK, StoreTypeOK
  <2> QED BY <1>3, <2>1, <2>2, <2>3 DEF Arrival, ThreadStep
<1>4. ASSUME NEW t \in Thread, Arrival(t) \/ ThreadStep(t),
             NEW p \in Process, pc'[p] \in MarkingPc, doc'[p] = d
      PROVE  (pc[p] \in MarkingPc /\ doc[p] = d) \/ d \in Written
  <2>1. CASE Arrival(t) \/ IngestInsert(t) \/ IngestGivesUp(t)
    BY <1>1, <1>4, <2>1
    DEF Arrival, IngestFind, QueryRead, DeleteRow, IngestInsert, IngestGivesUp, Goto,
        Finish, At, localVars, MarkingPc, TypeOK, ThreadTypeOK
  <2>2. CASE WarmLock(t) \/ WarmSlot(t) \/ WarmChat(t) \/ WarmSave(t)
    BY <1>1, <1>4, <2>2
    DEF WarmLock, WarmSlot, WarmChat, WarmSave, Goto, Finish, At, localVars, MarkingPc,
        TypeOK, ThreadTypeOK, Written
  <2>3. CASE \/ IngestMarkCached(t) \/ IngestMarkFailed(t) \/ IngestGoneUnlink(t)
             \/ IngestGoneUnmap(t) \/ DeleteUnlink(t) \/ DeleteUnmap(t)
    BY <1>1, <1>4, <2>3
    DEF IngestMarkCached, IngestMarkFailed, IngestGoneUnlink, IngestGoneUnmap,
        DeleteUnlink, DeleteUnmap, Goto, Finish, At, localVars, MarkingPc, TypeOK,
        ThreadTypeOK
  <2>4. CASE \/ QueryLock(t) \/ QuerySlot(t) \/ QueryRecheck(t) \/ QueryRestore(t)
             \/ QueryChat(t) \/ QueryChatFails(t) \/ QueryUnmap(t)
    BY <1>1, <1>4, <2>4
    DEF QueryLock, QuerySlot, QueryRecheck, QueryRestore, QueryChat, Spawn,
        QueryChatFails, QueryUnmap, Goto, Finish, At, localVars, MarkingPc, TypeOK,
        ThreadTypeOK
  <2> QED BY <1>4, <2>1, <2>2, <2>3, <2>4 DEF ThreadStep
<1>5. ASSUME NEW w \in Worker, WorkerStep(w)
      PROVE  /\ hasFile'[d] =>
                    \/ hasFile[d]
                    \/ pc[w] \in MarkingPc /\ doc[w] = d /\ d \in Live
             /\ row[d] = "gone" => row'[d] = "gone"
  BY <1>1, <1>5
  DEF WorkerStep, ResaveSave, ResaveMark, ResaveUnlink, storeVars, MarkCached,
      RowFound, Live, Status, MarkingPc, TypeOK, StoreTypeOK
<1>6. ASSUME NEW w \in Worker, WorkerStep(w),
             NEW p \in Process, pc'[p] \in MarkingPc, doc'[p] = d
      PROVE  (pc[p] \in MarkingPc /\ doc[p] = d) \/ d \in Written
  <2>1. \/ pc'[p] = pc[p] /\ doc'[p] = doc[p]
        \/ p = w /\ pc[w] = "resave" /\ pc'[w] = "resave_mark" /\ doc'[w] = doc[w]
    BY <1>1, <1>6
    DEF WorkerStep, ResaveSave, ResaveMark, ResaveUnlink, Goto, Finish, At, localVars,
        MarkingPc, TypeOK, ThreadTypeOK
  <2> QED BY <1>1, <1>6, <2>1 DEF Written
<1> QED BY <1>1, <1>2, <1>3, <1>4, <1>5, <1>6 DEF EngineMoves

\* A file that is unclaimed stays so unless the step writes it.
LEMMA UnclaimedStays ==
    ASSUME TypeOK, DiskInv, EngineMoves, NEW d \in Doc, Unclaimed(d), d \notin Written
    PROVE  Unclaimed(d)'
<1> SUFFICES ASSUME row'[d] \in Status
             PROVE  ~hasFile'[d] /\ AllNamed(d)'
  BY DEF Unclaimed, Live
<1>1. row[d] \in Status \/ row[d] = "unborn"
  BY ClaimsBegin DEF TypeOK, StoreTypeOK, Status
<1>2. ~hasFile[d] /\ \A p \in Process : doc[p] = d => pc[p] \notin MarkingPc
  <2>1. CASE row[d] \in Status
    BY <2>1 DEF Unclaimed, Live, AllNamed, MarkingPc
  <2>2. CASE row[d] = "unborn"
    BY <2>2 DEF DiskInv, UnbornUnnamed, Sound, MarkingPc
  <2> QED BY <1>1, <2>1, <2>2
<1> QED BY <1>2, ClaimsBegin DEF AllNamed, MarkingPc

\* Every step of the engine but a crash keeps the sweep off what is claimed.
LEMMA EngineSweep ==
    ASSUME MaintInv, SweepTimely, EngineStep
    PROVE  MaintInv'
<1>1. TypeOK /\ DiskInv /\ EngineMoves /\ SweepInv /\ MaintTypeOK
  BY DEF MaintInv, EngineStep, EngineMoves
<1>2. TypeOK' /\ DiskInv'
  BY <1>1, TypeNext, DiskNext DEF EngineStep, Next, SweepTimely
<1>3. /\ young' = {d \in young \cup Written : files'[d] # NoFile}
      /\ recent' = IF sweep = "looking" THEN recent \cup Written ELSE recent
      /\ target \notin Written
      /\ UNCHANGED <<sweep, known, found, target>>
  BY DEF EngineStep, SweepTimely
<1>4. Written \subseteq Doc
  BY DEF Written
<1>5. MaintTypeOK'
  BY <1>1, <1>3, <1>4 DEF MaintTypeOK
<1>6. NamedIsYoung'
  <2> SUFFICES ASSUME NEW p \in Process, pc'[p] \in MarkingPc, row'[doc'[p]] \in Status
               PROVE  doc'[p] \in young'
    BY DEF NamedIsYoung
  <2>1. doc'[p] \in Doc
    BY <1>2, BusyType DEF TypeOK, ThreadTypeOK, MarkingPc
  <2>2. files'[doc'[p]] # NoFile
    BY <1>2 DEF DiskInv, Sound
  <2>3. CASE doc'[p] \in Written
    BY <1>3, <2>2, <2>3
  <2>4. CASE pc[p] \in MarkingPc /\ doc[p] = doc'[p]
    <3>1. row[doc[p]] # "unborn" /\ row[doc[p]] # "gone"
      BY <1>1, <2>1, <2>4, ClaimsBegin DEF DiskInv, Sound, MarkingPc, Status
    <3>2. doc[p] \in young
      BY <1>1, <2>1, <2>4, <3>1 DEF SweepInv, NamedIsYoung, TypeOK, StoreTypeOK
    <3> QED BY <1>3, <2>2, <2>4, <3>2
  <2> QED BY <1>1, <2>1, <2>3, <2>4, ClaimsBegin
<1>7. ASSUME sweep' = "listed", NEW d \in Doc, row'[d] \in Status, hasFile'[d]
      PROVE  d \in known' \cup young'
  <2>1. files'[d] # NoFile
    BY <1>2, <1>7 DEF DiskInv, CachedFileExists, Live
  <2>2. CASE hasFile[d]
    <3>1. d \in Live
      BY <1>1, <1>7, <2>2, ClaimsBegin
      DEF DiskInv, UnbornUnnamed, Live, Status, TypeOK, StoreTypeOK
    <3>2. d \in known \cup young
      BY <1>1, <1>3, <1>7, <2>2, <3>1 DEF SweepInv
    <3> QED BY <1>3, <2>1, <3>2
  <2>3. ASSUME NEW p \in Process, pc[p] \in MarkingPc, doc[p] = d, d \in Live
        PROVE  d \in young'
    BY <1>1, <1>3, <2>1, <2>3 DEF SweepInv, NamedIsYoung, Live
  <2> QED BY <1>1, <1>7, <2>2, <2>3, ClaimsBegin
<1>8. ASSUME sweep' = "looking", NEW d \in found' \ recent'
      PROVE  Unclaimed(d)'
  BY <1>1, <1>3, <1>8, UnclaimedStays DEF SweepInv, MaintTypeOK
<1>9. target' # None => Unclaimed(target)'
  BY <1>1, <1>3, UnclaimedStays DEF SweepInv, MaintTypeOK, Unclaimed
<1> QED
  BY <1>2, <1>5, <1>6, <1>7, <1>8, <1>9 DEF MaintInv, SweepInv, Live

\* Every step of the sweep, the crash that ends it, and the passing of time.
LEMMA SweepSweep ==
    ASSUME MaintInv, SweepTimely,
           SweepTable \/ SweepStep \/ Dies \/ \E d \in Doc : Ages(d)
    PROVE  MaintInv'
<1>1. TypeOK /\ DiskInv /\ SweepInv /\ MaintTypeOK
  BY DEF MaintInv
<1>2. ASSUME UNCHANGED vars PROVE TypeOK' /\ DiskInv'
  BY <1>1, <1>2, TypeNext, DiskNext DEF SweepTimely
<1>3. ASSUME UNCHANGED vars, NEW d PROVE Unclaimed(d)' = Unclaimed(d)
  BY <1>3 DEF vars, storeVars, localVars, Unclaimed, AllNamed, Live
<1>4. ASSUME UNCHANGED vars, \A d \in young : d \in young' \/ AllNamed(d)
      PROVE  NamedIsYoung'
  BY <1>1, <1>4
  DEF vars, storeVars, localVars, SweepInv, NamedIsYoung, AllNamed, MarkingPc
<1>5. CASE SweepTable
  <2>1. MaintTypeOK'
    BY <1>1, <1>5 DEF SweepTable, MaintTypeOK, Live
  <2>2. SweepInv'
    BY <1>1, <1>4, <1>5
    DEF SweepTable, SweepInv, MaintTypeOK, vars, storeVars, Live
  <2> QED BY <1>2, <1>5, <2>1, <2>2 DEF SweepTable, MaintInv
<1>6. CASE SweepDirectory
  <2>1. UNCHANGED vars /\ UNCHANGED <<young, target>>
    BY <1>6 DEF SweepDirectory
  <2>2. MaintTypeOK'
    BY <1>1, <1>6 DEF SweepDirectory, MaintTypeOK, CacheFiles
  <2>3. ASSUME NEW d \in found' \ recent' PROVE Unclaimed(d)
    <3>1. d \in Doc /\ d \notin known /\ d \notin young /\ sweep = "listed"
      BY <1>6, <2>3 DEF SweepDirectory, CacheFiles
    <3> QED
      BY <1>1, <3>1 DEF Unclaimed, SweepInv, NamedIsYoung, AllNamed, MarkingPc, Live
  <2>4. SweepInv'
    BY <1>1, <1>3, <1>4, <1>6, <2>1, <2>3 DEF SweepDirectory, SweepInv, MaintTypeOK
  <2> QED BY <1>2, <2>1, <2>2, <2>4 DEF MaintInv
<1>7. CASE SweepLook
  <2>1. UNCHANGED vars /\ UNCHANGED <<young, sweep, recent, known>>
    BY <1>7 DEF SweepLook
  <2>2. PICK d \in found : /\ found' = found \ {d}
                           /\ target' = IF Exists(d) /\ d \notin recent THEN d ELSE None
    BY <1>7 DEF SweepLook
  <2>3. sweep = "looking" /\ found' \subseteq found
    BY <1>1, <2>2 DEF MaintTypeOK
  <2>4. MaintTypeOK'
    BY <1>1, <2>1, <2>2, <2>3 DEF MaintTypeOK
  <2>5. SweepInv'
    BY <1>1, <1>3, <1>4, <2>1, <2>2, <2>3 DEF SweepInv, MaintTypeOK
  <2> QED BY <1>2, <2>1, <2>4, <2>5 DEF MaintInv
<1>8. CASE SweepUnlink
  <2>1. /\ target \in Doc /\ Unclaimed(target) /\ target' = None
        /\ UNCHANGED <<model, storeVars, checkVars, pc, localVars, sweep, known, found,
                       recent>>
    BY <1>1, <1>8 DEF SweepUnlink, SweepInv, MaintTypeOK
  <2>2. /\ files' \in [Doc -> State \cup {Empty, NoFile}]
        /\ files'[target] \in {files[target], NoFile}
        /\ \A d \in Doc \ {target} : files'[d] = files[d]
    BY <1>1, <1>8, <2>1 DEF SweepUnlink, TypeOK, ServerTypeOK
  <2>3. TypeOK'
    BY <1>1, <1>8, <2>2
    DEF SweepUnlink, TypeOK, ServerTypeOK, StoreTypeOK, EngineTypeOK, ThreadTypeOK,
        storeVars, mapVars, checkVars, localVars
  <2>4. DiskInv'
    <3>1. MarkerVouches' /\ UnbornUnnamed'
      BY <1>1, <2>1, <2>2
      DEF DiskInv, MarkerVouches, UnbornUnnamed, storeVars, checkVars
    <3>2. CachedFileExists'
      BY <1>1, <2>1, <2>2 DEF DiskInv, CachedFileExists, Unclaimed, Live, storeVars
    <3>3. ASSUME NEW p \in Process PROVE Sound(p)'
      BY <1>1, <2>1, <2>2, BusyType
      DEF DiskInv, Sound, Unclaimed, AllNamed, Live, MarkingPc, storeVars, checkVars,
          localVars
    <3> QED BY <3>1, <3>2, <3>3 DEF DiskInv
  <2>5. young' \in {young, young \ {target}}
    BY <1>8 DEF SweepUnlink
  <2>6. MaintTypeOK'
    BY <1>1, <2>1, <2>5 DEF MaintTypeOK
  <2>7. \A d : Unclaimed(d)' = Unclaimed(d)
    BY <2>1 DEF storeVars, localVars, Unclaimed, AllNamed, Live
  <2>8. NamedIsYoung'
    BY <1>1, <2>1, <2>5
    DEF SweepInv, NamedIsYoung, Unclaimed, AllNamed, MarkingPc, Live, storeVars, localVars
  <2>9. SweepInv'
    <3>1. sweep = "looking" /\ \A d \in found \ recent : Unclaimed(d)
      BY <1>1, <1>8 DEF SweepUnlink, SweepInv, MaintTypeOK
    <3>2. \A d \in found' \ recent' : Unclaimed(d)'
      BY <2>1, <2>7, <3>1
    <3> QED BY <2>1, <2>8, <3>1, <3>2 DEF SweepInv
  <2> QED BY <2>3, <2>4, <2>6, <2>9 DEF MaintInv
<1>9. CASE SweepReturns
  <2>1. MaintTypeOK' /\ UNCHANGED <<vars, young>>
    BY <1>1, <1>9 DEF SweepReturns, SweepEnds, MaintTypeOK
  <2>2. SweepInv'
    <3>1. sweep' = "off" /\ target' = None
      BY <1>9 DEF SweepReturns, SweepEnds
    <3> QED BY <1>4, <2>1, <3>1 DEF SweepInv
  <2> QED BY <1>2, <2>1, <2>2 DEF MaintInv
<1>10. CASE Dies
  <2>1. TypeOK' /\ DiskInv'
    BY <1>1, <1>10, TypeNext, DiskNext DEF Dies, Next, SweepTimely
  <2>2. MaintTypeOK'
    BY <1>1, <1>10 DEF Dies, SweepEnds, MaintTypeOK
  <2>3. SweepInv'
    BY <1>10 DEF Dies, SweepEnds, Crash, SweepInv, NamedIsYoung, MarkingPc
  <2> QED BY <2>1, <2>2, <2>3 DEF MaintInv
<1>11. ASSUME NEW d \in Doc, Ages(d) PROVE MaintInv'
  <2>1. /\ UNCHANGED <<vars, sweep, known, found, recent, target>>
        /\ young' = young \ {d} /\ AllNamed(d) /\ sweep # "listed"
    BY <1>11 DEF Ages, Settled, sweepVars
  <2>2. MaintTypeOK'
    BY <1>1, <2>1 DEF MaintTypeOK
  <2>3. SweepInv'
    BY <1>1, <1>3, <1>4, <2>1 DEF SweepInv, MaintTypeOK
  <2> QED BY <1>2, <2>1, <2>2, <2>3 DEF MaintInv
<1> QED BY <1>5, <1>6, <1>7, <1>8, <1>9, <1>10, <1>11 DEF SweepStep

LEMMA MaintInvInit == MaintInit => MaintInv
<1> SUFFICES ASSUME MaintInit PROVE MaintInv
  OBVIOUS
<1>1. TypeOK /\ DiskInv
  BY TypeInit, DiskInit DEF MaintInit
<1>2. MaintTypeOK
  BY DEF MaintInit, MaintTypeOK
<1>3. SweepInv
  BY DEF MaintInit, Init, SweepInv, NamedIsYoung, MarkingPc
<1> QED BY <1>1, <1>2, <1>3 DEF MaintInv

LEMMA MaintInvNext ==
    ASSUME SweepTimely, MaintInv, [MaintNext]_maintVars
    PROVE  MaintInv'
<1>1. CASE EngineStep
  BY <1>1, EngineSweep
<1>2. CASE SweepTable \/ SweepStep \/ Dies \/ \E d \in Doc : Ages(d)
  BY <1>2, SweepSweep
<1>3. CASE UNCHANGED maintVars
  <2>1. UNCHANGED <<vars, young, sweep, known, found, recent, target>>
    BY <1>3 DEF maintVars, sweepVars
  <2>2. TypeOK' /\ DiskInv'
    BY <2>1, TypeNext, DiskNext DEF MaintInv, SweepTimely
  <2>3. MaintTypeOK' /\ SweepInv'
    BY <2>1
    DEF MaintInv, MaintTypeOK, SweepInv, NamedIsYoung, Unclaimed, AllNamed, Live, vars,
        storeVars, localVars
  <2> QED BY <2>2, <2>3 DEF MaintInv
<1> QED BY <1>1, <1>2, <1>3 DEF MaintNext

\* Maintenance never removes a file that a row names or that a save in flight is
\* about to have named, whatever the requests, the re-saves and the deletes do
\* between the read of the table, the glob, the look and the unlink.
THEOREM MaintenanceSparesClaimed ==
    ASSUME SweepTimely
    PROVE  MaintSpec => []SweepSparesClaimed
<1>1. MaintInv => SweepSparesClaimed
  <2> SUFFICES ASSUME MaintInv, NEW d \in Live, hasFile[d] \/ ~AllNamed(d)
               PROVE  files[d] # NoFile
    BY DEF SweepSparesClaimed, Exists
  <2>1. CASE hasFile[d]
    BY <2>1 DEF MaintInv, DiskInv, CachedFileExists
  <2>2. CASE ~AllNamed(d)
    BY <2>2 DEF MaintInv, DiskInv, Sound, AllNamed, MarkingPc, Live
  <2> QED BY <2>1, <2>2
<1>2. MaintInv /\ [MaintNext]_maintVars => MaintInv'
  BY MaintInvNext
<1> QED BY <1>1, <1>2, MaintInvInit, PTL DEF MaintSpec

-----------------------------------------------------------------------------
\* The shape of the slot map does not depend on the files, so it survives a
\* sweep whatever fails.
ShapeInv == TypeOK /\ LockHeld /\ MapInv /\ VictimInv

\* A step of the sweep removes at most a file.
LEMMA SweepKeepsType ==
    ASSUME TypeOK, SweepUnlink
    PROVE  TypeOK'
<1>1. /\ UNCHANGED <<model, kv, total, row, hasFile, slots, used, memo, marker, lock, pc,
                     doc, slot, label, file>>
      /\ files' \in [Doc -> State \cup {Empty, NoFile}]
  BY DEF SweepUnlink, TypeOK, ServerTypeOK, storeVars, mapVars, checkVars, localVars
<1> QED BY <1>1 DEF TypeOK, ServerTypeOK, StoreTypeOK, EngineTypeOK, ThreadTypeOK

LEMMA SweepKeepsShape ==
    ASSUME ShapeInv, SweepUnlink
    PROVE  ShapeInv'
<1>1. UNCHANGED <<slots, used, lock, pc, doc, slot>>
  BY DEF SweepUnlink, mapVars, localVars
<1>2. LockHeld' /\ MapInv' /\ VictimInv'
  BY <1>1
  DEF ShapeInv, LockHeld, MapInv, SlotMapInjective, WarmUnmapped, VictimInv,
      EvictionHasVictim, RanksDense
<1> QED BY <1>2, SweepKeepsType DEF ShapeInv

\* With maintenance beside the engine, a document is hot in one slot at most and
\* an occupied slot can be evicted, for every set of faults.
THEOREM ShapeSurvivesMaintenance ==
    MaintSpec => [](SlotMapInjective /\ EvictionHasVictim)
<1>1. MaintInit => ShapeInv
  BY TypeInit, LockInit, MapInit, VictimInit DEF MaintInit, ShapeInv
<1>2. ShapeInv /\ [MaintNext]_maintVars => ShapeInv'
  <2> SUFFICES ASSUME ShapeInv, [MaintNext]_maintVars PROVE ShapeInv'
    OBVIOUS
  <2>1. CASE SweepUnlink
    BY <2>1, SweepKeepsShape
  <2>2. CASE ~SweepUnlink
    <3>1. [Next]_vars
      BY <2>2
      DEF MaintNext, EngineStep, Dies, Next, SweepTable, SweepStep, SweepDirectory,
          SweepLook, SweepReturns, Ages, maintVars
    <3> QED BY <3>1, TypeNext, LockNext, MapNext, VictimNext DEF ShapeInv
  <2> QED BY <2>1, <2>2
<1>3. ShapeInv => SlotMapInjective /\ EvictionHasVictim
  BY DEF ShapeInv, MapInv, VictimInv
<1> QED BY <1>1, <1>2, <1>3, PTL DEF MaintSpec

\* The types of the sweep.
LEMMA MaintTypeNext ==
    ASSUME TypeOK, MaintTypeOK, [MaintNext]_maintVars
    PROVE  MaintTypeOK'
<1>1. CASE EngineStep \/ \E d \in Doc : Ages(d)
  <2>1. /\ young' \subseteq Doc /\ recent' \subseteq Doc
        /\ UNCHANGED <<sweep, known, found, target>>
    BY <1>1 DEF EngineStep, Ages, sweepVars, Written, MaintTypeOK
  <2> QED BY <2>1 DEF MaintTypeOK
<1>2. CASE SweepTable
  BY <1>2 DEF SweepTable, Live, MaintTypeOK
<1>3. CASE SweepDirectory
  BY <1>3 DEF SweepDirectory, CacheFiles, MaintTypeOK
<1>4. CASE SweepLook
  BY <1>4 DEF SweepLook, MaintTypeOK
<1>5. CASE SweepUnlink
  <2>1. /\ target' = None /\ young' \subseteq Doc
        /\ UNCHANGED <<sweep, known, found, recent>>
    BY <1>5 DEF SweepUnlink, MaintTypeOK
  <2> QED BY <2>1 DEF MaintTypeOK
<1>6. CASE SweepReturns \/ Dies
  <2>1. SweepEnds /\ young' = young
    BY <1>6 DEF SweepReturns, Dies
  <2> QED BY <2>1 DEF SweepEnds, MaintTypeOK
<1>7. CASE UNCHANGED maintVars
  BY <1>7 DEF maintVars, sweepVars, MaintTypeOK
<1> QED
  BY <1>1, <1>2, <1>3, <1>4, <1>5, <1>6, <1>7 DEF MaintNext, SweepStep

\* The engine and the sweep beside it keep their types, for every set of faults.
THEOREM MaintenanceTypeCorrect == MaintSpec => [](TypeOK /\ MaintTypeOK)
<1>1. MaintInit => TypeOK /\ MaintTypeOK
  BY TypeInit DEF MaintInit, MaintTypeOK
<1>2. TypeOK /\ MaintTypeOK /\ [MaintNext]_maintVars => (TypeOK /\ MaintTypeOK)'
  <2> SUFFICES ASSUME TypeOK, MaintTypeOK, [MaintNext]_maintVars
               PROVE  TypeOK'
    BY MaintTypeNext
  <2>1. CASE SweepUnlink
    BY <2>1, SweepKeepsType
  <2>2. CASE ~SweepUnlink
    <3>1. [Next]_vars
      BY <2>2
      DEF MaintNext, EngineStep, Dies, Next, SweepTable, SweepStep, SweepDirectory,
          SweepLook, SweepReturns, Ages, maintVars
    <3> QED BY <3>1, TypeNext
  <2> QED BY <2>1, <2>2
<1> QED BY <1>1, <1>2, PTL DEF MaintSpec

-----------------------------------------------------------------------------
\* What the engine promises holds with the sweep beside it.

\* All the sweep does to the engine is to remove one file.
LEMMA SweepRemoves ==
    ASSUME TypeOK, MaintTypeOK, SweepUnlink
    PROVE  /\ UNCHANGED <<model, kv, total, row, hasFile, slots, used, memo, marker, lock,
                          pc, doc, slot, label, file>>
           /\ target \in Doc
           /\ files' \in {files, [files EXCEPT ![target] = NoFile]}
BY DEF SweepUnlink, TypeOK, ServerTypeOK, MaintTypeOK, storeVars, mapVars, checkVars,
       localVars

\* Every other step is a step of the engine, or none.
LEMMA SweepOrEngine ==
    ASSUME [MaintNext]_maintVars
    PROVE  SweepUnlink \/ [Next]_vars
BY DEF MaintNext, EngineStep, Dies, Next, SweepTable, SweepStep, SweepDirectory,
       SweepLook, SweepReturns, Ages, maintVars

\* An invariant of the engine that a vanishing file does not disturb survives.
LEMMA SweepKeepsNames ==
    ASSUME TypeOK, MaintTypeOK, SweepUnlink
    PROVE  /\ FreshInv => FreshInv'
           /\ NameInv => NameInv'
           /\ HotInv => HotInv'
           /\ NoStrandedFile => NoStrandedFile'
           /\ NothingAbandoned => NothingAbandoned'
<1>1. /\ UNCHANGED <<model, kv, total, row, hasFile, slots, used, memo, marker, lock,
                     pc, doc, slot, label, file>>
      /\ \A d \in Doc : files'[d] \in {files[d], NoFile}
  BY SweepRemoves DEF TypeOK, ServerTypeOK
<1>2. FreshInv => FreshInv'
  BY <1>1, EmptyAssumption DEF FreshInv, KvFresh, Provenance, RestoreIsSafe
<1>3. NameInv => NameInv'
  BY <1>1, EmptyAssumption
  DEF NameInv, AnswerMapped, WarmClaimed, WarmNamed, HotNamed, FilesTruthful
<1>4. HotInv => HotInv'
  BY <1>1
  DEF HotInv, AnswerMapped, WarmClaimed, WarmFilled, HotKept, Holds, Answers
<1>5. NoStrandedFile => NoStrandedFile'
  BY <1>1 DEF NoStrandedFile, Accounts, Live
<1>6. NothingAbandoned => NothingAbandoned'
  BY <1>1 DEF NothingAbandoned
<1> QED
  BY <1>2, <1>3, <1>4, <1>5, <1>6

\* The sweep is a Remove of the two-level cache.
LEMMA SweepIsRemove ==
    ASSUME TypeOK, MaintTypeOK, SweepUnlink
    PROVE  [Cache!Next]_Cache!cacheVars
<1>1. CASE files' = files
  BY <1>1, SweepRemoves DEF Cache!cacheVars
<1>2. CASE files' = [files EXCEPT ![target] = NoFile]
  <2>1. Cache!Remove({target})
    BY <1>2, SweepRemoves DEF Cache!Remove, TypeOK, ServerTypeOK
  <2>2. {target} \in SUBSET Doc
    BY SweepRemoves
  <2> QED
    BY <2>1, <2>2 DEF Cache!Next
<1> QED
  BY <1>1, <1>2, SweepRemoves

\* The lock, beside the sweep.
LEMMA SweepKeepsLock ==
    ASSUME TypeOK, MaintTypeOK, SweepUnlink, LockHeld
    PROVE  LockHeld' /\ LeftAlone
BY SweepRemoves DEF LockHeld, LeftAlone, mapVars, checkVars

LEMMA MaintLock == MaintSpec => []LockHeld
<1>1. MaintInit => LockHeld
  BY LockInit DEF MaintInit
<1>2. TypeOK /\ MaintTypeOK /\ LockHeld /\ [MaintNext]_maintVars => LockHeld'
  BY SweepOrEngine, SweepKeepsLock, LockNext
<1> QED
  BY <1>1, <1>2, MaintenanceTypeCorrect, PTL DEF MaintSpec

\* With maintenance beside it, which knows nothing of models, slots or names, the
\* engine still implements the two-level cache: the sweep is a removal.
THEOREM MaintainedEngineIsACache ==
    ASSUME FingerprintReliable, NamesReliable
    PROVE  MaintSpec => ImplementsCache
<1>1. MaintInit => CacheInv /\ Cache!Init
  BY TypeInit, LockInit, NameInit, FreshInit, CacheInit DEF MaintInit, CacheInv
<1>2. MaintTypeOK /\ CacheInv /\ [MaintNext]_maintVars => CacheInv'
  <2> SUFFICES ASSUME MaintTypeOK, CacheInv, [MaintNext]_maintVars PROVE CacheInv'
    OBVIOUS
  <2>1. CASE SweepUnlink
    <3>1. TypeOK'
      BY <2>1, SweepKeepsType DEF CacheInv
    <3> QED
      BY <2>1, <3>1, SweepKeepsNames, SweepKeepsLock DEF CacheInv
  <2>2. CASE [Next]_vars
    BY <2>2, TypeNext, LockNext, NameNext, FreshNext DEF CacheInv
  <2> QED
    BY <2>1, <2>2, SweepOrEngine
<1>3. MaintTypeOK /\ CacheInv /\ [MaintNext]_maintVars => [Cache!Next]_Cache!cacheVars
  BY SweepOrEngine, SweepIsRemove, CacheNext DEF CacheInv
<1> QED
  BY <1>1, <1>2, <1>3, MaintenanceTypeCorrect, PTL
  DEF MaintSpec, ImplementsCache, Cache!Spec

\* Each of the engine's other promises survives the sweep under the premise it
\* has without it.
THEOREM PromisesSurviveMaintenance ==
    /\ FingerprintReliable => (MaintSpec => []KvFresh)
    /\ NamesReliable => (MaintSpec => []FilesTruthful)
    /\ SlotsLast => (MaintSpec => []HotMapTruthful)
    /\ UpdatesReliable => (MaintSpec => []NothingAbandoned)
    /\ FilesReliable => (MaintSpec => []NoStrandedFile)
<1>1. ASSUME FingerprintReliable PROVE MaintSpec => []KvFresh
  <2>1. TypeOK /\ MaintTypeOK /\ FreshInv /\ [MaintNext]_maintVars => FreshInv'
    BY <1>1, SweepOrEngine, SweepKeepsNames, FreshNext
  <2>2. MaintInit => FreshInv
    BY FreshInit DEF MaintInit
  <2>3. FreshInv => KvFresh
    BY DEF FreshInv
  <2> QED
    BY <2>1, <2>2, <2>3, MaintenanceTypeCorrect, PTL DEF MaintSpec
<1>2. ASSUME NamesReliable PROVE MaintSpec => []FilesTruthful
  <2>1. TypeOK /\ MaintTypeOK /\ LockHeld /\ NameInv /\ [MaintNext]_maintVars => NameInv'
    BY <1>2, SweepOrEngine, SweepKeepsNames, NameNext
  <2>2. MaintInit => NameInv
    BY NameInit DEF MaintInit
  <2>3. NameInv => FilesTruthful
    BY DEF NameInv
  <2> QED
    BY <2>1, <2>2, <2>3, MaintenanceTypeCorrect, MaintLock, PTL DEF MaintSpec
<1>3. ASSUME SlotsLast PROVE MaintSpec => []HotMapTruthful
  <2>1. TypeOK /\ MaintTypeOK /\ LockHeld /\ HotInv /\ [MaintNext]_maintVars => HotInv'
    BY <1>3, SweepOrEngine, SweepKeepsNames, HotNext
  <2>2. MaintInit => HotInv
    BY HotInit DEF MaintInit
  <2> QED
    BY <2>1, <2>2, HotTells, MaintenanceTypeCorrect, MaintLock, PTL DEF MaintSpec
<1>4. ASSUME UpdatesReliable PROVE MaintSpec => []NothingAbandoned
  <2>1. /\ TypeOK /\ MaintTypeOK /\ LockHeld /\ NothingAbandoned
        /\ [MaintNext]_maintVars
        => NothingAbandoned'
    BY <1>4, SweepOrEngine, SweepKeepsNames, AbandonNext
  <2>2. MaintInit => NothingAbandoned
    BY AbandonInit DEF MaintInit
  <2> QED
    BY <2>1, <2>2, MaintenanceTypeCorrect, MaintLock, PTL DEF MaintSpec
<1>5. ASSUME FilesReliable PROVE MaintSpec => []NoStrandedFile
  <2>1. TypeOK /\ MaintTypeOK /\ NoStrandedFile /\ [MaintNext]_maintVars => NoStrandedFile'
    BY <1>5, SweepOrEngine, SweepKeepsNames, StrandedNext
  <2>2. MaintInit => NoStrandedFile
    BY StrandedInit DEF MaintInit
  <2> QED
    BY <2>1, <2>2, MaintenanceTypeCorrect, PTL DEF MaintSpec
<1> QED
  BY <1>1, <1>2, <1>3, <1>4, <1>5

\* The sweep takes no lock, and no thread under the lock notices it.
THEOREM IsolationSurvivesMaintenance == MaintSpec => LockIsolates
<1>1. TypeOK /\ MaintTypeOK /\ LockHeld /\ [MaintNext]_maintVars =>
          [\A p \in Process : pc[p] \in LockedPc /\ pc'[p] = pc[p] =>
              /\ UNCHANGED <<mapVars, checkVars, lock>>
              /\ kv' \in {kv, [k \in Slot |-> Empty]}]_vars
  BY SweepOrEngine, SweepKeepsLock, StepLeavesAlone DEF LeftAlone
<1> QED
  BY <1>1, MaintenanceTypeCorrect, MaintLock, PTL DEF MaintSpec, LockIsolates

-----------------------------------------------------------------------------
\* What the map holds is named by its row.

\* What makes a row name the file of every document that is hot: completions,
\* saves and updates answer, and a re-save finds a thread.
NamingsLand == ResavesLand /\ Faults \cap {"db", "lostsave"} = {}

\* The row of slot s's document names its file, or some process will see to it:
\* it has saved the file and owes the row its name, or is going to save it.
NamedBy(s) ==
    \/ hasFile[slots[s]]
    \/ \E p \in Process : \/ Backs(p, s, slots[s])
                          \/ doc[p] = slots[s] /\ pc[p] \in MarkingPc

\* The cache file a query has read in the row is named until the row is deleted.
FileRead(t) ==
    /\ pc[t] \in QueryPc /\ file[t] => hasFile[doc[t]] \/ row[doc[t]] = "gone"
    /\ pc[t] \in {"recheck", "restore"} => file[t]

NamedInv ==
    /\ total = CagSlots
    /\ \A s \in Slot : slots[s] # None => row[slots[s]] # "unborn"
    /\ \A s \in Slot : slots[s] \in Live => NamedBy(s)
    /\ \A p \in Process : Aged(p)
    /\ \A t \in Thread : FileRead(t)

\* Rows keep the name of their file while they live.
NamesLast == \A d \in Doc : hasFile[d] => hasFile'[d] \/ row'[d] = "gone"

\* An entry of the map stays, goes, or is made for a document whose row names its
\* file, or will.
MapNamed ==
    \A s \in Slot :
        \/ slots'[s] \in {slots[s], None}
        \/ slots'[s] \in Doc /\ row'[slots'[s]] # "unborn" /\ NamedBy(s)'

\* Where the entry stays and the row lives, whoever will see to the name still
\* will, or has.
NamersStay ==
    \A s \in Slot :
        slots'[s] = slots[s] /\ slots[s] \in Doc /\ row'[slots[s]] \in Status =>
            \A p \in Process :
                Backs(p, s, slots[s]) \/ (doc[p] = slots[s] /\ pc[p] \in MarkingPc) =>
                    NamedBy(s)'

\* A step that keeps to all this keeps the invariant.
LEMMA NamedStep ==
    ASSUME TypeOK, NamedInv, RowsAge, NamesLast, MapNamed, NamersStay,
           total' = total,
           \A q \in Process : (pc'[q] = pc[q] /\ doc'[q] = doc[q]) \/ Aged(q)',
           \A q \in Thread :
               \/ pc'[q] = pc[q] /\ doc'[q] = doc[q] /\ file'[q] = file[q]
               \/ FileRead(q)'
    PROVE  NamedInv'
<1>1. /\ row \in [Doc -> Status \cup {"unborn", "gone"}]
      /\ slots \in [Slot -> Doc \cup {None}] /\ None \notin Doc
  BY EngineAssumption DEF TypeOK, StoreTypeOK, EngineTypeOK
<1>2. total' = CagSlots
  BY DEF NamedInv
<1>3. ASSUME NEW s \in Slot, slots'[s] # None
      PROVE  row'[slots'[s]] # "unborn"
  <2>1. CASE slots'[s] = slots[s]
    BY <1>1, <1>3, <2>1 DEF NamedInv, RowsAge
  <2> QED
    BY <1>3, <2>1 DEF MapNamed
<1>4. ASSUME NEW s \in Slot, slots'[s] \in Doc, row'[slots'[s]] \in Status
      PROVE  NamedBy(s)'
  <2>1. CASE slots'[s] = slots[s]
    <3>1. slots[s] \in Doc /\ row'[slots[s]] \in Status
      BY <1>4, <2>1
    <3>2. row[slots[s]] # "unborn" /\ row[slots[s]] # "gone"
      BY <1>1, <3>1 DEF NamedInv, RowsAge, Status
    <3>3. NamedBy(s)
      BY <1>1, <3>1, <3>2 DEF NamedInv, Live
    <3>4. CASE hasFile[slots[s]]
      BY <2>1, <3>1, <3>4 DEF NamesLast, NamedBy, Status
    <3>5. CASE ~hasFile[slots[s]]
      BY <2>1, <3>1, <3>3, <3>5 DEF NamersStay, NamedBy
    <3> QED
      BY <3>4, <3>5
  <2> QED
    BY <1>1, <1>4, <2>1 DEF MapNamed
<1>5. ASSUME NEW q \in Process
      PROVE  Aged(q)'
  <2> SUFFICES ASSUME pc'[q] = pc[q], doc'[q] = doc[q] PROVE Aged(q)'
    OBVIOUS
  <2>1. Aged(q) /\ (pc[q] # "idle" => doc[q] \in Doc)
    BY BusyType DEF NamedInv
  <2> QED
    BY <2>1 DEF Aged, RowsAge, UnlinkingPc
<1>6. ASSUME NEW q \in Thread
      PROVE  FileRead(q)'
  <2> SUFFICES ASSUME pc'[q] = pc[q], doc'[q] = doc[q], file'[q] = file[q]
               PROVE  FileRead(q)'
    OBVIOUS
  <2>1. FileRead(q) /\ (pc[q] # "idle" => doc[q] \in Doc)
    BY BusyType, ThreadIsProcess DEF NamedInv
  <2> QED
    BY <2>1 DEF FileRead, NamesLast, RowsAge, QueryPc
<1> QED
  BY <1>2, <1>3, <1>4, <1>5, <1>6 DEF NamedInv, Live

\* A process that sees to no name moves, and nobody else does.
LEMMA NamersUntouched ==
    ASSUME NEW p \in Process, pc[p] \notin BackingPc \cup MarkingPc,
           \A q \in Process \ {p} :
               pc'[q] = pc[q] /\ doc'[q] = doc[q] /\ slot'[q] = slot[q] /\ label'[q] = label[q]
    PROVE  NamersStay
BY DEF NamersStay, Backs, BackingPc, NamedBy

\* The steps of a request thread that leave the table alone and see to no name
\* before or after.
LEMMA PlainNamedSteps ==
    ASSUME TypeOK, NamedInv, NEW t \in Thread,
           \/ IngestFind(t) \/ IngestGivesUp(t) \/ WarmLock(t) \/ WarmSlot(t)
           \/ WarmChat(t) \/ IngestGoneUnlink(t) \/ IngestGoneUnmap(t) \/ QueryRead(t)
           \/ QueryLock(t) \/ QueryUnmap(t) \/ DeleteUnlink(t) \/ DeleteUnmap(t)
    PROVE  NamedInv'
<1>1. /\ t \in Process /\ slot[t] \in Slot /\ (pc[t] # "idle" => doc[t] \in Doc)
      /\ Aged(t) /\ FileRead(t)
  BY BusyType, ThreadIsProcess DEF NamedInv
<1>2. UNCHANGED <<row, hasFile, total>>
  BY DEF IngestFind, IngestGivesUp, WarmLock, WarmSlot, WarmChat, IngestGoneUnlink,
         IngestGoneUnmap, QueryRead, QueryLock, QueryUnmap, DeleteUnlink, DeleteUnmap,
         serverVars, storeVars
<1>3. \A s \in Slot : slots'[s] \in {slots[s], None}
  <2>1. CASE WarmLock(t) \/ QueryLock(t)
    BY <2>1, CheckShrinks DEF WarmLock, QueryLock
  <2>2. CASE ~(WarmLock(t) \/ QueryLock(t))
    BY <1>1, <2>2, SlotForInSlot
    DEF IngestFind, IngestGivesUp, WarmSlot, WarmChat, IngestGoneUnlink,
        IngestGoneUnmap, QueryRead, QueryUnmap, DeleteUnlink, DeleteUnmap, mapVars,
        TypeOK, EngineTypeOK
  <2> QED
    BY <2>1, <2>2
<1>4. RowsAge /\ NamesLast /\ MapNamed
  BY <1>2, <1>3 DEF RowsAge, NamesLast, MapNamed
<1>5. /\ pc[t] \notin BackingPc \cup MarkingPc
      /\ \A q \in Process \ {t} :
             /\ pc'[q] = pc[q] /\ doc'[q] = doc[q] /\ slot'[q] = slot[q]
             /\ label'[q] = label[q] /\ file'[q] = file[q]
  BY <1>1
  DEF IngestFind, IngestGivesUp, WarmLock, WarmSlot, WarmChat, IngestGoneUnlink,
      IngestGoneUnmap, QueryRead, QueryLock, QueryUnmap, DeleteUnlink, DeleteUnmap,
      Goto, Finish, At, localVars, BackingPc, AnsweringPc, MarkingPc, TypeOK,
      ThreadTypeOK
<1>6. Aged(t)'
  BY <1>1, <1>2
  DEF IngestFind, IngestGivesUp, WarmLock, WarmSlot, WarmChat, IngestGoneUnlink,
      IngestGoneUnmap, QueryRead, QueryLock, QueryUnmap, DeleteUnlink, DeleteUnmap,
      Goto, Finish, At, localVars, Aged, UnlinkingPc, Live, Status, TypeOK, ThreadTypeOK
<1>7. FileRead(t)'
  BY <1>1, <1>2
  DEF IngestFind, IngestGivesUp, WarmLock, WarmSlot, WarmChat, IngestGoneUnlink,
      IngestGoneUnmap, QueryRead, QueryLock, QueryUnmap, DeleteUnlink, DeleteUnmap,
      Goto, Finish, At, localVars, FileRead, QueryPc, Live, TypeOK, ThreadTypeOK
<1> QED
  BY <1>1, <1>2, <1>4, <1>5, <1>6, <1>7, ThreadIsProcess, NamersUntouched, NamedStep

\* The steps of a request thread that save a file or run a statement on the table.
LEMMA TableNamedSteps ==
    ASSUME TypeOK, NamedInv, NamingsLand, NEW t \in Thread,
           \/ IngestInsert(t) \/ WarmSave(t) \/ IngestMarkCached(t)
           \/ IngestMarkFailed(t) \/ DeleteRow(t)
    PROVE  NamedInv'
<1>1. /\ t \in Process /\ slot[t] \in Slot /\ (pc[t] # "idle" => doc[t] \in Doc)
      /\ Aged(t)
  BY BusyType, ThreadIsProcess DEF NamedInv
<1>2. total' = total
  BY DEF IngestInsert, WarmSave, IngestMarkCached, IngestMarkFailed, DeleteRow,
         serverVars
<1>3. RowsAge /\ NamesLast
  BY <1>1
  DEF IngestInsert, WarmSave, IngestMarkCached, IngestMarkFailed, DeleteRow, RowsAge,
      NamesLast, InsertDocument, MarkCached, MarkFailed, DeleteDocument, RowFound, Live,
      storeVars, Status, TypeOK, StoreTypeOK
<1>4. /\ pc[t] \notin BackingPc
      /\ \A q \in Process \ {t} :
             /\ pc'[q] = pc[q] /\ doc'[q] = doc[q] /\ slot'[q] = slot[q]
             /\ label'[q] = label[q] /\ file'[q] = file[q]
  BY <1>1
  DEF IngestInsert, WarmSave, IngestMarkCached, IngestMarkFailed, DeleteRow, Goto,
      Finish, At, localVars, BackingPc, AnsweringPc, TypeOK, ThreadTypeOK
<1>5. Aged(t)'
  BY <1>1
  DEF IngestInsert, WarmSave, IngestMarkCached, IngestMarkFailed, DeleteRow,
      InsertDocument, DeleteDocument, RowFound, Goto, Finish, At, localVars, Aged,
      UnlinkingPc, Live, storeVars, Status, TypeOK, StoreTypeOK, ThreadTypeOK
<1>6. FileRead(t)'
  BY <1>1
  DEF IngestInsert, WarmSave, IngestMarkCached, IngestMarkFailed, DeleteRow, Goto,
      Finish, At, localVars, FileRead, QueryPc, TypeOK, ThreadTypeOK
<1>7. CASE IngestInsert(t) \/ IngestMarkFailed(t) \/ DeleteRow(t)
  <2>1. slots' = slots /\ pc[t] \notin MarkingPc
    BY <1>7 DEF IngestInsert, IngestMarkFailed, DeleteRow, mapVars, MarkingPc
  <2>2. MapNamed /\ NamersStay
    BY <1>1, <1>4, <2>1, NamersUntouched DEF MapNamed
  <2> QED
    BY <1>2, <1>3, <1>4, <1>5, <1>6, <2>2, ThreadIsProcess, NamedStep
<1>8. CASE WarmSave(t)
  <2>1. /\ slots' = [slots EXCEPT ![slot[t]] = doc[t]] /\ Goto(t, "mark_cached")
        /\ pc[t] = "warm_save" /\ row' = row
    BY <1>8 DEF WarmSave, SlotSaveFails, NamingsLand, ResavesLand, storeVars
  <2>2. /\ \A s \in Slot : slots'[s] = IF s = slot[t] THEN doc[t] ELSE slots[s]
        /\ pc'[t] = "mark_cached" /\ doc'[t] = doc[t] /\ doc[t] \in Doc
    BY <1>1, <2>1 DEF Goto, At, localVars, TypeOK, ThreadTypeOK, EngineTypeOK
  <2>3. MapNamed
    BY <1>1, <2>1, <2>2 DEF MapNamed, NamedBy, MarkingPc, Aged
  <2>4. NamersStay
    BY <1>1, <1>4, <2>1, NamersUntouched DEF MarkingPc
  <2> QED
    BY <1>2, <1>3, <1>4, <1>5, <1>6, <2>3, <2>4, ThreadIsProcess, NamedStep
<1>9. CASE IngestMarkCached(t)
  <2>1. /\ slots' = slots /\ pc[t] = "mark_cached"
        /\ hasFile'[doc[t]] \/ row'[doc[t]] \notin Status
    BY <1>1, <1>9
    DEF IngestMarkCached, MarkCached, RowFound, Live, mapVars, storeVars, NamingsLand,
        TypeOK, StoreTypeOK
  <2>2. MapNamed
    BY <2>1 DEF MapNamed
  <2>3. NamersStay
    BY <1>4, <2>1 DEF NamersStay, NamedBy, Backs, BackingPc
  <2> QED
    BY <1>2, <1>3, <1>4, <1>5, <1>6, <2>2, <2>3, ThreadIsProcess, NamedStep
<1> QED
  BY <1>7, <1>8, <1>9

\* The steps of a query between the choice of its slot and its answer.
LEMMA AnswerNamedSteps ==
    ASSUME TypeOK, NamedInv, NamingsLand, NEW t \in Thread,
           \/ QuerySlot(t) \/ QueryRecheck(t) \/ QueryRestore(t) \/ QueryChat(t)
           \/ QueryChatFails(t)
    PROVE  NamedInv'
<1>1. /\ t \in Process /\ slot[t] \in Slot /\ (pc[t] # "idle" => doc[t] \in Doc)
      /\ Aged(t) /\ FileRead(t)
  BY BusyType, ThreadIsProcess DEF NamedInv
<1>2. /\ UNCHANGED <<row, hasFile, total>> /\ pc[t] # "idle"
      /\ row[doc[t]] # "unborn" /\ RowsAge /\ NamesLast
  BY <1>1
  DEF QuerySlot, QueryRecheck, QueryRestore, QueryChat, QueryChatFails, storeVars,
      serverVars, Aged, RowsAge, NamesLast
<1>3. CASE QuerySlot(t)
  <2>1. PICK s \in SlotFor(doc[t]) :
            /\ slot' = [slot EXCEPT ![t] = s]
            /\ slots' = [slots EXCEPT ![s] = doc[t]]
            /\ label' = [label EXCEPT ![t] = IF slots[s] = doc[t] THEN "memory"
                                                               ELSE "recomputed"]
            /\ At(t, IF slots[s] # doc[t] /\ file[t] THEN "recheck" ELSE "chat")
    BY <1>3 DEF QuerySlot
  <2>2. s \in Slot /\ pc[t] = "hot_slot" /\ UNCHANGED <<doc, file>>
    BY <1>3, SlotForInSlot DEF QuerySlot
  <2>3. /\ pc'[t] \in {"recheck", "chat"} /\ slot'[t] = s
        /\ pc'[t] = "recheck" => file[t]
        /\ slots[s] # doc[t] => label'[t] = "recomputed"
        /\ \A q \in Process \ {t} :
               pc'[q] = pc[q] /\ slot'[q] = slot[q] /\ label'[q] = label[q]
    BY <1>1, <2>1 DEF At, TypeOK, ThreadTypeOK
  <2>4. NamersStay
    BY <1>1, <2>2, <2>3, NamersUntouched DEF BackingPc, AnsweringPc, MarkingPc
  <2>5. \A x \in Slot : slots'[x] = IF x = s THEN doc[t] ELSE slots[x]
    BY <2>1, <2>2 DEF TypeOK, EngineTypeOK
  <2>6. slots[s] # doc[t] => NamedBy(s)'
    BY <1>1, <2>2, <2>3, <2>5 DEF NamedBy, Backs, AnsweringPc
  <2>7. MapNamed
    BY <1>1, <1>2, <2>5, <2>6 DEF MapNamed
  <2>8. Aged(t)' /\ FileRead(t)'
    BY <1>1, <1>2, <2>2, <2>3 DEF Aged, UnlinkingPc, FileRead, QueryPc
  <2> QED
    BY <1>2, <2>2, <2>3, <2>4, <2>7, <2>8, ThreadIsProcess, NamedStep
<1>4. CASE QueryRecheck(t)
  <2>1. /\ \A s \in Slot : slots'[s] \in {slots[s], None}
        /\ Goto(t, "restore") /\ pc[t] = "recheck"
    BY <1>4, CheckShrinks DEF QueryRecheck, CheckRaises, NamedInv
  <2>2. /\ UNCHANGED <<doc, slot, label, file>> /\ pc'[t] = "restore"
        /\ \A q \in Process \ {t} : pc'[q] = pc[q]
    BY <1>1, <2>1 DEF Goto, At, localVars, TypeOK, ThreadTypeOK
  <2>3. MapNamed
    BY <2>1 DEF MapNamed
  <2>4. NamersStay
    BY <2>1, <2>2 DEF NamersStay, NamedBy, Backs, AnsweringPc, MarkingPc
  <2>5. Aged(t)' /\ FileRead(t)'
    BY <1>1, <1>2, <2>1, <2>2 DEF Aged, UnlinkingPc, FileRead, QueryPc
  <2> QED
    BY <1>2, <2>2, <2>3, <2>4, <2>5, ThreadIsProcess, NamedStep
<1>5. CASE QueryRestore(t)
  <2>1. /\ UNCHANGED <<slots, doc, slot, file>> /\ pc[t] = "restore"
        /\ pc'[t] = "chat" /\ \A q \in Process \ {t} : pc'[q] = pc[q]
    BY <1>1, <1>5 DEF QueryRestore, At, mapVars, TypeOK, ThreadTypeOK
  <2>2. \A q \in Process \ {t} : label'[q] = label[q]
    BY <1>1, <1>5 DEF QueryRestore, TypeOK, ThreadTypeOK
  <2>3. hasFile[doc[t]] \/ row[doc[t]] = "gone"
    BY <1>1, <2>1 DEF FileRead, QueryPc
  <2>4. NamersStay
    BY <1>2, <2>1, <2>2, <2>3 DEF NamersStay, NamedBy, Backs, AnsweringPc, MarkingPc, Status
  <2>5. MapNamed
    BY <2>1 DEF MapNamed
  <2>6. Aged(t)' /\ FileRead(t)'
    BY <1>1, <1>2, <2>1 DEF Aged, UnlinkingPc, FileRead, QueryPc
  <2> QED
    BY <1>2, <2>1, <2>4, <2>5, <2>6, ThreadIsProcess, NamedStep
<1>6. CASE QueryChat(t)
  <2>1. slots' = slots /\ pc[t] = "chat"
    BY <1>6 DEF QueryChat, mapVars
  <2>2. \A q \in Process :
            \/ /\ pc'[q] = pc[q] /\ doc'[q] = doc[q] /\ slot'[q] = slot[q]
               /\ label'[q] = label[q] /\ file'[q] = file[q]
            \/ q = t /\ pc'[q] = "idle"
            \/ /\ pc[q] = "idle" /\ pc'[q] = "resave"
               /\ doc'[q] = doc[t] /\ slot'[q] = slot[t]
    BY <1>1, <1>6, <2>1, EngineAssumption, ThreadIsProcess
    DEF QueryChat, Spawn, Finish, At, TypeOK, ThreadTypeOK
  <2>3. label[t] = "recomputed" =>
            \E w \in Process : pc'[w] = "resave" /\ doc'[w] = doc[t] /\ slot'[w] = slot[t]
    BY <1>1, <1>6, <2>1, EngineAssumption, ThreadIsProcess
    DEF QueryChat, Spawn, NamingsLand, ResavesLand, TypeOK, ThreadTypeOK
  <2>4. ASSUME NEW p \in Process, NEW s \in Slot, NEW d \in Doc, Backs(p, s, d)
        PROVE  \E q \in Process : Backs(q, s, d)'
    <3>1. CASE p = t
      BY <2>1, <2>3, <2>4, <3>1 DEF Backs
    <3>2. CASE p # t
      BY <2>2, <2>4, <3>2 DEF Backs, AnsweringPc
    <3> QED
      BY <3>1, <3>2
  <2>5. \A p \in Process : pc[p] \in MarkingPc => pc'[p] = pc[p] /\ doc'[p] = doc[p]
    BY <2>1, <2>2 DEF MarkingPc
  <2>6. MapNamed /\ NamersStay
    BY <2>1, <2>4, <2>5 DEF MapNamed, NamersStay, NamedBy
  <2>7. /\ \A q \in Process : (pc'[q] = pc[q] /\ doc'[q] = doc[q]) \/ Aged(q)'
        /\ \A q \in Thread :
               \/ pc'[q] = pc[q] /\ doc'[q] = doc[q] /\ file'[q] = file[q]
               \/ FileRead(q)'
    BY <1>2, <2>2, ThreadIsProcess DEF Aged, UnlinkingPc, FileRead, QueryPc
  <2> QED
    BY <1>2, <2>6, <2>7, NamedStep
<1>7. CASE QueryChatFails(t)
  BY <1>7 DEF QueryChatFails, ChatFails, NamingsLand, ResavesLand
<1> QED
  BY <1>3, <1>4, <1>5, <1>6, <1>7

\* Every step of a deferred re-save.  It gives up only when the slot has gone to
\* another document.
LEMMA WorkerNamedSteps ==
    ASSUME TypeOK, NamedInv, NamingsLand, NEW w \in Worker, WorkerStep(w)
    PROVE  NamedInv'
<1>1. /\ w \in Process /\ w \notin Thread /\ slot[w] \in Slot
      /\ pc[w] # "idle" => doc[w] \in Doc
      /\ Aged(w)
  BY BusyType, ThreadIsProcess, EngineAssumption DEF NamedInv
<1>2. UNCHANGED <<slots, total>>
  BY DEF WorkerStep, ResaveSave, ResaveMark, ResaveUnlink, serverVars, mapVars
<1>3. \A q \in Process \ {w} :
          /\ pc'[q] = pc[q] /\ doc'[q] = doc[q] /\ slot'[q] = slot[q]
          /\ label'[q] = label[q] /\ file'[q] = file[q]
  BY <1>1
  DEF WorkerStep, ResaveSave, ResaveMark, ResaveUnlink, Goto, Finish, At, localVars,
      TypeOK, ThreadTypeOK
<1>4. RowsAge /\ NamesLast
  BY <1>1
  DEF WorkerStep, ResaveSave, ResaveMark, ResaveUnlink, RowsAge, NamesLast, MarkCached,
      RowFound, Live, storeVars, Status, TypeOK, StoreTypeOK
<1>5. Aged(w)'
  BY <1>1
  DEF WorkerStep, ResaveSave, ResaveMark, ResaveUnlink, MarkCached, RowFound, Live,
      storeVars, Goto, Finish, At, localVars, Aged, UnlinkingPc, TypeOK, ThreadTypeOK,
      StoreTypeOK
<1>6. MapNamed
  BY <1>2 DEF MapNamed
<1>7. NamersStay
  <2> SUFFICES ASSUME NEW s \in Slot, slots[s] \in Doc, row'[slots[s]] \in Status,
                      NEW p \in Process,
                      Backs(p, s, slots[s]) \/ (doc[p] = slots[s] /\ pc[p] \in MarkingPc)
               PROVE  NamedBy(s)'
    BY <1>2 DEF NamersStay
  <2>1. CASE p # w
    BY <1>2, <1>3, <2>1 DEF NamedBy, Backs
  <2>2. CASE p = w /\ ResaveSave(w)
    <3>1. slots[slot[w]] = doc[w]
      BY <2>2 DEF ResaveSave, Backs, MarkingPc
    <3>2. pc'[w] = "resave_mark" /\ doc'[w] = doc[w] /\ doc[w] = slots[s]
      BY <1>1, <2>2, <3>1
      DEF ResaveSave, SlotSaveFails, NamingsLand, ResavesLand, Goto, At, localVars, Backs,
          MarkingPc, TypeOK, ThreadTypeOK
    <3> QED
      BY <1>1, <1>2, <3>2 DEF NamedBy, MarkingPc
  <2>3. CASE p = w /\ ResaveMark(w)
    <3>1. doc[w] = slots[s] /\ (hasFile'[doc[w]] \/ row'[doc[w]] \notin Status)
      BY <1>1, <2>3
      DEF ResaveMark, MarkCached, RowFound, Live, storeVars, NamingsLand, Backs, TypeOK,
          StoreTypeOK
    <3> QED
      BY <1>2, <3>1 DEF NamedBy
  <2>4. CASE p = w /\ ResaveUnlink(w)
    BY <2>4 DEF ResaveUnlink, Backs, AnsweringPc, MarkingPc
  <2> QED
    BY <2>1, <2>2, <2>3, <2>4 DEF WorkerStep
<1> QED
  BY <1>1, <1>2, <1>3, <1>4, <1>5, <1>6, <1>7, ThreadIsProcess, NamedStep

LEMMA NamedInit == Init => NamedInv
<1> SUFFICES ASSUME Init PROVE NamedInv
  OBVIOUS
<1>1. total = CagSlots /\ \A s \in Slot : slots[s] = None
  BY DEF Init, ServerInit
<1>2. \A p \in Process : Aged(p)
  BY DEF Init, Aged, UnlinkingPc
<1>3. \A t \in Thread : FileRead(t)
  BY ThreadIsProcess DEF Init, FileRead, QueryPc
<1> QED
  BY <1>1, <1>2, <1>3, EngineAssumption DEF NamedInv, Live

LEMMA NamedNext ==
    ASSUME NamingsLand, TypeOK, NamedInv, [Next]_vars
    PROVE  NamedInv'
<1>1. CASE \E t \in Thread : Arrival(t) \/ ThreadStep(t)
  BY <1>1, PlainNamedSteps, TableNamedSteps, AnswerNamedSteps DEF Arrival, ThreadStep
<1>2. CASE \E w \in Worker : WorkerStep(w)
  BY <1>2, WorkerNamedSteps
<1>3. CASE Crash
  <2>1. total' = total /\ \A s \in Slot : slots'[s] = None
    BY <1>3 DEF Crash, serverVars
  <2>2. \A p \in Process : Aged(p)' /\ (p \in Thread => FileRead(p)')
    BY <1>3 DEF Crash, Aged, UnlinkingPc, FileRead, QueryPc
  <2> QED
    BY <2>1, <2>2, ThreadIsProcess, EngineAssumption DEF NamedInv, Live
<1>4. CASE Restart \/ UNCHANGED vars
  <2>1. UNCHANGED <<total, row, hasFile, slots, pc, doc, slot, label, file>>
    BY <1>4
    DEF Restart, ServerRestart, vars, serverVars, storeVars, mapVars, localVars
  <2> QED
    BY <2>1 DEF NamedInv, Live, NamedBy, Backs, Aged, FileRead
<1>5. CASE Resize
  BY <1>5 DEF Resize, ServerResize, NamingsLand, ResavesLand
<1> QED
  BY <1>1, <1>2, <1>3, <1>4, <1>5 DEF Next

\* The sweep changes nothing a row or the map says.
LEMMA NamedSweep ==
    ASSUME TypeOK, MaintTypeOK, NamedInv, SweepUnlink
    PROVE  NamedInv'
<1>1. UNCHANGED <<total, row, hasFile, slots, pc, doc, slot, label, file>>
  BY SweepRemoves
<1> QED
  BY <1>1 DEF NamedInv, Live, NamedBy, Backs, Aged, FileRead

\* It leaves the slots alone too, and a file it removes is one less to agree with.
LEMMA MatchSweep ==
    ASSUME TypeOK, MaintTypeOK, MatchInv, SweepUnlink
    PROVE  MatchInv'
<1>1. /\ UNCHANGED <<slots, kv, pc, doc, slot, label>>
      /\ \A d \in Doc : files'[d] \in {files[d], NoFile}
  BY SweepRemoves DEF TypeOK, ServerTypeOK
<1>2. slots \in [Slot -> Doc \cup {None}]
  BY DEF TypeOK, EngineTypeOK
<1> QED
  BY <1>1, <1>2 DEF MatchInv, Matched, Backs

\* With the sweep beside the engine, every live document that is hot at rest has
\* its cache file, since its row names it and the sweep spares what a row names, and
\* what its slot holds of it the file holds too.
THEOREM HotOutlivesMaintenance ==
    ASSUME SweepTimely, NamingsLand
    PROVE  MaintSpec => []HotIsPersisted
<1> DEFINE Keeps == LockHeld /\ NameInv /\ MapInv /\ MatchInv /\ NamedInv
<1>1. MaintInit => MaintInv /\ Keeps
  BY MaintInvInit, LockInit, NameInit, MapInit, MatchInit, NamedInit DEF MaintInit
<1>2. MaintInv /\ [MaintNext]_maintVars => MaintInv'
  BY MaintInvNext
<1>3. MaintInv /\ Keeps /\ [MaintNext]_maintVars => Keeps'
  <2> SUFFICES ASSUME MaintInv, Keeps, [MaintNext]_maintVars PROVE Keeps'
    OBVIOUS
  <2>1. TypeOK /\ MaintTypeOK
    BY DEF MaintInv
  <2>2. CASE SweepUnlink
    <3>1. UNCHANGED <<slots, lock, pc, doc, slot>>
      BY <2>1, <2>2, SweepRemoves
    <3>2. LockHeld' /\ MapInv'
      BY <3>1 DEF LockHeld, MapInv, SlotMapInjective, WarmUnmapped
    <3> QED
      BY <2>1, <2>2, <3>2, SweepKeepsNames, MatchSweep, NamedSweep
  <2>3. CASE [Next]_vars
    BY <2>1, <2>3, LockNext, NameNext, MapNext, MatchNext, NamedNext
    DEF NamingsLand, ResavesLand, NamesReliable
  <2> QED
    BY <2>1, <2>2, <2>3, SweepOrEngine
<1>4. MaintInv /\ Keeps => HotIsPersisted
  <2> SUFFICES ASSUME MaintInv, Keeps, Quiescent, NEW s \in Slot, slots[s] \in Live
               PROVE  /\ files[slots[s]] # NoFile
                      /\ kv[Physical(s)] \in {Empty, files[slots[s]]}
    BY DEF HotIsPersisted
  <2>1. \A p \in Process : pc[p] = "idle"
    BY DEF Quiescent
  <2>2. hasFile[slots[s]]
    BY <2>1 DEF NamedInv, NamedBy, Backs, AnsweringPc, MarkingPc
  <2>3. files[slots[s]] # NoFile
    BY <2>2 DEF MaintInv, DiskInv, CachedFileExists
  <2> QED
    BY <2>3, RestMatches DEF MaintInv
<1> QED
  BY <1>1, <1>2, <1>3, <1>4, PTL DEF MaintSpec

=============================================================================
