-------------------------- MODULE CagEngineProofs --------------------------
(***************************************************************************)
(* Theorems about CagEngine, for every value of its constants: any number  *)
(* of threads, documents, slots and models.                                *)
(***************************************************************************)
EXTENDS CagEngine, FiniteSetTheorems, WellFoundedInduction, TLAPS

\* _slot_for answers slots of the engine only.
LEMMA SlotForInSlot ==
    ASSUME NEW d
    PROVE  SlotFor(d) \subseteq Slot
BY DEF SlotFor

\* The least slot exists, so initial locals are well typed.
LEMMA ZeroInSlot == 0 \in Slot
BY CagSlotsAssumption DEF Slot

\* What the maps are cleared to is well typed.
LEMMA EmptyMapType ==
    /\ [s \in Slot |-> 0] \in [Slot -> 0 .. CagSlots]
    /\ [s \in Slot |-> None] \in [Slot -> Doc \cup {None}]
BY CagSlotsAssumption

\* Taking the latest timestamp keeps the ranks in range.
LEMMA TouchType ==
    ASSUME TypeOK, NEW s \in Slot, Touch(s)
    PROVE  used' \in [Slot -> 0 .. CagSlots]
BY CagSlotsAssumption DEF TypeOK, EngineTypeOK, Touch

\* Dropping a timestamp keeps the ranks in range.
LEMMA ForgetType ==
    ASSUME TypeOK, NEW s \in Slot, Forget(s)
    PROVE  used' \in [Slot -> 0 .. CagSlots]
BY CagSlotsAssumption DEF TypeOK, EngineTypeOK, Forget

\* Even after the server shrank, a slot id lands on an existing slot.
LEMMA PhysicalInSlot ==
    ASSUME TypeOK, NEW s \in Slot
    PROVE  Physical(s) \in Slot
BY CagSlotsAssumption DEF TypeOK, ServerTypeOK, Physical, Slot

\* An evaluated prompt is a state of the model being served.
LEMMA EvaluatedType ==
    ASSUME TypeOK, NEW s \in Slot, NEW d \in Doc
    PROVE  Evaluated(s, d) \in State
<1>1. CASE Reuses(s, d)
  BY <1>1, PhysicalInSlot, EmptyAssumption
  DEF Evaluated, Reuses, TypeOK, ServerTypeOK
<1>2. CASE ~Reuses(s, d)
  BY <1>2 DEF Evaluated, State, TypeOK, ServerTypeOK
<1> QED BY <1>1, <1>2

\* The fingerprint check keeps the types of all it may change.
LEMMA CheckReturnsType ==
    ASSUME TypeOK, NEW force \in BOOLEAN, CheckReturns(force)
    PROVE  /\ files' \in [Doc -> State \cup {Empty, NoFile}]
           /\ slots' \in [Slot -> Doc \cup {None}]
           /\ used' \in [Slot -> 0 .. CagSlots]
           /\ memo' \in BOOLEAN
           /\ marker' \in Model \cup {None}
<1>1. CASE UNCHANGED <<files, mapVars, marker>> /\ memo' \in BOOLEAN
  BY <1>1 DEF TypeOK, ServerTypeOK, EngineTypeOK, mapVars
<1>2. CASE Fingerprint
  <2>1. files' \in [Doc -> State \cup {Empty, NoFile}]
    <3>1. CASE CacheFiles # {} /\ marker # model
      <4>1. PICK kept : files' = [d \in Doc |-> IF d \in CacheFiles \ kept
                                              THEN NoFile ELSE files[d]]
        BY <1>2, <3>1 DEF Fingerprint
      <4> QED BY <4>1 DEF TypeOK, ServerTypeOK
    <3> QED BY <1>2, <3>1 DEF Fingerprint, TypeOK, ServerTypeOK
  <2>2. /\ slots' \in [Slot -> Doc \cup {None}]
        /\ used' \in [Slot -> 0 .. CagSlots]
    BY <1>2, CagSlotsAssumption DEF Fingerprint, TypeOK, EngineTypeOK
  <2>3. memo' \in BOOLEAN /\ marker' \in Model \cup {None}
    BY <1>2 DEF Fingerprint, TypeOK, ServerTypeOK, EngineTypeOK
  <2> QED BY <2>1, <2>2, <2>3
<1> QED
  BY <1>1, <1>2 DEF CheckReturns, TypeOK, EngineTypeOK, checkVars

\* What a thread's own step may do to its control state and locals.
LEMMA GotoType ==
    ASSUME TypeOK, NEW p \in Process, pc[p] # "idle",
           NEW where \in LockedPc \cup FreePc, Goto(p, where)
    PROVE  ThreadTypeOK'
BY DEF TypeOK, ThreadTypeOK, Goto, At, localVars

\* A handler that returns leaves well-typed locals.
LEMMA FinishType ==
    ASSUME TypeOK, NEW p \in Process, Finish(p)
    PROVE  ThreadTypeOK'
BY ZeroInSlot DEF TypeOK, ThreadTypeOK, Finish, At, FreePc, Label

\* Each step of the server and of the table keeps its types.
LEMMA KvType ==
    ASSUME TypeOK, NEW s \in Slot, NEW d \in Doc,
           SlotErase(s) \/ Chat(s, d) \/ ChatFails(s, d) \/ SlotRestore(s, d)
               \/ SlotRestoreFails(s, d) \/ UNCHANGED kv
    PROVE  kv' \in [Slot -> State \cup {Empty}]
<1> DEFINE k == Physical(s)
<1>1. k \in Slot
  BY PhysicalInSlot
<1>2. Evaluated(s, d) \in State
  BY EvaluatedType
<1>3. kv \in [Slot -> State \cup {Empty}]
  BY DEF TypeOK, ServerTypeOK
<1>4. files[d] \in State \cup {Empty, NoFile}
  BY DEF TypeOK, ServerTypeOK
<1>5. (\E x \in State \cup {Empty} : kv' = [kv EXCEPT ![k] = x]) \/ kv' = kv
  BY <1>1, <1>2, <1>3, <1>4
  DEF SlotErase, Chat, ChatFails, SlotRestore, SlotRestoreFails
<1> HIDE DEF k
<1> QED BY <1>1, <1>3, <1>5

\* Saves and unlinks keep the type of the cache files.
LEMMA FilesType ==
    ASSUME TypeOK, NEW s \in Slot, NEW d \in Doc,
           SlotSave(s, d) \/ SlotSaveFails(s, d) \/ Unlink(d) \/ UNCHANGED files
    PROVE  files' \in [Doc -> State \cup {Empty, NoFile}]
<1>1. kv[Physical(s)] \in State \cup {Empty}
  BY PhysicalInSlot DEF TypeOK, ServerTypeOK
<1>2. files \in [Doc -> State \cup {Empty, NoFile}]
  BY DEF TypeOK, ServerTypeOK
<1> QED BY <1>1, <1>2 DEF SlotSave, SlotSaveFails, Unlink

\* The statements of db.py keep the types of the table.
LEMMA StoreType ==
    ASSUME TypeOK, NEW d \in Doc,
           InsertDocument(d) \/ MarkCached(d) \/ MarkFailed(d) \/ DeleteDocument(d)
    PROVE  StoreTypeOK'
BY DEF TypeOK, StoreTypeOK, InsertDocument, MarkCached, RowFound, MarkFailed,
       DeleteDocument,
       Status

\* What a thread at work knows of its own locals.
LEMMA BusyType ==
    ASSUME TypeOK, NEW p \in Process
    PROVE  /\ slot[p] \in Slot
           /\ pc[p] # "idle" => doc[p] \in Doc
BY DEF TypeOK, ThreadTypeOK

\* Request threads and workers are processes.
LEMMA ThreadIsProcess == Thread \subseteq Process /\ Worker \subseteq Process
BY DEF Process

\* Every step of a thread or a worker keeps the types.
LEMMA StepType ==
    ASSUME TypeOK,
           (\E t \in Thread : Arrival(t) \/ ThreadStep(t)) \/ (\E w \in Worker : WorkerStep(w))
    PROVE  TypeOK'
<1>1. ASSUME NEW t \in Thread, IngestFind(t) PROVE TypeOK'
  <2>0. IngestFind(t)
    BY <1>1
  <2>1. ThreadTypeOK'
    BY <2>0, ThreadIsProcess
    DEF IngestFind, TypeOK, ThreadTypeOK, At, LockedPc, FreePc
  <2>2. ServerTypeOK' /\ StoreTypeOK' /\ EngineTypeOK'
    BY <2>0
    DEF IngestFind, TypeOK, ServerTypeOK, StoreTypeOK, EngineTypeOK,
        serverVars, storeVars, mapVars, checkVars
  <2> QED BY <2>1, <2>2 DEF TypeOK
<1>2. ASSUME NEW t \in Thread, IngestInsert(t) PROVE TypeOK'
  <2>0. IngestInsert(t)
    BY <1>2
  <2>1. ThreadTypeOK'
    BY <2>0, ThreadIsProcess
    DEF IngestInsert, TypeOK, ThreadTypeOK, At, LockedPc, FreePc
  <2>2. ServerTypeOK' /\ StoreTypeOK' /\ EngineTypeOK'
    BY <2>0, StoreType
    DEF IngestInsert, TypeOK, ServerTypeOK, StoreTypeOK, EngineTypeOK,
        serverVars, mapVars, checkVars
  <2> QED BY <2>1, <2>2 DEF TypeOK
<1>3. ASSUME NEW t \in Thread, IngestGivesUp(t) PROVE TypeOK'
  <2>0. IngestGivesUp(t)
    BY <1>3
  <2>1. ThreadTypeOK'
    BY <2>0, GotoType, FinishType, ThreadIsProcess
    DEF IngestGivesUp, LockedPc, FreePc
  <2>2. ServerTypeOK' /\ StoreTypeOK' /\ EngineTypeOK'
    BY <2>0
    DEF IngestGivesUp, TypeOK, ServerTypeOK, StoreTypeOK, EngineTypeOK,
        serverVars, storeVars, mapVars, checkVars
  <2> QED BY <2>1, <2>2 DEF TypeOK
<1>4. ASSUME NEW t \in Thread, WarmLock(t) PROVE TypeOK'
  <2>0. WarmLock(t)
    BY <1>4
  <2>1. ThreadTypeOK'
    BY <2>0, GotoType, FinishType, ThreadIsProcess
    DEF WarmLock, LockedPc, FreePc
  <2>2. ServerTypeOK' /\ StoreTypeOK' /\ EngineTypeOK'
    BY <2>0, CheckReturnsType, ThreadIsProcess
    DEF WarmLock, CheckRaises, TypeOK, ServerTypeOK, StoreTypeOK, EngineTypeOK,
        storeVars, mapVars, checkVars
  <2> QED BY <2>1, <2>2 DEF TypeOK
<1>5. ASSUME NEW t \in Thread, WarmSlot(t) PROVE TypeOK'
  <2>0. WarmSlot(t)
    BY <1>5
  <2>1. ThreadTypeOK'
    BY <2>0, SlotForInSlot, ThreadIsProcess
    DEF WarmSlot, TypeOK, ThreadTypeOK, At, LockedPc, FreePc
  <2>2. ServerTypeOK' /\ StoreTypeOK' /\ EngineTypeOK'
    BY <2>0, SlotForInSlot, BusyType, ThreadIsProcess, KvType, TouchType
    DEF WarmSlot, TypeOK, ServerTypeOK, StoreTypeOK, EngineTypeOK, storeVars,
        checkVars
  <2> QED BY <2>1, <2>2 DEF TypeOK
<1>6. ASSUME NEW t \in Thread, WarmChat(t) PROVE TypeOK'
  <2>0. WarmChat(t)
    BY <1>6
  <2>1. ThreadTypeOK'
    BY <2>0, GotoType, FinishType, ThreadIsProcess
    DEF WarmChat, LockedPc, FreePc
  <2>2. ServerTypeOK' /\ StoreTypeOK' /\ EngineTypeOK'
    BY <2>0, BusyType, ThreadIsProcess, KvType
    DEF WarmChat, Release, TypeOK, ServerTypeOK, StoreTypeOK, EngineTypeOK,
        storeVars, mapVars, checkVars
  <2> QED BY <2>1, <2>2 DEF TypeOK
<1>7. ASSUME NEW t \in Thread, WarmSave(t) PROVE TypeOK'
  <2>0. WarmSave(t)
    BY <1>7
  <2>1. ThreadTypeOK'
    BY <2>0, GotoType, FinishType, ThreadIsProcess
    DEF WarmSave, LockedPc, FreePc
  <2>2. ServerTypeOK' /\ StoreTypeOK' /\ EngineTypeOK'
    BY <2>0, BusyType, ThreadIsProcess, FilesType, TouchType
    DEF WarmSave, Release, TypeOK, ServerTypeOK, StoreTypeOK, EngineTypeOK,
        storeVars, mapVars, checkVars
  <2> QED BY <2>1, <2>2 DEF TypeOK
<1>8. ASSUME NEW t \in Thread, IngestMarkCached(t) PROVE TypeOK'
  <2>0. IngestMarkCached(t)
    BY <1>8
  <2>1. ThreadTypeOK'
    BY <2>0, GotoType, FinishType, ThreadIsProcess
    DEF IngestMarkCached, LockedPc, FreePc
  <2>2. ServerTypeOK' /\ StoreTypeOK' /\ EngineTypeOK'
    BY <2>0, BusyType, ThreadIsProcess, StoreType
    DEF IngestMarkCached, TypeOK, ServerTypeOK, StoreTypeOK, EngineTypeOK,
        serverVars, storeVars, mapVars, checkVars
  <2> QED BY <2>1, <2>2 DEF TypeOK
<1>9. ASSUME NEW t \in Thread, IngestMarkFailed(t) PROVE TypeOK'
  <2>0. IngestMarkFailed(t)
    BY <1>9
  <2>1. ThreadTypeOK'
    BY <2>0, GotoType, FinishType, ThreadIsProcess
    DEF IngestMarkFailed, LockedPc, FreePc
  <2>2. ServerTypeOK' /\ StoreTypeOK' /\ EngineTypeOK'
    BY <2>0, BusyType, ThreadIsProcess, StoreType
    DEF IngestMarkFailed, TypeOK, ServerTypeOK, StoreTypeOK, EngineTypeOK,
        serverVars, storeVars, mapVars, checkVars
  <2> QED BY <2>1, <2>2 DEF TypeOK
<1>10. ASSUME NEW t \in Thread, IngestGoneUnlink(t) PROVE TypeOK'
  <2>0. IngestGoneUnlink(t)
    BY <1>10
  <2>1. ThreadTypeOK'
    BY <2>0, GotoType, FinishType, ThreadIsProcess
    DEF IngestGoneUnlink, LockedPc, FreePc
  <2>2. ServerTypeOK' /\ StoreTypeOK' /\ EngineTypeOK'
    BY <2>0, BusyType, ThreadIsProcess, FilesType
    DEF IngestGoneUnlink, TypeOK, ServerTypeOK, StoreTypeOK, EngineTypeOK,
        serverVars, storeVars, mapVars, checkVars
  <2> QED BY <2>1, <2>2 DEF TypeOK
<1>11. ASSUME NEW t \in Thread, IngestGoneUnmap(t) PROVE TypeOK'
  <2>0. IngestGoneUnmap(t)
    BY <1>11
  <2>1. ThreadTypeOK'
    BY <2>0, GotoType, FinishType, ThreadIsProcess
    DEF IngestGoneUnmap, LockedPc, FreePc
  <2>2. ServerTypeOK' /\ StoreTypeOK' /\ EngineTypeOK'
    BY <2>0
    DEF IngestGoneUnmap, TypeOK, ServerTypeOK, StoreTypeOK, EngineTypeOK,
        serverVars, storeVars, mapVars, checkVars
  <2> QED BY <2>1, <2>2 DEF TypeOK
<1>12. ASSUME NEW t \in Thread, QueryRead(t) PROVE TypeOK'
  <2>0. QueryRead(t)
    BY <1>12
  <2>1. ThreadTypeOK'
    BY <2>0, ThreadIsProcess
    DEF QueryRead, Live, StoreTypeOK, TypeOK, ThreadTypeOK, At, LockedPc,
        FreePc
  <2>2. ServerTypeOK' /\ StoreTypeOK' /\ EngineTypeOK'
    BY <2>0
    DEF QueryRead, TypeOK, ServerTypeOK, StoreTypeOK, EngineTypeOK, serverVars,
        storeVars, mapVars, checkVars
  <2> QED BY <2>1, <2>2 DEF TypeOK
<1>13. ASSUME NEW t \in Thread, QueryLock(t) PROVE TypeOK'
  <2>0. QueryLock(t)
    BY <1>13
  <2>1. ThreadTypeOK'
    BY <2>0, GotoType, FinishType, ThreadIsProcess
    DEF QueryLock, LockedPc, FreePc
  <2>2. ServerTypeOK' /\ StoreTypeOK' /\ EngineTypeOK'
    BY <2>0, CheckReturnsType, ThreadIsProcess
    DEF QueryLock, CheckRaises, TypeOK, ServerTypeOK, StoreTypeOK,
        EngineTypeOK, storeVars, mapVars, checkVars
  <2> QED BY <2>1, <2>2 DEF TypeOK
<1>14. ASSUME NEW t \in Thread, QuerySlot(t) PROVE TypeOK'
  <2>0. QuerySlot(t)
    BY <1>14
  <2>1. ThreadTypeOK'
    BY <2>0, SlotForInSlot, ThreadIsProcess
    DEF QuerySlot, Label, TypeOK, ThreadTypeOK, At, LockedPc, FreePc
  <2>2. ServerTypeOK' /\ StoreTypeOK' /\ EngineTypeOK'
    BY <2>0, SlotForInSlot, BusyType, ThreadIsProcess, TouchType
    DEF QuerySlot, TypeOK, ServerTypeOK, StoreTypeOK, EngineTypeOK, serverVars,
        storeVars, checkVars
  <2> QED BY <2>1, <2>2 DEF TypeOK
<1>15. ASSUME NEW t \in Thread, QueryRecheck(t) PROVE TypeOK'
  <2>0. QueryRecheck(t)
    BY <1>15
  <2>1. ThreadTypeOK'
    BY <2>0, GotoType, FinishType, ThreadIsProcess
    DEF QueryRecheck, LockedPc, FreePc
  <2>2. ServerTypeOK' /\ StoreTypeOK' /\ EngineTypeOK'
    BY <2>0, CheckReturnsType, ThreadIsProcess
    DEF QueryRecheck, CheckRaises, Release, TypeOK, ServerTypeOK, StoreTypeOK,
        EngineTypeOK, storeVars, mapVars, checkVars
  <2> QED BY <2>1, <2>2 DEF TypeOK
<1>16. ASSUME NEW t \in Thread, QueryRestore(t) PROVE TypeOK'
  <2>0. QueryRestore(t)
    BY <1>16
  <2>1. ThreadTypeOK'
    BY <2>0, ThreadIsProcess
    DEF QueryRestore, Label, TypeOK, ThreadTypeOK, At, LockedPc, FreePc
  <2>2. ServerTypeOK' /\ StoreTypeOK' /\ EngineTypeOK'
    BY <2>0, BusyType, ThreadIsProcess, KvType
    DEF QueryRestore, TypeOK, ServerTypeOK, StoreTypeOK, EngineTypeOK,
        storeVars, mapVars, checkVars
  <2> QED BY <2>1, <2>2 DEF TypeOK
<1>17. ASSUME NEW t \in Thread, QueryChat(t) PROVE TypeOK'
  <2>0. QueryChat(t)
    BY <1>17
  <2>1. ThreadTypeOK'
    <3>1. CASE Finish(t)
      BY <3>1, FinishType, ThreadIsProcess
    <3>2. CASE ~Finish(t)
      <4>1. PICK w \in Worker :
              /\ pc[w] = "idle"
              /\ pc' = [pc EXCEPT ![t] = "idle", ![w] = "resave"]
              /\ doc' = [doc EXCEPT ![t] = None, ![w] = doc[t]]
              /\ slot' = [slot EXCEPT ![t] = 0, ![w] = slot[t]]
              /\ label' = [label EXCEPT ![t] = "none"]
              /\ file' = [file EXCEPT ![t] = FALSE]
        BY <2>0, <3>2 DEF QueryChat, Spawn
      <4>2. slot[t] \in Slot /\ doc[t] \in Doc
        BY <2>0, BusyType, ThreadIsProcess DEF QueryChat
      <4> QED
        BY <4>1, <4>2, ThreadIsProcess, ZeroInSlot, EngineAssumption
        DEF TypeOK, ThreadTypeOK, Label, LockedPc, FreePc
    <3> QED BY <3>1, <3>2
  <2>2. ServerTypeOK' /\ StoreTypeOK' /\ EngineTypeOK'
    BY <2>0, BusyType, ThreadIsProcess, KvType
    DEF QueryChat, Release, TypeOK, ServerTypeOK, StoreTypeOK, EngineTypeOK,
        storeVars, mapVars, checkVars
  <2> QED BY <2>1, <2>2 DEF TypeOK
<1>18. ASSUME NEW t \in Thread, QueryChatFails(t) PROVE TypeOK'
  <2>0. QueryChatFails(t)
    BY <1>18
  <2>1. ThreadTypeOK'
    BY <2>0, GotoType, FinishType, ThreadIsProcess
    DEF QueryChatFails, LockedPc, FreePc
  <2>2. ServerTypeOK' /\ StoreTypeOK' /\ EngineTypeOK'
    BY <2>0, BusyType, ThreadIsProcess, KvType
    DEF QueryChatFails, Release, TypeOK, ServerTypeOK, StoreTypeOK,
        EngineTypeOK, storeVars, mapVars, checkVars
  <2> QED BY <2>1, <2>2 DEF TypeOK
<1>19. ASSUME NEW t \in Thread, QueryUnmap(t) PROVE TypeOK'
  <2>0. QueryUnmap(t)
    BY <1>19
  <2>1. ThreadTypeOK'
    BY <2>0, GotoType, FinishType, ThreadIsProcess
    DEF QueryUnmap, LockedPc, FreePc
  <2>2. ServerTypeOK' /\ StoreTypeOK' /\ EngineTypeOK'
    BY <2>0, BusyType, ThreadIsProcess
    DEF QueryUnmap, TypeOK, ServerTypeOK, StoreTypeOK, EngineTypeOK,
        serverVars, storeVars, mapVars, checkVars
  <2> QED BY <2>1, <2>2 DEF TypeOK
<1>20. ASSUME NEW w \in Worker, ResaveSave(w) PROVE TypeOK'
  <2>0. ResaveSave(w)
    BY <1>20
  <2>1. ThreadTypeOK'
    BY <2>0, GotoType, FinishType, ThreadIsProcess
    DEF ResaveSave, LockedPc, FreePc
  <2>2. ServerTypeOK' /\ StoreTypeOK' /\ EngineTypeOK'
    BY <2>0, BusyType, ThreadIsProcess, FilesType
    DEF ResaveSave, TypeOK, ServerTypeOK, StoreTypeOK, EngineTypeOK, storeVars,
        mapVars, checkVars
  <2> QED BY <2>1, <2>2 DEF TypeOK
<1>21. ASSUME NEW w \in Worker, ResaveMark(w) PROVE TypeOK'
  <2>0. ResaveMark(w)
    BY <1>21
  <2>1. ThreadTypeOK'
    BY <2>0, GotoType, FinishType, ThreadIsProcess
    DEF ResaveMark, LockedPc, FreePc
  <2>2. ServerTypeOK' /\ StoreTypeOK' /\ EngineTypeOK'
    BY <2>0, BusyType, ThreadIsProcess, StoreType
    DEF ResaveMark, Release, TypeOK, ServerTypeOK, StoreTypeOK, EngineTypeOK,
        serverVars, storeVars, mapVars, checkVars
  <2> QED BY <2>1, <2>2 DEF TypeOK
<1>22. ASSUME NEW w \in Worker, ResaveUnlink(w) PROVE TypeOK'
  <2>0. ResaveUnlink(w)
    BY <1>22
  <2>1. ThreadTypeOK'
    BY <2>0, GotoType, FinishType, ThreadIsProcess
    DEF ResaveUnlink, LockedPc, FreePc
  <2>2. ServerTypeOK' /\ StoreTypeOK' /\ EngineTypeOK'
    BY <2>0, BusyType, ThreadIsProcess, FilesType
    DEF ResaveUnlink, Release, TypeOK, ServerTypeOK, StoreTypeOK, EngineTypeOK,
        storeVars, mapVars, checkVars
  <2> QED BY <2>1, <2>2 DEF TypeOK
<1>23. ASSUME NEW t \in Thread, DeleteRow(t) PROVE TypeOK'
  <2>0. DeleteRow(t)
    BY <1>23
  <2>1. ThreadTypeOK'
    BY <2>0, ThreadIsProcess
    DEF DeleteRow, Live, TypeOK, ThreadTypeOK, At, LockedPc, FreePc
  <2>2. ServerTypeOK' /\ StoreTypeOK' /\ EngineTypeOK'
    BY <2>0, StoreType
    DEF DeleteRow, Live, TypeOK, ServerTypeOK, StoreTypeOK, EngineTypeOK,
        serverVars, mapVars, checkVars
  <2> QED BY <2>1, <2>2 DEF TypeOK
<1>24. ASSUME NEW t \in Thread, DeleteUnlink(t) PROVE TypeOK'
  <2>0. DeleteUnlink(t)
    BY <1>24
  <2>1. ThreadTypeOK'
    BY <2>0, GotoType, FinishType, ThreadIsProcess
    DEF DeleteUnlink, LockedPc, FreePc
  <2>2. ServerTypeOK' /\ StoreTypeOK' /\ EngineTypeOK'
    BY <2>0, BusyType, ThreadIsProcess, FilesType
    DEF DeleteUnlink, TypeOK, ServerTypeOK, StoreTypeOK, EngineTypeOK,
        storeVars, mapVars, checkVars
  <2> QED BY <2>1, <2>2 DEF TypeOK
<1>25. ASSUME NEW t \in Thread, DeleteUnmap(t) PROVE TypeOK'
  <2>0. DeleteUnmap(t)
    BY <1>25
  <2>1. ThreadTypeOK'
    BY <2>0, FinishType, ThreadIsProcess
    DEF DeleteUnmap, localVars, TypeOK, ThreadTypeOK
  <2>2. ServerTypeOK' /\ StoreTypeOK' /\ EngineTypeOK'
    BY <2>0, BusyType, ThreadIsProcess, KvType, ForgetType
    DEF DeleteUnmap, TypeOK, ServerTypeOK, StoreTypeOK, EngineTypeOK,
        storeVars, mapVars, checkVars
  <2> QED BY <2>1, <2>2 DEF TypeOK
<1> QED
  BY <1>1, <1>2, <1>3, <1>4, <1>5, <1>6, <1>7, <1>8, <1>9, <1>10, <1>11, <1>12,
     <1>13, <1>14, <1>15, <1>16, <1>17, <1>18, <1>19, <1>20, <1>21, <1>22,
     <1>23, <1>24, <1>25
  DEF Arrival, ThreadStep, WorkerStep

\* Nothing outside the threads breaks the types either.
LEMMA WorldType ==
    ASSUME TypeOK, Crash \/ Restart \/ Resize
    PROVE  TypeOK'
<1>1. CASE Crash
  <2>1. EngineTypeOK'
    BY <1>1, EmptyMapType DEF Crash, TypeOK, EngineTypeOK
  <2>2. ThreadTypeOK'
    BY <1>1, ZeroInSlot DEF Crash, ThreadTypeOK, FreePc, Label
  <2> QED
    BY <1>1, <2>1, <2>2
    DEF Crash, TypeOK, ServerTypeOK, StoreTypeOK, serverVars, storeVars
<1>2. CASE Restart
  <2>1. ServerTypeOK'
    BY <1>2 DEF Restart, ServerRestart, TypeOK, ServerTypeOK
  <2> QED
    BY <1>2, <2>1
    DEF Restart, TypeOK, StoreTypeOK, EngineTypeOK, ThreadTypeOK, storeVars,
        mapVars, checkVars, localVars
<1>3. CASE Resize
  <2>1. ServerTypeOK'
    BY <1>3 DEF Resize, ServerResize, TypeOK, ServerTypeOK
  <2> QED
    BY <1>3, <2>1
    DEF Resize, TypeOK, StoreTypeOK, EngineTypeOK, ThreadTypeOK, storeVars,
        mapVars, checkVars, localVars
<1> QED BY <1>1, <1>2, <1>3

\* The initial states are well typed.
LEMMA TypeInit == Init => TypeOK
<1> SUFFICES ASSUME Init PROVE TypeOK
  OBVIOUS
<1>1. ServerTypeOK
  BY CagSlotsAssumption DEF Init, ServerInit, ServerTypeOK
<1>2. StoreTypeOK
  BY DEF Init, StoreInit, StoreTypeOK
<1>3. EngineTypeOK
  BY EmptyMapType DEF Init, EngineTypeOK
<1>4. ThreadTypeOK
  BY ZeroInSlot DEF Init, ThreadTypeOK, FreePc, Label
<1> QED BY <1>1, <1>2, <1>3, <1>4 DEF TypeOK

\* Every step keeps the types.
LEMMA TypeNext == TypeOK /\ [Next]_vars => TypeOK'
<1>1. ASSUME TypeOK, Next PROVE TypeOK'
  BY <1>1, StepType, WorldType DEF Next
<1>2. ASSUME TypeOK, UNCHANGED vars PROVE TypeOK'
  BY <1>2
  DEF vars, TypeOK, ServerTypeOK, StoreTypeOK, EngineTypeOK, ThreadTypeOK,
      serverVars, storeVars, mapVars, checkVars, localVars
<1> QED BY <1>1, <1>2

\* The types of every variable hold in every reachable state.
THEOREM TypeCorrect == Spec => []TypeOK
BY TypeInit, TypeNext, PTL DEF Spec

-----------------------------------------------------------------------------
\* No stranded file.

\* No thread that is settling a file is disturbed.
KeepsAccounts ==
    \A p \in Process : pc[p] \in SettlingPc => pc'[p] = pc[p] /\ doc'[p] = doc[p]

\* A row that names its file goes on doing so.
KeepsRows ==
    \A d \in Doc : d \in Live /\ hasFile[d] => (d \in Live /\ hasFile[d])'

\* Files may only disappear.
NoNewFile == \A d \in Doc : files'[d] \in {files[d], NoFile}

\* A step that saves nothing and disturbs neither rows nor settling threads.
LEMMA QuietStep ==
    ASSUME NoStrandedFile, KeepsAccounts, KeepsRows, NoNewFile
    PROVE  NoStrandedFile'
BY DEF NoStrandedFile, Accounts, KeepsAccounts, KeepsRows, NoNewFile

\* The fingerprint check removes files and creates none.
LEMMA CheckRemoves ==
    ASSUME TypeOK, NEW force, CheckReturns(force) \/ CheckRaises(force)
    PROVE  NoNewFile
<1>1. CASE UNCHANGED files
  BY <1>1 DEF NoNewFile
<1>2. CASE Fingerprint /\ files' # files
  <2>1. PICK kept : files' = [d \in Doc |-> IF d \in CacheFiles \ kept
                                          THEN NoFile ELSE files[d]]
    BY <1>2 DEF Fingerprint
  <2> QED BY <2>1 DEF NoNewFile
<1> QED BY <1>1, <1>2 DEF CheckReturns, CheckRaises

\* A thread that is not settling a file moves on.
LEMMA ThreadMoves ==
    ASSUME TypeOK, NEW p \in Process, pc[p] \notin SettlingPc,
           Finish(p) \/ (\E where : Goto(p, where))
    PROVE  KeepsAccounts
BY DEF TypeOK, ThreadTypeOK, KeepsAccounts, Finish, Goto, At, localVars

\* A step that does not touch the table keeps what its rows name.
LEMMA SameRows ==
    ASSUME UNCHANGED storeVars
    PROVE  KeepsRows
BY DEF KeepsRows, storeVars, Live

\* What the instances without crashes, lost replies, and failing unlinks or
\* updates have in common, in Docker mode.
FilesReliable ==
    /\ Shared
    /\ Faults \cap {"lostsave", "crash", "db", "unlink"} = {}

\* The steps that neither save a file nor settle one.
LEMMA QuietSteps ==
    ASSUME TypeOK, NoStrandedFile, NEW t \in Thread,
           \/ IngestFind(t) \/ IngestInsert(t) \/ IngestGivesUp(t) \/ WarmLock(t)
           \/ WarmSlot(t) \/ WarmChat(t) \/ IngestMarkFailed(t) \/ IngestGoneUnmap(t)
           \/ QueryRead(t) \/ QueryLock(t) \/ QuerySlot(t) \/ QueryRecheck(t)
           \/ QueryRestore(t) \/ QueryChat(t) \/ QueryChatFails(t) \/ QueryUnmap(t)
           \/ DeleteUnmap(t)
    PROVE  NoStrandedFile'
<1>1. CASE IngestFind(t)
  <2>1. KeepsAccounts
    BY <1>1, ThreadIsProcess
    DEF IngestFind, TypeOK, ThreadTypeOK, KeepsAccounts, At, SettlingPc
  <2>2. KeepsRows /\ NoNewFile
    BY <1>1, SameRows DEF IngestFind, NoNewFile, serverVars
  <2> QED BY <2>1, <2>2, QuietStep
<1>2. CASE IngestInsert(t)
  <2>1. KeepsAccounts
    BY <1>2, ThreadIsProcess
    DEF IngestInsert, TypeOK, ThreadTypeOK, KeepsAccounts, At, SettlingPc
  <2>2. KeepsRows /\ NoNewFile
    BY <1>2
    DEF IngestInsert, InsertDocument, KeepsRows, Live, Status, NoNewFile,
        serverVars, TypeOK, StoreTypeOK
  <2> QED BY <2>1, <2>2, QuietStep
<1>3. CASE IngestGivesUp(t)
  <2>1. KeepsAccounts
    BY <1>3, ThreadMoves, ThreadIsProcess DEF IngestGivesUp, SettlingPc
  <2>2. KeepsRows /\ NoNewFile
    BY <1>3, SameRows DEF IngestGivesUp, NoNewFile, serverVars
  <2> QED BY <2>1, <2>2, QuietStep
<1>4. CASE WarmLock(t)
  <2>1. KeepsAccounts
    BY <1>4, ThreadMoves, ThreadIsProcess DEF WarmLock, SettlingPc
  <2>2. KeepsRows /\ NoNewFile
    BY <1>4, SameRows, CheckRemoves DEF WarmLock
  <2> QED BY <2>1, <2>2, QuietStep
<1>5. CASE WarmSlot(t)
  <2>1. KeepsAccounts
    BY <1>5, ThreadIsProcess
    DEF WarmSlot, TypeOK, ThreadTypeOK, KeepsAccounts, At, SettlingPc
  <2>2. KeepsRows /\ NoNewFile
    BY <1>5, SameRows DEF WarmSlot, NoNewFile
  <2> QED BY <2>1, <2>2, QuietStep
<1>6. CASE WarmChat(t)
  <2>1. KeepsAccounts
    BY <1>6, ThreadMoves, ThreadIsProcess DEF WarmChat, SettlingPc
  <2>2. KeepsRows /\ NoNewFile
    BY <1>6, SameRows DEF WarmChat, NoNewFile
  <2> QED BY <2>1, <2>2, QuietStep
<1>7. CASE IngestMarkFailed(t)
  <2>1. KeepsAccounts
    BY <1>7, ThreadMoves, ThreadIsProcess DEF IngestMarkFailed, SettlingPc
  <2>2. KeepsRows /\ NoNewFile
    BY <1>7, SameRows
    DEF IngestMarkFailed, MarkFailed, KeepsRows, Live, Status, NoNewFile,
        serverVars, TypeOK, StoreTypeOK
  <2> QED BY <2>1, <2>2, QuietStep
<1>8. CASE IngestGoneUnmap(t)
  <2>1. KeepsAccounts
    BY <1>8, ThreadMoves, ThreadIsProcess DEF IngestGoneUnmap, SettlingPc
  <2>2. KeepsRows /\ NoNewFile
    BY <1>8, SameRows DEF IngestGoneUnmap, NoNewFile, serverVars
  <2> QED BY <2>1, <2>2, QuietStep
<1>9. CASE QueryRead(t)
  <2>1. KeepsAccounts
    BY <1>9, ThreadIsProcess
    DEF QueryRead, TypeOK, ThreadTypeOK, KeepsAccounts, At, SettlingPc
  <2>2. KeepsRows /\ NoNewFile
    BY <1>9, SameRows DEF QueryRead, NoNewFile, serverVars
  <2> QED BY <2>1, <2>2, QuietStep
<1>10. CASE QueryLock(t)
  <2>1. KeepsAccounts
    BY <1>10, ThreadMoves, ThreadIsProcess DEF QueryLock, SettlingPc
  <2>2. KeepsRows /\ NoNewFile
    BY <1>10, SameRows, CheckRemoves DEF QueryLock
  <2> QED BY <2>1, <2>2, QuietStep
<1>11. CASE QuerySlot(t)
  <2>1. KeepsAccounts
    BY <1>11, ThreadIsProcess
    DEF QuerySlot, TypeOK, ThreadTypeOK, KeepsAccounts, At, SettlingPc
  <2>2. KeepsRows /\ NoNewFile
    BY <1>11, SameRows DEF QuerySlot, NoNewFile, serverVars
  <2> QED BY <2>1, <2>2, QuietStep
<1>12. CASE QueryRecheck(t)
  <2>1. KeepsAccounts
    BY <1>12, ThreadMoves, ThreadIsProcess DEF QueryRecheck, SettlingPc
  <2>2. KeepsRows /\ NoNewFile
    BY <1>12, SameRows, CheckRemoves DEF QueryRecheck
  <2> QED BY <2>1, <2>2, QuietStep
<1>13. CASE QueryRestore(t)
  <2>1. KeepsAccounts
    BY <1>13, ThreadIsProcess
    DEF QueryRestore, TypeOK, ThreadTypeOK, KeepsAccounts, At, SettlingPc
  <2>2. KeepsRows /\ NoNewFile
    BY <1>13, SameRows DEF QueryRestore, NoNewFile
  <2> QED BY <2>1, <2>2, QuietStep
<1>14. CASE QueryChat(t)
  <2>1. KeepsAccounts
    BY <1>14, ThreadMoves, ThreadIsProcess
    DEF QueryChat, Spawn, TypeOK, ThreadTypeOK, KeepsAccounts, At, SettlingPc
  <2>2. KeepsRows /\ NoNewFile
    BY <1>14, SameRows DEF QueryChat, NoNewFile
  <2> QED BY <2>1, <2>2, QuietStep
<1>15. CASE QueryChatFails(t)
  <2>1. KeepsAccounts
    BY <1>15, ThreadMoves, ThreadIsProcess DEF QueryChatFails, SettlingPc
  <2>2. KeepsRows /\ NoNewFile
    BY <1>15, SameRows DEF QueryChatFails, NoNewFile
  <2> QED BY <2>1, <2>2, QuietStep
<1>16. CASE QueryUnmap(t)
  <2>1. KeepsAccounts
    BY <1>16, ThreadMoves, ThreadIsProcess DEF QueryUnmap, SettlingPc
  <2>2. KeepsRows /\ NoNewFile
    BY <1>16, SameRows DEF QueryUnmap, NoNewFile, serverVars
  <2> QED BY <2>1, <2>2, QuietStep
<1>17. CASE DeleteUnmap(t)
  <2>1. KeepsAccounts
    BY <1>17, ThreadMoves, ThreadIsProcess
    DEF DeleteUnmap, localVars, TypeOK, ThreadTypeOK, KeepsAccounts, At,
        SettlingPc
  <2>2. KeepsRows /\ NoNewFile
    BY <1>17, SameRows DEF DeleteUnmap, NoNewFile
  <2> QED BY <2>1, <2>2, QuietStep
<1> QED
  BY <1>1, <1>2, <1>3, <1>4, <1>5, <1>6, <1>7, <1>8, <1>9, <1>10, <1>11, <1>12,
     <1>13, <1>14, <1>15, <1>16, <1>17

\* A warm or a re-save that has written doc-<d>.bin accounts for it.
LEMMA SaveSteps ==
    ASSUME TypeOK, NoStrandedFile, FilesReliable,
           \/ \E t \in Thread : WarmSave(t)
           \/ \E w \in Worker : ResaveSave(w)
    PROVE  NoStrandedFile'
<1>1. CASE \E t \in Thread : WarmSave(t)
  <2>1. PICK t \in Thread : WarmSave(t)
    BY <1>1
  <2>2. KeepsAccounts
    BY <2>1, ThreadMoves, ThreadIsProcess DEF WarmSave, SettlingPc
  <2>3. KeepsRows
    BY <2>1, SameRows DEF WarmSave
  <2>4. CASE SlotSave(slot[t], doc[t]) /\ Goto(t, "mark_cached")
    <3>1. Accounts(t, doc[t])'
      BY <2>4, ThreadIsProcess
      DEF Accounts, Goto, At, localVars, SettlingPc, TypeOK, ThreadTypeOK
    <3>2. \A d \in Doc : d # doc[t] => files'[d] = files[d]
      BY <2>4 DEF SlotSave, TypeOK, ServerTypeOK
    <3>3. doc'[t] = doc[t]
      BY <2>4 DEF Goto, localVars
    <3> QED
      BY <3>1, <3>2, <3>3, <2>2, <2>3, ThreadIsProcess
      DEF NoStrandedFile, Accounts, KeepsAccounts, KeepsRows
  <2>5. CASE SlotSaveFails(slot[t], doc[t])
    BY <2>2, <2>3, <2>5, QuietStep DEF SlotSaveFails, FilesReliable, NoNewFile
  <2> QED BY <2>1, <2>4, <2>5 DEF WarmSave
<1>2. CASE \E w \in Worker : ResaveSave(w)
  <2>1. PICK w \in Worker : ResaveSave(w)
    BY <1>2
  <2>2. KeepsAccounts
    BY <2>1, ThreadMoves, ThreadIsProcess DEF ResaveSave, SettlingPc
  <2>3. KeepsRows
    BY <2>1, SameRows DEF ResaveSave
  <2>4. CASE SlotSave(slot[w], doc[w]) /\ Goto(w, "resave_mark")
    <3>1. Accounts(w, doc[w])'
      BY <2>4, ThreadIsProcess
      DEF Accounts, Goto, At, localVars, SettlingPc, TypeOK, ThreadTypeOK
    <3>2. \A d \in Doc : d # doc[w] => files'[d] = files[d]
      BY <2>4 DEF SlotSave, TypeOK, ServerTypeOK
    <3>3. doc'[w] = doc[w]
      BY <2>4 DEF Goto, localVars
    <3> QED
      BY <3>1, <3>2, <3>3, <2>2, <2>3, ThreadIsProcess
      DEF NoStrandedFile, Accounts, KeepsAccounts, KeepsRows
  <2>5. CASE UNCHANGED files
    BY <2>2, <2>3, <2>5, QuietStep DEF NoNewFile
  <2>6. SlotSaveFails(slot[w], doc[w]) => UNCHANGED files
    BY DEF SlotSaveFails, FilesReliable
  <2> QED BY <2>1, <2>4, <2>5, <2>6 DEF ResaveSave
<1> QED BY <1>1, <1>2

\* What settling comes to: p stops accounting for its document e only when a
\* row names the file or the file is gone.
LEMMA SettleStep ==
    ASSUME TypeOK, NoStrandedFile, KeepsRows, NoNewFile,
           NEW p \in Process, NEW e \in Doc, e = doc[p],
           \A q \in Process \ {p} :
               pc[q] \in SettlingPc => pc'[q] = pc[q] /\ doc'[q] = doc[q],
           \/ doc'[p] = e /\ pc'[p] \in SettlingPc
           \/ files'[e] = NoFile
           \/ (e \in Live /\ hasFile[e])'
    PROVE  NoStrandedFile'
<1> SUFFICES ASSUME NEW d \in Doc, files'[d] # NoFile
             PROVE  \/ (d \in Live /\ hasFile[d])'
                    \/ \E q \in Process : Accounts(q, d)'
  BY DEF NoStrandedFile, Accounts
<1>1. files[d] # NoFile
  BY DEF NoNewFile
<1>2. CASE d \in Live /\ hasFile[d]
  BY <1>2 DEF KeepsRows
<1>3. CASE \E q \in Process \ {p} : Accounts(q, d)
  BY <1>3 DEF Accounts
<1>4. CASE Accounts(p, d)
  BY <1>4 DEF Accounts
<1> QED BY <1>1, <1>2, <1>3, <1>4 DEF NoStrandedFile

\* The steps that report a file to the table or remove it.
LEMMA SettleSteps ==
    ASSUME TypeOK, NoStrandedFile, FilesReliable,
           \/ \E t \in Thread : \/ IngestMarkCached(t) \/ IngestGoneUnlink(t)
                                \/ DeleteRow(t) \/ DeleteUnlink(t)
           \/ \E w \in Worker : ResaveMark(w) \/ ResaveUnlink(w)
    PROVE  NoStrandedFile'
<1>1. ASSUME NEW t \in Thread, IngestMarkCached(t) PROVE NoStrandedFile'
  <2>1. t \in Process /\ doc[t] \in Doc
    BY <1>1, BusyType, ThreadIsProcess DEF IngestMarkCached
  <2>2. \A q \in Process \ {t} :
            pc[q] \in SettlingPc => pc'[q] = pc[q] /\ doc'[q] = doc[q]
    BY <1>1
    DEF IngestMarkCached, Goto, Finish, At, localVars, TypeOK, ThreadTypeOK
  <2>3. KeepsRows /\ NoNewFile
    BY <1>1, SameRows
    DEF IngestMarkCached, MarkCached, RowFound, KeepsRows, Live, Status, NoNewFile,
        serverVars, TypeOK, StoreTypeOK
  <2>4. \/ doc'[t] = doc[t] /\ pc'[t] \in SettlingPc
        \/ files'[doc[t]] = NoFile
        \/ \E e \in Doc : e = doc[t] /\ (e \in Live /\ hasFile[e])'
    BY <1>1, <2>1
    DEF IngestMarkCached, MarkCached, RowFound, Live, Status, Goto, At, localVars,
        SettlingPc, FilesReliable, TypeOK, StoreTypeOK, ThreadTypeOK
  <2> QED BY <2>1, <2>2, <2>3, <2>4, SettleStep
<1>2. ASSUME NEW t \in Thread, IngestGoneUnlink(t) PROVE NoStrandedFile'
  <2>1. t \in Process /\ doc[t] \in Doc
    BY <1>2, BusyType, ThreadIsProcess DEF IngestGoneUnlink
  <2>2. \A q \in Process \ {t} :
            pc[q] \in SettlingPc => pc'[q] = pc[q] /\ doc'[q] = doc[q]
    BY <1>2
    DEF IngestGoneUnlink, Goto, Finish, At, localVars, TypeOK, ThreadTypeOK
  <2>3. KeepsRows /\ NoNewFile
    BY <1>2, SameRows
    DEF IngestGoneUnlink, Unlink, NoNewFile, FilesReliable, TypeOK,
        ServerTypeOK
  <2>4. \/ doc'[t] = doc[t] /\ pc'[t] \in SettlingPc
        \/ files'[doc[t]] = NoFile
        \/ \E e \in Doc : e = doc[t] /\ (e \in Live /\ hasFile[e])'
    BY <1>2, <2>1
    DEF IngestGoneUnlink, Unlink, FilesReliable, TypeOK, ServerTypeOK
  <2> QED BY <2>1, <2>2, <2>3, <2>4, SettleStep
<1>3. ASSUME NEW t \in Thread, DeleteUnlink(t) PROVE NoStrandedFile'
  <2>1. t \in Process /\ doc[t] \in Doc
    BY <1>3, BusyType, ThreadIsProcess DEF DeleteUnlink
  <2>2. \A q \in Process \ {t} :
            pc[q] \in SettlingPc => pc'[q] = pc[q] /\ doc'[q] = doc[q]
    BY <1>3 DEF DeleteUnlink, Goto, Finish, At, localVars, TypeOK, ThreadTypeOK
  <2>3. KeepsRows /\ NoNewFile
    BY <1>3, SameRows
    DEF DeleteUnlink, Unlink, NoNewFile, FilesReliable, TypeOK, ServerTypeOK
  <2>4. \/ doc'[t] = doc[t] /\ pc'[t] \in SettlingPc
        \/ files'[doc[t]] = NoFile
        \/ \E e \in Doc : e = doc[t] /\ (e \in Live /\ hasFile[e])'
    BY <1>3, <2>1 DEF DeleteUnlink, Unlink, FilesReliable, TypeOK, ServerTypeOK
  <2> QED BY <2>1, <2>2, <2>3, <2>4, SettleStep
<1>4. ASSUME NEW w \in Worker, ResaveMark(w) PROVE NoStrandedFile'
  <2>1. w \in Process /\ doc[w] \in Doc
    BY <1>4, BusyType, ThreadIsProcess DEF ResaveMark
  <2>2. \A q \in Process \ {w} :
            pc[q] \in SettlingPc => pc'[q] = pc[q] /\ doc'[q] = doc[q]
    BY <1>4 DEF ResaveMark, Goto, Finish, At, localVars, TypeOK, ThreadTypeOK
  <2>3. KeepsRows /\ NoNewFile
    BY <1>4, SameRows
    DEF ResaveMark, MarkCached, RowFound, KeepsRows, Live, Status, NoNewFile, serverVars,
        TypeOK, StoreTypeOK
  <2>4. \/ doc'[w] = doc[w] /\ pc'[w] \in SettlingPc
        \/ files'[doc[w]] = NoFile
        \/ \E e \in Doc : e = doc[w] /\ (e \in Live /\ hasFile[e])'
    BY <1>4, <2>1
    DEF ResaveMark, MarkCached, RowFound, Live, Status, Goto, At, localVars, SettlingPc,
        FilesReliable, TypeOK, StoreTypeOK, ThreadTypeOK
  <2> QED BY <2>1, <2>2, <2>3, <2>4, SettleStep
<1>5. ASSUME NEW w \in Worker, ResaveUnlink(w) PROVE NoStrandedFile'
  <2>1. w \in Process /\ doc[w] \in Doc
    BY <1>5, BusyType, ThreadIsProcess DEF ResaveUnlink
  <2>2. \A q \in Process \ {w} :
            pc[q] \in SettlingPc => pc'[q] = pc[q] /\ doc'[q] = doc[q]
    BY <1>5 DEF ResaveUnlink, Goto, Finish, At, localVars, TypeOK, ThreadTypeOK
  <2>3. KeepsRows /\ NoNewFile
    BY <1>5, SameRows
    DEF ResaveUnlink, Unlink, NoNewFile, FilesReliable, TypeOK, ServerTypeOK
  <2>4. \/ doc'[w] = doc[w] /\ pc'[w] \in SettlingPc
        \/ files'[doc[w]] = NoFile
        \/ \E e \in Doc : e = doc[w] /\ (e \in Live /\ hasFile[e])'
    BY <1>5, <2>1 DEF ResaveUnlink, Unlink, FilesReliable, TypeOK, ServerTypeOK
  <2> QED BY <2>1, <2>2, <2>3, <2>4, SettleStep
<1>6. ASSUME NEW t \in Thread, DeleteRow(t) PROVE NoStrandedFile'
  <2>1. PICK d \in Live :
          /\ DeleteDocument(d)
          /\ doc' = [doc EXCEPT ![t] = d]
          /\ At(t, IF hasFile[d] THEN "del_unlink" ELSE "del_unmap")
    BY <1>6 DEF DeleteRow
  <2>2. UNCHANGED files
    BY <1>6 DEF DeleteRow, serverVars
  <2>3. KeepsAccounts
    BY <1>6, ThreadIsProcess
    DEF DeleteRow, At, KeepsAccounts, SettlingPc, TypeOK, ThreadTypeOK
  <2>4. \A e \in Doc \ {d} : e \in Live /\ hasFile[e] => (e \in Live /\ hasFile[e])'
    BY <2>1 DEF DeleteDocument, Live, TypeOK, StoreTypeOK
  <2>5. hasFile[d] => doc'[t] = d /\ pc'[t] \in SettlingPc
    BY <2>1, ThreadIsProcess DEF At, SettlingPc, TypeOK, ThreadTypeOK
  <2> SUFFICES ASSUME NEW e \in Doc, files'[e] # NoFile
               PROVE  \/ (e \in Live /\ hasFile[e])'
                      \/ \E q \in Process : Accounts(q, e)'
    BY DEF NoStrandedFile, Accounts
  <2>6. CASE e = d /\ hasFile[d]
    BY <2>5, <2>6, ThreadIsProcess DEF Accounts
  <2>7. CASE e # d /\ e \in Live /\ hasFile[e]
    BY <2>4, <2>7
  <2>8. CASE \E q \in Process : Accounts(q, e)
    BY <2>3, <2>8 DEF KeepsAccounts, Accounts
  <2> QED BY <2>2, <2>6, <2>7, <2>8 DEF NoStrandedFile
<1> QED
  BY <1>1, <1>2, <1>3, <1>4, <1>5, <1>6

LEMMA StrandedInit == Init => NoStrandedFile
BY DEF Init, ServerInit, NoStrandedFile

LEMMA StrandedNext ==
    ASSUME FilesReliable, TypeOK, NoStrandedFile, [Next]_vars
    PROVE  NoStrandedFile'
<1>1. CASE \E t \in Thread : Arrival(t) \/ ThreadStep(t)
  BY <1>1, QuietSteps, SaveSteps, SettleSteps DEF Arrival, ThreadStep
<1>2. CASE \E w \in Worker : WorkerStep(w)
  BY <1>2, SaveSteps, SettleSteps DEF WorkerStep
<1>3. CASE Crash
  BY <1>3 DEF Crash, FilesReliable
<1>4. CASE Restart \/ Resize \/ UNCHANGED vars
  <2>1. UNCHANGED <<files, storeVars, pc, doc>>
    BY <1>4
    DEF Restart, ServerRestart, Resize, ServerResize, vars, serverVars, localVars
  <2> QED
    BY <2>1, SameRows, QuietStep DEF KeepsAccounts, NoNewFile
<1> QED
  BY <1>1, <1>2, <1>3, <1>4 DEF Next

\* Without crashes, lost replies, failing unlinks and failing updates, no
\* interleaving of warms, queries, re-saves and deletes strands a cache file.
THEOREM NothingStranded ==
    ASSUME FilesReliable
    PROVE  Spec => []NoStrandedFile
<1>1. TypeOK /\ NoStrandedFile /\ [Next]_vars => NoStrandedFile'
  BY StrandedNext
<1> QED
  BY <1>1, StrandedInit, TypeCorrect, PTL DEF Spec


-----------------------------------------------------------------------------
(***************************************************************************)
(* The big lock and the slot map.                                          *)
(*                                                                         *)
(* The big lock is held by at most the thread that acts under it, and so   *)
(* the slot map never believes a document hot in two slots; every occupied *)
(* slot has a timestamp, and so there is always a slot to use.  No fault   *)
(* is excluded: these hold through crashes, restarts and slot-count drift. *)
(***************************************************************************)

\* Whoever is past acquiring the big lock is its owner.
LockHeld == \A p \in Process : pc[p] \in LockedPc => lock = p

\* While a warm is between claiming its slot and mapping it, the document it
\* warms is mapped nowhere else.
WarmingPc == {"warm_chat", "warm_save"}
WarmUnmapped ==
    \A t \in Thread : pc[t] \in WarmingPc =>
        \A s \in Slot : slots[s] = doc[t] => s = slot[t]

\* A step by p that takes the lock only when it is free, keeps it while p needs
\* it, and moves no other thread to a place where the lock is held.
LEMMA LockStep ==
    ASSUME TypeOK, LockHeld, NEW p \in Process,
           \A q \in Process \ {p} : pc'[q] \in LockedPc => pc[q] \in LockedPc,
           pc'[p] \in LockedPc => lock' = p,
           lock \in {None, p} \/ UNCHANGED lock
    PROVE  LockHeld'
BY EngineAssumption DEF LockHeld

\* Every step of a request thread respects the lock.
LEMMA LockThreadSteps ==
    ASSUME TypeOK, LockHeld, NEW t \in Thread, Arrival(t) \/ ThreadStep(t)
    PROVE  LockHeld'
<1>1. t \in Process
  BY ThreadIsProcess
<1>2. CASE IngestFind(t)
  <2>1. \A q \in Process \ {t} : pc'[q] \in LockedPc => pc[q] \in LockedPc
    BY <1>1, <1>2
    DEF IngestFind, Goto, Finish, At, Release, LockedPc, TypeOK, ThreadTypeOK
  <2>2. pc'[t] \in LockedPc => lock' = t
    BY <1>1, <1>2
    DEF LockHeld, IngestFind, Goto, Finish, At, Release, LockedPc, TypeOK,
        ThreadTypeOK
  <2>3. lock \in {None, t} \/ UNCHANGED lock
    BY <1>1, <1>2 DEF LockHeld, LockedPc, IngestFind
  <2> QED BY <1>1, <2>1, <2>2, <2>3, LockStep
<1>3. CASE IngestInsert(t)
  <2>1. \A q \in Process \ {t} : pc'[q] \in LockedPc => pc[q] \in LockedPc
    BY <1>1, <1>3
    DEF IngestInsert, Goto, Finish, At, Release, LockedPc, TypeOK, ThreadTypeOK
  <2>2. pc'[t] \in LockedPc => lock' = t
    BY <1>1, <1>3
    DEF LockHeld, IngestInsert, Goto, Finish, At, Release, LockedPc, TypeOK,
        ThreadTypeOK
  <2>3. lock \in {None, t} \/ UNCHANGED lock
    BY <1>1, <1>3 DEF LockHeld, LockedPc, IngestInsert
  <2> QED BY <1>1, <2>1, <2>2, <2>3, LockStep
<1>4. CASE IngestGivesUp(t)
  <2>1. \A q \in Process \ {t} : pc'[q] \in LockedPc => pc[q] \in LockedPc
    BY <1>1, <1>4
    DEF IngestGivesUp, Goto, Finish, At, Release, LockedPc, TypeOK,
        ThreadTypeOK
  <2>2. pc'[t] \in LockedPc => lock' = t
    BY <1>1, <1>4
    DEF LockHeld, IngestGivesUp, Goto, Finish, At, Release, LockedPc, TypeOK,
        ThreadTypeOK
  <2>3. lock \in {None, t} \/ UNCHANGED lock
    BY <1>1, <1>4 DEF LockHeld, LockedPc, IngestGivesUp
  <2> QED BY <1>1, <2>1, <2>2, <2>3, LockStep
<1>5. CASE WarmLock(t)
  <2>1. \A q \in Process \ {t} : pc'[q] \in LockedPc => pc[q] \in LockedPc
    BY <1>1, <1>5
    DEF WarmLock, Goto, Finish, At, Release, LockedPc, TypeOK, ThreadTypeOK
  <2>2. pc'[t] \in LockedPc => lock' = t
    BY <1>1, <1>5
    DEF LockHeld, WarmLock, Goto, Finish, At, Release, LockedPc, TypeOK,
        ThreadTypeOK
  <2>3. lock \in {None, t} \/ UNCHANGED lock
    BY <1>1, <1>5 DEF LockHeld, LockedPc, WarmLock
  <2> QED BY <1>1, <2>1, <2>2, <2>3, LockStep
<1>6. CASE WarmSlot(t)
  <2>1. \A q \in Process \ {t} : pc'[q] \in LockedPc => pc[q] \in LockedPc
    BY <1>1, <1>6
    DEF WarmSlot, Goto, Finish, At, Release, LockedPc, TypeOK, ThreadTypeOK
  <2>2. pc'[t] \in LockedPc => lock' = t
    BY <1>1, <1>6
    DEF LockHeld, WarmSlot, Goto, Finish, At, Release, LockedPc, TypeOK,
        ThreadTypeOK
  <2>3. lock \in {None, t} \/ UNCHANGED lock
    BY <1>1, <1>6 DEF LockHeld, LockedPc, WarmSlot
  <2> QED BY <1>1, <2>1, <2>2, <2>3, LockStep
<1>7. CASE WarmChat(t)
  <2>1. \A q \in Process \ {t} : pc'[q] \in LockedPc => pc[q] \in LockedPc
    BY <1>1, <1>7
    DEF WarmChat, Goto, Finish, At, Release, LockedPc, TypeOK, ThreadTypeOK
  <2>2. pc'[t] \in LockedPc => lock' = t
    BY <1>1, <1>7
    DEF LockHeld, WarmChat, Goto, Finish, At, Release, LockedPc, TypeOK,
        ThreadTypeOK
  <2>3. lock \in {None, t} \/ UNCHANGED lock
    BY <1>1, <1>7 DEF LockHeld, LockedPc, WarmChat
  <2> QED BY <1>1, <2>1, <2>2, <2>3, LockStep
<1>8. CASE WarmSave(t)
  <2>1. \A q \in Process \ {t} : pc'[q] \in LockedPc => pc[q] \in LockedPc
    BY <1>1, <1>8
    DEF WarmSave, Goto, Finish, At, Release, LockedPc, TypeOK, ThreadTypeOK
  <2>2. pc'[t] \in LockedPc => lock' = t
    BY <1>1, <1>8
    DEF LockHeld, WarmSave, Goto, Finish, At, Release, LockedPc, TypeOK,
        ThreadTypeOK
  <2>3. lock \in {None, t} \/ UNCHANGED lock
    BY <1>1, <1>8 DEF LockHeld, LockedPc, WarmSave
  <2> QED BY <1>1, <2>1, <2>2, <2>3, LockStep
<1>9. CASE IngestMarkCached(t)
  <2>1. \A q \in Process \ {t} : pc'[q] \in LockedPc => pc[q] \in LockedPc
    BY <1>1, <1>9
    DEF IngestMarkCached, Goto, Finish, At, Release, LockedPc, TypeOK,
        ThreadTypeOK
  <2>2. pc'[t] \in LockedPc => lock' = t
    BY <1>1, <1>9
    DEF LockHeld, IngestMarkCached, Goto, Finish, At, Release, LockedPc,
        TypeOK, ThreadTypeOK
  <2>3. lock \in {None, t} \/ UNCHANGED lock
    BY <1>1, <1>9 DEF LockHeld, LockedPc, IngestMarkCached
  <2> QED BY <1>1, <2>1, <2>2, <2>3, LockStep
<1>10. CASE IngestMarkFailed(t)
  <2>1. \A q \in Process \ {t} : pc'[q] \in LockedPc => pc[q] \in LockedPc
    BY <1>1, <1>10
    DEF IngestMarkFailed, Goto, Finish, At, Release, LockedPc, TypeOK,
        ThreadTypeOK
  <2>2. pc'[t] \in LockedPc => lock' = t
    BY <1>1, <1>10
    DEF LockHeld, IngestMarkFailed, Goto, Finish, At, Release, LockedPc,
        TypeOK, ThreadTypeOK
  <2>3. lock \in {None, t} \/ UNCHANGED lock
    BY <1>1, <1>10 DEF LockHeld, LockedPc, IngestMarkFailed
  <2> QED BY <1>1, <2>1, <2>2, <2>3, LockStep
<1>11. CASE IngestGoneUnlink(t)
  <2>1. \A q \in Process \ {t} : pc'[q] \in LockedPc => pc[q] \in LockedPc
    BY <1>1, <1>11
    DEF IngestGoneUnlink, Goto, Finish, At, Release, LockedPc, TypeOK,
        ThreadTypeOK
  <2>2. pc'[t] \in LockedPc => lock' = t
    BY <1>1, <1>11
    DEF LockHeld, IngestGoneUnlink, Goto, Finish, At, Release, LockedPc,
        TypeOK, ThreadTypeOK
  <2>3. lock \in {None, t} \/ UNCHANGED lock
    BY <1>1, <1>11 DEF LockHeld, LockedPc, IngestGoneUnlink
  <2> QED BY <1>1, <2>1, <2>2, <2>3, LockStep
<1>12. CASE IngestGoneUnmap(t)
  <2>1. \A q \in Process \ {t} : pc'[q] \in LockedPc => pc[q] \in LockedPc
    BY <1>1, <1>12
    DEF IngestGoneUnmap, Goto, Finish, At, Release, LockedPc, TypeOK,
        ThreadTypeOK
  <2>2. pc'[t] \in LockedPc => lock' = t
    BY <1>1, <1>12
    DEF LockHeld, IngestGoneUnmap, Goto, Finish, At, Release, LockedPc, TypeOK,
        ThreadTypeOK
  <2>3. lock \in {None, t} \/ UNCHANGED lock
    BY <1>1, <1>12 DEF LockHeld, LockedPc, IngestGoneUnmap
  <2> QED BY <1>1, <2>1, <2>2, <2>3, LockStep
<1>13. CASE QueryRead(t)
  <2>1. \A q \in Process \ {t} : pc'[q] \in LockedPc => pc[q] \in LockedPc
    BY <1>1, <1>13
    DEF QueryRead, Goto, Finish, At, Release, LockedPc, TypeOK, ThreadTypeOK
  <2>2. pc'[t] \in LockedPc => lock' = t
    BY <1>1, <1>13
    DEF LockHeld, QueryRead, Goto, Finish, At, Release, LockedPc, TypeOK,
        ThreadTypeOK
  <2>3. lock \in {None, t} \/ UNCHANGED lock
    BY <1>1, <1>13 DEF LockHeld, LockedPc, QueryRead
  <2> QED BY <1>1, <2>1, <2>2, <2>3, LockStep
<1>14. CASE QueryLock(t)
  <2>1. \A q \in Process \ {t} : pc'[q] \in LockedPc => pc[q] \in LockedPc
    BY <1>1, <1>14
    DEF QueryLock, Goto, Finish, At, Release, LockedPc, TypeOK, ThreadTypeOK
  <2>2. pc'[t] \in LockedPc => lock' = t
    BY <1>1, <1>14
    DEF LockHeld, QueryLock, Goto, Finish, At, Release, LockedPc, TypeOK,
        ThreadTypeOK
  <2>3. lock \in {None, t} \/ UNCHANGED lock
    BY <1>1, <1>14 DEF LockHeld, LockedPc, QueryLock
  <2> QED BY <1>1, <2>1, <2>2, <2>3, LockStep
<1>15. CASE QuerySlot(t)
  <2>1. \A q \in Process \ {t} : pc'[q] \in LockedPc => pc[q] \in LockedPc
    BY <1>1, <1>15
    DEF QuerySlot, Goto, Finish, At, Release, LockedPc, TypeOK, ThreadTypeOK
  <2>2. pc'[t] \in LockedPc => lock' = t
    BY <1>1, <1>15
    DEF LockHeld, QuerySlot, Goto, Finish, At, Release, LockedPc, TypeOK,
        ThreadTypeOK
  <2>3. lock \in {None, t} \/ UNCHANGED lock
    BY <1>1, <1>15 DEF LockHeld, LockedPc, QuerySlot
  <2> QED BY <1>1, <2>1, <2>2, <2>3, LockStep
<1>16. CASE QueryRecheck(t)
  <2>1. \A q \in Process \ {t} : pc'[q] \in LockedPc => pc[q] \in LockedPc
    BY <1>1, <1>16
    DEF QueryRecheck, Goto, Finish, At, Release, LockedPc, TypeOK, ThreadTypeOK
  <2>2. pc'[t] \in LockedPc => lock' = t
    BY <1>1, <1>16
    DEF LockHeld, QueryRecheck, Goto, Finish, At, Release, LockedPc, TypeOK,
        ThreadTypeOK
  <2>3. lock \in {None, t} \/ UNCHANGED lock
    BY <1>1, <1>16 DEF LockHeld, LockedPc, QueryRecheck
  <2> QED BY <1>1, <2>1, <2>2, <2>3, LockStep
<1>17. CASE QueryRestore(t)
  <2>1. \A q \in Process \ {t} : pc'[q] \in LockedPc => pc[q] \in LockedPc
    BY <1>1, <1>17
    DEF QueryRestore, Goto, Finish, At, Release, LockedPc, TypeOK, ThreadTypeOK
  <2>2. pc'[t] \in LockedPc => lock' = t
    BY <1>1, <1>17
    DEF LockHeld, QueryRestore, Goto, Finish, At, Release, LockedPc, TypeOK,
        ThreadTypeOK
  <2>3. lock \in {None, t} \/ UNCHANGED lock
    BY <1>1, <1>17 DEF LockHeld, LockedPc, QueryRestore
  <2> QED BY <1>1, <2>1, <2>2, <2>3, LockStep
<1>18. CASE QueryChat(t)
  <2>1. \A q \in Process \ {t} : pc'[q] \in LockedPc => pc[q] \in LockedPc
    BY <1>1, <1>18
    DEF QueryChat, Spawn, Goto, Finish, At, Release, LockedPc, TypeOK,
        ThreadTypeOK
  <2>2. pc'[t] \in LockedPc => lock' = t
    BY <1>1, <1>18
    DEF LockHeld, QueryChat, Spawn, Goto, Finish, At, Release, LockedPc,
        TypeOK, ThreadTypeOK
  <2>3. lock \in {None, t} \/ UNCHANGED lock
    BY <1>1, <1>18 DEF LockHeld, LockedPc, QueryChat
  <2> QED BY <1>1, <2>1, <2>2, <2>3, LockStep
<1>19. CASE QueryChatFails(t)
  <2>1. \A q \in Process \ {t} : pc'[q] \in LockedPc => pc[q] \in LockedPc
    BY <1>1, <1>19
    DEF QueryChatFails, Goto, Finish, At, Release, LockedPc, TypeOK,
        ThreadTypeOK
  <2>2. pc'[t] \in LockedPc => lock' = t
    BY <1>1, <1>19
    DEF LockHeld, QueryChatFails, Goto, Finish, At, Release, LockedPc, TypeOK,
        ThreadTypeOK
  <2>3. lock \in {None, t} \/ UNCHANGED lock
    BY <1>1, <1>19 DEF LockHeld, LockedPc, QueryChatFails
  <2> QED BY <1>1, <2>1, <2>2, <2>3, LockStep
<1>20. CASE QueryUnmap(t)
  <2>1. \A q \in Process \ {t} : pc'[q] \in LockedPc => pc[q] \in LockedPc
    BY <1>1, <1>20
    DEF QueryUnmap, Goto, Finish, At, Release, LockedPc, TypeOK, ThreadTypeOK
  <2>2. pc'[t] \in LockedPc => lock' = t
    BY <1>1, <1>20
    DEF LockHeld, QueryUnmap, Goto, Finish, At, Release, LockedPc, TypeOK,
        ThreadTypeOK
  <2>3. lock \in {None, t} \/ UNCHANGED lock
    BY <1>1, <1>20 DEF LockHeld, LockedPc, QueryUnmap
  <2> QED BY <1>1, <2>1, <2>2, <2>3, LockStep
<1>21. CASE DeleteRow(t)
  <2>1. \A q \in Process \ {t} : pc'[q] \in LockedPc => pc[q] \in LockedPc
    BY <1>1, <1>21
    DEF DeleteRow, Goto, Finish, At, Release, LockedPc, TypeOK, ThreadTypeOK
  <2>2. pc'[t] \in LockedPc => lock' = t
    BY <1>1, <1>21
    DEF LockHeld, DeleteRow, Goto, Finish, At, Release, LockedPc, TypeOK,
        ThreadTypeOK
  <2>3. lock \in {None, t} \/ UNCHANGED lock
    BY <1>1, <1>21 DEF LockHeld, LockedPc, DeleteRow
  <2> QED BY <1>1, <2>1, <2>2, <2>3, LockStep
<1>22. CASE DeleteUnlink(t)
  <2>1. \A q \in Process \ {t} : pc'[q] \in LockedPc => pc[q] \in LockedPc
    BY <1>1, <1>22
    DEF DeleteUnlink, Goto, Finish, At, Release, LockedPc, TypeOK, ThreadTypeOK
  <2>2. pc'[t] \in LockedPc => lock' = t
    BY <1>1, <1>22
    DEF LockHeld, DeleteUnlink, Goto, Finish, At, Release, LockedPc, TypeOK,
        ThreadTypeOK
  <2>3. lock \in {None, t} \/ UNCHANGED lock
    BY <1>1, <1>22 DEF LockHeld, LockedPc, DeleteUnlink
  <2> QED BY <1>1, <2>1, <2>2, <2>3, LockStep
<1>23. CASE DeleteUnmap(t)
  <2>1. \A q \in Process \ {t} : pc'[q] \in LockedPc => pc[q] \in LockedPc
    BY <1>1, <1>23
    DEF DeleteUnmap, localVars, Goto, Finish, At, Release, LockedPc, TypeOK,
        ThreadTypeOK
  <2>2. pc'[t] \in LockedPc => lock' = t
    BY <1>1, <1>23
    DEF LockHeld, DeleteUnmap, localVars, Goto, Finish, At, Release, LockedPc,
        TypeOK, ThreadTypeOK
  <2>3. lock \in {None, t} \/ UNCHANGED lock
    BY <1>1, <1>23 DEF LockHeld, LockedPc, DeleteUnmap
  <2> QED BY <1>1, <2>1, <2>2, <2>3, LockStep
<1> QED
  BY <1>2, <1>3, <1>4, <1>5, <1>6, <1>7, <1>8, <1>9, <1>10, <1>11, <1>12,
     <1>13, <1>14, <1>15, <1>16, <1>17, <1>18, <1>19, <1>20, <1>21, <1>22,
     <1>23
  DEF Arrival, ThreadStep, WorkerStep

\* Every step of a deferred re-save respects the lock.
LEMMA LockWorkerSteps ==
    ASSUME TypeOK, LockHeld, NEW w \in Worker, WorkerStep(w)
    PROVE  LockHeld'
<1>1. w \in Process
  BY ThreadIsProcess
<1>2. CASE ResaveSave(w)
  <2>1. \A q \in Process \ {w} : pc'[q] \in LockedPc => pc[q] \in LockedPc
    BY <1>1, <1>2
    DEF ResaveSave, Goto, Finish, At, Release, LockedPc, TypeOK, ThreadTypeOK
  <2>2. pc'[w] \in LockedPc => lock' = w
    BY <1>1, <1>2
    DEF LockHeld, ResaveSave, Goto, Finish, At, Release, LockedPc, TypeOK,
        ThreadTypeOK
  <2>3. lock \in {None, w} \/ UNCHANGED lock
    BY <1>1, <1>2 DEF LockHeld, LockedPc, ResaveSave
  <2> QED BY <1>1, <2>1, <2>2, <2>3, LockStep
<1>3. CASE ResaveMark(w)
  <2>1. \A q \in Process \ {w} : pc'[q] \in LockedPc => pc[q] \in LockedPc
    BY <1>1, <1>3
    DEF ResaveMark, Goto, Finish, At, Release, LockedPc, TypeOK, ThreadTypeOK
  <2>2. pc'[w] \in LockedPc => lock' = w
    BY <1>1, <1>3
    DEF LockHeld, ResaveMark, Goto, Finish, At, Release, LockedPc, TypeOK,
        ThreadTypeOK
  <2>3. lock \in {None, w} \/ UNCHANGED lock
    BY <1>1, <1>3 DEF LockHeld, LockedPc, ResaveMark
  <2> QED BY <1>1, <2>1, <2>2, <2>3, LockStep
<1>4. CASE ResaveUnlink(w)
  <2>1. \A q \in Process \ {w} : pc'[q] \in LockedPc => pc[q] \in LockedPc
    BY <1>1, <1>4
    DEF ResaveUnlink, Goto, Finish, At, Release, LockedPc, TypeOK, ThreadTypeOK
  <2>2. pc'[w] \in LockedPc => lock' = w
    BY <1>1, <1>4
    DEF LockHeld, ResaveUnlink, Goto, Finish, At, Release, LockedPc, TypeOK,
        ThreadTypeOK
  <2>3. lock \in {None, w} \/ UNCHANGED lock
    BY <1>1, <1>4 DEF LockHeld, LockedPc, ResaveUnlink
  <2> QED BY <1>1, <2>1, <2>2, <2>3, LockStep
<1> QED
  BY <1>2, <1>3, <1>4
  DEF Arrival, ThreadStep, WorkerStep

\* No one is inside at first, and every step keeps the holder of the lock inside.
LEMMA LockInit == Init => LockHeld
BY DEF Init, LockHeld, LockedPc

LEMMA LockNext == TypeOK /\ LockHeld /\ [Next]_vars => LockHeld'
<1> SUFFICES ASSUME TypeOK, LockHeld, [Next]_vars PROVE LockHeld'
  OBVIOUS
<1>1. CASE \E t \in Thread : Arrival(t) \/ ThreadStep(t)
  BY <1>1, LockThreadSteps
<1>2. CASE \E w \in Worker : WorkerStep(w)
  BY <1>2, LockWorkerSteps
<1>3. CASE Crash
  BY <1>3 DEF Crash, LockHeld, LockedPc
<1>4. CASE Restart \/ Resize \/ UNCHANGED vars
  BY <1>4 DEF Restart, Resize, vars, LockHeld
<1> QED BY <1>1, <1>2, <1>3, <1>4 DEF Next

\* Mutual exclusion: at most one thread at a time is between acquiring and
\* releasing the big lock, and the lock says which.
THEOREM LockDiscipline == Spec => []LockHeld
BY LockInit, LockNext, TypeCorrect, PTL DEF Spec

-----------------------------------------------------------------------------
\* Error paths.

\* A step by p leaves the other threads where they are, except that it may give
\* one that was idle something to do.
OthersStay(p) ==
    \A q \in Process \ {p} : pc[q] # "idle" => pc'[q] = pc[q] /\ doc'[q] = doc[q]

\* What p does with the big lock, and with the row of the document it ingests.
KeepsLock(p) ==
    /\ lock' \in {lock, None, p}
    /\ lock' = p => pc'[p] \in LockedPc \cup {"del_unmap"}
KeepsRow(p) ==
    \A d \in Doc : row'[d] = "pending" =>
        \/ row[d] = "pending" /\ ~(doc[p] = d /\ pc[p] \in IngestingPc)
        \/ p \in Thread /\ doc'[p] = d /\ pc'[p] \in IngestingPc

LEMMA AbandonStep ==
    ASSUME TypeOK, NothingAbandoned, NEW p \in Process,
           OthersStay(p), KeepsLock(p), KeepsRow(p)
    PROVE  NothingAbandoned'
<1>1. ASSUME lock' # None
      PROVE  pc'[lock'] \in LockedPc \cup {"del_unmap"}
  <2>1. CASE lock' = p
    BY <2>1 DEF KeepsLock
  <2>2. CASE lock' # p
    <3>1. lock' = lock /\ lock \in Process \ {p}
      BY <1>1, <2>2 DEF KeepsLock, TypeOK, EngineTypeOK
    <3>2. pc[lock] \in LockedPc \cup {"del_unmap"}
      BY <1>1, <3>1 DEF NothingAbandoned
    <3>3. pc'[lock] = pc[lock]
      BY <3>1, <3>2 DEF OthersStay, LockedPc
    <3> QED
      BY <3>1, <3>2, <3>3
  <2> QED
    BY <2>1, <2>2
<1>2. ASSUME NEW d \in Doc, row'[d] = "pending"
      PROVE  \E t \in Thread : doc'[t] = d /\ pc'[t] \in IngestingPc
  <2>1. CASE row[d] = "pending" /\ ~(doc[p] = d /\ pc[p] \in IngestingPc)
    <3>1. PICK t \in Thread : doc[t] = d /\ pc[t] \in IngestingPc
      BY <2>1 DEF NothingAbandoned
    <3>2. t \in Process \ {p}
      BY <2>1, <3>1, ThreadIsProcess
    <3>3. pc'[t] = pc[t] /\ doc'[t] = doc[t]
      BY <3>1, <3>2 DEF OthersStay, IngestingPc
    <3> QED
      BY <3>1, <3>3
  <2> QED
    BY <1>2, <2>1, ThreadIsProcess DEF KeepsRow
<1> QED
  BY <1>1, <1>2 DEF NothingAbandoned

\* The instances in which no thread dies and no UPDATE fails.
UpdatesReliable == Faults \cap {"crash", "db"} = {}

LEMMA AbandonArrivals ==
    ASSUME TypeOK, LockHeld, NothingAbandoned, NEW t \in Thread, Arrival(t)
    PROVE  NothingAbandoned'
<1>1. t \in Process /\ pc[t] = "idle"
  BY ThreadIsProcess DEF Arrival, IngestFind, QueryRead, DeleteRow
<1>2. lock # t
  BY <1>1, EngineAssumption DEF NothingAbandoned, LockedPc
<1>3. OthersStay(t)
  BY <1>1
  DEF Arrival, IngestFind, QueryRead, DeleteRow, At, OthersStay, TypeOK, ThreadTypeOK
<1>4. KeepsLock(t)
  BY <1>2 DEF Arrival, IngestFind, QueryRead, DeleteRow, KeepsLock
<1>5. KeepsRow(t)
  BY <1>1
  DEF Arrival, IngestFind, QueryRead, DeleteRow, DeleteDocument, storeVars, KeepsRow,
      IngestingPc, TypeOK, StoreTypeOK
<1> QED
  BY <1>1, <1>3, <1>4, <1>5, AbandonStep

LEMMA AbandonIngest ==
    ASSUME TypeOK, LockHeld, NothingAbandoned, UpdatesReliable, NEW t \in Thread,
           \/ IngestInsert(t) \/ IngestGivesUp(t) \/ WarmLock(t) \/ WarmSlot(t)
           \/ WarmChat(t) \/ WarmSave(t) \/ IngestMarkCached(t) \/ IngestMarkFailed(t)
           \/ IngestGoneUnlink(t) \/ IngestGoneUnmap(t)
    PROVE  NothingAbandoned'
<1>1. t \in Process /\ t # None
  BY ThreadIsProcess, EngineAssumption
<1>2. lock = t => pc[t] \in LockedPc \cup {"del_unmap"}
  BY <1>1 DEF NothingAbandoned
<1>3. OthersStay(t)
  BY <1>1
  DEF IngestInsert, IngestGivesUp, WarmLock, WarmSlot, WarmChat, WarmSave,
      IngestMarkCached, IngestMarkFailed, IngestGoneUnlink, IngestGoneUnmap, At, Goto,
      Finish, localVars, OthersStay, TypeOK, ThreadTypeOK
<1>4. KeepsLock(t)
  <2>1. CASE WarmLock(t) \/ WarmSlot(t) \/ WarmChat(t) \/ WarmSave(t)
    BY <1>1, <1>2, <2>1
    DEF WarmLock, WarmSlot, WarmChat, WarmSave, At, Goto, Release, LockedPc, KeepsLock,
        TypeOK, ThreadTypeOK
  <2>2. CASE \/ IngestInsert(t) \/ IngestGivesUp(t) \/ IngestMarkCached(t)
             \/ IngestMarkFailed(t) \/ IngestGoneUnlink(t) \/ IngestGoneUnmap(t)
    BY <1>1, <1>2, <2>2
    DEF IngestInsert, IngestGivesUp, IngestMarkCached, IngestMarkFailed,
        IngestGoneUnlink, IngestGoneUnmap, LockedPc, KeepsLock
  <2> QED
    BY <2>1, <2>2
<1>5. KeepsRow(t)
  <2>1. CASE IngestInsert(t)
    BY <1>1, <2>1
    DEF IngestInsert, InsertDocument, At, KeepsRow, IngestingPc, TypeOK, ThreadTypeOK,
        StoreTypeOK
  <2>2. CASE WarmLock(t) \/ WarmSlot(t) \/ WarmChat(t) \/ WarmSave(t)
    BY <1>1, <2>2
    DEF WarmLock, WarmSlot, WarmChat, WarmSave, At, Goto, localVars, storeVars,
        KeepsRow, IngestingPc, TypeOK, ThreadTypeOK
  <2>3. CASE IngestMarkCached(t) \/ IngestMarkFailed(t)
    BY <1>1, <2>3, BusyType
    DEF IngestMarkCached, IngestMarkFailed, MarkCached, MarkFailed, RowFound, Live,
        Status, storeVars, UpdatesReliable, KeepsRow, IngestingPc, TypeOK,
        StoreTypeOK
  <2>4. CASE IngestGivesUp(t) \/ IngestGoneUnlink(t) \/ IngestGoneUnmap(t)
    BY <2>4
    DEF IngestGivesUp, IngestGoneUnlink, IngestGoneUnmap, storeVars, KeepsRow, IngestingPc
  <2> QED
    BY <2>1, <2>2, <2>3, <2>4
<1> QED
  BY <1>1, <1>3, <1>4, <1>5, AbandonStep

LEMMA AbandonQuery ==
    ASSUME TypeOK, LockHeld, NothingAbandoned, NEW t \in Thread,
           \/ QueryLock(t) \/ QuerySlot(t) \/ QueryRecheck(t) \/ QueryRestore(t)
           \/ QueryChat(t) \/ QueryChatFails(t) \/ QueryUnmap(t)
           \/ DeleteUnlink(t) \/ DeleteUnmap(t)
    PROVE  NothingAbandoned'
<1>1. t \in Process /\ t # None
  BY ThreadIsProcess, EngineAssumption
<1>2. lock = t => pc[t] \in LockedPc \cup {"del_unmap"}
  BY <1>1 DEF NothingAbandoned
<1>3. OthersStay(t)
  <2>1. CASE QueryChat(t)
    BY <1>1, <2>1
    DEF QueryChat, Spawn, Finish, At, OthersStay, TypeOK, ThreadTypeOK
  <2>2. CASE ~QueryChat(t)
    BY <1>1, <2>2
    DEF QueryLock, QuerySlot, QueryRecheck, QueryRestore, QueryChatFails, QueryUnmap,
        DeleteUnlink, DeleteUnmap, At, Goto, Finish, localVars, OthersStay, TypeOK,
        ThreadTypeOK
  <2> QED
    BY <2>1, <2>2
<1>4. KeepsLock(t)
  BY <1>1, <1>2
  DEF QueryLock, QuerySlot, QueryRecheck, QueryRestore, QueryChat, QueryChatFails,
      QueryUnmap, DeleteUnlink, DeleteUnmap, At, Goto, Finish, Release, localVars,
      LockedPc, KeepsLock, TypeOK, ThreadTypeOK
<1>5. KeepsRow(t)
  BY <1>1
  DEF QueryLock, QuerySlot, QueryRecheck, QueryRestore, QueryChat, QueryChatFails,
      QueryUnmap, DeleteUnlink, DeleteUnmap, storeVars, KeepsRow, IngestingPc
<1> QED
  BY <1>1, <1>3, <1>4, <1>5, AbandonStep

LEMMA AbandonResave ==
    ASSUME TypeOK, LockHeld, NothingAbandoned, NEW w \in Worker, WorkerStep(w)
    PROVE  NothingAbandoned'
<1>1. w \in Process /\ w # None
  BY ThreadIsProcess, EngineAssumption
<1>2. lock = w => pc[w] \in LockedPc \cup {"del_unmap"}
  BY <1>1 DEF NothingAbandoned
<1>3. OthersStay(w)
  BY <1>1
  DEF WorkerStep, ResaveSave, ResaveMark, ResaveUnlink, At, Goto, Finish, localVars,
      OthersStay, TypeOK, ThreadTypeOK
<1>4. KeepsLock(w)
  BY <1>1, <1>2
  DEF WorkerStep, ResaveSave, ResaveMark, ResaveUnlink, At, Goto, Finish, Release,
      localVars, LockedPc, KeepsLock, TypeOK, ThreadTypeOK
<1>5. KeepsRow(w)
  BY <1>1
  DEF WorkerStep, ResaveSave, ResaveMark, ResaveUnlink, MarkCached, storeVars, KeepsRow,
      IngestingPc, TypeOK, StoreTypeOK
<1> QED
  BY <1>1, <1>3, <1>4, <1>5, AbandonStep

LEMMA AbandonInit == Init => NothingAbandoned
BY DEF Init, StoreInit, NothingAbandoned

LEMMA AbandonNext ==
    ASSUME UpdatesReliable, TypeOK, LockHeld, NothingAbandoned, [Next]_vars
    PROVE  NothingAbandoned'
<1>1. CASE \E t \in Thread : Arrival(t) \/ ThreadStep(t)
  BY <1>1, AbandonArrivals, AbandonIngest, AbandonQuery DEF ThreadStep
<1>2. CASE \E w \in Worker : WorkerStep(w)
  BY <1>2, AbandonResave
<1>3. CASE Crash
  BY <1>3 DEF Crash, UpdatesReliable
<1>4. CASE Restart \/ Resize \/ UNCHANGED vars
  BY <1>4 DEF Restart, Resize, vars, storeVars, localVars, NothingAbandoned
<1> QED
  BY <1>1, <1>2, <1>3, <1>4 DEF Next

\* However a request fails, under the lock or outside it, it leaves no lock held
\* and no row pending behind, as long as the process lives and its updates work.
THEOREM ErrorPathsSettle ==
    ASSUME UpdatesReliable
    PROVE  Spec => []NothingAbandoned
<1>1. TypeOK /\ LockHeld /\ NothingAbandoned /\ [Next]_vars => NothingAbandoned'
  BY AbandonNext
<1> QED
  BY <1>1, AbandonInit, TypeCorrect, LockDiscipline, PTL DEF Spec

\* So a process at rest is clean: what Drains reaches by liveness is what every
\* state with no thread at work already is.
THEOREM RestIsClean ==
    ASSUME UpdatesReliable
    PROVE  Spec => []((\A p \in Process : pc[p] = "idle") =>
                          Quiescent /\ \A d \in Doc : row[d] # "pending")
<1>1. ASSUME TypeOK, NothingAbandoned, \A p \in Process : pc[p] = "idle"
      PROVE  Quiescent /\ \A d \in Doc : row[d] # "pending"
  <2>1. lock = None
    BY <1>1 DEF NothingAbandoned, LockedPc, TypeOK, EngineTypeOK
  <2>2. \A d \in Doc : row[d] # "pending"
    BY <1>1, ThreadIsProcess DEF NothingAbandoned, IngestingPc
  <2> QED
    BY <1>1, <2>1, <2>2 DEF Quiescent
<1> QED
  BY <1>1, ErrorPathsSettle, TypeCorrect, PTL

-----------------------------------------------------------------------------
\* Isolation.

\* What the holder of the lock counts on is left alone by a step of others.
LeftAlone ==
    /\ UNCHANGED <<mapVars, checkVars, lock>>
    /\ kv' \in {kv, [k \in Slot |-> Empty]}

\* A thread under the lock that does not move has taken no step, and whoever did
\* found the lock taken.
LEMMA IsolatedFromThreads ==
    ASSUME TypeOK, LockHeld, NEW p \in Process, pc[p] \in LockedPc, pc'[p] = pc[p],
           NEW t \in Thread, Arrival(t) \/ ThreadStep(t)
    PROVE  LeftAlone
<1>1. t \in Process /\ lock = p /\ lock # None
  BY ThreadIsProcess, EngineAssumption DEF LockHeld
<1>2. pc[t] \in LockedPc => t = p
  BY <1>1 DEF LockHeld
<1>3. CASE \/ Arrival(t) \/ IngestInsert(t) \/ IngestGivesUp(t) \/ IngestMarkCached(t)
           \/ IngestMarkFailed(t) \/ IngestGoneUnlink(t) \/ DeleteUnlink(t)
  BY <1>3
  DEF Arrival, IngestFind, QueryRead, DeleteRow, IngestInsert, IngestGivesUp,
      IngestMarkCached, IngestMarkFailed, IngestGoneUnlink, DeleteUnlink, serverVars,
      LeftAlone
<1>4. CASE \/ WarmSlot(t) \/ WarmChat(t) \/ WarmSave(t) \/ QuerySlot(t)
           \/ QueryRecheck(t) \/ QueryRestore(t) \/ QueryChat(t) \/ QueryChatFails(t)
  <2>1. pc[t] \in LockedPc /\ pc'[t] # pc[t]
    BY <1>1, <1>4
    DEF WarmSlot, WarmChat, WarmSave, QuerySlot, QueryRecheck, QueryRestore, QueryChat,
        Spawn, QueryChatFails, Goto, Finish, At, LockedPc, TypeOK, ThreadTypeOK
  <2> QED
    BY <1>2, <2>1
<1>5. CASE WarmLock(t) \/ IngestGoneUnmap(t) \/ QueryLock(t) \/ QueryUnmap(t)
  BY <1>1, <1>5 DEF WarmLock, IngestGoneUnmap, QueryLock, QueryUnmap
<1>6. CASE DeleteUnmap(t)
  <2>1. lock = t
    BY <1>1, <1>6 DEF DeleteUnmap
  <2> QED
    BY <1>1, <1>6, <2>1 DEF DeleteUnmap, LockedPc
<1> QED
  BY <1>3, <1>4, <1>5, <1>6 DEF ThreadStep

LEMMA IsolatedFromWorkers ==
    ASSUME TypeOK, LockHeld, NEW p \in Process, pc[p] \in LockedPc, pc'[p] = pc[p],
           NEW w \in Worker, WorkerStep(w)
    PROVE  LeftAlone
<1>1. w \in Process /\ lock = p /\ lock # None
  BY ThreadIsProcess, EngineAssumption DEF LockHeld
<1>2. pc[w] \in LockedPc => w = p
  BY <1>1 DEF LockHeld
<1>3. CASE ResaveSave(w)
  BY <1>1, <1>3 DEF ResaveSave
<1>4. CASE ResaveMark(w) \/ ResaveUnlink(w)
  <2>1. pc[w] \in LockedPc /\ pc'[w] # pc[w]
    BY <1>1, <1>4
    DEF ResaveMark, ResaveUnlink, Goto, Finish, At, LockedPc, TypeOK, ThreadTypeOK
  <2> QED
    BY <1>2, <2>1
<1> QED
  BY <1>3, <1>4 DEF WorkerStep

LEMMA StepLeavesAlone ==
    ASSUME TypeOK, LockHeld, [Next]_vars, NEW p \in Process,
           pc[p] \in LockedPc, pc'[p] = pc[p]
    PROVE  LeftAlone
<1>1. CASE \E t \in Thread : Arrival(t) \/ ThreadStep(t)
  BY <1>1, IsolatedFromThreads
<1>2. CASE \E w \in Worker : WorkerStep(w)
  BY <1>2, IsolatedFromWorkers
<1>3. CASE Crash
  BY <1>3 DEF Crash, LockedPc
<1>4. CASE Restart \/ Resize \/ UNCHANGED vars
  BY <1>4
  DEF Restart, ServerRestart, Resize, ServerResize, vars, serverVars, LeftAlone
<1> QED
  BY <1>1, <1>2, <1>3, <1>4 DEF Next

\* The work under the big lock is atomic as far as the engine goes: what a thread
\* has read of the map, the memo or the marker is true until its own next step,
\* and its slot is changed by nothing but a restart, for every set of faults.
THEOREM LockProtects == Spec => LockIsolates
<1>1. TypeOK /\ LockHeld /\ [Next]_vars =>
          [\A p \in Process : pc[p] \in LockedPc /\ pc'[p] = pc[p] =>
              /\ UNCHANGED <<mapVars, checkVars, lock>>
              /\ kv' \in {kv, [k \in Slot |-> Empty]}]_vars
  BY StepLeavesAlone DEF LeftAlone
<1> QED
  BY <1>1, TypeCorrect, LockDiscipline, PTL DEF Spec, LockIsolates

-----------------------------------------------------------------------------
\* One slot per document.

MapInv == SlotMapInjective /\ WarmUnmapped

\* A step starts no warm; those under way keep their document and their slot.
WarmsSteady ==
    \A q \in Thread : pc'[q] \in WarmingPc =>
        /\ pc[q] \in WarmingPc
        /\ doc'[q] = doc[q] /\ slot'[q] = slot[q]
        /\ doc[q] # None

\* The map only loses entries, and warms under way keep their slot.
LEMMA MapShrinks ==
    ASSUME MapInv,
           \A s \in Slot : slots'[s] \in {slots[s], None},
           WarmsSteady
    PROVE  MapInv'
BY DEF MapInv, SlotMapInjective, WarmUnmapped, WarmsSteady

\* A slot chosen for d is the only one that may already hold d.
LEMMA SlotForOnly ==
    ASSUME SlotMapInjective, NEW d \in Doc, NEW s \in SlotFor(d)
    PROVE  \A x \in Slot : slots[x] = d => x = s
<1>1. None \notin Doc
  BY EngineAssumption
<1> QED BY <1>1 DEF SlotFor, SlotMapInjective

\* A check keeps or clears the map.
LEMMA CheckShrinks ==
    ASSUME TypeOK, NEW force, CheckReturns(force) \/ CheckRaises(force)
    PROVE  \A s \in Slot : slots'[s] \in {slots[s], None}
BY DEF CheckReturns, CheckRaises, Fingerprint, mapVars

\* Every step of a request thread keeps the map injective.
LEMMA MapThreadSteps ==
    ASSUME TypeOK, LockHeld, MapInv, NEW t \in Thread, Arrival(t) \/ ThreadStep(t)
    PROVE  MapInv'
<1>1. t \in Process /\ slot[t] \in Slot /\ (pc[t] # "idle" => doc[t] \in Doc)
  BY BusyType, ThreadIsProcess
<1>2. None \notin Doc /\ Thread \subseteq Process
  BY EngineAssumption, ThreadIsProcess
<1>3. CASE IngestFind(t)
  <2>1. \A s \in Slot : slots'[s] \in {slots[s], None}
    BY <1>1, <1>3
    DEF IngestFind, serverVars, storeVars, mapVars, checkVars, TypeOK,
        EngineTypeOK
  <2>2. WarmsSteady
    BY <1>1, <1>2, <1>3, EngineAssumption
    DEF WarmsSteady, IngestFind, Goto, Finish, At, localVars, WarmingPc, TypeOK,
        ThreadTypeOK
  <2> QED BY <2>1, <2>2, MapShrinks
<1>4. CASE IngestInsert(t)
  <2>1. \A s \in Slot : slots'[s] \in {slots[s], None}
    BY <1>1, <1>4
    DEF IngestInsert, serverVars, storeVars, mapVars, checkVars, TypeOK,
        EngineTypeOK
  <2>2. WarmsSteady
    BY <1>1, <1>2, <1>4, EngineAssumption
    DEF WarmsSteady, IngestInsert, Goto, Finish, At, localVars, WarmingPc, TypeOK,
        ThreadTypeOK
  <2> QED BY <2>1, <2>2, MapShrinks
<1>5. CASE IngestGivesUp(t)
  <2>1. \A s \in Slot : slots'[s] \in {slots[s], None}
    BY <1>1, <1>5
    DEF IngestGivesUp, serverVars, storeVars, mapVars, checkVars, TypeOK,
        EngineTypeOK
  <2>2. WarmsSteady
    BY <1>1, <1>2, <1>5, EngineAssumption
    DEF WarmsSteady, IngestGivesUp, Goto, Finish, At, localVars, WarmingPc, TypeOK,
        ThreadTypeOK
  <2> QED BY <2>1, <2>2, MapShrinks
<1>6. CASE WarmLock(t)
  <2>1. \A s \in Slot : slots'[s] \in {slots[s], None}
    BY <1>6, CheckShrinks DEF WarmLock
  <2>2. Goto(t, "warm_slot") \/ Goto(t, "mark_failed")
    BY <1>6 DEF WarmLock
  <2>3. WarmsSteady
    BY <1>1, <1>2, <2>2, EngineAssumption
    DEF WarmsSteady, Goto, Finish, At, localVars, WarmingPc, TypeOK, ThreadTypeOK
  <2> QED BY <2>1, <2>3, MapShrinks
<1>7. CASE WarmChat(t)
  <2>1. \A s \in Slot : slots'[s] \in {slots[s], None}
    BY <1>1, <1>7
    DEF WarmChat, serverVars, storeVars, mapVars, checkVars, TypeOK,
        EngineTypeOK
  <2>2. WarmsSteady
    BY <1>1, <1>2, <1>7, EngineAssumption
    DEF WarmsSteady, WarmChat, Goto, Finish, At, localVars, WarmingPc, TypeOK, ThreadTypeOK
  <2> QED BY <2>1, <2>2, MapShrinks
<1>8. CASE IngestMarkCached(t)
  <2>1. \A s \in Slot : slots'[s] \in {slots[s], None}
    BY <1>1, <1>8
    DEF IngestMarkCached, serverVars, storeVars, mapVars, checkVars, TypeOK,
        EngineTypeOK
  <2>2. WarmsSteady
    BY <1>1, <1>2, <1>8, EngineAssumption
    DEF WarmsSteady, IngestMarkCached, Goto, Finish, At, localVars, WarmingPc, TypeOK,
        ThreadTypeOK
  <2> QED BY <2>1, <2>2, MapShrinks
<1>9. CASE IngestMarkFailed(t)
  <2>1. \A s \in Slot : slots'[s] \in {slots[s], None}
    BY <1>1, <1>9
    DEF IngestMarkFailed, serverVars, storeVars, mapVars, checkVars, TypeOK,
        EngineTypeOK
  <2>2. WarmsSteady
    BY <1>1, <1>2, <1>9, EngineAssumption
    DEF WarmsSteady, IngestMarkFailed, Goto, Finish, At, localVars, WarmingPc, TypeOK,
        ThreadTypeOK
  <2> QED BY <2>1, <2>2, MapShrinks
<1>10. CASE IngestGoneUnlink(t)
  <2>1. \A s \in Slot : slots'[s] \in {slots[s], None}
    BY <1>1, <1>10
    DEF IngestGoneUnlink, serverVars, storeVars, mapVars, checkVars, TypeOK,
        EngineTypeOK
  <2>2. WarmsSteady
    BY <1>1, <1>2, <1>10, EngineAssumption
    DEF WarmsSteady, IngestGoneUnlink, Goto, Finish, At, localVars, WarmingPc, TypeOK,
        ThreadTypeOK
  <2> QED BY <2>1, <2>2, MapShrinks
<1>11. CASE IngestGoneUnmap(t)
  <2>1. \A s \in Slot : slots'[s] \in {slots[s], None}
    BY <1>1, <1>11
    DEF IngestGoneUnmap, serverVars, storeVars, mapVars, checkVars, TypeOK,
        EngineTypeOK
  <2>2. WarmsSteady
    BY <1>1, <1>2, <1>11, EngineAssumption
    DEF WarmsSteady, IngestGoneUnmap, Goto, Finish, At, localVars, WarmingPc, TypeOK,
        ThreadTypeOK
  <2> QED BY <2>1, <2>2, MapShrinks
<1>12. CASE QueryRead(t)
  <2>1. \A s \in Slot : slots'[s] \in {slots[s], None}
    BY <1>1, <1>12
    DEF QueryRead, serverVars, storeVars, mapVars, checkVars, TypeOK,
        EngineTypeOK
  <2>2. WarmsSteady
    BY <1>1, <1>2, <1>12, EngineAssumption
    DEF WarmsSteady, QueryRead, Goto, Finish, At, localVars, WarmingPc, TypeOK, ThreadTypeOK
  <2> QED BY <2>1, <2>2, MapShrinks
<1>13. CASE QueryLock(t)
  <2>1. \A s \in Slot : slots'[s] \in {slots[s], None}
    BY <1>13, CheckShrinks DEF QueryLock
  <2>2. Goto(t, "hot_slot") \/ Finish(t)
    BY <1>13 DEF QueryLock
  <2>3. WarmsSteady
    BY <1>1, <1>2, <2>2, EngineAssumption
    DEF WarmsSteady, Goto, Finish, At, localVars, WarmingPc, TypeOK, ThreadTypeOK
  <2> QED BY <2>1, <2>3, MapShrinks
<1>14. CASE QueryRecheck(t)
  <2>1. \A s \in Slot : slots'[s] \in {slots[s], None}
    BY <1>14, CheckShrinks DEF QueryRecheck
  <2>2. Goto(t, "restore") \/ Finish(t)
    BY <1>14 DEF QueryRecheck
  <2>3. WarmsSteady
    BY <1>1, <1>2, <2>2, EngineAssumption
    DEF WarmsSteady, Goto, Finish, At, localVars, WarmingPc, TypeOK, ThreadTypeOK
  <2> QED BY <2>1, <2>3, MapShrinks
<1>15. CASE QueryRestore(t)
  <2>1. \A s \in Slot : slots'[s] \in {slots[s], None}
    BY <1>1, <1>15
    DEF QueryRestore, serverVars, storeVars, mapVars, checkVars, TypeOK,
        EngineTypeOK
  <2>2. WarmsSteady
    BY <1>1, <1>2, <1>15, EngineAssumption
    DEF WarmsSteady, QueryRestore, Goto, Finish, At, localVars, WarmingPc, TypeOK,
        ThreadTypeOK
  <2> QED BY <2>1, <2>2, MapShrinks
<1>16. CASE QueryChat(t)
  <2>1. \A s \in Slot : slots'[s] \in {slots[s], None}
    BY <1>1, <1>16
    DEF QueryChat, serverVars, storeVars, mapVars, checkVars, TypeOK,
        EngineTypeOK
  <2>2. WarmsSteady
    BY <1>1, <1>2, <1>16, EngineAssumption
    DEF WarmsSteady, QueryChat, Spawn, Goto, Finish, At, localVars, WarmingPc, TypeOK,
        ThreadTypeOK
  <2> QED BY <2>1, <2>2, MapShrinks
<1>17. CASE QueryChatFails(t)
  <2>1. \A s \in Slot : slots'[s] \in {slots[s], None}
    BY <1>1, <1>17
    DEF QueryChatFails, serverVars, storeVars, mapVars, checkVars, TypeOK,
        EngineTypeOK
  <2>2. WarmsSteady
    BY <1>1, <1>2, <1>17, EngineAssumption
    DEF WarmsSteady, QueryChatFails, Goto, Finish, At, localVars, WarmingPc, TypeOK,
        ThreadTypeOK
  <2> QED BY <2>1, <2>2, MapShrinks
<1>18. CASE QueryUnmap(t)
  <2>1. \A s \in Slot : slots'[s] \in {slots[s], None}
    BY <1>1, <1>18
    DEF QueryUnmap, serverVars, storeVars, mapVars, checkVars, TypeOK,
        EngineTypeOK
  <2>2. WarmsSteady
    BY <1>1, <1>2, <1>18, EngineAssumption
    DEF WarmsSteady, QueryUnmap, Goto, Finish, At, localVars, WarmingPc, TypeOK,
        ThreadTypeOK
  <2> QED BY <2>1, <2>2, MapShrinks
<1>19. CASE DeleteRow(t)
  <2>1. \A s \in Slot : slots'[s] \in {slots[s], None}
    BY <1>1, <1>19
    DEF DeleteRow, serverVars, storeVars, mapVars, checkVars, TypeOK,
        EngineTypeOK
  <2>2. WarmsSteady
    BY <1>1, <1>2, <1>19, EngineAssumption
    DEF WarmsSteady, DeleteRow, Goto, Finish, At, localVars, WarmingPc, TypeOK, ThreadTypeOK
  <2> QED BY <2>1, <2>2, MapShrinks
<1>20. CASE DeleteUnlink(t)
  <2>1. \A s \in Slot : slots'[s] \in {slots[s], None}
    BY <1>1, <1>20
    DEF DeleteUnlink, serverVars, storeVars, mapVars, checkVars, TypeOK,
        EngineTypeOK
  <2>2. WarmsSteady
    BY <1>1, <1>2, <1>20, EngineAssumption
    DEF WarmsSteady, DeleteUnlink, Goto, Finish, At, localVars, WarmingPc, TypeOK,
        ThreadTypeOK
  <2> QED BY <2>1, <2>2, MapShrinks
<1>21. CASE DeleteUnmap(t)
  <2>1. \A s \in Slot : slots'[s] \in {slots[s], None}
    BY <1>1, <1>21
    DEF DeleteUnmap, serverVars, storeVars, mapVars, checkVars, TypeOK,
        EngineTypeOK
  <2>2. WarmsSteady
    BY <1>1, <1>2, <1>21, EngineAssumption
    DEF WarmsSteady, DeleteUnmap, Goto, Finish, At, localVars, WarmingPc, TypeOK,
        ThreadTypeOK
  <2> QED BY <2>1, <2>2, MapShrinks
<1>22. CASE WarmSlot(t)
  <2>1. PICK s \in SlotFor(doc[t]) : slots' = [slots EXCEPT ![s] = None]
                                /\ slot' = [slot EXCEPT ![t] = s]
    BY <1>22 DEF WarmSlot
  <2>2. \A x \in Slot : slots'[x] # doc[t]
    BY <1>1, <1>2, <1>22, <2>1, SlotForOnly
    DEF WarmSlot, MapInv, TypeOK, EngineTypeOK
  <2>3. SlotMapInjective'
    BY <2>1 DEF MapInv, SlotMapInjective, TypeOK, EngineTypeOK
  <2>4. ASSUME NEW q \in Thread, pc'[q] \in WarmingPc, NEW x \in Slot, slots'[x] = doc'[q]
        PROVE  x = slot'[q]
    <3>1. q # t
      BY <1>22, <2>2, <2>4 DEF WarmSlot
    <3>2. pc[q] \in WarmingPc /\ doc'[q] = doc[q]
      BY <1>22, <1>2, <2>4, <3>1 DEF WarmSlot, At, TypeOK, ThreadTypeOK
    <3>3. lock = t /\ lock = q
      BY <1>1, <1>2, <1>22, <3>2 DEF LockHeld, WarmSlot, LockedPc, WarmingPc
    <3> QED BY <3>1, <3>3
  <2> QED BY <2>3, <2>4 DEF MapInv, WarmUnmapped
<1>23. CASE QuerySlot(t)
  <2>1. PICK s \in SlotFor(doc[t]) : slots' = [slots EXCEPT ![s] = doc[t]]
    BY <1>23 DEF QuerySlot
  <2>2. SlotMapInjective'
    BY <1>1, <1>23, <2>1, SlotForOnly, SlotForInSlot
    DEF QuerySlot, MapInv, SlotMapInjective, TypeOK, EngineTypeOK
  <2>3. \A q \in Thread : pc'[q] \notin WarmingPc
    <3>1. lock = t
      BY <1>1, <1>23 DEF LockHeld, QuerySlot, LockedPc
    <3>2. \A q \in Thread : pc[q] \in WarmingPc => q = t
      BY <1>2, <3>1 DEF LockHeld, LockedPc, WarmingPc
    <3> QED BY <1>1, <1>2, <1>23, <3>2 DEF QuerySlot, At, WarmingPc, TypeOK, ThreadTypeOK
  <2> QED BY <2>2, <2>3 DEF MapInv, WarmUnmapped
<1>24. CASE WarmSave(t)
  <2>1. \A q \in Thread : pc'[q] \notin WarmingPc
    <3>1. lock = t
      BY <1>1, <1>24 DEF LockHeld, WarmSave, LockedPc
    <3>2. \A q \in Thread : pc[q] \in WarmingPc => q = t
      BY <1>2, <3>1 DEF LockHeld, LockedPc, WarmingPc
    <3> QED BY <1>1, <1>2, <1>24, <3>2 DEF WarmSave, Goto, At, WarmingPc, TypeOK, ThreadTypeOK
  <2>2. SlotMapInjective'
    <3>1. \A s \in Slot : slots[s] = doc[t] => s = slot[t]
      BY <1>24 DEF WarmSave, MapInv, WarmUnmapped, WarmingPc
    <3>2. slots' = slots \/ slots' = [slots EXCEPT ![slot[t]] = doc[t]]
      BY <1>24 DEF WarmSave, mapVars
    <3> QED BY <1>1, <3>1, <3>2 DEF MapInv, SlotMapInjective, TypeOK, EngineTypeOK
  <2> QED BY <2>1, <2>2 DEF MapInv, WarmUnmapped
<1> QED
  BY <1>3, <1>4, <1>5, <1>6, <1>7, <1>8, <1>9, <1>10, <1>11, <1>12, <1>13,
     <1>14, <1>15, <1>16, <1>17, <1>18, <1>19, <1>20, <1>21, <1>22, <1>23,
     <1>24
  DEF Arrival, ThreadStep, WorkerStep

\* A deferred re-save does not touch the map.
LEMMA MapWorkerSteps ==
    ASSUME TypeOK, LockHeld, MapInv, NEW w \in Worker, WorkerStep(w)
    PROVE  MapInv'
<1>1. w \in Process /\ slot[w] \in Slot /\ (pc[w] # "idle" => doc[w] \in Doc)
  BY BusyType, ThreadIsProcess
<1>2. None \notin Doc /\ Thread \subseteq Process
  BY EngineAssumption, ThreadIsProcess
<1>3. CASE ResaveSave(w)
  <2>1. \A s \in Slot : slots'[s] \in {slots[s], None}
    BY <1>1, <1>3
    DEF ResaveSave, serverVars, storeVars, mapVars, checkVars, TypeOK,
        EngineTypeOK
  <2>2. WarmsSteady
    BY <1>1, <1>2, <1>3, EngineAssumption
    DEF WarmsSteady, ResaveSave, Goto, Finish, At, localVars, WarmingPc, TypeOK,
        ThreadTypeOK
  <2> QED BY <2>1, <2>2, MapShrinks
<1>4. CASE ResaveMark(w)
  <2>1. \A s \in Slot : slots'[s] \in {slots[s], None}
    BY <1>1, <1>4
    DEF ResaveMark, serverVars, storeVars, mapVars, checkVars, TypeOK,
        EngineTypeOK
  <2>2. WarmsSteady
    BY <1>1, <1>2, <1>4, EngineAssumption
    DEF WarmsSteady, ResaveMark, Goto, Finish, At, localVars, WarmingPc, TypeOK,
        ThreadTypeOK
  <2> QED BY <2>1, <2>2, MapShrinks
<1>5. CASE ResaveUnlink(w)
  <2>1. \A s \in Slot : slots'[s] \in {slots[s], None}
    BY <1>1, <1>5
    DEF ResaveUnlink, serverVars, storeVars, mapVars, checkVars, TypeOK,
        EngineTypeOK
  <2>2. WarmsSteady
    BY <1>1, <1>2, <1>5, EngineAssumption
    DEF WarmsSteady, ResaveUnlink, Goto, Finish, At, localVars, WarmingPc, TypeOK,
        ThreadTypeOK
  <2> QED BY <2>1, <2>2, MapShrinks
<1> QED
  BY <1>3, <1>4, <1>5
  DEF Arrival, ThreadStep, WorkerStep

\* The map is empty at first, and every step keeps it injective.
LEMMA MapInit == Init => MapInv
BY ThreadIsProcess DEF Init, MapInv, SlotMapInjective, WarmUnmapped, WarmingPc

LEMMA MapNext == TypeOK /\ LockHeld /\ MapInv /\ [Next]_vars => MapInv'
<1> SUFFICES ASSUME TypeOK, LockHeld, MapInv, [Next]_vars PROVE MapInv'
  OBVIOUS
<1>1. CASE \E t \in Thread : Arrival(t) \/ ThreadStep(t)
  BY <1>1, MapThreadSteps
<1>2. CASE \E w \in Worker : WorkerStep(w)
  BY <1>2, MapWorkerSteps
<1>3. CASE Crash
  BY <1>3, ThreadIsProcess
  DEF Crash, MapInv, SlotMapInjective, WarmUnmapped, WarmingPc
<1>4. CASE Restart \/ Resize \/ UNCHANGED vars
  BY <1>4
  DEF Restart, Resize, vars, mapVars, localVars, MapInv, SlotMapInjective,
      WarmUnmapped
<1> QED BY <1>1, <1>2, <1>3, <1>4 DEF Next

\* A document is believed hot in at most one slot, in every reachable state and
\* whatever goes wrong around the engine.
THEOREM HotInOneSlot == Spec => []SlotMapInjective
<1>1. MapInv => SlotMapInjective
  BY DEF MapInv
<1> QED
  BY <1>1, MapInit, MapNext, TypeCorrect, LockDiscipline, PTL DEF Spec

-----------------------------------------------------------------------------
\* Timestamps.  The ranks in use are the highest ones, without a hole.
RanksDense ==
    \A s \in Slot : used[s] > 0 =>
        \A r \in used[s] .. CagSlots : \E x \in Slot : used[x] = r

VictimInv == EvictionHasVictim /\ RanksDense

\* There are as many ranks as slots: while one slot has none, rank 1 is free.
LEMMA RankOneFree ==
    ASSUME TypeOK, RanksDense, NEW s \in Slot, used[s] = 0
    PROVE  \A x \in Slot : used[x] # 1
<1> SUFFICES ASSUME NEW x \in Slot, used[x] = 1
             PROVE  FALSE
  OBVIOUS
<1>1. used \in [Slot -> 0 .. CagSlots] /\ CagSlots \in Nat /\ CagSlots > 0
  BY CagSlotsAssumption DEF TypeOK, EngineTypeOK
<1>2. \A r \in 0 .. CagSlots : \E y \in Slot : used[y] = r
  BY <1>1 DEF RanksDense
<1>3. used \in Surjection(Slot, 0 .. CagSlots)
  BY <1>1, <1>2 DEF Surjection
<1>4. /\ IsFiniteSet(Slot) /\ Cardinality(Slot) = CagSlots
      /\ Cardinality(0 .. CagSlots) = CagSlots + 1
  <2>1. 0 \in Int /\ CagSlots - 1 \in Int /\ CagSlots \in Int
    BY <1>1
  <2> QED
    BY <1>1, <2>1, FS_Interval DEF Slot
<1>5. Cardinality(0 .. CagSlots) <= Cardinality(Slot)
  BY <1>3, <1>4, FS_Surjection
<1> QED
  BY <1>1, <1>4, <1>5

\* A touch leaves every timestamp in place, and the slot touched has one.
LEMMA TouchRanks ==
    ASSUME TypeOK, RanksDense, NEW s \in Slot, Touch(s)
    PROVE  /\ RanksDense' /\ used'[s] > 0
           /\ \A x \in Slot : used[x] > 0 => used'[x] > 0
<1>1. /\ used \in [Slot -> 0 .. CagSlots] /\ CagSlots \in Nat /\ CagSlots > 0
      /\ \A x \in Slot : used[x] \in Nat /\ used[x] <= CagSlots
  BY CagSlotsAssumption DEF TypeOK, EngineTypeOK
<1>2. /\ used'[s] = CagSlots
      /\ \A x \in Slot \ {s} : used'[x] = IF used[x] > used[s] THEN used[x] - 1 ELSE used[x]
  BY DEF Touch
<1>3. ASSUME NEW x \in Slot, used[x] > 0
      PROVE  used'[x] > 0
  <2>1. CASE used[s] = 0
    BY <1>1, <1>2, <1>3, <2>1, RankOneFree
  <2>2. CASE used[s] > 0
    BY <1>1, <1>2, <1>3, <2>2
  <2> QED
    BY <1>1, <2>1, <2>2
<1>4. ASSUME NEW y \in Slot, used'[y] > 0, NEW r \in used'[y] .. CagSlots
      PROVE  \E x \in Slot : used'[x] = r
  <2>1. /\ r \in Nat /\ used'[y] \in Nat /\ used'[y] <= r /\ r <= CagSlots
        /\ \A x \in Slot : used[x] > 0 =>
              \A n \in Nat : used[x] <= n /\ n <= CagSlots => \E z \in Slot : used[z] = n
    BY <1>1, <1>2, <1>4 DEF RanksDense
  <2>2. CASE r = CagSlots
    BY <1>2, <2>2
  <2>3. CASE r < CagSlots /\ used[y] > used[s]
    <3>1. y # s /\ used'[y] = used[y] - 1 /\ used[y] > 0
      BY <1>1, <1>2, <2>3
    <3>2. PICK z \in Slot : used[z] = r + 1
      BY <1>1, <2>1, <2>3, <3>1
    <3>3. z # s /\ used[z] > used[s]
      BY <1>1, <2>1, <2>3, <3>1, <3>2
    <3> QED
      BY <1>1, <1>2, <2>1, <3>2, <3>3
  <2>4. CASE r < CagSlots /\ ~(used[y] > used[s])
    <3>1. y # s /\ used'[y] = used[y] /\ used[y] > 0 /\ used[s] > 0
      BY <1>1, <1>2, <1>4, <2>1, <2>4
    <3>2. CASE r < used[s]
      <4>1. PICK z \in Slot : used[z] = r
        BY <1>1, <2>1, <3>1
      <4> QED
        BY <1>1, <1>2, <2>1, <3>2, <4>1
    <3>3. CASE ~(r < used[s])
      <4>1. PICK z \in Slot : used[z] = r + 1
        BY <1>1, <2>1, <2>4, <3>1, <3>3
      <4> QED
        BY <1>1, <1>2, <2>1, <3>3, <4>1
    <3> QED
      BY <3>2, <3>3
  <2> QED
    BY <1>1, <2>1, <2>2, <2>3, <2>4
<1> QED
  BY <1>1, <1>2, <1>3, <1>4 DEF RanksDense

\* Dropping one timestamp leaves the others.
LEMMA ForgetRanks ==
    ASSUME TypeOK, RanksDense, NEW s \in Slot, Forget(s)
    PROVE  RanksDense' /\ \A x \in Slot \ {s} : used[x] > 0 => used'[x] > 0
<1>1. /\ used \in [Slot -> 0 .. CagSlots] /\ CagSlots \in Nat
      /\ \A x \in Slot : used[x] \in Nat /\ used[x] <= CagSlots
  BY CagSlotsAssumption DEF TypeOK, EngineTypeOK
<1>2. /\ used'[s] = 0
      /\ \A x \in Slot \ {s} :
            used'[x] = IF 0 < used[x] /\ used[x] < used[s] THEN used[x] + 1 ELSE used[x]
  BY DEF Forget
<1>3. ASSUME NEW y \in Slot, used'[y] > 0, NEW r \in used'[y] .. CagSlots
      PROVE  \E x \in Slot : used'[x] = r
  <2>1. /\ y # s /\ used[y] > 0
        /\ r \in Nat /\ used'[y] \in Nat /\ used'[y] <= r /\ r <= CagSlots
        /\ \A n \in Nat : used[y] <= n /\ n <= CagSlots => \E z \in Slot : used[z] = n
    BY <1>1, <1>2, <1>3 DEF RanksDense
  <2>2. CASE r > used[s]
    <3>1. PICK z \in Slot : used[z] = r
      BY <1>1, <1>2, <2>1
    <3> QED
      BY <1>1, <1>2, <2>2, <3>1
  <2>3. CASE r <= used[s] /\ used[y] < used[s]
    <3>1. PICK z \in Slot : used[z] = r - 1
      BY <1>1, <1>2, <2>1, <2>3
    <3> QED
      BY <1>1, <1>2, <2>1, <2>3, <3>1
  <2>4. CASE r <= used[s] /\ ~(used[y] < used[s])
    BY <1>1, <1>2, <2>1, <2>4
  <2> QED
    BY <1>1, <2>1, <2>2, <2>3, <2>4
<1> QED
  BY <1>1, <1>2, <1>3 DEF RanksDense

\* A step that takes no slot and drops no timestamp.
LEMMA VictimQuiet ==
    ASSUME VictimInv, UNCHANGED used, \A s \in Slot : slots'[s] \in {slots[s], None}
    PROVE  VictimInv'
BY DEF VictimInv, EvictionHasVictim, RanksDense

\* A check keeps both maps or clears both.
LEMMA VictimCheck ==
    ASSUME TypeOK, VictimInv, NEW force, CheckReturns(force) \/ CheckRaises(force)
    PROVE  VictimInv'
<1>1. CASE UNCHANGED mapVars
  BY <1>1, VictimQuiet DEF mapVars, TypeOK, EngineTypeOK
<1>2. CASE slots' = [s \in Slot |-> None] /\ used' = [s \in Slot |-> 0]
  BY <1>2 DEF VictimInv, EvictionHasVictim, RanksDense
<1> QED
  BY <1>1, <1>2 DEF CheckReturns, CheckRaises, Fingerprint, mapVars

\* Taking or freeing slot s while touching it.
LEMMA VictimTouch ==
    ASSUME TypeOK, VictimInv, NEW s \in Slot, NEW d, slots' = [slots EXCEPT ![s] = d], Touch(s)
    PROVE  VictimInv'
<1>1. /\ RanksDense' /\ used'[s] > 0
      /\ \A x \in Slot : used[x] > 0 => used'[x] > 0
  BY TouchRanks DEF VictimInv
<1> QED
  BY <1>1 DEF VictimInv, EvictionHasVictim, TypeOK, EngineTypeOK

\* Every step of a thread or a worker leaves a victim.
LEMMA VictimSteps ==
    ASSUME TypeOK, VictimInv,
           \/ \E t \in Thread : Arrival(t) \/ ThreadStep(t)
           \/ \E w \in Worker : WorkerStep(w)
    PROVE  VictimInv'
<1>1. ASSUME NEW t \in Thread, Arrival(t)
      PROVE  VictimInv'
  BY <1>1, VictimQuiet DEF Arrival, IngestFind, QueryRead, DeleteRow, mapVars
<1>2. ASSUME NEW t \in Thread, \/ IngestInsert(t) \/ IngestGivesUp(t) \/ WarmChat(t)
                               \/ IngestMarkCached(t) \/ IngestMarkFailed(t)
                               \/ IngestGoneUnlink(t) \/ QueryRestore(t) \/ QueryChat(t)
                               \/ QueryChatFails(t) \/ DeleteUnlink(t)
      PROVE  VictimInv'
  <2>1. UNCHANGED mapVars
    BY <1>2 DEF IngestInsert, IngestGivesUp, WarmChat, IngestMarkCached, IngestMarkFailed,
       IngestGoneUnlink, QueryRestore, QueryChat, QueryChatFails, DeleteUnlink, mapVars
  <2> QED
    BY <2>1, VictimQuiet DEF mapVars
<1>3. ASSUME NEW t \in Thread, IngestGoneUnmap(t) \/ QueryUnmap(t)
      PROVE  VictimInv'
  BY <1>3, VictimQuiet DEF IngestGoneUnmap, QueryUnmap, TypeOK, EngineTypeOK
<1>4. ASSUME NEW t \in Thread, WarmLock(t) \/ QueryLock(t) \/ QueryRecheck(t)
      PROVE  VictimInv'
  BY <1>4, VictimCheck DEF WarmLock, QueryLock, QueryRecheck
<1>5. ASSUME NEW t \in Thread, WarmSlot(t) \/ QuerySlot(t)
      PROVE  VictimInv'
  BY <1>5, VictimTouch, SlotForInSlot DEF WarmSlot, QuerySlot
<1>6. ASSUME NEW t \in Thread, WarmSave(t)
      PROVE  VictimInv'
  <2>1. slot[t] \in Slot
    BY BusyType, ThreadIsProcess
  <2> QED
    BY <1>6, <2>1, VictimTouch, VictimQuiet DEF WarmSave, mapVars
<1>7. ASSUME NEW t \in Thread, DeleteUnmap(t)
      PROVE  VictimInv'
  <2>1. CASE UNCHANGED mapVars
    BY <2>1, VictimQuiet DEF mapVars
  <2>2. ASSUME NEW s \in Slot, slots' = [slots EXCEPT ![s] = None], Forget(s)
        PROVE  VictimInv'
    <3>1. RanksDense' /\ \A x \in Slot \ {s} : used[x] > 0 => used'[x] > 0
      BY <2>2, ForgetRanks DEF VictimInv
    <3> QED
      BY <2>2, <3>1 DEF VictimInv, EvictionHasVictim, TypeOK, EngineTypeOK
  <2> QED
    BY <1>7, <2>1, <2>2 DEF DeleteUnmap
<1>8. ASSUME NEW w \in Worker, WorkerStep(w)
      PROVE  VictimInv'
  <2>1. UNCHANGED mapVars
    BY <1>8 DEF WorkerStep, ResaveSave, ResaveMark, ResaveUnlink
  <2> QED
    BY <2>1, VictimQuiet DEF mapVars
<1> QED
  BY <1>1, <1>2, <1>3, <1>4, <1>5, <1>6, <1>7, <1>8 DEF ThreadStep

\* No slot has a rank at first, and every step keeps the ranks dense.
LEMMA VictimInit == Init => VictimInv
BY DEF Init, VictimInv, EvictionHasVictim, RanksDense

LEMMA VictimNext == TypeOK /\ VictimInv /\ [Next]_vars => VictimInv'
<1> SUFFICES ASSUME TypeOK, VictimInv, [Next]_vars PROVE VictimInv'
  OBVIOUS
<1>1. CASE \/ \E t \in Thread : Arrival(t) \/ ThreadStep(t)
           \/ \E w \in Worker : WorkerStep(w)
  BY <1>1, VictimSteps
<1>2. CASE Crash
  BY <1>2 DEF Crash, VictimInv, EvictionHasVictim, RanksDense
<1>3. CASE Restart \/ Resize \/ UNCHANGED vars
  BY <1>3, VictimQuiet DEF Restart, Resize, vars, mapVars
<1> QED BY <1>1, <1>2, <1>3 DEF Next

\* There is a victim throughout.
LEMMA VictimInvariant == Spec => []VictimInv
BY VictimInit, VictimNext, TypeCorrect, PTL DEF Spec

\* An occupied slot always has a timestamp, whatever fails and however slots
\* were freed and forgotten.
THEOREM OccupiedHasTimestamp == Spec => []EvictionHasVictim
<1>1. VictimInv => EvictionHasVictim
  BY DEF VictimInv
<1> QED BY <1>1, VictimInvariant, PTL

\* The minimum principle, for a relation on the naturals.
LEMMA WellFoundedMin ==
    ASSUME NEW R, NEW T, IsWellFoundedOn(R, Nat), T \subseteq Nat, T # {}
    PROVE  \E x \in T : \A y \in T : ~(<<y, x>> \in R)
BY WFMin

\* A set of naturals that is not empty has a least member.
LEMMA LeastNat ==
    ASSUME NEW T \in SUBSET Nat, T # {}
    PROVE  \E x \in T : \A y \in T : x <= y
<1>1. \E R : IsWellFoundedOn(R, Nat) /\ \A m, n \in Nat : <<m, n>> \in R <=> m < n
  <2> DEFINE L == {ss \in Nat \X Nat : ss[1] < ss[2]}
  <2>1. L = OpToRel(<, Nat)
    BY ZenonT(20) DEF OpToRel
  <2>2. IsWellFoundedOn(L, Nat)
    BY <2>1, NatLessThanWellFounded, Zenon
  <2>3. \A m, n \in Nat : <<m, n>> \in L <=> m < n
    OBVIOUS
  <2> HIDE DEF L
  <2> QED
    BY <2>2, <2>3
<1>2. PICK R : IsWellFoundedOn(R, Nat) /\ \A m, n \in Nat : <<m, n>> \in R <=> m < n
  BY <1>1
<1>3. T \subseteq Nat
  OBVIOUS
<1>4. PICK x \in T : \A y \in T : ~(<<y, x>> \in R)
  BY <1>2, <1>3, WellFoundedMin
<1>5. \A y \in T : ~(y < x)
  BY <1>2, <1>3, <1>4
<1> QED
  BY <1>3, <1>5

\* _slot_for finds a slot for any document in any reachable state: min() never
\* sees an empty table of timestamps when all slots are taken.
SlotIsFound == \A d \in Doc : SlotFor(d) # {}

\* _slot_for never fails, whatever is in the map and whatever fault occurred:
\* with a free slot none is needed, and without one all timestamps are there.
THEOREM SlotAlwaysFound == Spec => []SlotIsFound
<1>1. ASSUME TypeOK, VictimInv, NEW d \in Doc
      PROVE  SlotFor(d) # {}
  <2> DEFINE hot  == {s \in Slot : slots[s] = d}
             free == {s \in Slot : slots[s] = None}
             lru  == {s \in Slot : /\ used[s] > 0
                                   /\ \A x \in Slot : used[x] > 0 => used[s] <= used[x]}
  <2>1. Slot \subseteq Nat /\ Slot # {} /\ \A s \in Slot : used[s] \in Nat
    <3>1. CagSlots \in Nat /\ 0 .. CagSlots \subseteq Nat
      BY CagSlotsAssumption
    <3>2. \A s \in Slot : used[s] \in 0 .. CagSlots
      BY <1>1 DEF TypeOK, EngineTypeOK
    <3>3. Slot \subseteq Nat /\ Slot # {}
      BY <3>1, ZeroInSlot DEF Slot
    <3> QED
      BY <3>1, <3>2, <3>3
  <2>2. CASE hot # {}
    BY <2>2 DEF SlotFor
  <2>3. CASE hot = {} /\ free # {}
    <3>1. PICK s \in free : \A x \in free : s <= x
      BY <2>1, <2>3, LeastNat
    <3> QED
      BY <2>3, <3>1 DEF SlotFor
  <2>4. CASE hot = {} /\ free = {}
    <3>1. \A s \in Slot : used[s] > 0
      BY <1>1, <2>4 DEF VictimInv, EvictionHasVictim
    <3>2. PICK r \in {used[s] : s \in Slot} : \A n \in {used[s] : s \in Slot} : r <= n
      <4>1. {used[s] : s \in Slot} \in SUBSET Nat /\ {used[s] : s \in Slot} # {}
        BY <2>1
      <4> QED
        BY <4>1, LeastNat
    <3>3. lru # {}
      BY <3>1, <3>2
    <3> QED
      BY <2>4, <3>3 DEF SlotFor
  <2> QED
    BY <2>2, <2>3, <2>4
<1>2. TypeOK /\ VictimInv => SlotIsFound
  BY <1>1 DEF SlotIsFound
<1> QED BY <1>2, TypeCorrect, VictimInvariant, PTL
=============================================================================
