------------------------ MODULE CagCacheProofs ------------------------
(***************************************************************************)
(* The engine as a two-level cache.  The fingerprint protocol of           *)
(* _ensure_model_marker keeps every slot free of KV state evaluated by     *)
(* another model, however threads, crashes and restarts interleave, as     *)
(* long as models are only ever upgraded and /props and the unlinks of the *)
(* wipe do not fail.  While no server call fails half-way and the slot     *)
(* count stays what the engine was told, a cache file holds the document   *)
(* it is named after; and with both, every step of the engine is a step of *)
(* DocumentCache.                                                          *)
(***************************************************************************)
EXTENDS CagEngineProofs

-----------------------------------------------------------------------------
\* The fingerprint protocol.

\* What the protocol needs of its environment.
FingerprintReliable ==
    /\ Shared
    /\ Faults \cap {"props", "anonymous", "unlink", "rollback", "race"} = {}

\* The marker and the models of the cache files bracket one another: a file is
\* never older than the marker, and nothing is newer than the served model.
Provenance ==
    /\ marker # None => marker <= model
    /\ \A d \in Doc : files[d] \in State =>
          /\ files[d].model <= model
          /\ marker # None => marker <= files[d].model

\* Between a forced check and its restore every cache file is the served
\* model's own.
RestoreIsSafe ==
    (\E t \in Thread : pc[t] = "restore") =>
        \A d \in Doc : files[d] \in State => files[d].model = model

FreshInv == KvFresh /\ Provenance /\ RestoreIsSafe

\* A step that keeps the model and the marker, and whose new KV state and new
\* files are the served model's.
LEMMA FreshStep ==
    ASSUME TypeOK, FreshInv, UNCHANGED <<model, marker>>,
           \A k \in Slot : kv'[k] \in State => kv'[k].model = model,
           \A d \in Doc : files'[d] \in State =>
               files'[d] = files[d] \/ files'[d].model = model,
           \A t \in Thread : pc'[t] = "restore" => pc[t] = "restore"
    PROVE  FreshInv'
<1>1. KvFresh'
  BY DEF KvFresh
<1>2. model \in Nat /\ (marker # None => marker \in Nat)
  BY ModelAssumption DEF TypeOK, ServerTypeOK, EngineTypeOK
<1>3. Provenance'
  BY <1>2 DEF FreshInv, Provenance
<1>4. RestoreIsSafe'
  BY DEF FreshInv, RestoreIsSafe
<1> QED BY <1>1, <1>3, <1>4 DEF FreshInv

\* What an evaluation leaves in a slot is the served model's.
LEMMA EvaluatedFresh ==
    ASSUME TypeOK, KvFresh, NEW s \in Slot, NEW d \in Doc
    PROVE  Evaluated(s, d).model = model
<1>1. CASE Reuses(s, d)
  <2>1. kv[Physical(s)] \in State
    BY <1>1, PhysicalInSlot DEF Reuses, TypeOK, ServerTypeOK
  <2> QED BY <1>1, <2>1, PhysicalInSlot DEF Evaluated, KvFresh
<1>2. CASE ~Reuses(s, d)
  BY <1>2 DEF Evaluated
<1> QED BY <1>1, <1>2

\* Erasing, evaluating and saving keep the slots fresh; so does a restore while
\* every file is the served model's.
LEMMA KvStep ==
    ASSUME TypeOK, KvFresh, NEW s \in Slot, NEW d \in Doc,
           \/ SlotErase(s) \/ Chat(s, d) \/ ChatFails(s, d) \/ UNCHANGED kv
           \/ /\ SlotRestore(s, d) \/ SlotRestoreFails(s, d)
              /\ files[d] \in State => files[d].model = model
    PROVE  \A k \in Slot : kv'[k] \in State => kv'[k].model = model
<1> DEFINE p == Physical(s)
<1>1. p \in Slot /\ Empty \notin State /\ NoFile \notin State
  BY PhysicalInSlot, EmptyAssumption
<1>2. Evaluated(s, d).model = model
  BY EvaluatedFresh
<1>3. kv \in [Slot -> State \cup {Empty}] /\ files[d] \in State \cup {Empty, NoFile}
  BY DEF TypeOK, ServerTypeOK
<1>4. \/ kv' = kv
      \/ \E x : kv' = [kv EXCEPT ![p] = x] /\ (x \in State => x.model = model)
  BY <1>1, <1>2, <1>3
  DEF SlotErase, Chat, ChatFails, SlotRestore, SlotRestoreFails, KvFresh
<1> HIDE DEF p
<1> QED BY <1>1, <1>3, <1>4 DEF KvFresh

\* A save writes only what the slots hold, so the served model's state.
LEMMA SaveFresh ==
    ASSUME TypeOK, KvFresh, NEW s \in Slot, NEW d \in Doc,
           SlotSave(s, d) \/ SlotSaveFails(s, d) \/ UNCHANGED files
    PROVE  \A e \in Doc : files'[e] \in State =>
               files'[e] = files[e] \/ files'[e].model = model
BY PhysicalInSlot DEF SlotSave, SlotSaveFails, KvFresh, TypeOK, ServerTypeOK

\* After a check that was not memoized every cache file is the served model's.
LEMMA CheckProves ==
    ASSUME TypeOK, FreshInv, FingerprintReliable, NEW force \in BOOLEAN,
           CheckReturns(force), NeedsCheck(force)
    PROVE  \A d \in Doc : files'[d] \in State =>
               files'[d] = files[d] /\ files[d].model = model
<1>1. Fingerprint
  BY DEF CheckReturns, FingerprintReliable
<1>2. CASE CacheFiles # {} /\ marker # model
  <2>1. files' = [d \in Doc |-> IF d \in CacheFiles THEN NoFile ELSE files[d]]
    BY <1>1, <1>2 DEF Fingerprint, FingerprintReliable
  <2> QED
    BY <2>1, EmptyAssumption DEF CacheFiles, FingerprintReliable
<1>3. CASE CacheFiles = {}
  BY <1>1, <1>3, EmptyAssumption
  DEF Fingerprint, CacheFiles, FingerprintReliable
<1>4. CASE marker = model
  <2>1. files' = files
    BY <1>1, <1>4 DEF Fingerprint
  <2>2. marker # None
    BY <1>4, EngineAssumption DEF TypeOK, ServerTypeOK
  <2>3. ASSUME NEW d \in Doc, files[d] \in State PROVE files[d].model = model
    <3>1. files[d].model <= model /\ marker <= files[d].model
      BY <2>2, <2>3 DEF FreshInv, Provenance
    <3>2. files[d].model \in Nat /\ model \in Nat
      BY <2>3, ModelAssumption DEF State, TypeOK, ServerTypeOK
    <3> QED BY <1>4, <3>1, <3>2
  <2> QED BY <2>1, <2>3
<1> QED BY <1>2, <1>3, <1>4

\* The check keeps the invariant, whatever thread goes on to restore.
LEMMA CheckFresh ==
    ASSUME TypeOK, FreshInv, FingerprintReliable, NEW force \in BOOLEAN,
           CheckReturns(force), UNCHANGED <<model, kv>>,
           NeedsCheck(force) \/ \A t \in Thread : pc'[t] = "restore" => pc[t] = "restore"
    PROVE  FreshInv'
<1>1. KvFresh'
  BY DEF FreshInv, KvFresh
<1>2. CASE ~NeedsCheck(force)
  <2>1. UNCHANGED <<files, marker>>
    BY <1>2 DEF CheckReturns, Fingerprint, checkVars
  <2> QED
    BY <1>1, <1>2, <2>1 DEF FreshInv, Provenance, RestoreIsSafe
<1>3. CASE NeedsCheck(force)
  <2>1. \A d \in Doc : files'[d] \in State => files'[d].model = model
    BY <1>3, CheckProves
  <2>2. marker' \in {model, marker, None}
    BY <1>3 DEF CheckReturns, Fingerprint, FingerprintReliable
  <2>3. marker' # None => marker' <= model
    BY <2>2, ModelAssumption DEF FreshInv, Provenance, TypeOK, ServerTypeOK
  <2>4. model \in Nat
    BY ModelAssumption DEF TypeOK, ServerTypeOK
  <2> QED BY <1>1, <2>1, <2>3, <2>4 DEF FreshInv, Provenance, RestoreIsSafe
<1> QED BY <1>2, <1>3

\* Every step of a request thread.
LEMMA FreshThreadSteps ==
    ASSUME TypeOK, FreshInv, FingerprintReliable, NEW t \in Thread,
           Arrival(t) \/ ThreadStep(t)
    PROVE  FreshInv'
<1>1. t \in Process /\ slot[t] \in Slot /\ (pc[t] # "idle" => doc[t] \in Doc)
  BY BusyType, ThreadIsProcess
<1>2. KvFresh
  BY DEF FreshInv
<1>3. CASE IngestFind(t)
  <2>1. UNCHANGED <<model, marker>>
    BY <1>3 DEF IngestFind, serverVars, storeVars, mapVars, checkVars
  <2>2. \A k \in Slot : kv'[k] \in State => kv'[k].model = model
    BY <1>2, <1>3
    DEF IngestFind, KvFresh, serverVars, storeVars, mapVars, checkVars
  <2>3. \A d \in Doc : files'[d] \in State =>
            files'[d] = files[d] \/ files'[d].model = model
    BY <1>2, <1>3 DEF IngestFind, serverVars, storeVars, mapVars, checkVars
  <2>4. \A q \in Thread : pc'[q] = "restore" => pc[q] = "restore"
    BY <1>1, <1>3, ThreadIsProcess
    DEF IngestFind, Goto, Finish, At, TypeOK, ThreadTypeOK
  <2> QED BY <2>1, <2>2, <2>3, <2>4, FreshStep
<1>4. CASE IngestInsert(t)
  <2>1. UNCHANGED <<model, marker>>
    BY <1>4 DEF IngestInsert, serverVars, storeVars, mapVars, checkVars
  <2>2. \A k \in Slot : kv'[k] \in State => kv'[k].model = model
    BY <1>2, <1>4
    DEF IngestInsert, KvFresh, serverVars, storeVars, mapVars, checkVars
  <2>3. \A d \in Doc : files'[d] \in State =>
            files'[d] = files[d] \/ files'[d].model = model
    BY <1>2, <1>4 DEF IngestInsert, serverVars, storeVars, mapVars, checkVars
  <2>4. \A q \in Thread : pc'[q] = "restore" => pc[q] = "restore"
    BY <1>1, <1>4, ThreadIsProcess
    DEF IngestInsert, Goto, Finish, At, TypeOK, ThreadTypeOK
  <2> QED BY <2>1, <2>2, <2>3, <2>4, FreshStep
<1>5. CASE IngestGivesUp(t)
  <2>1. UNCHANGED <<model, marker>>
    BY <1>5 DEF IngestGivesUp, serverVars, storeVars, mapVars, checkVars
  <2>2. \A k \in Slot : kv'[k] \in State => kv'[k].model = model
    BY <1>2, <1>5
    DEF IngestGivesUp, KvFresh, serverVars, storeVars, mapVars, checkVars
  <2>3. \A d \in Doc : files'[d] \in State =>
            files'[d] = files[d] \/ files'[d].model = model
    BY <1>2, <1>5 DEF IngestGivesUp, serverVars, storeVars, mapVars, checkVars
  <2>4. \A q \in Thread : pc'[q] = "restore" => pc[q] = "restore"
    BY <1>1, <1>5, ThreadIsProcess
    DEF IngestGivesUp, Goto, Finish, At, TypeOK, ThreadTypeOK
  <2> QED BY <2>1, <2>2, <2>3, <2>4, FreshStep
<1>6. CASE IngestMarkCached(t)
  <2>1. UNCHANGED <<model, marker>>
    BY <1>6 DEF IngestMarkCached, serverVars, storeVars, mapVars, checkVars
  <2>2. \A k \in Slot : kv'[k] \in State => kv'[k].model = model
    BY <1>2, <1>6
    DEF IngestMarkCached, KvFresh, serverVars, storeVars, mapVars, checkVars
  <2>3. \A d \in Doc : files'[d] \in State =>
            files'[d] = files[d] \/ files'[d].model = model
    BY <1>2, <1>6
    DEF IngestMarkCached, serverVars, storeVars, mapVars, checkVars
  <2>4. \A q \in Thread : pc'[q] = "restore" => pc[q] = "restore"
    BY <1>1, <1>6, ThreadIsProcess
    DEF IngestMarkCached, Goto, Finish, At, TypeOK, ThreadTypeOK
  <2> QED BY <2>1, <2>2, <2>3, <2>4, FreshStep
<1>7. CASE IngestMarkFailed(t)
  <2>1. UNCHANGED <<model, marker>>
    BY <1>7 DEF IngestMarkFailed, serverVars, storeVars, mapVars, checkVars
  <2>2. \A k \in Slot : kv'[k] \in State => kv'[k].model = model
    BY <1>2, <1>7
    DEF IngestMarkFailed, KvFresh, serverVars, storeVars, mapVars, checkVars
  <2>3. \A d \in Doc : files'[d] \in State =>
            files'[d] = files[d] \/ files'[d].model = model
    BY <1>2, <1>7
    DEF IngestMarkFailed, serverVars, storeVars, mapVars, checkVars
  <2>4. \A q \in Thread : pc'[q] = "restore" => pc[q] = "restore"
    BY <1>1, <1>7, ThreadIsProcess
    DEF IngestMarkFailed, Goto, Finish, At, TypeOK, ThreadTypeOK
  <2> QED BY <2>1, <2>2, <2>3, <2>4, FreshStep
<1>8. CASE IngestGoneUnmap(t)
  <2>1. UNCHANGED <<model, marker>>
    BY <1>8 DEF IngestGoneUnmap, serverVars, storeVars, mapVars, checkVars
  <2>2. \A k \in Slot : kv'[k] \in State => kv'[k].model = model
    BY <1>2, <1>8
    DEF IngestGoneUnmap, KvFresh, serverVars, storeVars, mapVars, checkVars
  <2>3. \A d \in Doc : files'[d] \in State =>
            files'[d] = files[d] \/ files'[d].model = model
    BY <1>2, <1>8 DEF IngestGoneUnmap, serverVars, storeVars, mapVars, checkVars
  <2>4. \A q \in Thread : pc'[q] = "restore" => pc[q] = "restore"
    BY <1>1, <1>8, ThreadIsProcess
    DEF IngestGoneUnmap, Goto, Finish, At, TypeOK, ThreadTypeOK
  <2> QED BY <2>1, <2>2, <2>3, <2>4, FreshStep
<1>9. CASE QueryRead(t)
  <2>1. UNCHANGED <<model, marker>>
    BY <1>9 DEF QueryRead, serverVars, storeVars, mapVars, checkVars
  <2>2. \A k \in Slot : kv'[k] \in State => kv'[k].model = model
    BY <1>2, <1>9
    DEF QueryRead, KvFresh, serverVars, storeVars, mapVars, checkVars
  <2>3. \A d \in Doc : files'[d] \in State =>
            files'[d] = files[d] \/ files'[d].model = model
    BY <1>2, <1>9 DEF QueryRead, serverVars, storeVars, mapVars, checkVars
  <2>4. \A q \in Thread : pc'[q] = "restore" => pc[q] = "restore"
    BY <1>1, <1>9, ThreadIsProcess
    DEF QueryRead, Goto, Finish, At, TypeOK, ThreadTypeOK
  <2> QED BY <2>1, <2>2, <2>3, <2>4, FreshStep
<1>10. CASE QuerySlot(t)
  <2>1. UNCHANGED <<model, marker>>
    BY <1>10 DEF QuerySlot, serverVars, storeVars, mapVars, checkVars
  <2>2. \A k \in Slot : kv'[k] \in State => kv'[k].model = model
    BY <1>2, <1>10
    DEF QuerySlot, KvFresh, serverVars, storeVars, mapVars, checkVars
  <2>3. \A d \in Doc : files'[d] \in State =>
            files'[d] = files[d] \/ files'[d].model = model
    BY <1>2, <1>10 DEF QuerySlot, serverVars, storeVars, mapVars, checkVars
  <2>4. \A q \in Thread : pc'[q] = "restore" => pc[q] = "restore"
    BY <1>1, <1>10, ThreadIsProcess
    DEF QuerySlot, Goto, Finish, At, TypeOK, ThreadTypeOK
  <2> QED BY <2>1, <2>2, <2>3, <2>4, FreshStep
<1>11. CASE QueryUnmap(t)
  <2>1. UNCHANGED <<model, marker>>
    BY <1>11 DEF QueryUnmap, serverVars, storeVars, mapVars, checkVars
  <2>2. \A k \in Slot : kv'[k] \in State => kv'[k].model = model
    BY <1>2, <1>11
    DEF QueryUnmap, KvFresh, serverVars, storeVars, mapVars, checkVars
  <2>3. \A d \in Doc : files'[d] \in State =>
            files'[d] = files[d] \/ files'[d].model = model
    BY <1>2, <1>11 DEF QueryUnmap, serverVars, storeVars, mapVars, checkVars
  <2>4. \A q \in Thread : pc'[q] = "restore" => pc[q] = "restore"
    BY <1>1, <1>11, ThreadIsProcess
    DEF QueryUnmap, Goto, Finish, At, TypeOK, ThreadTypeOK
  <2> QED BY <2>1, <2>2, <2>3, <2>4, FreshStep
<1>12. CASE DeleteRow(t)
  <2>1. UNCHANGED <<model, marker>>
    BY <1>12 DEF DeleteRow, serverVars, storeVars, mapVars, checkVars
  <2>2. \A k \in Slot : kv'[k] \in State => kv'[k].model = model
    BY <1>2, <1>12
    DEF DeleteRow, KvFresh, serverVars, storeVars, mapVars, checkVars
  <2>3. \A d \in Doc : files'[d] \in State =>
            files'[d] = files[d] \/ files'[d].model = model
    BY <1>2, <1>12 DEF DeleteRow, serverVars, storeVars, mapVars, checkVars
  <2>4. \A q \in Thread : pc'[q] = "restore" => pc[q] = "restore"
    BY <1>1, <1>12, ThreadIsProcess
    DEF DeleteRow, Goto, Finish, At, TypeOK, ThreadTypeOK
  <2> QED BY <2>1, <2>2, <2>3, <2>4, FreshStep
<1>13. CASE WarmSlot(t)
  <2>1. UNCHANGED <<model, marker>>
    BY <1>13 DEF WarmSlot, serverVars, storeVars, mapVars, checkVars
  <2>2. \A k \in Slot : kv'[k] \in State => kv'[k].model = model
    BY <1>2, <1>13, <1>1, KvStep, SlotForInSlot DEF WarmSlot
  <2>3. \A d \in Doc : files'[d] \in State =>
            files'[d] = files[d] \/ files'[d].model = model
    BY <1>2, <1>13 DEF WarmSlot, serverVars, storeVars, mapVars, checkVars
  <2>4. \A q \in Thread : pc'[q] = "restore" => pc[q] = "restore"
    BY <1>1, <1>13, ThreadIsProcess
    DEF WarmSlot, Goto, Finish, At, TypeOK, ThreadTypeOK
  <2> QED BY <2>1, <2>2, <2>3, <2>4, FreshStep
<1>14. CASE WarmChat(t)
  <2>1. UNCHANGED <<model, marker>>
    BY <1>14 DEF WarmChat, serverVars, storeVars, mapVars, checkVars
  <2>2. \A k \in Slot : kv'[k] \in State => kv'[k].model = model
    BY <1>2, <1>14, <1>1, KvStep DEF WarmChat
  <2>3. \A d \in Doc : files'[d] \in State =>
            files'[d] = files[d] \/ files'[d].model = model
    BY <1>2, <1>14 DEF WarmChat, serverVars, storeVars, mapVars, checkVars
  <2>4. \A q \in Thread : pc'[q] = "restore" => pc[q] = "restore"
    BY <1>1, <1>14, ThreadIsProcess
    DEF WarmChat, Goto, Finish, At, TypeOK, ThreadTypeOK
  <2> QED BY <2>1, <2>2, <2>3, <2>4, FreshStep
<1>15. CASE QueryChat(t)
  <2>1. UNCHANGED <<model, marker>>
    BY <1>15 DEF QueryChat, serverVars, storeVars, mapVars, checkVars
  <2>2. \A k \in Slot : kv'[k] \in State => kv'[k].model = model
    BY <1>2, <1>15, <1>1, KvStep DEF QueryChat
  <2>3. \A d \in Doc : files'[d] \in State =>
            files'[d] = files[d] \/ files'[d].model = model
    BY <1>2, <1>15 DEF QueryChat, serverVars, storeVars, mapVars, checkVars
  <2>4. \A q \in Thread : pc'[q] = "restore" => pc[q] = "restore"
    BY <1>1, <1>15, ThreadIsProcess
    DEF QueryChat, Spawn, Goto, Finish, At, TypeOK, ThreadTypeOK
  <2> QED BY <2>1, <2>2, <2>3, <2>4, FreshStep
<1>16. CASE QueryChatFails(t)
  <2>1. UNCHANGED <<model, marker>>
    BY <1>16 DEF QueryChatFails, serverVars, storeVars, mapVars, checkVars
  <2>2. \A k \in Slot : kv'[k] \in State => kv'[k].model = model
    BY <1>2, <1>16, <1>1, KvStep DEF QueryChatFails
  <2>3. \A d \in Doc : files'[d] \in State =>
            files'[d] = files[d] \/ files'[d].model = model
    BY <1>2, <1>16 DEF QueryChatFails, serverVars, storeVars, mapVars, checkVars
  <2>4. \A q \in Thread : pc'[q] = "restore" => pc[q] = "restore"
    BY <1>1, <1>16, ThreadIsProcess
    DEF QueryChatFails, Goto, Finish, At, TypeOK, ThreadTypeOK
  <2> QED BY <2>1, <2>2, <2>3, <2>4, FreshStep
<1>17. CASE DeleteUnmap(t)
  <2>1. UNCHANGED <<model, marker>>
    BY <1>17 DEF DeleteUnmap, serverVars, storeVars, mapVars, checkVars
  <2>2. \A k \in Slot : kv'[k] \in State => kv'[k].model = model
    BY <1>2, <1>17, <1>1, KvStep DEF DeleteUnmap
  <2>3. \A d \in Doc : files'[d] \in State =>
            files'[d] = files[d] \/ files'[d].model = model
    BY <1>2, <1>17 DEF DeleteUnmap, serverVars, storeVars, mapVars, checkVars
  <2>4. \A q \in Thread : pc'[q] = "restore" => pc[q] = "restore"
    BY <1>1, <1>17, ThreadIsProcess
    DEF DeleteUnmap, Goto, Finish, At, TypeOK, ThreadTypeOK
  <2> QED BY <2>1, <2>2, <2>3, <2>4, FreshStep
<1>18. CASE QueryRestore(t)
  <2>1. UNCHANGED <<model, marker>>
    BY <1>18 DEF QueryRestore, serverVars, storeVars, mapVars, checkVars
  <2>2. \A k \in Slot : kv'[k] \in State => kv'[k].model = model
    BY <1>2, <1>18, <1>1, KvStep DEF QueryRestore, FreshInv, RestoreIsSafe
  <2>3. \A d \in Doc : files'[d] \in State =>
            files'[d] = files[d] \/ files'[d].model = model
    BY <1>2, <1>18 DEF QueryRestore, serverVars, storeVars, mapVars, checkVars
  <2>4. \A q \in Thread : pc'[q] = "restore" => pc[q] = "restore"
    BY <1>1, <1>18, ThreadIsProcess
    DEF QueryRestore, Goto, Finish, At, TypeOK, ThreadTypeOK
  <2> QED BY <2>1, <2>2, <2>3, <2>4, FreshStep
<1>19. CASE WarmSave(t)
  <2>1. UNCHANGED <<model, marker>>
    BY <1>19 DEF WarmSave, serverVars, storeVars, mapVars, checkVars
  <2>2. \A k \in Slot : kv'[k] \in State => kv'[k].model = model
    BY <1>2, <1>19 DEF WarmSave, KvFresh
  <2>3. \A d \in Doc : files'[d] \in State =>
            files'[d] = files[d] \/ files'[d].model = model
    BY <1>2, <1>19, <1>1, SaveFresh DEF WarmSave
  <2>4. \A q \in Thread : pc'[q] = "restore" => pc[q] = "restore"
    BY <1>1, <1>19, ThreadIsProcess
    DEF WarmSave, Goto, Finish, At, TypeOK, ThreadTypeOK
  <2> QED BY <2>1, <2>2, <2>3, <2>4, FreshStep
<1>20. CASE IngestGoneUnlink(t)
  <2>1. UNCHANGED <<model, marker>>
    BY <1>20 DEF IngestGoneUnlink, serverVars, storeVars, mapVars, checkVars
  <2>2. \A k \in Slot : kv'[k] \in State => kv'[k].model = model
    BY <1>2, <1>20
    DEF IngestGoneUnlink, KvFresh, serverVars, storeVars, mapVars, checkVars
  <2>3. \A d \in Doc : files'[d] \in State =>
            files'[d] = files[d] \/ files'[d].model = model
    BY <1>2, <1>20, EmptyAssumption
    DEF IngestGoneUnlink, Unlink, TypeOK, ServerTypeOK
  <2>4. \A q \in Thread : pc'[q] = "restore" => pc[q] = "restore"
    BY <1>1, <1>20, ThreadIsProcess
    DEF IngestGoneUnlink, Goto, Finish, At, TypeOK, ThreadTypeOK
  <2> QED BY <2>1, <2>2, <2>3, <2>4, FreshStep
<1>21. CASE DeleteUnlink(t)
  <2>1. UNCHANGED <<model, marker>>
    BY <1>21 DEF DeleteUnlink, serverVars, storeVars, mapVars, checkVars
  <2>2. \A k \in Slot : kv'[k] \in State => kv'[k].model = model
    BY <1>2, <1>21
    DEF DeleteUnlink, KvFresh, serverVars, storeVars, mapVars, checkVars
  <2>3. \A d \in Doc : files'[d] \in State =>
            files'[d] = files[d] \/ files'[d].model = model
    BY <1>2, <1>21, EmptyAssumption
    DEF DeleteUnlink, Unlink, TypeOK, ServerTypeOK
  <2>4. \A q \in Thread : pc'[q] = "restore" => pc[q] = "restore"
    BY <1>1, <1>21, ThreadIsProcess
    DEF DeleteUnlink, Goto, Finish, At, TypeOK, ThreadTypeOK
  <2> QED BY <2>1, <2>2, <2>3, <2>4, FreshStep
<1>22. CASE WarmLock(t)
  <2>1. UNCHANGED <<model, kv>>
    BY <1>22 DEF WarmLock
  <2>2. \A q \in Thread : pc'[q] = "restore" => pc[q] = "restore"
    BY <1>1, <1>22, ThreadIsProcess
    DEF WarmLock, Goto, Finish, At, TypeOK, ThreadTypeOK
  <2>3. CASE CheckReturns(FALSE)
    BY <2>1, <2>2, <2>3, CheckFresh
  <2>4. CASE CheckRaises(FALSE)
    <3>1. UNCHANGED <<files, marker>>
      BY <2>4 DEF CheckRaises, checkVars
    <3>2. \A q \in Thread : pc'[q] = "restore" => pc[q] = "restore"
      BY <1>1, <1>22, <2>4, ThreadIsProcess
      DEF WarmLock, CheckRaises, CheckReturns, FingerprintReliable, NeedsCheck,
          Goto, Finish, At, TypeOK, ThreadTypeOK
    <3> QED BY <2>1, <3>1, <3>2, FreshStep DEF FreshInv, KvFresh
  <2> QED BY <1>22, <2>3, <2>4 DEF WarmLock
<1>23. CASE QueryLock(t)
  <2>1. UNCHANGED <<model, kv>>
    BY <1>23 DEF QueryLock
  <2>2. \A q \in Thread : pc'[q] = "restore" => pc[q] = "restore"
    BY <1>1, <1>23, ThreadIsProcess
    DEF QueryLock, Goto, Finish, At, TypeOK, ThreadTypeOK
  <2>3. CASE CheckReturns(FALSE)
    BY <2>1, <2>2, <2>3, CheckFresh
  <2>4. CASE CheckRaises(FALSE)
    <3>1. UNCHANGED <<files, marker>>
      BY <2>4 DEF CheckRaises, checkVars
    <3>2. \A q \in Thread : pc'[q] = "restore" => pc[q] = "restore"
      BY <1>1, <1>23, <2>4, ThreadIsProcess
      DEF QueryLock, CheckRaises, CheckReturns, FingerprintReliable,
          NeedsCheck, Goto, Finish, At, TypeOK, ThreadTypeOK
    <3> QED BY <2>1, <3>1, <3>2, FreshStep DEF FreshInv, KvFresh
  <2> QED BY <1>23, <2>3, <2>4 DEF QueryLock
<1>24. CASE QueryRecheck(t)
  <2>1. UNCHANGED <<model, kv>>
    BY <1>24 DEF QueryRecheck
  <2>2. NeedsCheck(TRUE)
    BY DEF NeedsCheck
  <2>3. CASE CheckReturns(TRUE)
    BY <2>1, <2>2, <2>3, CheckFresh
  <2>4. CASE CheckRaises(TRUE)
    <3>1. UNCHANGED <<files, marker>>
      BY <2>4 DEF CheckRaises, checkVars
    <3>2. \A q \in Thread : pc'[q] = "restore" => pc[q] = "restore"
      BY <1>1, <1>24, <2>4, ThreadIsProcess
      DEF QueryRecheck, CheckRaises, CheckReturns, FingerprintReliable,
          NeedsCheck, Goto, Finish, At, TypeOK, ThreadTypeOK
    <3> QED BY <2>1, <3>1, <3>2, FreshStep DEF FreshInv, KvFresh
  <2> QED BY <1>24, <2>3, <2>4 DEF QueryRecheck
<1> QED
  BY <1>3, <1>4, <1>5, <1>6, <1>7, <1>8, <1>9, <1>10, <1>11, <1>12, <1>13,
     <1>14, <1>15, <1>16, <1>17, <1>18, <1>19, <1>20, <1>21, <1>22, <1>23,
     <1>24
  DEF Arrival, ThreadStep

\* Every step of a deferred re-save.
LEMMA FreshWorkerSteps ==
    ASSUME TypeOK, FreshInv, NEW w \in Worker, WorkerStep(w)
    PROVE  FreshInv'
<1>1. w \in Process /\ slot[w] \in Slot /\ (pc[w] # "idle" => doc[w] \in Doc)
  BY BusyType, ThreadIsProcess
<1>2. KvFresh
  BY DEF FreshInv
<1>3. CASE ResaveSave(w)
  <2>1. UNCHANGED <<model, marker>>
    BY <1>3 DEF ResaveSave, serverVars, storeVars, mapVars, checkVars
  <2>2. \A k \in Slot : kv'[k] \in State => kv'[k].model = model
    BY <1>2, <1>3 DEF ResaveSave, KvFresh
  <2>3. \A d \in Doc : files'[d] \in State =>
            files'[d] = files[d] \/ files'[d].model = model
    BY <1>2, <1>3, <1>1, SaveFresh DEF ResaveSave
  <2>4. \A q \in Thread : pc'[q] = "restore" => pc[q] = "restore"
    BY <1>1, <1>3, ThreadIsProcess
    DEF ResaveSave, Goto, Finish, At, TypeOK, ThreadTypeOK
  <2> QED BY <2>1, <2>2, <2>3, <2>4, FreshStep
<1>4. CASE ResaveMark(w)
  <2>1. UNCHANGED <<model, marker>>
    BY <1>4 DEF ResaveMark, serverVars, storeVars, mapVars, checkVars
  <2>2. \A k \in Slot : kv'[k] \in State => kv'[k].model = model
    BY <1>2, <1>4
    DEF ResaveMark, KvFresh, serverVars, storeVars, mapVars, checkVars
  <2>3. \A d \in Doc : files'[d] \in State =>
            files'[d] = files[d] \/ files'[d].model = model
    BY <1>2, <1>4 DEF ResaveMark, serverVars, storeVars, mapVars, checkVars
  <2>4. \A q \in Thread : pc'[q] = "restore" => pc[q] = "restore"
    BY <1>1, <1>4, ThreadIsProcess
    DEF ResaveMark, Goto, Finish, At, TypeOK, ThreadTypeOK
  <2> QED BY <2>1, <2>2, <2>3, <2>4, FreshStep
<1>5. CASE ResaveUnlink(w)
  <2>1. UNCHANGED <<model, marker>>
    BY <1>5 DEF ResaveUnlink, serverVars, storeVars, mapVars, checkVars
  <2>2. \A k \in Slot : kv'[k] \in State => kv'[k].model = model
    BY <1>2, <1>5
    DEF ResaveUnlink, KvFresh, serverVars, storeVars, mapVars, checkVars
  <2>3. \A d \in Doc : files'[d] \in State =>
            files'[d] = files[d] \/ files'[d].model = model
    BY <1>2, <1>5, EmptyAssumption
    DEF ResaveUnlink, Unlink, TypeOK, ServerTypeOK
  <2>4. \A q \in Thread : pc'[q] = "restore" => pc[q] = "restore"
    BY <1>1, <1>5, ThreadIsProcess
    DEF ResaveUnlink, Goto, Finish, At, TypeOK, ThreadTypeOK
  <2> QED BY <2>1, <2>2, <2>3, <2>4, FreshStep
<1> QED BY <1>3, <1>4, <1>5 DEF WorkerStep

\* Crashes, restarts (which never fall between a forced check and its restore)
\* and resizes.
LEMMA FreshWorld ==
    ASSUME TypeOK, FreshInv, FingerprintReliable, Crash \/ Restart \/ Resize
    PROVE  FreshInv'
<1>1. CASE Crash
  <2>1. UNCHANGED <<model, marker, kv, files>>
    BY <1>1 DEF Crash, serverVars
  <2>2. \A t \in Thread : pc'[t] # "restore"
    BY <1>1, ThreadIsProcess DEF Crash
  <2> QED BY <2>1, <2>2 DEF FreshInv, KvFresh, Provenance, RestoreIsSafe
<1>2. CASE Restart
  <2>1. /\ model' \in Nat /\ model \in Nat /\ model <= model'
        /\ UNCHANGED <<files, marker, pc>>
    BY <1>2, ModelAssumption
    DEF Restart, ServerRestart, FingerprintReliable, checkVars, TypeOK,
        ServerTypeOK
  <2>2. KvFresh'
    BY <1>2, EmptyAssumption DEF Restart, ServerRestart, KvFresh
  <2>3. Provenance'
    <3>1. marker # None => marker \in Nat
      BY ModelAssumption DEF TypeOK, EngineTypeOK
    <3>2. \A d \in Doc : files[d] \in State => files[d].model \in Nat
      BY ModelAssumption DEF State
    <3> QED BY <2>1, <3>1, <3>2 DEF FreshInv, Provenance
  <2>4. RestoreIsSafe'
    BY <1>2, <2>1 DEF Restart, FingerprintReliable, RestoreIsSafe
  <2> QED BY <2>2, <2>3, <2>4 DEF FreshInv
<1>3. CASE Resize
  <2>1. UNCHANGED <<model, marker, files, pc>>
    BY <1>3 DEF Resize, ServerResize, checkVars
  <2>2. KvFresh'
    BY <1>3, EmptyAssumption DEF Resize, ServerResize, KvFresh
  <2> QED BY <2>1, <2>2 DEF FreshInv, Provenance, RestoreIsSafe
<1> QED BY <1>1, <1>2, <1>3

LEMMA FreshInit == Init => FreshInv
BY EmptyAssumption, ThreadIsProcess
DEF Init, ServerInit, FreshInv, KvFresh, Provenance, RestoreIsSafe

LEMMA FreshNext ==
    ASSUME FingerprintReliable, TypeOK, FreshInv, [Next]_vars
    PROVE  FreshInv'
<1>1. CASE Next
  BY <1>1, FreshThreadSteps, FreshWorkerSteps, FreshWorld DEF Next
<1>2. CASE UNCHANGED vars
  BY <1>2, FreshStep
  DEF vars, serverVars, checkVars, FreshInv, KvFresh
<1> QED BY <1>1, <1>2

\* The freshness invariant holds throughout.
LEMMA FreshInvariant ==
    ASSUME FingerprintReliable
    PROVE  Spec => []FreshInv
<1>1. TypeOK /\ FreshInv /\ [Next]_vars => FreshInv'
  BY FreshNext
<1> QED BY <1>1, FreshInit, TypeCorrect, PTL DEF Spec

\* No slot ever holds KV state of a model other than the one served, provided
\* /props answers and names the model, the wipe's unlinks succeed, models are
\* only upgraded, and no restart falls between a forced check and its restore.
\* API crashes, failing or lost server calls, a marker that cannot be written
\* and database errors are all allowed.
THEOREM NeverStale ==
    ASSUME FingerprintReliable
    PROVE  Spec => []KvFresh
<1>1. FreshInv => KvFresh
  BY DEF FreshInv
<1> QED BY <1>1, FreshInvariant, PTL

-----------------------------------------------------------------------------
\* The names of the files.

\* What the names of the cache files depend on: an erase, a completion or a
\* restore that fails may leave in a slot what the map does not say, and a slot
\* count that drifts makes two slots one.
NamesReliable == Faults \cap {"llama", "drift"} = {}

\* A query has claimed its slot and not yet filled it.
AnsweringPc == {"recheck", "restore", "chat"}

\* Between claiming a slot and filling it the map says the query's document, or
\* nothing when the forced check wiped it.
AnswerMapped ==
    \A t \in Thread : pc[t] \in AnsweringPc => slots[slot[t]] \in {doc[t], None}

\* While a warm fills its slot the map says nothing of it.
WarmClaimed ==
    \A t \in Thread : pc[t] \in WarmingPc => slots[slot[t]] = None

\* What a warm is about to save is its document's state.
WarmNamed ==
    \A t \in Thread :
        pc[t] = "warm_save" /\ kv[slot[t]] \in State => kv[slot[t]].doc = doc[t]

\* A slot the map calls hot holds no other document's state, unless a query is
\* just filling it.
HotNamed ==
    \A s \in Slot :
        slots[s] # None /\ kv[s] \in State =>
            \/ kv[s].doc = slots[s]
            \/ \E t \in Thread : pc[t] \in AnsweringPc /\ slot[t] = s

NameInv ==
    /\ total = CagSlots
    /\ AnswerMapped
    /\ WarmClaimed
    /\ WarmNamed
    /\ HotNamed
    /\ FilesTruthful

\* Every slot the engine names is a slot of the server.
LEMMA SlotIsPhysical ==
    ASSUME total = CagSlots, NEW s \in Slot
    PROVE  Physical(s) = s
<1>1. \A n \in Nat \ {0} : \A x \in 0 .. n - 1 : x % n = x
  OBVIOUS
<1> QED BY <1>1, CagSlotsAssumption DEF Physical, Slot

-----------------------------------------------------------------------------
\* Steps that fill no slot.

\* No thread claims a slot or is done filling one; those at it keep their slot
\* and their document.
FillersSteady ==
    \A q \in Thread :
        /\ pc'[q] \in AnsweringPc <=> pc[q] \in AnsweringPc
        /\ pc'[q] \in WarmingPc => pc[q] = pc'[q]
        /\ pc'[q] \in AnsweringPc \cup WarmingPc =>
              doc'[q] = doc[q] /\ slot'[q] = slot[q]

\* The map, the slots and the directory only lose entries, but for files saved
\* under the right name.
NamesKept ==
    /\ total' = total
    /\ \A s \in Slot : slots'[s] \in {slots[s], None}
    /\ \A s \in Slot : kv'[s] \in State => kv'[s] = kv[s]
    /\ \A d \in Doc : files'[d] \in State => files'[d] = files[d] \/ files'[d].doc = d

\* Such a step keeps the names.
LEMMA QuietNames ==
    ASSUME TypeOK, NameInv, FillersSteady, NamesKept
    PROVE  NameInv'
<1>1. \A t \in Thread : slot[t] \in Slot
  BY ThreadIsProcess DEF TypeOK, ThreadTypeOK
<1>2. AnswerMapped'
  BY <1>1 DEF NameInv, AnswerMapped, FillersSteady, NamesKept
<1>3. WarmClaimed'
  BY <1>1 DEF NameInv, WarmClaimed, FillersSteady, NamesKept
<1>4. WarmNamed'
  BY <1>1 DEF NameInv, WarmNamed, FillersSteady, NamesKept, WarmingPc
<1>5. HotNamed'
  BY <1>1 DEF NameInv, HotNamed, FillersSteady, NamesKept
<1>6. FilesTruthful'
  BY DEF NameInv, FilesTruthful, NamesKept
<1> QED BY <1>2, <1>3, <1>4, <1>5, <1>6 DEF NameInv, NamesKept

\* A thread that is not filling a slot, and is not about to.
LEMMA SteadyMove ==
    ASSUME TypeOK, NEW p \in Process, pc[p] \notin AnsweringPc \cup WarmingPc,
           pc'[p] \notin AnsweringPc \cup WarmingPc,
           \A q \in Process \ {p} : pc'[q] = pc[q] /\ doc'[q] = doc[q] /\ slot'[q] = slot[q]
    PROVE  FillersSteady
BY ThreadIsProcess DEF FillersSteady

\* Returning, and going on elsewhere, touch no other thread's locals.
LEMMA MoveAlone ==
    ASSUME TypeOK, NEW p \in Process, NEW where, Finish(p) \/ Goto(p, where)
    PROVE  /\ pc'[p] \in {"idle", where}
           /\ \A q \in Process \ {p} :
                 pc'[q] = pc[q] /\ doc'[q] = doc[q] /\ slot'[q] = slot[q]
BY DEF Finish, Goto, At, localVars, TypeOK, ThreadTypeOK

\* A check keeps the names of what it keeps.
LEMMA CheckNames ==
    ASSUME TypeOK, NEW force, CheckReturns(force) \/ CheckRaises(force),
           UNCHANGED <<kv, total>>
    PROVE  NamesKept
<1>1. \A d \in Doc : files'[d] \in {files[d], NoFile}
  BY DEF CheckReturns, CheckRaises, Fingerprint, TypeOK, ServerTypeOK
<1>2. \A s \in Slot : slots'[s] \in {slots[s], None}
  BY CheckShrinks
<1> QED BY <1>1, <1>2, EmptyAssumption DEF NamesKept

\* Removing a file keeps the names of the others.
LEMMA UnlinkNames ==
    ASSUME TypeOK, NEW d \in Doc, Unlink(d) \/ UNCHANGED files,
           UNCHANGED <<slots, kv, total>>
    PROVE  NamesKept
BY EmptyAssumption DEF Unlink, NamesKept, TypeOK, ServerTypeOK

\* The steps of a request thread that fill no slot.
LEMMA QuietNameSteps ==
    ASSUME TypeOK, NameInv, NEW t \in Thread,
           \/ Arrival(t) \/ IngestInsert(t) \/ IngestGivesUp(t) \/ WarmLock(t)
           \/ IngestMarkCached(t) \/ IngestMarkFailed(t) \/ IngestGoneUnlink(t)
           \/ IngestGoneUnmap(t) \/ QueryLock(t) \/ QueryUnmap(t) \/ DeleteUnlink(t)
    PROVE  NameInv'
<1>1. t \in Process /\ slot[t] \in Slot /\ (pc[t] # "idle" => doc[t] \in Doc)
  BY BusyType, ThreadIsProcess
<1>2. CASE IngestFind(t)
  <2>1. NamesKept
    BY <1>1, <1>2
    DEF IngestFind, NamesKept, serverVars, mapVars, TypeOK, ServerTypeOK, EngineTypeOK
  <2>2. /\ pc[t] \notin AnsweringPc \cup WarmingPc
        /\ pc'[t] \notin AnsweringPc \cup WarmingPc
        /\ \A q \in Process \ {t} :
              pc'[q] = pc[q] /\ doc'[q] = doc[q] /\ slot'[q] = slot[q]
    BY <1>1, <1>2 DEF IngestFind, At, AnsweringPc, WarmingPc, TypeOK, ThreadTypeOK
  <2> QED BY <1>1, <2>1, <2>2, SteadyMove, QuietNames
<1>3. CASE IngestInsert(t)
  <2>1. NamesKept
    BY <1>1, <1>3
    DEF IngestInsert, NamesKept, serverVars, mapVars, TypeOK, ServerTypeOK, EngineTypeOK
  <2>2. /\ pc[t] \notin AnsweringPc \cup WarmingPc
        /\ pc'[t] \notin AnsweringPc \cup WarmingPc
        /\ \A q \in Process \ {t} :
              pc'[q] = pc[q] /\ doc'[q] = doc[q] /\ slot'[q] = slot[q]
    BY <1>1, <1>3 DEF IngestInsert, At, AnsweringPc, WarmingPc, TypeOK, ThreadTypeOK
  <2> QED BY <1>1, <2>1, <2>2, SteadyMove, QuietNames
<1>4. CASE IngestGivesUp(t)
  <2>1. NamesKept
    BY <1>1, <1>4
    DEF IngestGivesUp, NamesKept, serverVars, mapVars, TypeOK, ServerTypeOK, EngineTypeOK
  <2>2. /\ pc[t] \notin AnsweringPc \cup WarmingPc
        /\ pc'[t] \notin AnsweringPc \cup WarmingPc
        /\ \A q \in Process \ {t} :
              pc'[q] = pc[q] /\ doc'[q] = doc[q] /\ slot'[q] = slot[q]
    BY <1>1, <1>4, MoveAlone DEF IngestGivesUp, AnsweringPc, WarmingPc
  <2> QED BY <1>1, <2>1, <2>2, SteadyMove, QuietNames
<1>5. CASE WarmLock(t)
  <2>1. NamesKept
    BY <1>5, CheckNames DEF WarmLock
  <2>2. Goto(t, "warm_slot") \/ Goto(t, "mark_failed")
    BY <1>5 DEF WarmLock
  <2>3. /\ pc[t] \notin AnsweringPc \cup WarmingPc
        /\ pc'[t] \notin AnsweringPc \cup WarmingPc
        /\ \A q \in Process \ {t} :
              pc'[q] = pc[q] /\ doc'[q] = doc[q] /\ slot'[q] = slot[q]
    BY <1>1, <1>5, <2>2, MoveAlone DEF WarmLock, AnsweringPc, WarmingPc
  <2> QED BY <1>1, <2>1, <2>3, SteadyMove, QuietNames
<1>6. CASE IngestMarkCached(t)
  <2>1. NamesKept
    BY <1>1, <1>6
    DEF IngestMarkCached, NamesKept, serverVars, mapVars, TypeOK, ServerTypeOK, EngineTypeOK
  <2>2. /\ pc[t] \notin AnsweringPc \cup WarmingPc
        /\ pc'[t] \notin AnsweringPc \cup WarmingPc
        /\ \A q \in Process \ {t} :
              pc'[q] = pc[q] /\ doc'[q] = doc[q] /\ slot'[q] = slot[q]
    BY <1>1, <1>6, MoveAlone DEF IngestMarkCached, AnsweringPc, WarmingPc
  <2> QED BY <1>1, <2>1, <2>2, SteadyMove, QuietNames
<1>7. CASE IngestMarkFailed(t)
  <2>1. NamesKept
    BY <1>1, <1>7
    DEF IngestMarkFailed, NamesKept, serverVars, mapVars, TypeOK, ServerTypeOK, EngineTypeOK
  <2>2. /\ pc[t] \notin AnsweringPc \cup WarmingPc
        /\ pc'[t] \notin AnsweringPc \cup WarmingPc
        /\ \A q \in Process \ {t} :
              pc'[q] = pc[q] /\ doc'[q] = doc[q] /\ slot'[q] = slot[q]
    BY <1>1, <1>7, MoveAlone DEF IngestMarkFailed, AnsweringPc, WarmingPc
  <2> QED BY <1>1, <2>1, <2>2, SteadyMove, QuietNames
<1>8. CASE IngestGoneUnlink(t)
  <2>1. NamesKept
    BY <1>1, <1>8, UnlinkNames DEF IngestGoneUnlink, mapVars
  <2>2. /\ pc[t] \notin AnsweringPc \cup WarmingPc
        /\ pc'[t] \notin AnsweringPc \cup WarmingPc
        /\ \A q \in Process \ {t} :
              pc'[q] = pc[q] /\ doc'[q] = doc[q] /\ slot'[q] = slot[q]
    BY <1>1, <1>8, MoveAlone DEF IngestGoneUnlink, AnsweringPc, WarmingPc
  <2> QED BY <1>1, <2>1, <2>2, SteadyMove, QuietNames
<1>9. CASE IngestGoneUnmap(t)
  <2>1. NamesKept
    BY <1>1, <1>9
    DEF IngestGoneUnmap, NamesKept, serverVars, mapVars, TypeOK, ServerTypeOK, EngineTypeOK
  <2>2. /\ pc[t] \notin AnsweringPc \cup WarmingPc
        /\ pc'[t] \notin AnsweringPc \cup WarmingPc
        /\ \A q \in Process \ {t} :
              pc'[q] = pc[q] /\ doc'[q] = doc[q] /\ slot'[q] = slot[q]
    BY <1>1, <1>9, MoveAlone DEF IngestGoneUnmap, AnsweringPc, WarmingPc
  <2> QED BY <1>1, <2>1, <2>2, SteadyMove, QuietNames
<1>10. CASE QueryRead(t)
  <2>1. NamesKept
    BY <1>1, <1>10
    DEF QueryRead, NamesKept, serverVars, mapVars, TypeOK, ServerTypeOK, EngineTypeOK
  <2>2. /\ pc[t] \notin AnsweringPc \cup WarmingPc
        /\ pc'[t] \notin AnsweringPc \cup WarmingPc
        /\ \A q \in Process \ {t} :
              pc'[q] = pc[q] /\ doc'[q] = doc[q] /\ slot'[q] = slot[q]
    BY <1>1, <1>10 DEF QueryRead, At, AnsweringPc, WarmingPc, TypeOK, ThreadTypeOK
  <2> QED BY <1>1, <2>1, <2>2, SteadyMove, QuietNames
<1>11. CASE QueryLock(t)
  <2>1. NamesKept
    BY <1>11, CheckNames DEF QueryLock
  <2>2. Goto(t, "hot_slot") \/ Finish(t)
    BY <1>11 DEF QueryLock
  <2>3. /\ pc[t] \notin AnsweringPc \cup WarmingPc
        /\ pc'[t] \notin AnsweringPc \cup WarmingPc
        /\ \A q \in Process \ {t} :
              pc'[q] = pc[q] /\ doc'[q] = doc[q] /\ slot'[q] = slot[q]
    BY <1>1, <1>11, <2>2, MoveAlone DEF QueryLock, AnsweringPc, WarmingPc
  <2> QED BY <1>1, <2>1, <2>3, SteadyMove, QuietNames
<1>12. CASE QueryUnmap(t)
  <2>1. NamesKept
    BY <1>1, <1>12
    DEF QueryUnmap, NamesKept, serverVars, mapVars, TypeOK, ServerTypeOK, EngineTypeOK
  <2>2. /\ pc[t] \notin AnsweringPc \cup WarmingPc
        /\ pc'[t] \notin AnsweringPc \cup WarmingPc
        /\ \A q \in Process \ {t} :
              pc'[q] = pc[q] /\ doc'[q] = doc[q] /\ slot'[q] = slot[q]
    BY <1>1, <1>12, MoveAlone DEF QueryUnmap, AnsweringPc, WarmingPc
  <2> QED BY <1>1, <2>1, <2>2, SteadyMove, QuietNames
<1>13. CASE DeleteRow(t)
  <2>1. NamesKept
    BY <1>1, <1>13
    DEF DeleteRow, NamesKept, serverVars, mapVars, TypeOK, ServerTypeOK, EngineTypeOK
  <2>2. /\ pc[t] \notin AnsweringPc \cup WarmingPc
        /\ pc'[t] \notin AnsweringPc \cup WarmingPc
        /\ \A q \in Process \ {t} :
              pc'[q] = pc[q] /\ doc'[q] = doc[q] /\ slot'[q] = slot[q]
    BY <1>1, <1>13 DEF DeleteRow, At, AnsweringPc, WarmingPc, TypeOK, ThreadTypeOK
  <2> QED BY <1>1, <2>1, <2>2, SteadyMove, QuietNames
<1>14. CASE DeleteUnlink(t)
  <2>1. NamesKept
    BY <1>1, <1>14, UnlinkNames DEF DeleteUnlink, mapVars
  <2>2. /\ pc[t] \notin AnsweringPc \cup WarmingPc
        /\ pc'[t] \notin AnsweringPc \cup WarmingPc
        /\ \A q \in Process \ {t} :
              pc'[q] = pc[q] /\ doc'[q] = doc[q] /\ slot'[q] = slot[q]
    BY <1>1, <1>14, MoveAlone DEF DeleteUnlink, AnsweringPc, WarmingPc
  <2> QED BY <1>1, <2>1, <2>2, SteadyMove, QuietNames
<1> QED
  BY <1>2, <1>3, <1>4, <1>5, <1>6, <1>7, <1>8, <1>9,
     <1>10, <1>11, <1>12, <1>13, <1>14
  DEF Arrival

-----------------------------------------------------------------------------
\* Steps that fill a slot, all under the big lock.

\* The owner of the lock works on slot s alone, and leaves in it what it says.
LEMMA FillNames ==
    ASSUME TypeOK, LockHeld, NameInv, NEW t \in Thread, pc[t] \in LockedPc,
           NEW s \in Slot,
           \A q \in Thread \ {t} : pc'[q] = pc[q],
           \A x \in Slot \ {s} : slots'[x] = slots[x] /\ kv'[x] = kv[x],
           pc[t] \in AnsweringPc => slot[t] = s,
           pc'[t] \in AnsweringPc => slot'[t] = s /\ slots'[s] \in {doc'[t], None},
           pc'[t] \in WarmingPc => slot'[t] = s /\ slots'[s] = None,
           pc'[t] = "warm_save" /\ kv'[s] \in State => kv'[s].doc = doc'[t],
           pc'[t] \notin AnsweringPc /\ slots'[s] # None /\ kv'[s] \in State =>
               kv'[s].doc = slots'[s],
           total' = total, FilesTruthful'
    PROVE  NameInv'
<1>1. \A q \in Thread \ {t} : pc'[q] \notin LockedPc /\ pc[q] \notin LockedPc
  BY ThreadIsProcess DEF LockHeld
<1>2. AnsweringPc \cup WarmingPc \subseteq LockedPc
  BY DEF AnsweringPc, WarmingPc, LockedPc
<1>3. AnswerMapped' /\ WarmClaimed'
  BY <1>1, <1>2 DEF AnswerMapped, WarmClaimed
<1>4. WarmNamed'
  BY <1>1, <1>2 DEF WarmNamed, WarmingPc
<1>5. HotNamed'
  <2> SUFFICES ASSUME NEW x \in Slot, slots'[x] # None, kv'[x] \in State
               PROVE  \/ kv'[x].doc = slots'[x]
                      \/ \E q \in Thread : pc'[q] \in AnsweringPc /\ slot'[q] = x
    BY DEF HotNamed
  <2>1. CASE x = s
    BY <2>1
  <2>2. CASE x # s
    BY <1>1, <1>2, <2>2 DEF NameInv, HotNamed
  <2> QED BY <2>1, <2>2
<1> QED BY <1>3, <1>4, <1>5 DEF NameInv

\* An evaluation leaves the document's own state.
LEMMA EvaluatedNamed ==
    ASSUME NEW s \in Slot, NEW d \in Doc
    PROVE  Evaluated(s, d).doc = d
BY DEF Evaluated, Reuses

\* The steps of a request thread that claim a slot or fill it, and the loop of
\* a delete.
LEMMA FillNameSteps ==
    ASSUME TypeOK, LockHeld, NameInv, NamesReliable, NEW t \in Thread,
           \/ WarmSlot(t) \/ WarmChat(t) \/ WarmSave(t) \/ QuerySlot(t)
           \/ QueryRecheck(t) \/ QueryRestore(t) \/ QueryChat(t)
           \/ QueryChatFails(t) \/ DeleteUnmap(t)
    PROVE  NameInv'
<1>1. t \in Process /\ slot[t] \in Slot /\ (pc[t] # "idle" => doc[t] \in Doc)
  BY BusyType, ThreadIsProcess
<1>2. "llama" \notin Faults /\ total = CagSlots
  BY DEF NamesReliable, NameInv
<1>3. Thread \subseteq Process /\ None \notin Doc
  BY ThreadIsProcess, EngineAssumption
<1>4. UNCHANGED files => FilesTruthful'
  BY DEF NameInv, FilesTruthful
<1>5. CASE WarmSlot(t)
  <2>1. PICK s \in SlotFor(doc[t]) :
            /\ SlotErase(s)
            /\ slots' = [slots EXCEPT ![s] = None]
            /\ slot' = [slot EXCEPT ![t] = s]
    BY <1>2, <1>5 DEF WarmSlot
  <2>2. s \in Slot /\ Physical(s) = s
    BY <1>1, <1>2, <1>5, SlotForInSlot, SlotIsPhysical DEF WarmSlot
  <2>3. /\ pc' = [pc EXCEPT ![t] = "warm_chat"] /\ pc[t] = "warm_slot"
        /\ doc' = doc /\ files' = files /\ total' = total
    BY <1>5 DEF WarmSlot, At
  <2>4. kv'[s] \notin State /\ \A x \in Slot \ {s} : slots'[x] = slots[x] /\ kv'[x] = kv[x]
    BY <2>1, <2>2, EmptyAssumption DEF SlotErase, TypeOK, ServerTypeOK, EngineTypeOK
  <2>5. slots'[s] = None /\ slot'[t] = s
    BY <1>1, <2>1, <2>2 DEF TypeOK, EngineTypeOK, ThreadTypeOK
  <2>6. pc'[t] = "warm_chat" /\ \A q \in Thread \ {t} : pc'[q] = pc[q]
    BY <1>1, <1>3, <2>3 DEF TypeOK, ThreadTypeOK
  <2> QED
    BY <1>4, <2>2, <2>3, <2>4, <2>5, <2>6, FillNames
    DEF AnsweringPc, WarmingPc, LockedPc
<1>6. CASE WarmChat(t)
  <2>1. Chat(slot[t], doc[t]) /\ Goto(t, "warm_save")
    BY <1>2, <1>6 DEF WarmChat, ChatFails
  <2>2. Physical(slot[t]) = slot[t] /\ pc[t] = "warm_chat" /\ doc[t] \in Doc
    BY <1>1, <1>2, <1>6, SlotIsPhysical DEF WarmChat
  <2>3. UNCHANGED <<doc, slot, slots, files, total>>
    BY <1>6, <2>1 DEF WarmChat, Goto, localVars, mapVars
  <2>4. kv'[slot[t]].doc = doc[t] /\ \A x \in Slot \ {slot[t]} : kv'[x] = kv[x]
    BY <1>1, <2>1, <2>2, EvaluatedNamed DEF Chat, TypeOK, ServerTypeOK
  <2>5. pc'[t] = "warm_save" /\ \A q \in Thread \ {t} : pc'[q] = pc[q]
    BY <1>1, <1>3, <2>1 DEF Goto, At, TypeOK, ThreadTypeOK
  <2>6. slots[slot[t]] = None
    BY <2>2 DEF NameInv, WarmClaimed, WarmingPc
  <2> QED
    BY <1>1, <1>4, <2>2, <2>3, <2>4, <2>5, <2>6, FillNames
    DEF AnsweringPc, WarmingPc, LockedPc
<1>7. CASE WarmSave(t)
  <2>1. /\ pc[t] = "warm_save" /\ doc[t] \in Doc
        /\ UNCHANGED <<kv, total, doc, slot>>
        /\ pc' = [pc EXCEPT ![t] = pc'[t]] /\ pc'[t] \in {"mark_cached", "mark_failed"}
    BY <1>1, <1>7 DEF WarmSave, Goto, At, localVars, TypeOK, ThreadTypeOK
  <2>2. Physical(slot[t]) = slot[t]
    BY <1>1, <1>2, SlotIsPhysical
  <2>3. files' = files \/ files' = [files EXCEPT ![doc[t]] = kv[slot[t]]]
    BY <1>7, <2>2 DEF WarmSave, SlotSave, SlotSaveFails
  <2>4. slots' = slots \/ slots' = [slots EXCEPT ![slot[t]] = doc[t]]
    BY <1>7 DEF WarmSave, mapVars
  <2>5. slots[slot[t]] = None /\ (kv[slot[t]] \in State => kv[slot[t]].doc = doc[t])
    BY <2>1 DEF NameInv, WarmClaimed, WarmNamed, WarmingPc
  <2>6. FilesTruthful'
    BY <2>1, <2>3, <2>5 DEF NameInv, FilesTruthful, TypeOK, ServerTypeOK
  <2>7. /\ \A x \in Slot \ {slot[t]} : slots'[x] = slots[x]
        /\ slots'[slot[t]] \in {None, doc[t]}
    BY <1>1, <2>4, <2>5 DEF TypeOK, EngineTypeOK
  <2>8. \A q \in Thread \ {t} : pc'[q] = pc[q]
    BY <1>1, <1>3, <2>1 DEF TypeOK, ThreadTypeOK
  <2> QED
    BY <1>1, <2>1, <2>5, <2>6, <2>7, <2>8, FillNames
    DEF AnsweringPc, WarmingPc, LockedPc
<1>8. CASE QuerySlot(t)
  <2>1. PICK s \in SlotFor(doc[t]) :
            /\ slots' = [slots EXCEPT ![s] = doc[t]]
            /\ slot' = [slot EXCEPT ![t] = s]
            /\ At(t, IF slots[s] # doc[t] /\ file[t] THEN "recheck" ELSE "chat")
    BY <1>8 DEF QuerySlot
  <2>2. s \in Slot /\ pc[t] = "hot_slot"
    BY <1>1, <1>8, SlotForInSlot DEF QuerySlot
  <2>3. UNCHANGED <<kv, files, total, doc>>
    BY <1>8 DEF QuerySlot, serverVars
  <2>4. /\ pc'[t] \in {"recheck", "chat"}
        /\ \A q \in Thread \ {t} : pc'[q] = pc[q]
    BY <1>1, <1>3, <2>1 DEF At, TypeOK, ThreadTypeOK
  <2>5. /\ slots'[s] = doc[t] /\ slot'[t] = s
        /\ \A x \in Slot \ {s} : slots'[x] = slots[x]
    BY <1>1, <2>1, <2>2 DEF TypeOK, EngineTypeOK, ThreadTypeOK
  <2> QED
    BY <1>4, <2>2, <2>3, <2>4, <2>5, FillNames
    DEF AnsweringPc, WarmingPc, LockedPc
<1>9. CASE QueryRecheck(t)
  <2>1. Goto(t, "restore") /\ pc[t] = "recheck" /\ UNCHANGED <<doc, slot>>
    BY <1>2, <1>9 DEF QueryRecheck, CheckRaises, Goto, localVars
  <2>2. NamesKept
    BY <1>9, CheckNames DEF QueryRecheck
  <2>3. FillersSteady
    BY <1>1, <1>3, <2>1
    DEF FillersSteady, Goto, At, AnsweringPc, WarmingPc, TypeOK, ThreadTypeOK
  <2> QED BY <2>2, <2>3, QuietNames
<1>10. CASE QueryRestore(t)
  <2>1. /\ pc[t] = "restore" /\ doc[t] \in Doc
        /\ pc' = [pc EXCEPT ![t] = "chat"]
        /\ UNCHANGED <<slots, files, total, doc, slot>>
    BY <1>1, <1>10 DEF QueryRestore, At, mapVars
  <2>2. Physical(slot[t]) = slot[t]
    BY <1>1, <1>2, SlotIsPhysical
  <2>3. kv' = kv \/ kv' = [kv EXCEPT ![slot[t]] = files[doc[t]]]
    BY <1>2, <1>10, <2>2 DEF QueryRestore, SlotRestore, SlotRestoreFails
  <2>4. \A x \in Slot \ {slot[t]} : kv'[x] = kv[x]
    BY <1>1, <2>3 DEF TypeOK, ServerTypeOK
  <2>5. pc'[t] = "chat" /\ \A q \in Thread \ {t} : pc'[q] = pc[q]
    BY <1>1, <1>3, <2>1 DEF TypeOK, ThreadTypeOK
  <2>6. slots[slot[t]] \in {doc[t], None}
    BY <2>1 DEF NameInv, AnswerMapped, AnsweringPc
  <2> QED
    BY <1>1, <1>4, <2>1, <2>4, <2>5, <2>6, FillNames
    DEF AnsweringPc, WarmingPc, LockedPc
<1>11. CASE QueryChat(t)
  <2>1. pc[t] = "chat" /\ doc[t] \in Doc /\ UNCHANGED <<slots, files, total>>
    BY <1>1, <1>11 DEF QueryChat, mapVars
  <2>2. Physical(slot[t]) = slot[t]
    BY <1>1, <1>2, SlotIsPhysical
  <2>3. kv'[slot[t]].doc = doc[t] /\ \A x \in Slot \ {slot[t]} : kv'[x] = kv[x]
    BY <1>1, <1>11, <2>1, <2>2, EvaluatedNamed DEF QueryChat, Chat, TypeOK, ServerTypeOK
  <2>4. pc'[t] = "idle" /\ \A q \in Thread \ {t} : pc'[q] = pc[q]
    BY <1>1, <1>3, <1>11, EngineAssumption
    DEF QueryChat, Spawn, Finish, At, TypeOK, ThreadTypeOK
  <2>5. slots[slot[t]] \in {doc[t], None}
    BY <2>1 DEF NameInv, AnswerMapped, AnsweringPc
  <2> QED
    BY <1>1, <1>4, <2>1, <2>3, <2>4, <2>5, FillNames
    DEF AnsweringPc, WarmingPc, LockedPc
<1>12. CASE QueryChatFails(t)
  BY <1>2, <1>12 DEF QueryChatFails, ChatFails
<1>13. CASE DeleteUnmap(t)
  <2>1. pc[t] = "del_unmap" /\ UNCHANGED <<files, total>>
    BY <1>13 DEF DeleteUnmap
  <2>2. /\ pc'[t] \in {"idle", "del_unmap"}
        /\ \A q \in Process \ {t} :
              pc'[q] = pc[q] /\ doc'[q] = doc[q] /\ slot'[q] = slot[q]
    BY <1>1, <1>13 DEF DeleteUnmap, Finish, At, localVars, TypeOK, ThreadTypeOK
  <2>3. \A s \in Slot : slots'[s] \in {slots[s], None}
    BY <1>13 DEF DeleteUnmap, mapVars, TypeOK, EngineTypeOK
  <2>4. \A s \in Slot : kv'[s] \in State => kv'[s] = kv[s]
    BY <1>13, PhysicalInSlot, EmptyAssumption
    DEF DeleteUnmap, SlotErase, TypeOK, ServerTypeOK
  <2>5. NamesKept
    BY <2>1, <2>3, <2>4 DEF NamesKept
  <2> QED
    BY <1>1, <2>1, <2>2, <2>5, SteadyMove, QuietNames DEF AnsweringPc, WarmingPc
<1> QED
  BY <1>5, <1>6, <1>7, <1>8, <1>9, <1>10, <1>11, <1>12, <1>13

\* The steps of a deferred re-save: it saves only what the map calls hot, while
\* nobody holds the lock.
LEMMA ResaveNames ==
    ASSUME TypeOK, LockHeld, NameInv, NEW w \in Worker, WorkerStep(w)
    PROVE  NameInv'
<1>1. w \in Process /\ w \notin Thread /\ slot[w] \in Slot
      /\ (pc[w] # "idle" => doc[w] \in Doc)
  BY BusyType, ThreadIsProcess, EngineAssumption
<1>2. \A q \in Thread : pc'[q] = pc[q] /\ doc'[q] = doc[q] /\ slot'[q] = slot[q]
  BY <1>1, ThreadIsProcess
  DEF WorkerStep, ResaveSave, ResaveMark, ResaveUnlink, Goto, Finish, At,
      localVars, TypeOK, ThreadTypeOK
<1>3. FillersSteady
  BY <1>2 DEF FillersSteady
<1>4. CASE ResaveSave(w)
  <2>1. UNCHANGED <<kv, slots, total>> /\ lock = None /\ pc[w] = "resave"
    BY <1>4 DEF ResaveSave, mapVars
  <2>2. Physical(slot[w]) = slot[w]
    BY <1>1, SlotIsPhysical DEF NameInv
  <2>3. \A t \in Thread : pc[t] \notin AnsweringPc
    BY <2>1, ThreadIsProcess, EngineAssumption DEF LockHeld, LockedPc, AnsweringPc
  <2>4. CASE files' = files
    BY <1>3, <2>1, <2>4, QuietNames DEF NamesKept
  <2>5. CASE slots[slot[w]] = doc[w] /\ files' = [files EXCEPT ![doc[w]] = kv[slot[w]]]
    <3>1. kv[slot[w]] \in State => kv[slot[w]].doc = doc[w]
      BY <1>1, <2>1, <2>3, <2>5, EngineAssumption DEF NameInv, HotNamed
    <3>2. NamesKept
      BY <1>1, <2>1, <2>5, <3>1 DEF NamesKept, TypeOK, ServerTypeOK
    <3> QED BY <1>3, <3>2, QuietNames
  <2> QED
    BY <1>4, <2>2, <2>4, <2>5 DEF ResaveSave, SlotSave, SlotSaveFails
<1>5. CASE ResaveMark(w)
  <2>1. NamesKept
    BY <1>5 DEF ResaveMark, serverVars, mapVars, NamesKept
  <2> QED BY <1>3, <2>1, QuietNames
<1>6. CASE ResaveUnlink(w)
  <2>1. NamesKept
    BY <1>1, <1>6, UnlinkNames DEF ResaveUnlink, mapVars
  <2> QED BY <1>3, <2>1, QuietNames
<1> QED BY <1>4, <1>5, <1>6 DEF WorkerStep

\* Crashes and restarts.
LEMMA WorldNames ==
    ASSUME TypeOK, NameInv, NamesReliable, Crash \/ Restart \/ Resize
    PROVE  NameInv'
<1>1. CASE Crash
  BY <1>1, ThreadIsProcess
  DEF Crash, serverVars, NameInv, AnswerMapped, WarmClaimed, WarmNamed, HotNamed,
      FilesTruthful, AnsweringPc, WarmingPc
<1>2. CASE Restart
  <2>1. NamesKept /\ FillersSteady
    BY <1>2, EmptyAssumption
    DEF Restart, ServerRestart, NamesKept, FillersSteady, mapVars, localVars
  <2> QED BY <2>1, QuietNames
<1>3. CASE Resize
  BY <1>3 DEF Resize, ServerResize, NamesReliable
<1> QED BY <1>1, <1>2, <1>3

LEMMA NameInit == Init => NameInv
BY EmptyAssumption, ThreadIsProcess
DEF Init, ServerInit, NameInv, AnswerMapped, WarmClaimed, WarmNamed, HotNamed,
    FilesTruthful, AnsweringPc, WarmingPc

LEMMA NameNext ==
    ASSUME NamesReliable, TypeOK, LockHeld, NameInv, [Next]_vars
    PROVE  NameInv'
<1>1. CASE \E t \in Thread : Arrival(t) \/ ThreadStep(t)
  BY <1>1, QuietNameSteps, FillNameSteps DEF ThreadStep
<1>2. CASE \E w \in Worker : WorkerStep(w)
  BY <1>2, ResaveNames
<1>3. CASE Crash \/ Restart \/ Resize
  BY <1>3, WorldNames
<1>4. CASE UNCHANGED vars
  <2>1. NamesKept /\ FillersSteady
    BY <1>4 DEF vars, serverVars, mapVars, localVars, NamesKept, FillersSteady
  <2> QED BY <2>1, QuietNames
<1> QED BY <1>1, <1>2, <1>3, <1>4 DEF Next

\* The names hold throughout.
LEMMA NameInvariant ==
    ASSUME NamesReliable
    PROVE  Spec => []NameInv
<1>1. TypeOK /\ LockHeld /\ NameInv /\ [Next]_vars => NameInv'
  BY NameNext
<1> QED BY <1>1, NameInit, TypeCorrect, LockDiscipline, PTL DEF Spec

\* A cache file holds the KV state of the document it is named after, through
\* crashes, restarts on any model, failing saves, unlinks, markers and database
\* calls.  The premise is needed: with failing completions TLC finds a re-save
\* that persists another document's state.
THEOREM FilesKeepTheirNames ==
    ASSUME NamesReliable
    PROVE  Spec => []FilesTruthful
<1>1. NameInv => FilesTruthful
  BY DEF NameInv
<1> QED BY <1>1, NameInvariant, PTL

-----------------------------------------------------------------------------
\* Every step of the engine is a step of the two-level cache.

\* What the steps below rest on, all invariants of the engine.
CacheInv == TypeOK /\ LockHeld /\ NameInv /\ FreshInv

\* A state with a document's name and the served model is what evaluating the
\* document yields now.
LEMMA NamedIsFresh ==
    ASSUME NEW x \in State, NEW d \in Doc, x.doc = d, x.model = model
    PROVE  x = Cache!Fresh(d)
BY DEF State, Cache!Fresh

\* An erase evicts.
LEMMA CacheErase ==
    ASSUME CacheInv, NEW s \in Slot, SlotErase(s), UNCHANGED <<model, files>>
    PROVE  Cache!Next
<1>1. Physical(s) = s
  BY SlotIsPhysical DEF CacheInv, NameInv
<1>2. Cache!Evict(s)
  BY <1>1 DEF SlotErase, Cache!Evict
<1> QED BY <1>2 DEF Cache!Next

\* A completion evaluates.
LEMMA CacheChat ==
    ASSUME CacheInv, NEW s \in Slot, NEW d \in Doc, Chat(s, d),
           UNCHANGED <<model, files>>
    PROVE  Cache!Next
<1>1. Physical(s) = s /\ kv[s] \in State \cup {Empty}
  BY SlotIsPhysical DEF CacheInv, NameInv, TypeOK, ServerTypeOK
<1>2. Evaluated(s, d) = Cache!Fresh(d)
  <2>1. CASE Reuses(s, d)
    <3>1. kv[s] \in State /\ kv[s].doc = d /\ kv[s].model = model
      BY <1>1, <2>1 DEF Reuses, CacheInv, FreshInv, KvFresh
    <3> QED BY <1>1, <2>1, <3>1, NamedIsFresh DEF Evaluated
  <2>2. CASE ~Reuses(s, d)
    BY <2>2 DEF Evaluated, Cache!Fresh
  <2> QED BY <2>1, <2>2
<1>3. Cache!Evaluate(s, d)
  BY <1>1, <1>2 DEF Chat, Cache!Evaluate
<1> QED BY <1>3 DEF Cache!Next

\* A save of a slot that holds the document's state, or nothing.
LEMMA CacheSave ==
    ASSUME CacheInv, NEW s \in Slot, NEW d \in Doc, SlotSave(s, d),
           kv[s] \in State => kv[s].doc = d,
           UNCHANGED <<model, kv>>
    PROVE  Cache!Next
<1>1. Physical(s) = s /\ kv[s] \in State \cup {Empty}
  BY SlotIsPhysical DEF CacheInv, NameInv, TypeOK, ServerTypeOK
<1>2. kv[s] \in {Cache!Fresh(d), Empty}
  BY <1>1, NamedIsFresh DEF CacheInv, FreshInv, KvFresh
<1>3. Cache!Persist(s, d)
  BY <1>1, <1>2 DEF SlotSave, Cache!Persist
<1> QED BY <1>3 DEF Cache!Next

\* A restore, right after the forced check.
LEMMA CacheRestore ==
    ASSUME CacheInv, NEW t \in Thread, pc[t] = "restore",
           NEW s \in Slot, NEW d \in Doc, SlotRestore(s, d),
           UNCHANGED <<model, files>>
    PROVE  Cache!Next
<1>1. Physical(s) = s /\ files[d] \in State \cup {Empty}
  BY SlotIsPhysical DEF CacheInv, NameInv, TypeOK, ServerTypeOK, SlotRestore
<1>2. files[d] \in {Cache!Fresh(d), Empty}
  BY <1>1, NamedIsFresh
  DEF CacheInv, FreshInv, RestoreIsSafe, NameInv, FilesTruthful
<1>3. Cache!Load(s, d)
  BY <1>1, <1>2 DEF SlotRestore, Cache!Load
<1> QED BY <1>3 DEF Cache!Next

\* An unlink removes, where the engine sees the file.
LEMMA CacheUnlink ==
    ASSUME CacheInv, NEW d \in Doc, Unlink(d), UNCHANGED <<model, kv>>
    PROVE  [Cache!Next]_Cache!cacheVars
<1>1. CASE Shared
  <2>1. Cache!Remove({d})
    BY <1>1 DEF Unlink, Cache!Remove, CacheInv, TypeOK, ServerTypeOK
  <2> QED BY <2>1 DEF Cache!Next
<1>2. CASE ~Shared
  BY <1>2 DEF Unlink, Cache!cacheVars
<1> QED BY <1>1, <1>2

\* The wipe of the fingerprint check removes files.
LEMMA CacheCheck ==
    ASSUME FingerprintReliable, CacheInv, NEW force,
           CheckReturns(force) \/ CheckRaises(force),
           UNCHANGED <<model, kv>>
    PROVE  [Cache!Next]_Cache!cacheVars
<1>1. CASE UNCHANGED files
  BY <1>1 DEF Cache!cacheVars
<1>2. CASE files' = [d \in Doc |-> IF d \in CacheFiles THEN NoFile ELSE files[d]]
  <2>1. CacheFiles \in SUBSET Doc
    BY DEF CacheFiles
  <2>2. Cache!Remove(CacheFiles)
    BY <1>2 DEF Cache!Remove
  <2> QED BY <2>1, <2>2 DEF Cache!Next
<1> QED
  BY <1>1, <1>2 DEF CheckReturns, CheckRaises, Fingerprint, FingerprintReliable

\* Every step of a request thread.
LEMMA CacheThreadSteps ==
    ASSUME FingerprintReliable, NamesReliable, CacheInv, NEW t \in Thread,
           Arrival(t) \/ ThreadStep(t)
    PROVE  [Cache!Next]_Cache!cacheVars
<1>1. /\ TypeOK /\ t \in Process /\ slot[t] \in Slot
      /\ pc[t] # "idle" => doc[t] \in Doc
  BY BusyType, ThreadIsProcess DEF CacheInv
<1>2. "llama" \notin Faults
  BY DEF NamesReliable
<1>3. CASE \/ IngestFind(t) \/ IngestInsert(t) \/ IngestGivesUp(t)
           \/ IngestMarkCached(t) \/ IngestMarkFailed(t) \/ IngestGoneUnmap(t)
           \/ QueryRead(t) \/ QuerySlot(t) \/ QueryUnmap(t) \/ DeleteRow(t)
  BY <1>3
  DEF IngestFind, IngestInsert, IngestGivesUp, IngestMarkCached,
      IngestMarkFailed, IngestGoneUnmap, QueryRead, QuerySlot, QueryUnmap,
      DeleteRow, serverVars, Cache!cacheVars
<1>4. CASE WarmLock(t)
  BY <1>4, CacheCheck DEF WarmLock
<1>5. CASE QueryLock(t)
  BY <1>5, CacheCheck DEF QueryLock
<1>6. CASE QueryRecheck(t)
  BY <1>6, CacheCheck DEF QueryRecheck
<1>7. CASE WarmSlot(t)
  BY <1>1, <1>2, <1>7, CacheErase, SlotForInSlot DEF WarmSlot
<1>8. CASE WarmChat(t)
  BY <1>1, <1>2, <1>8, CacheChat DEF WarmChat, ChatFails
<1>9. CASE QueryChat(t)
  BY <1>1, <1>9, CacheChat DEF QueryChat
<1>10. CASE QueryChatFails(t)
  BY <1>2, <1>10 DEF QueryChatFails, ChatFails
<1>11. CASE WarmSave(t)
  <2>1. /\ pc[t] = "warm_save" /\ doc[t] \in Doc
        /\ UNCHANGED <<model, kv>>
        /\ SlotSave(slot[t], doc[t]) \/ UNCHANGED files
    BY <1>1, <1>11 DEF WarmSave, SlotSaveFails
  <2>2. kv[slot[t]] \in State => kv[slot[t]].doc = doc[t]
    BY <2>1 DEF CacheInv, NameInv, WarmNamed
  <2> QED BY <1>1, <2>1, <2>2, CacheSave DEF Cache!cacheVars
<1>12. CASE QueryRestore(t)
  <2>1. /\ pc[t] = "restore" /\ doc[t] \in Doc
        /\ UNCHANGED <<model, files>>
        /\ SlotRestore(slot[t], doc[t]) \/ UNCHANGED kv
    BY <1>1, <1>2, <1>12 DEF QueryRestore, SlotRestoreFails
  <2> QED BY <1>1, <2>1, CacheRestore DEF Cache!cacheVars
<1>13. CASE IngestGoneUnlink(t)
  BY <1>1, <1>13, CacheUnlink DEF IngestGoneUnlink, Cache!cacheVars
<1>14. CASE DeleteUnlink(t)
  BY <1>1, <1>14, CacheUnlink DEF DeleteUnlink, Cache!cacheVars
<1>15. CASE DeleteUnmap(t)
  BY <1>1, <1>15, CacheErase DEF DeleteUnmap, Cache!cacheVars
<1> QED
  BY <1>3, <1>4, <1>5, <1>6, <1>7, <1>8, <1>9, <1>10, <1>11, <1>12, <1>13,
     <1>14, <1>15
  DEF Arrival, ThreadStep

\* Every step of a deferred re-save.
LEMMA CacheWorkerSteps ==
    ASSUME CacheInv, NEW w \in Worker, WorkerStep(w)
    PROVE  [Cache!Next]_Cache!cacheVars
<1>1. /\ TypeOK /\ w \in Process /\ slot[w] \in Slot
      /\ pc[w] # "idle" => doc[w] \in Doc
  BY BusyType, ThreadIsProcess DEF CacheInv
<1>2. CASE ResaveSave(w)
  <2>1. /\ pc[w] = "resave" /\ doc[w] \in Doc /\ lock = None
        /\ UNCHANGED <<model, kv>>
        /\ \/ slots[slot[w]] = doc[w] /\ SlotSave(slot[w], doc[w])
           \/ UNCHANGED files
    BY <1>1, <1>2 DEF ResaveSave, SlotSaveFails
  <2>2. \A t \in Thread : pc[t] \notin AnsweringPc
    BY <2>1, ThreadIsProcess, EngineAssumption
    DEF CacheInv, LockHeld, LockedPc, AnsweringPc
  <2>3. slots[slot[w]] = doc[w] /\ kv[slot[w]] \in State => kv[slot[w]].doc = doc[w]
    BY <1>1, <2>1, <2>2, EngineAssumption DEF CacheInv, NameInv, HotNamed
  <2> QED BY <1>1, <2>1, <2>3, CacheSave DEF Cache!cacheVars
<1>3. CASE ResaveMark(w)
  BY <1>3 DEF ResaveMark, serverVars, Cache!cacheVars
<1>4. CASE ResaveUnlink(w)
  BY <1>1, <1>4, CacheUnlink DEF ResaveUnlink, Cache!cacheVars
<1> QED BY <1>2, <1>3, <1>4 DEF WorkerStep

LEMMA CacheInit == Init => Cache!Init
BY DEF Init, ServerInit, Cache!Init

LEMMA CacheNext ==
    ASSUME FingerprintReliable, NamesReliable, CacheInv, [Next]_vars
    PROVE  [Cache!Next]_Cache!cacheVars
<1>1. CASE \E t \in Thread : Arrival(t) \/ ThreadStep(t)
  BY <1>1, CacheThreadSteps
<1>2. CASE \E w \in Worker : WorkerStep(w)
  BY <1>2, CacheWorkerSteps
<1>3. CASE Crash
  BY <1>3 DEF Crash, serverVars, Cache!cacheVars
<1>4. CASE Restart
  <2>1. Cache!Redeploy
    BY <1>4 DEF Restart, ServerRestart, Cache!Redeploy
  <2> QED BY <2>1 DEF Cache!Next
<1>5. CASE Resize
  BY <1>5 DEF Resize, ServerResize, NamesReliable
<1>6. CASE UNCHANGED vars
  BY <1>6 DEF vars, serverVars, Cache!cacheVars
<1> QED BY <1>1, <1>2, <1>3, <1>4, <1>5, <1>6 DEF Next

\* The engine implements the two-level cache: it loads and persists only what
\* the served model evaluates, under the name of the document it was evaluated
\* for, whatever threads, crashes, restarts on later models, lost markers,
\* database errors and failing saves do.
THEOREM EngineIsACache ==
    ASSUME FingerprintReliable, NamesReliable
    PROVE  Spec => ImplementsCache
<1>1. CacheInv /\ [Next]_vars => [Cache!Next]_Cache!cacheVars
  BY CacheNext
<1>2. Spec => []CacheInv
  BY TypeCorrect, LockDiscipline, NameInvariant, FreshInvariant, PTL DEF CacheInv
<1> QED BY <1>1, <1>2, CacheInit, PTL DEF Spec, ImplementsCache, Cache!Spec
=============================================================================
