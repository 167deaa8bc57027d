----------------------------- MODULE CagEngine -----------------------------
(***************************************************************************)
(* The engine of api/app/cag.py: request threads that ingest, query and    *)
(* delete documents, and the daemon threads that re-save a healed cache,   *)
(* all sharing the slot map, the model-fingerprint memo and one big lock.  *)
(*                                                                         *)
(* A step is what a thread does between two interactions with anything     *)
(* another thread, the database or llama-server can change.  Work under    *)
(* the big lock is split at every call to the server or the database,      *)
(* since restarts, deletes and other threads' database work need no lock.  *)
(***************************************************************************)
EXTENDS FiniteSets, LlamaServer, DocumentStore

CONSTANTS
    Thread,     \* request threads of the API process
    Worker,     \* daemon threads that _spawn may start
    None,       \* no document, no owner, no marker
    Shared      \* TRUE: CACHE_DIR is the server's --slot-save-path (Docker);
                \* FALSE: native mode, the engine does not see the slot files

Process == Thread \cup Worker

ASSUME EngineAssumption ==
    /\ Thread \cap Worker = {}
    /\ None \notin Doc \cup Process \cup Model
    /\ Shared \in BOOLEAN

VARIABLES
    slots,      \* _slots: the document the engine believes hot in each slot
    used,       \* _slot_used: 0 when absent, else the rank of its timestamp,
                \* CagSlots for the latest
    lock,       \* _lock: the thread holding it
    memo,       \* _model_checked
    marker,     \* the contents of model.marker; survives the API process
    pc,         \* where each thread is
    doc,        \* the document its request or re-save is about
    slot,       \* the slot it chose
    label,      \* cache_source of a query
    file        \* whether the row it read had a cache_file

mapVars == <<slots, used>>
checkVars == <<memo, marker>>
localVars == <<doc, slot, label, file>>
vars == <<serverVars, storeVars, mapVars, checkVars, lock, pc, localVars>>

LockedPc == {"warm_slot", "warm_chat", "warm_save", "hot_slot", "recheck",
             "restore", "chat", "resave_mark", "resave_unlink"}
FreePc == {"idle", "insert", "warm", "mark_cached", "mark_failed",
           "gone_unlink", "gone_unmap", "hot", "unmap", "resave",
           "del_unlink", "del_unmap"}
QueryPc == {"hot", "hot_slot", "recheck", "restore", "chat"}
Label == {"none", "memory", "disk", "recomputed"}

EngineTypeOK ==
    /\ slots \in [Slot -> Doc \cup {None}]
    /\ used \in [Slot -> 0 .. CagSlots]
    /\ lock \in Process \cup {None}
    /\ memo \in BOOLEAN
    /\ marker \in Model \cup {None}

\* A thread at work is always about some document.
ThreadTypeOK ==
    /\ pc \in [Process -> LockedPc \cup FreePc]
    /\ doc \in [Process -> Doc \cup {None}]
    /\ \A p \in Process : pc[p] # "idle" => doc[p] \in Doc
    /\ slot \in [Process -> Slot]
    /\ label \in [Process -> Label]
    /\ file \in [Process -> BOOLEAN]

TypeOK == ServerTypeOK /\ StoreTypeOK /\ EngineTypeOK /\ ThreadTypeOK

Init ==
    /\ ServerInit
    /\ StoreInit
    /\ slots = [s \in Slot |-> None]
    /\ used = [s \in Slot |-> 0]
    /\ lock = None
    /\ memo = FALSE
    /\ marker = None
    /\ pc = [p \in Process |-> "idle"]
    /\ doc = [p \in Process |-> None]
    /\ slot = [p \in Process |-> 0]
    /\ label = [p \in Process |-> "none"]
    /\ file = [p \in Process |-> FALSE]

-----------------------------------------------------------------------------
\* Helpers.

At(p, where) == pc' = [pc EXCEPT ![p] = where]

\* The thread goes on with the same locals.
Goto(p, where) == At(p, where) /\ UNCHANGED localVars

\* The handler returns, and with it go its locals.
Finish(p) ==
    /\ At(p, "idle")
    /\ doc' = [doc EXCEPT ![p] = None]
    /\ slot' = [slot EXCEPT ![p] = 0]
    /\ label' = [label EXCEPT ![p] = "none"]
    /\ file' = [file EXCEPT ![p] = FALSE]

Release(p) == lock' = None

\* Mutant of Touch: a use counter in place of a timestamp.
TouchCounts(s) == used' = [used EXCEPT ![s] = @ + 1]

\* The slot's timestamp becomes the latest.
Touch(s) ==
    used' = [x \in Slot |-> IF x = s THEN CagSlots
                            ELSE IF used[x] > used[s] THEN used[x] - 1
                            ELSE used[x]]

\* The slot's timestamp is dropped; the others keep their order.
Forget(s) ==
    used' = [x \in Slot |-> IF x = s THEN 0
                            ELSE IF 0 < used[x] /\ used[x] < used[s] THEN used[x] + 1
                            ELSE used[x]]

\* Mutant of SlotFor: a free slot is preferred to the one the document is in.
SlotForFreeFirst(d) ==
    LET free == {s \in Slot : slots[s] = None}
        hot  == {s \in Slot : slots[s] = d}
        lru  == {s \in Slot : /\ used[s] > 0
                              /\ \A x \in Slot : used[x] > 0 => used[s] <= used[x]}
    IN IF free # {} THEN free ELSE IF hot # {} THEN hot ELSE lru

\* The document's slot, else the first free one, else the one used longest ago.
SlotFor(d) ==
    LET hot  == {s \in Slot : slots[s] = d}
        free == {s \in Slot : slots[s] = None}
        lru  == {s \in Slot : /\ used[s] > 0
                              /\ \A x \in Slot : used[x] > 0 => used[s] <= used[x]}
    IN CASE hot # {} -> hot
         [] hot = {} /\ free # {} -> {s \in free : \A x \in free : s <= x}
         [] OTHER -> lru

\* Path.unlink on a cache file: it reaches only files the engine can see.
Unlink(d) == files' = IF Shared THEN [files EXCEPT ![d] = NoFile] ELSE files

CacheFiles == IF Shared THEN {d \in Doc : files[d] # NoFile} ELSE {}

-----------------------------------------------------------------------------
\* _ensure_model_marker, one atomic step; the caller holds the big lock.

\* Mutant of NeedsCheck: a caller about to restore trusts the memo too.
NeedsCheckOnce(force) == ~memo

\* The memo answers, unless the caller is about to restore.
NeedsCheck(force) == force \/ ~memo

\* The marker disagrees (or proves nothing) and there are caches: wipe them.
Fingerprint ==
    /\ IF CacheFiles # {} /\ marker # model
       THEN /\ \E kept \in IF "unlink" \in Faults THEN SUBSET CacheFiles ELSE {{}} :
                  files' = [d \in Doc |-> IF d \in CacheFiles \ kept
                                         THEN NoFile ELSE files[d]]
            /\ slots' = [s \in Slot |-> None]
            /\ used' = [s \in Slot |-> 0]
       ELSE UNCHANGED <<files, slots, used>>
    /\ \/ marker' = model /\ memo' = TRUE
       \/ /\ "marker" \in Faults
          /\ marker' \in {marker, None}
          /\ UNCHANGED memo

\* The check returns: memoized, server unreachable, unnamed model, or done.
CheckReturns(force) ==
    \/ ~NeedsCheck(force) /\ UNCHANGED <<files, mapVars, checkVars>>
    \/ /\ NeedsCheck(force)
       /\ "props" \in Faults
       /\ UNCHANGED <<files, mapVars, checkVars>>
    \/ /\ NeedsCheck(force)
       /\ total = CagSlots
       /\ "anonymous" \in Faults
       /\ memo' = TRUE
       /\ UNCHANGED <<files, mapVars, marker>>
    \/ NeedsCheck(force) /\ total = CagSlots /\ Fingerprint

\* The check raises: the server's slot count is not CAG_SLOTS.
CheckRaises(force) ==
    /\ NeedsCheck(force)
    /\ total # CagSlots
    /\ UNCHANGED <<files, mapVars, checkVars>>

-----------------------------------------------------------------------------
\* POST /documents: _ingest and _warm.

\* A new document, or a failed one to heal.  Everything that returns before
\* changing anything (a duplicate, an oversized text, a failed tokenize) is
\* the thread staying idle.
IngestFind(t) ==
    /\ pc[t] = "idle"
    /\ \E d \in Doc :
          /\ doc' = [doc EXCEPT ![t] = d]
          /\ \/ FindBySha(TextOf[d]) = {} /\ row[d] = "unborn" /\ At(t, "insert")
             \/ row[d] = "failed" /\ At(t, "warm")
    /\ UNCHANGED <<serverVars, storeVars, mapVars, checkVars, lock, slot, label,
                   file>>

\* doc[t] only names the content here; the row gets the next unused id.
IngestInsert(t) ==
    /\ pc[t] = "insert"
    /\ \E d \in Doc :
          /\ TextOf[d] = TextOf[doc[t]]
          /\ InsertDocument(d)
          /\ doc' = [doc EXCEPT ![t] = d]
    /\ At(t, "warm")
    /\ UNCHANGED <<serverVars, mapVars, checkVars, lock, slot, label, file>>

\* The text is too large, tokenize fails, or the insert race is lost.
IngestGivesUp(t) ==
    /\ pc[t] = "insert"
    /\ Finish(t)
    /\ UNCHANGED <<serverVars, storeVars, mapVars, checkVars, lock>>

WarmLock(t) ==
    /\ pc[t] = "warm"
    /\ lock = None
    /\ \/ CheckReturns(FALSE) /\ lock' = t /\ Goto(t, "warm_slot")
       \/ CheckRaises(FALSE) /\ UNCHANGED lock /\ Goto(t, "mark_failed")
    /\ UNCHANGED <<model, kv, total, storeVars>>

\* Mutant of WarmSlot: the previous occupant stays mapped until the save.
WarmSlotKeepsMap(t) ==
    /\ pc[t] = "warm_slot"
    /\ \E s \in SlotFor(doc[t]) :
          /\ SlotErase(s)
          /\ Touch(s)
          /\ slot' = [slot EXCEPT ![t] = s]
    /\ At(t, "warm_chat")
    /\ UNCHANGED <<model, files, total, storeVars, slots, checkVars, lock, doc,
                   label, file>>

\* Assign a slot, erase it, and say at once that it holds nothing.
WarmSlot(t) ==
    /\ pc[t] = "warm_slot"
    /\ \E s \in SlotFor(doc[t]) :
          /\ \/ SlotErase(s)
             \/ "llama" \in Faults /\ UNCHANGED kv
          /\ slots' = [slots EXCEPT ![s] = None]
          /\ Touch(s)
          /\ slot' = [slot EXCEPT ![t] = s]
    /\ At(t, "warm_chat")
    /\ UNCHANGED <<model, files, total, storeVars, checkVars, lock, doc, label, file>>

\* Mutant of WarmChat: an error of the completion passes the handler by.
WarmChatUncaught(t) ==
    /\ pc[t] = "warm_chat"
    /\ \/ Chat(slot[t], doc[t]) /\ Goto(t, "warm_save") /\ UNCHANGED lock
       \/ ChatFails(slot[t], doc[t]) /\ Finish(t) /\ Release(t)
    /\ UNCHANGED <<model, files, total, storeVars, mapVars, checkVars>>

WarmChat(t) ==
    /\ pc[t] = "warm_chat"
    /\ \/ Chat(slot[t], doc[t]) /\ Goto(t, "warm_save") /\ UNCHANGED lock
       \/ ChatFails(slot[t], doc[t]) /\ Goto(t, "mark_failed") /\ Release(t)
    /\ UNCHANGED <<model, files, total, storeVars, mapVars, checkVars>>

WarmSave(t) ==
    /\ pc[t] = "warm_save"
    /\ \/ /\ SlotSave(slot[t], doc[t])
          /\ slots' = [slots EXCEPT ![slot[t]] = doc[t]]
          /\ Touch(slot[t])
          /\ Goto(t, "mark_cached")
       \/ /\ SlotSaveFails(slot[t], doc[t])
          /\ Goto(t, "mark_failed")
          /\ UNCHANGED mapVars
    /\ Release(t)
    /\ UNCHANGED <<model, kv, total, storeVars, checkVars>>

IngestMarkCached(t) ==
    /\ pc[t] = "mark_cached"
    /\ \/ MarkCached(doc[t]) /\ Finish(t)
       \/ ~RowFound(doc[t]) /\ Goto(t, "gone_unlink") /\ UNCHANGED storeVars
       \/ "db" \in Faults /\ Finish(t) /\ UNCHANGED storeVars
    /\ UNCHANGED <<serverVars, mapVars, checkVars, lock>>

IngestMarkFailed(t) ==
    /\ pc[t] = "mark_failed"
    /\ \/ MarkFailed(doc[t])
       \/ "db" \in Faults /\ UNCHANGED storeVars
    /\ Finish(t)
    /\ UNCHANGED <<serverVars, mapVars, checkVars, lock>>

\* Deleted while it was warming: remove the file (an OSError ends the request
\* here), then the mapping.
IngestGoneUnlink(t) ==
    /\ pc[t] = "gone_unlink"
    /\ \/ Unlink(doc[t]) /\ Goto(t, "gone_unmap")
       \/ "unlink" \in Faults /\ UNCHANGED files /\ Finish(t)
    /\ UNCHANGED <<model, kv, total, storeVars, mapVars, checkVars, lock>>

IngestGoneUnmap(t) ==
    /\ pc[t] = "gone_unmap"
    /\ lock = None
    /\ slots' = [s \in Slot |-> IF slots[s] = doc[t] THEN None ELSE slots[s]]
    /\ Finish(t)
    /\ UNCHANGED <<serverVars, storeVars, used, checkVars, lock>>

-----------------------------------------------------------------------------
\* POST /query: query and _make_hot.  verify_claim and calibrate change the
\* engine's state only through query.

\* Bound of the model: a query is admitted only while there is a worker for the
\* re-save it may schedule.
WorkersSuffice ==
    Cardinality({t \in Thread : pc[t] \in QueryPc})
        < Cardinality({w \in Worker : pc[w] = "idle"})

\* The row is read with no lock held; only its id and cache_file matter here.
\* Unknown documents and questions that do not fit leave the thread idle.
QueryRead(t) ==
    /\ pc[t] = "idle"
    /\ WorkersSuffice
    /\ \E d \in Live :
          /\ doc' = [doc EXCEPT ![t] = d]
          /\ file' = [file EXCEPT ![t] = hasFile[d]]
    /\ At(t, "hot")
    /\ UNCHANGED <<serverVars, storeVars, mapVars, checkVars, lock, slot, label>>

QueryLock(t) ==
    /\ pc[t] = "hot"
    /\ lock = None
    /\ \/ CheckReturns(FALSE) /\ lock' = t /\ Goto(t, "hot_slot")
       \/ CheckRaises(FALSE) /\ UNCHANGED lock /\ Finish(t)
    /\ UNCHANGED <<model, kv, total, storeVars>>

\* Mutant of QuerySlot: a slot taken by a query gets no timestamp.
QuerySlotNoTouch(t) ==
    /\ pc[t] = "hot_slot"
    /\ \E s \in SlotFor(doc[t]) :
          /\ slot' = [slot EXCEPT ![t] = s]
          /\ slots' = [slots EXCEPT ![s] = doc[t]]
          /\ LET hot == slots[s] = doc[t]
             IN /\ label' = [label EXCEPT ![t] = IF hot THEN "memory" ELSE "recomputed"]
                /\ At(t, IF ~hot /\ file[t] THEN "recheck" ELSE "chat")
    /\ UNCHANGED <<serverVars, storeVars, used, checkVars, lock, doc, file>>

\* Hot already, or mapped to the slot from now on and restored if the row
\* named a cache file.
QuerySlot(t) ==
    /\ pc[t] = "hot_slot"
    /\ \E s \in SlotFor(doc[t]) :
          /\ slot' = [slot EXCEPT ![t] = s]
          /\ slots' = [slots EXCEPT ![s] = doc[t]]
          /\ Touch(s)
          /\ LET hot == slots[s] = doc[t]
             IN /\ label' = [label EXCEPT ![t] = IF hot THEN "memory" ELSE "recomputed"]
                /\ At(t, IF ~hot /\ file[t] THEN "recheck" ELSE "chat")
    /\ UNCHANGED <<serverVars, storeVars, checkVars, lock, doc, file>>

\* Mutant of QueryRecheck: the memo answers before a restore too.
QueryRecheckMemoized(t) ==
    /\ pc[t] = "recheck"
    /\ \/ CheckReturns(FALSE) /\ UNCHANGED lock /\ Goto(t, "restore")
       \/ CheckRaises(FALSE) /\ Release(t) /\ Finish(t)
    /\ UNCHANGED <<model, kv, total, storeVars>>

\* The forced fingerprint check.  When it raises, query() has no slot yet, so
\* its error path does not unmap the one just mapped.
QueryRecheck(t) ==
    /\ pc[t] = "recheck"
    /\ \/ CheckReturns(TRUE) /\ UNCHANGED lock /\ Goto(t, "restore")
       \/ CheckRaises(TRUE) /\ Release(t) /\ Finish(t)
    /\ UNCHANGED <<model, kv, total, storeVars>>

QueryRestore(t) ==
    /\ pc[t] = "restore"
    /\ \/ /\ SlotRestore(slot[t], doc[t])
          /\ label' = [label EXCEPT ![t] =
                          IF files[doc[t]] = Empty THEN "recomputed" ELSE "disk"]
       \/ SlotRestoreFails(slot[t], doc[t]) /\ UNCHANGED label
    /\ At(t, "chat")
    /\ UNCHANGED <<model, files, total, storeVars, mapVars, checkVars, lock, doc,
                   slot, file>>

\* The query returns; an idle daemon thread takes the re-save, or none can be
\* started.
Spawn(t) ==
    \/ \E w \in Worker :
          /\ pc[w] = "idle"
          /\ pc' = [pc EXCEPT ![t] = "idle", ![w] = "resave"]
          /\ doc' = [doc EXCEPT ![t] = None, ![w] = doc[t]]
          /\ slot' = [slot EXCEPT ![t] = 0, ![w] = slot[t]]
          /\ label' = [label EXCEPT ![t] = "none"]
          /\ file' = [file EXCEPT ![t] = FALSE]
    \/ "spawn" \in Faults /\ Finish(t)

\* Mutant of QueryChat: a prefix recomputed under another label is not re-saved.
QueryChatTrustsLabel(t) ==
    /\ pc[t] = "chat"
    /\ Chat(slot[t], doc[t])
    /\ IF label[t] = "recomputed" THEN Spawn(t) ELSE Finish(t)
    /\ Release(t)
    /\ UNCHANGED <<model, files, total, storeVars, mapVars, checkVars>>

\* The answer.  A label that claimed a cache the server did not use is
\* corrected to "recomputed", and a recomputed prefix is re-saved in the
\* background.
QueryChat(t) ==
    /\ pc[t] = "chat"
    /\ Chat(slot[t], doc[t])
    /\ IF label[t] = "recomputed" \/ ~Reuses(slot[t], doc[t])
       THEN Spawn(t)
       ELSE Finish(t)
    /\ Release(t)
    /\ UNCHANGED <<model, files, total, storeVars, mapVars, checkVars>>

\* The lock is released here and taken again to unmap.
QueryChatFails(t) ==
    /\ pc[t] = "chat"
    /\ ChatFails(slot[t], doc[t])
    /\ Release(t)
    /\ Goto(t, "unmap")
    /\ UNCHANGED <<model, files, total, storeVars, mapVars, checkVars>>

QueryUnmap(t) ==
    /\ pc[t] = "unmap"
    /\ lock = None
    /\ slots' = [slots EXCEPT ![slot[t]] = IF @ = doc[t] THEN None ELSE @]
    /\ Finish(t)
    /\ UNCHANGED <<serverVars, storeVars, used, checkVars, lock>>

-----------------------------------------------------------------------------
\* The deferred re-save: _schedule_resave and _resave.

\* Mutant of ResaveSave: the slot is not re-validated under the lock.
ResaveSaveBlind(w) ==
    /\ pc[w] = "resave"
    /\ lock = None
    /\ SlotSave(slot[w], doc[w])
    /\ lock' = w
    /\ Goto(w, "resave_mark")
    /\ UNCHANGED <<model, kv, total, storeVars, mapVars, checkVars>>

ResaveSave(w) ==
    /\ pc[w] = "resave"
    /\ lock = None
    /\ \/ /\ slots[slot[w]] = doc[w]
          /\ SlotSave(slot[w], doc[w])
          /\ lock' = w
          /\ Goto(w, "resave_mark")
       \/ /\ slots[slot[w]] = doc[w]
          /\ SlotSaveFails(slot[w], doc[w])
          /\ UNCHANGED lock
          /\ Finish(w)
       \/ /\ slots[slot[w]] # doc[w]
          /\ UNCHANGED <<files, lock>>
          /\ Finish(w)
    /\ UNCHANGED <<model, kv, total, storeVars, mapVars, checkVars>>

\* Mutant of ResaveMark: what mark_cached returns is ignored.
ResaveMarkIgnoresGone(w) ==
    /\ pc[w] = "resave_mark"
    /\ \/ MarkCached(doc[w])
       \/ ~RowFound(doc[w]) /\ UNCHANGED storeVars
    /\ Release(w)
    /\ Finish(w)
    /\ UNCHANGED <<serverVars, mapVars, checkVars>>

ResaveMark(w) ==
    /\ pc[w] = "resave_mark"
    /\ \/ MarkCached(doc[w]) /\ Release(w) /\ Finish(w)
       \/ ~RowFound(doc[w]) /\ Goto(w, "resave_unlink") /\ UNCHANGED <<storeVars, lock>>
       \/ "db" \in Faults /\ Release(w) /\ Finish(w) /\ UNCHANGED storeVars
    /\ UNCHANGED <<serverVars, mapVars, checkVars>>

\* Mutant of ResaveUnlink: this return path keeps the lock.
ResaveUnlinkKeepsLock(w) ==
    /\ pc[w] = "resave_unlink"
    /\ Unlink(doc[w])
    /\ Finish(w)
    /\ UNCHANGED <<model, kv, total, storeVars, mapVars, checkVars, lock>>

\* The mapping of the deleted document is left in place.
ResaveUnlink(w) ==
    /\ pc[w] = "resave_unlink"
    /\ \/ Unlink(doc[w])
       \/ "unlink" \in Faults /\ UNCHANGED files
    /\ Release(w)
    /\ Finish(w)
    /\ UNCHANGED <<model, kv, total, storeVars, mapVars, checkVars>>

-----------------------------------------------------------------------------
\* DELETE /documents/{id}: delete_document.

DeleteRow(t) ==
    /\ pc[t] = "idle"
    /\ \E d \in Live :
          /\ DeleteDocument(d)
          /\ doc' = [doc EXCEPT ![t] = d]
          /\ At(t, IF hasFile[d] THEN "del_unlink" ELSE "del_unmap")
    /\ UNCHANGED <<serverVars, mapVars, checkVars, lock, slot, label, file>>

\* An OSError is logged and ignored.
DeleteUnlink(t) ==
    /\ pc[t] = "del_unlink"
    /\ \/ Unlink(doc[t])
       \/ "unlink" \in Faults /\ UNCHANGED files
    /\ Goto(t, "del_unmap")
    /\ UNCHANGED <<model, kv, total, storeVars, mapVars, checkVars, lock>>

\* Mutant of DeleteUnmap: the doomed slots are cleared without the lock.
DeleteUnmapUnlocked(t) ==
    /\ pc[t] = "del_unmap"
    /\ slots' = [s \in Slot |-> IF slots[s] = doc[t] THEN None ELSE slots[s]]
    /\ kv' = [s \in Slot |-> IF slots[s] = doc[t] THEN Empty ELSE kv[s]]
    /\ Finish(t)
    /\ UNCHANGED <<model, files, total, storeVars, used, checkVars, lock>>

\* One pass of the loop over the doomed slots, all under one lock.
DeleteUnmap(t) ==
    /\ pc[t] = "del_unmap"
    /\ lock \in {None, t}
    /\ \/ /\ \A s \in Slot : slots[s] # doc[t]
          /\ lock' = None
          /\ Finish(t)
          /\ UNCHANGED <<kv, mapVars>>
       \/ /\ \E s \in Slot :
                /\ slots[s] = doc[t]
                /\ \/ SlotErase(s)
                   \/ "llama" \in Faults /\ UNCHANGED kv
                /\ slots' = [slots EXCEPT ![s] = None]
                /\ Forget(s)
          /\ lock' = t
          /\ UNCHANGED <<pc, localVars>>
    /\ UNCHANGED <<model, files, total, storeVars, checkVars>>

-----------------------------------------------------------------------------
\* The world around the threads.

\* The API process dies; the table, the files, the marker and llama-server
\* outlive it.
Crash ==
    /\ "crash" \in Faults
    /\ slots' = [s \in Slot |-> None]
    /\ used' = [s \in Slot |-> 0]
    /\ lock' = None
    /\ memo' = FALSE
    /\ pc' = [p \in Process |-> "idle"]
    /\ doc' = [p \in Process |-> None]
    /\ slot' = [p \in Process |-> 0]
    /\ label' = [p \in Process |-> "none"]
    /\ file' = [p \in Process |-> FALSE]
    /\ UNCHANGED <<serverVars, storeVars, marker>>

\* Without "race" no restart falls between a forced check and its restore.
Restart ==
    /\ ServerRestart
    /\ "race" \in Faults \/ \A t \in Thread : pc[t] # "restore"
    /\ UNCHANGED <<storeVars, mapVars, checkVars, lock, pc, localVars>>

\* Without "race" the slot count changes only while no request is using it.
Resize ==
    /\ ServerResize
    /\ "race" \in Faults \/ lock = None
    /\ UNCHANGED <<storeVars, mapVars, checkVars, lock, pc, localVars>>

Arrival(t) == IngestFind(t) \/ QueryRead(t) \/ DeleteRow(t)

ThreadStep(t) ==
    \/ IngestInsert(t) \/ IngestGivesUp(t)
    \/ WarmLock(t) \/ WarmSlot(t) \/ WarmChat(t) \/ WarmSave(t)
    \/ IngestMarkCached(t) \/ IngestMarkFailed(t)
    \/ IngestGoneUnlink(t) \/ IngestGoneUnmap(t)
    \/ QueryLock(t) \/ QuerySlot(t) \/ QueryRecheck(t) \/ QueryRestore(t)
    \/ QueryChat(t) \/ QueryChatFails(t) \/ QueryUnmap(t)
    \/ DeleteUnlink(t) \/ DeleteUnmap(t)

WorkerStep(w) == ResaveSave(w) \/ ResaveMark(w) \/ ResaveUnlink(w)

Next ==
    \/ \E t \in Thread : Arrival(t) \/ ThreadStep(t)
    \/ \E w \in Worker : WorkerStep(w)
    \/ Crash
    \/ Restart
    \/ Resize

Spec == Init /\ [][Next]_vars

-----------------------------------------------------------------------------
\* Properties.

\* A document is believed hot in at most one slot: _slot_for returns the first
\* it meets, and delete_document, an unmap or a re-save would miss the other.
SlotMapInjective ==
    \A s, x \in Slot : slots[s] = slots[x] /\ slots[s] # None => s = x

\* When every slot is taken there is one to evict: an occupied slot always has
\* a timestamp, so min(_slot_used) in _slot_for never raises.
EvictionHasVictim ==
    \A s \in Slot : slots[s] # None => used[s] > 0

\* With no server restart: whenever the big lock is free, a slot the map calls
\* hot does hold that document's KV state, or the query whose completion failed
\* there has yet to unmap it.
HotMapTruthful ==
    lock = None =>
        \A s \in Slot : slots[s] # None =>
            \/ Reuses(s, slots[s])
            \/ \E t \in Thread : pc[t] = "unmap" /\ slot[t] = s /\ doc[t] = slots[s]

\* Through restarts on later models, crashes and lost markers, the engine drives
\* the server and the directory as a two-level cache: it loads and persists only
\* what the served model has evaluated, under the name it was evaluated for.
Cache == INSTANCE DocumentCache WITH served <- model, memory <- kv, disk <- files
ImplementsCache == Cache!Spec

\* A cache file holds the KV state of the document it is named after.
FilesTruthful ==
    \A d \in Doc : files[d] \in State => files[d].doc = d

\* A process that has saved doc-<d>.bin and not yet told the table, or that
\* found the row gone and has not yet removed the file.
SettlingPc == {"mark_cached", "gone_unlink", "resave_mark", "resave_unlink", "del_unlink"}
Accounts(p, d) == doc[p] = d /\ pc[p] \in SettlingPc

\* Without crashes, lost replies or failing unlinks and updates, no cache file
\* is stranded: a live row names it, or some thread is about to settle it,
\* whatever the interleaving of warms, re-saves and deletes.
NoStrandedFile ==
    \A d \in Doc : files[d] # NoFile =>
        \/ d \in Live /\ hasFile[d]
        \/ \E p \in Process : Accounts(p, d)

\* Where a thread is warming the document of a pending row, or has the outcome
\* and has yet to write it.
IngestingPc == {"warm", "warm_slot", "warm_chat", "warm_save", "mark_cached",
                "mark_failed"}

\* Without crashes and failing updates, no error path abandons what it owes: the
\* big lock is held only by a thread that is acting under it, and a document is
\* pending only while a thread is ingesting it.
NothingAbandoned ==
    /\ lock # None => pc[lock] \in LockedPc \cup {"del_unmap"}
    /\ \A d \in Doc : row[d] = "pending" =>
          \E t \in Thread : doc[t] = d /\ pc[t] \in IngestingPc

\* With the served model unchanged, a cache file a row names stays on disk
\* until the row is deleted.
CachedFileExists ==
    \A d \in Live : hasFile[d] => files[d] # NoFile

\* No slot ever holds KV state evaluated by a model other than the one served:
\* an answer is never read through another model's cache.
KvFresh ==
    \A k \in Slot : kv[k] \in State => kv[k].model = model

\* What a thread reads and writes under the big lock is its own: until it moves
\* on, no other thread changes the slot map, the fingerprint memo, the marker or
\* the server's slots, which a restart may only empty.
LockIsolates ==
    [][\A p \in Process : pc[p] \in LockedPc /\ pc'[p] = pc[p] =>
           /\ UNCHANGED <<mapVars, checkVars, lock>>
           /\ kv' \in {kv, [k \in Slot |-> Empty]}]_vars

Quiescent == lock = None /\ \A p \in Process : pc[p] = "idle"

\* At rest, a live document the map calls hot has a cache file, and whatever of the
\* document its slot holds, the file holds as well: evicting the slot, or losing the
\* server's memory, loses no state that is not on disk.  What a forced check makes of
\* the file when another model is served by then is not its subject.
HotIsPersisted ==
    Quiescent =>
        \A s \in Slot : slots[s] \in Live =>
            /\ files[slots[s]] # NoFile
            /\ kv[Physical(s)] \in {Empty, files[slots[s]]}

Arrives == \E t \in Thread : Arrival(t)

\* Once requests stop arriving, every thread finishes, the lock is free and no
\* document is left pending.
Drains ==
    <>[][~Arrives]_vars =>
        <>[](Quiescent /\ \A d \in Doc : row[d] # "pending")
=============================================================================
