--------------------------- MODULE DocumentCache ---------------------------
(***************************************************************************)
(* What CagEngine promises about KV state, with no threads, lock, slot     *)
(* map, table or marker in sight: a cache of two levels, the memory of the *)
(* slots and the files on disk, in front of the evaluation of a document   *)
(* by the model that is served.  State enters memory by evaluation or from *)
(* disk, and disk from memory, always under the document's own name and    *)
(* always from the model that is served at that moment.                    *)
(***************************************************************************)
CONSTANTS Doc, Model, Slot, Empty, NoFile

VARIABLES
    served,     \* the model being served
    memory,     \* memory[s]: the KV state slot s holds
    disk        \* disk[d]: the KV state saved for document d

cacheVars == <<served, memory, disk>>

\* What evaluating document d yields now.
Fresh(d) == [doc |-> d, model |-> served]

Init ==
    /\ served \in Model
    /\ memory = [s \in Slot |-> Empty]
    /\ disk = [d \in Doc |-> NoFile]

Evaluate(s, d) ==
    /\ memory' = [memory EXCEPT ![s] = Fresh(d)]
    /\ UNCHANGED <<served, disk>>

\* A restart may have emptied the slot just before: then nothing is persisted,
\* under the document's name, and nothing is loaded from it.
Persist(s, d) ==
    /\ memory[s] \in {Fresh(d), Empty}
    /\ disk' = [disk EXCEPT ![d] = memory[s]]
    /\ UNCHANGED <<served, memory>>

Load(s, d) ==
    /\ disk[d] \in {Fresh(d), Empty}
    /\ memory' = [memory EXCEPT ![s] = disk[d]]
    /\ UNCHANGED <<served, disk>>

Evict(s) ==
    /\ memory' = [memory EXCEPT ![s] = Empty]
    /\ UNCHANGED <<served, disk>>

Remove(docs) ==
    /\ disk' = [d \in Doc |-> IF d \in docs THEN NoFile ELSE disk[d]]
    /\ UNCHANGED <<served, memory>>

\* Memory does not survive; what is on disk does, and may be of no use any more.
Redeploy ==
    /\ served' \in Model
    /\ memory' = [s \in Slot |-> Empty]
    /\ UNCHANGED disk

Next ==
    \/ \E s \in Slot, d \in Doc : Evaluate(s, d) \/ Persist(s, d) \/ Load(s, d)
    \/ \E s \in Slot : Evict(s)
    \/ \E docs \in SUBSET Doc : Remove(docs)
    \/ Redeploy

Spec == Init /\ [][Next]_cacheVars
=============================================================================
