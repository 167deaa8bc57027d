---------------------------- MODULE LlamaServer ----------------------------
(***************************************************************************)
(* llama-server as the engine uses it through api/app/llama.py: a set of   *)
(* slots whose KV state is lost at a restart, and the slot files it saves  *)
(* and restores.  The server itself is outside the repository; each        *)
(* operation below is what the client's callers rely on.                   *)
(***************************************************************************)
EXTENDS Integers, CagParameters

CONSTANTS
    Model,      \* served models, numbered in the order they are deployed
    CagSlots,   \* the engine's CAG_SLOTS
    Empty,      \* KV state, or a slot file, of zero tokens
    NoFile      \* no such slot file

ASSUME CagSlotsAssumption == CagSlots \in Nat \ {0}
ASSUME ModelAssumption == Model \subseteq Nat /\ Model # {}

Slot == 0 .. CagSlots - 1

\* The KV state of a slot: the document whose prompt was evaluated, and the
\* model that evaluated it.
State == [doc : Doc, model : Model]

ASSUME EmptyAssumption == Empty \notin State /\ NoFile \notin State \cup {Empty}

VARIABLES
    model,      \* the model being served (/props model_path)
    kv,         \* kv[k]: the KV state of physical slot k
    files,      \* files[d]: what doc-<d>.bin holds
    total       \* the server's slot count, --parallel (/props total_slots)

serverVars == <<model, kv, files, total>>

ServerTypeOK ==
    /\ model \in Model
    /\ kv \in [Slot -> State \cup {Empty}]
    /\ files \in [Doc -> State \cup {Empty, NoFile}]
    /\ total \in 1 .. CagSlots

ServerInit ==
    /\ model \in Model
    /\ kv = [k \in Slot |-> Empty]
    /\ files = [d \in Doc |-> NoFile]
    /\ total = CagSlots

\* An out-of-range id_slot wraps around, it is not refused.
Physical(s) == s % total

\* The prompt prefix of d is already in slot s: cache_n covers the prefix.
Reuses(s, d) ==
    kv[Physical(s)] # Empty /\ kv[Physical(s)].doc = d

\* What slot s holds once the prompt of d has been evaluated in it.
Evaluated(s, d) ==
    IF Reuses(s, d) THEN kv[Physical(s)] ELSE [doc |-> d, model |-> model]

SlotErase(s) == kv' = [kv EXCEPT ![Physical(s)] = Empty]

Chat(s, d) == kv' = [kv EXCEPT ![Physical(s)] = Evaluated(s, d)]

\* A failed or timed-out completion leaves the slot as it was, emptied, or
\* already evaluated (only the reply was lost).
ChatFails(s, d) ==
    /\ "llama" \in Faults
    /\ \E left \in {kv[Physical(s)], Empty, Evaluated(s, d)} :
          kv' = [kv EXCEPT ![Physical(s)] = left]

SlotSave(s, d) == files' = [files EXCEPT ![d] = kv[Physical(s)]]

\* A failed save wrote nothing, or wrote the file and lost the reply.
SlotSaveFails(s, d) ==
    \/ "llama" \in Faults /\ UNCHANGED files
    \/ "lostsave" \in Faults /\ SlotSave(s, d)

\* A 200 that restored zero tokens empties the slot; the engine treats it
\* as a failure.
SlotRestore(s, d) ==
    /\ files[d] # NoFile
    /\ kv' = [kv EXCEPT ![Physical(s)] = files[d]]

SlotRestoreFails(s, d) ==
    \/ files[d] = NoFile /\ UNCHANGED kv
    \/ /\ "llama" \in Faults
       /\ files[d] # NoFile
       /\ \E left \in {kv[Physical(s)], Empty, files[d]} :
             kv' = [kv EXCEPT ![Physical(s)] = left]

\* The container is restarted, possibly on another model; every slot is lost.
\* "rollback" lets an operator go back to an earlier model.
ServerRestart ==
    /\ "restart" \in Faults
    /\ model' \in {m \in Model : m >= model \/ "rollback" \in Faults}
    /\ kv' = [k \in Slot |-> Empty]
    /\ UNCHANGED <<files, total>>

\* The container is recreated with another --parallel.
ServerResize ==
    /\ "drift" \in Faults
    /\ total' \in 1 .. CagSlots
    /\ total' # total
    /\ kv' = [k \in Slot |-> Empty]
    /\ UNCHANGED <<files, model>>
=============================================================================
