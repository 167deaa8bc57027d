--------------------------- MODULE CagParameters ---------------------------
(***************************************************************************)
(* What the llama-server, the document table and the engine have in        *)
(* common: the ids of the documents, and the faults an instance allows.    *)
(***************************************************************************)
CONSTANTS
    Doc,        \* document ids; BIGSERIAL gives each out once, never again
    Faults      \* what may go wrong in this instance

FaultKind == {
    "llama",     \* an erase, completion, save or restore fails or times out
    "lostsave",  \* a save writes its file and its reply is lost
    "props",     \* GET /props does not answer
    "anonymous", \* /props has no model_path
    "marker",    \* model.marker cannot be written
    "unlink",    \* a cache file cannot be removed
    "db",        \* an UPDATE raises
    "spawn",     \* no thread can be started for the deferred re-save
    "crash",     \* the API process dies and starts again
    "restart",   \* llama-server restarts, perhaps on a later model
    "rollback",  \* ... or on an earlier one
    "race",      \* ... even between a fingerprint check and its restore
    "drift" }    \* llama-server is recreated with another --parallel

ASSUME FaultsAssumption == Faults \subseteq FaultKind
=============================================================================
