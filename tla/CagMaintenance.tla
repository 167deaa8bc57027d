--------------------------- MODULE CagMaintenance ---------------------------
(***************************************************************************)
(* The engine with maintenance() running beside it: POST /maintenance,     *)
(* sent every night by the n8n workflow, removes the cache files no row    *)
(* names.  It takes no lock.  It reads the table, lists the directory,     *)
(* looks at the age of each file and unlinks it, and between any two of    *)
(* these a request or a re-save may save, name or remove a file.           *)
(***************************************************************************)
EXTENDS CagEngine

VARIABLES
    young,      \* the documents whose file was written less than
                \* maintenance_grace_s ago
    sweep,      \* where the sweep is
    known,      \* known: the documents the table gave a cache_file to
    found,      \* on_disk: files not in known that the loop has yet to look at
    recent,     \* files less than maintenance_grace_s older than its now
    target      \* the file whose age it has looked at, or None

sweepVars == <<sweep, known, found, recent, target>>
maintVars == <<vars, young, sweepVars>>

MaintTypeOK ==
    /\ young \subseteq Doc
    /\ sweep \in {"off", "listed", "looking"}
    /\ known \subseteq Doc /\ found \subseteq Doc /\ recent \subseteq Doc
    /\ target \in Doc \cup {None}
    /\ sweep # "looking" => found = {} /\ target = None

MaintInit ==
    /\ Init
    /\ young = {}
    /\ sweep = "off"
    /\ known = {} /\ found = {} /\ recent = {}
    /\ target = None

Exists(d) == files[d] # NoFile

-----------------------------------------------------------------------------
\* The sweep.

SweepEnds ==
    /\ sweep' = "off"
    /\ known' = {} /\ found' = {} /\ recent' = {}
    /\ target' = None

\* Mutant of SweepTable: every row is taken to name its file.
SweepTableAllRows ==
    /\ sweep = "off"
    /\ sweep' = "listed"
    /\ known' = Live
    /\ UNCHANGED <<vars, young, found, recent, target>>

\* all_cache_files: one statement.
SweepTable ==
    /\ sweep = "off"
    /\ sweep' = "listed"
    /\ known' = {d \in Live : hasFile[d]}
    /\ UNCHANGED <<vars, young, found, recent, target>>

\* The glob, and time.time() right after it.  A file in known is passed over.
SweepDirectory ==
    /\ sweep = "listed"
    /\ sweep' = "looking"
    /\ found' = CacheFiles \ known
    /\ recent' = young
    /\ UNCHANGED <<vars, young, known, target>>

\* Mutant of SweepLook: a file of any age is taken for an orphan.
SweepLookNoGrace ==
    /\ target = None
    /\ \E d \in found :
          /\ found' = found \ {d}
          /\ target' = IF Exists(d) THEN d ELSE None
    /\ UNCHANGED <<vars, young, sweep, known, recent>>

\* stat: a file that has vanished or is too young is passed over.
SweepLook ==
    /\ target = None
    /\ \E d \in found :
          /\ found' = found \ {d}
          /\ target' = IF Exists(d) /\ d \notin recent THEN d ELSE None
    /\ UNCHANGED <<vars, young, sweep, known, recent>>

\* unlink: an error, such as that the file has vanished, is reported only.
SweepUnlink ==
    /\ target # None
    /\ \E gone \in {TRUE} \cup (IF "unlink" \in Faults THEN {FALSE} ELSE {}) :
          files' = [files EXCEPT ![target] = IF gone THEN NoFile ELSE @]
    /\ target' = None
    /\ young' = IF files'[target] = NoFile THEN young \ {target} ELSE young
    /\ UNCHANGED <<model, kv, total, storeVars, mapVars, checkVars, lock, pc,
                   localVars, sweep, known, found, recent>>

\* Mutant of SweepReturns: it does not wait for the last unlink.
SweepReturnsEarly ==
    /\ sweep = "looking"
    /\ found = {}
    /\ sweep' = "off"
    /\ known' = {} /\ found' = {} /\ recent' = {}
    /\ UNCHANGED <<vars, young, target>>

\* The report, and stats().
SweepReturns ==
    /\ sweep = "looking"
    /\ found = {} /\ target = None
    /\ SweepEnds
    /\ UNCHANGED <<vars, young>>

SweepStep == SweepDirectory \/ SweepLook \/ SweepUnlink \/ SweepReturns

-----------------------------------------------------------------------------
\* The engine beside it.

\* The documents whose file this step of the engine writes.
Written ==
    {d \in Doc :
        \/ \E p \in Process :
              /\ doc[p] = d
              /\ pc[p] \in {"warm_save", "resave"}
              /\ pc'[p] \in {"mark_cached", "resave_mark"}
        \/ files'[d] \notin {files[d], NoFile}}

\* Without "race" no file is written between a look at its age and its unlink.
EngineStep ==
    /\ \/ \E t \in Thread : Arrival(t) \/ ThreadStep(t)
       \/ \E w \in Worker : WorkerStep(w)
       \/ Restart
       \/ Resize
    /\ young' = {d \in young \cup Written : files'[d] # NoFile}
    /\ recent' = IF sweep = "looking" THEN recent \cup Written ELSE recent
    /\ "race" \in Faults \/ target \notin Written
    /\ UNCHANGED <<sweep, known, found, target>>

Dies == Crash /\ SweepEnds /\ UNCHANGED young

\* No process has saved d's file and not yet told the table.
AllNamed(d) ==
    \A p \in Process : doc[p] = d => pc[p] \notin {"mark_cached", "resave_mark"}

\* maintenance_grace_s, an hour, is longer than an UPDATE takes to follow its
\* save, and than the glob takes to follow the read of the table.
Settled(d) == sweep # "listed" /\ AllNamed(d)

\* maintenance_grace_s pass.
Ages(d) ==
    /\ d \in young
    /\ Settled(d)
    /\ young' = young \ {d}
    /\ UNCHANGED <<vars, sweepVars>>

MaintNext ==
    \/ EngineStep
    \/ Dies
    \/ SweepTable
    \/ SweepStep
    \/ \E d \in Doc : Ages(d)

\* A started thread is scheduled, the schedule trigger of the workflow fires
\* every night, and time passes.
MaintFairness ==
    /\ \A t \in Thread : WF_maintVars(EngineStep /\ ThreadStep(t))
    /\ \A w \in Worker : WF_maintVars(EngineStep /\ WorkerStep(w))
    /\ WF_maintVars(SweepTable)
    /\ WF_maintVars(SweepStep)
    /\ \A d \in Doc : SF_maintVars(Ages(d))

MaintSpec == MaintInit /\ [][MaintNext]_maintVars /\ MaintFairness

-----------------------------------------------------------------------------
\* Properties.

\* The sweep never removes a file that a save in flight or a row has a claim to:
\* one that a row will name stays until it is named, and then until the row is
\* deleted.
SweepSparesClaimed == \A d \in Live : hasFile[d] \/ ~AllNamed(d) => Exists(d)

\* A file stranded by a lost reply, a failed unlink or a crash is removed in the
\* end: once requests stop coming, only the files of live rows are left.
OrphansSwept ==
    <>[][~Arrives]_maintVars =>
        <>[](\A d \in Doc : Exists(d) => d \in Live /\ hasFile[d])
=============================================================================
