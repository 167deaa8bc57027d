----------------------------- MODULE CagService -----------------------------
(***************************************************************************)
(* A request's way through the HTTP layer (api/app/main.py) and the parts  *)
(* of query(), verify_claim() and calibrate() of api/app/cag.py around the *)
(* completion: the thread it runs on, the documents it looks up, the usage *)
(* it records, the status it ends with.  Health checks run beside it on    *)
(* threads of their own.                                                   *)
(*                                                                         *)
(* What a completion does to the slots is CagEngine's subject: here it     *)
(* holds the engine's lock for as long as it likes and then answers or     *)
(* raises LlamaError.                                                      *)
(***************************************************************************)
EXTENDS Integers, FiniteSets

CONSTANTS
    Request,        \* requests that may be sent
    Check,          \* health checks that may be sent
    Doc,            \* document ids
    None,           \* no document, no request
    Routes,         \* the routes each request may be sent to
    Named,          \* the document_id it may give, None for none at all
    PoolSizes,      \* how many threads may run the routes declared with def
    CheckThreads,   \* total_tokens of health_limiter
    Items,          \* questions of a calibration battery
    DbFails         \* may the database fail a statement?

ASSUME ServiceAssumption ==
    /\ None \notin Request \cup Doc
    /\ Routes \in [Request -> SUBSET {"query", "verify", "calibrate"}]
    /\ Named \in [Request -> SUBSET (Doc \cup {None})]
    /\ PoolSizes \subseteq Nat \ {0}
    /\ CheckThreads \in Nat \ {0} /\ Items \in Nat \ {0}
    /\ DbFails \in BOOLEAN

VARIABLES
    threads,        \* how many this server has, fixed for its life
    row,            \* the row of each document: cached, there but not cached, or
                    \* gone (what a lookup finds of an id not given yet, too)
    latest,         \* the cached document with the latest cached_at, or None
    uses,           \* use_count of each document
    log,            \* query_log: which completion of which request, the
                    \* document_id, and success
    lock,           \* the request inside the engine's lock, or None
    at,             \* where each request is
    route, wants,   \* its route, and the document_id it gives or None
    doc,            \* the document query() has resolved
    item,           \* completions of the request so far
    right, errors,  \* calibrate(): correct, errors
    read,           \* verify_claim(): the document the quote is looked up in
    unlogged,       \* history: completions whose log row could not be written
    status,         \* the status code of the response, or 0
    check           \* where each health check is

tableVars == <<row, latest, uses, log>>
workVars == <<route, doc, item, right, errors, read, unlogged>>
otherVars == <<check, threads>>
vars == <<tableVars, lock, at, workVars, wants, status, otherVars>>

Live == {d \in Doc : row[d] \in {"cached", "uncached"}}
Cached == {d \in Doc : row[d] = "cached"}

\* The steps at which a request occupies a thread.
Inside == {"start", "find", "lock", "infer", "relock", "logfailed", "touch", "log",
           "result", "refetch"}

LogRow == [by : Request, item : 1..Items, doc : Doc \cup {None}, ok : BOOLEAN]

TypeOK ==
    /\ row \in [Doc -> {"uncached", "cached", "gone"}]
    /\ latest \in Cached \cup {None} /\ (latest = None <=> Cached = {})
    /\ uses \in [Doc -> Nat]
    /\ log \subseteq LogRow
    /\ lock \in Request \cup {None}
    /\ \A r \in Request : lock = r <=> at[r] = "infer"
    /\ at \in [Request -> Inside \cup {"idle", "queued", "done"}]
    /\ item \in [Request -> 0..Items]
    /\ check \in [Check -> {"idle", "queued", "asking"}]
    /\ threads \in PoolSizes

Init ==
    /\ row = [d \in Doc |-> "uncached"]
    /\ latest = None
    /\ uses = [d \in Doc |-> 0]
    /\ log = {}
    /\ lock = None
    /\ at = [r \in Request |-> "idle"]
    /\ route = [r \in Request |-> "query"]
    /\ wants = [r \in Request |-> None]
    /\ doc = [r \in Request |-> None]
    /\ item = [r \in Request |-> 0]
    /\ right = [r \in Request |-> 0] /\ errors = [r \in Request |-> 0]
    /\ read = [r \in Request |-> None]
    /\ unlogged = [r \in Request |-> 0]
    /\ status = [r \in Request |-> 0]
    /\ check = [c \in Check |-> "idle"]
    /\ threads \in PoolSizes

-----------------------------------------------------------------------------
\* The documents, which other requests ingest, re-save and delete.

Latest(d) == latest' = d /\ row' = [row EXCEPT ![d] = "cached"]

Uncached(d, s) ==
    /\ row' = [row EXCEPT ![d] = s]
    /\ latest' \in IF Cached \ {d} = {} THEN {None}
                   ELSE IF latest = d THEN Cached \ {d} ELSE {latest}

\* mark_cached, of an ingest or of a re-save.
Recached(d) == d \in Live /\ Latest(d)

\* mark_failed, of an ingest that heals a row another one has just healed.
Failed(d) == row[d] = "cached" /\ Uncached(d, "uncached")

DocumentChanges ==
    /\ \E d \in Doc : Recached(d) \/ Failed(d)
    /\ UNCHANGED <<uses, log, lock, at, workVars, wants, status, otherVars>>

\* ON DELETE SET NULL.
Nulled(d) == {[e EXCEPT !.doc = IF @ = d THEN None ELSE @] : e \in log}

DocumentDeleted ==
    /\ \E d \in Live :
          /\ Uncached(d, "gone")
          /\ uses' = [uses EXCEPT ![d] = 0]
          /\ log' = Nulled(d)
    /\ UNCHANGED <<lock, at, workVars, wants, status, otherVars>>

-----------------------------------------------------------------------------
\* Arrival, and the pool of threads.

Goto(r, where) ==
    /\ at' = [at EXCEPT ![r] = where]
    /\ UNCHANGED <<wants, status>>

\* The response; the request's arguments are gone with it.
Ends(r, code) ==
    /\ at' = [at EXCEPT ![r] = "done"]
    /\ status' = [status EXCEPT ![r] = code]
    /\ wants' = [wants EXCEPT ![r] = None]

Send(r) ==
    /\ at[r] = "idle"
    /\ \E k \in Routes[r], d \in Named[r] :
          /\ k = "calibrate" => d # None
          /\ route' = [route EXCEPT ![r] = k]
          /\ wants' = [wants EXCEPT ![r] = d]
    /\ at' = [at EXCEPT ![r] = "queued"]
    /\ UNCHANGED <<tableVars, lock, doc, item, right, errors, read, unlogged,
                   status, otherVars>>

\* Mutant of Busy: a thread is not returned when its request ends.
BusyForGood == {r \in Request : at[r] \notin {"idle", "queued"}}

Busy == {r \in Request : at[r] \in Inside}

Admit(r) ==
    /\ at[r] = "queued"
    /\ Cardinality(Busy) < threads
    /\ Goto(r, IF route[r] = "calibrate" THEN "start" ELSE "find")
    /\ UNCHANGED <<tableVars, lock, workVars, otherVars>>

-----------------------------------------------------------------------------
\* query(), once for a query or a verify, Items times for a battery.

\* psycopg.Error, where nothing catches it before the handler in main.py.
DatabaseDown(r) ==
    /\ DbFails
    /\ at[r] \in {"start", "find", "refetch"}
    /\ Ends(r, 503)
    /\ UNCHANGED <<tableVars, lock, workVars, otherVars>>

\* calibrate() looks its document up before it generates anything.
CheckFirst(r) ==
    /\ at[r] = "start"
    /\ IF wants[r] \in Live THEN Goto(r, "find")
       ELSE Ends(r, 404)
    /\ UNCHANGED <<tableVars, lock, workVars, otherVars>>

Find(r) ==
    /\ at[r] = "find"
    /\ LET d == IF wants[r] # None THEN wants[r] ELSE latest
       IN IF d \in Live
          THEN /\ doc' = [doc EXCEPT ![r] = d]
               /\ Goto(r, "lock")
          ELSE /\ Ends(r, IF wants[r] # None THEN 404 ELSE 409)
               /\ UNCHANGED doc
    /\ UNCHANGED <<tableVars, lock, route, item, right, errors, read,
                   unlogged, otherVars>>

\* QuestionTooLargeError: the question does not fit the document's slot.
TooLarge(r) ==
    /\ at[r] = "find"
    /\ (IF wants[r] # None THEN wants[r] ELSE latest) \in Live
    /\ Ends(r, 413)
    /\ UNCHANGED <<tableVars, lock, workVars, otherVars>>

\* Mutant of Lock: it is not waited for.
LockBarges(r) ==
    /\ at[r] = "lock"
    /\ lock' = r
    /\ Goto(r, "infer")
    /\ UNCHANGED <<tableVars, workVars, otherVars>>

Lock(r) ==
    /\ at[r] = "lock" /\ lock = None
    /\ lock' = r
    /\ Goto(r, "infer")
    /\ UNCHANGED <<tableVars, workVars, otherVars>>

\* _make_hot and chat, or one of them raising LlamaError: the lock is free
\* again, and is taken once more to unmap the slot if there is one.
Infer(r) ==
    /\ at[r] = "infer"
    /\ lock' = None
    /\ item' = [item EXCEPT ![r] = @ + 1]
    /\ \E next \in {"touch", "relock", "logfailed"} : Goto(r, next)
    /\ UNCHANGED <<tableVars, route, doc, right, errors, read, unlogged,
                   otherVars>>

Relock(r) ==
    /\ at[r] = "relock" /\ lock = None
    /\ Goto(r, "logfailed")
    /\ UNCHANGED <<tableVars, lock, workVars, otherVars>>

Write(r, d, ok) ==
    /\ log' = log \cup {[by |-> r, item |-> item[r], doc |-> d, ok |-> ok]}
    /\ UNCHANGED unlogged

Unwritten(r) ==
    /\ unlogged' = [unlogged EXCEPT ![r] = @ + 1]
    /\ UNCHANGED log

\* Mutant of LogQuery: a row that violates the foreign key is not tried again.
LogQueryOnce(r, ok) ==
    \/ doc[r] \in Live /\ Write(r, doc[r], ok)
    \/ doc[r] \notin Live /\ UNCHANGED <<log, unlogged>>
    \/ DbFails /\ Unwritten(r)

\* log_query: the INSERT, or after a foreign-key violation the one with NULL.
\* Whoever calls it goes on when it raises.
LogQuery(r, ok) ==
    \/ doc[r] \in Live /\ Write(r, doc[r], ok)
    \/ doc[r] \notin Live /\ Write(r, None, ok)
    \/ DbFails /\ Unwritten(r)

\* Mutant of Raised: the question that failed is scored as well.
RaisedScores(r) ==
    IF route[r] = "calibrate"
    THEN /\ errors' = [errors EXCEPT ![r] = @ + 1]
         /\ Goto(r, "result")
    ELSE Ends(r, 502) /\ UNCHANGED errors

NextItem(r) ==
    IF item[r] < Items THEN Goto(r, "find") ELSE Ends(r, 200)

\* LlamaError leaves query(): calibrate() counts it and goes on.
Raised(r) ==
    IF route[r] = "calibrate"
    THEN errors' = [errors EXCEPT ![r] = @ + 1] /\ NextItem(r)
    ELSE Ends(r, 502) /\ UNCHANGED errors

LogFailed(r) ==
    /\ at[r] = "logfailed"
    /\ LogQuery(r, FALSE)
    /\ Raised(r)
    /\ UNCHANGED <<row, latest, uses, lock, route, doc, item, right, read,
                   otherVars>>

\* Mutant of Touch: after an error the answer is logged all the same.
TouchGoesOn(r) ==
    /\ at[r] = "touch"
    /\ Goto(r, "log")
    /\ \/ uses' = [uses EXCEPT ![doc[r]] = @ + (IF doc[r] \in Live THEN 1 ELSE 0)]
       \/ DbFails /\ UNCHANGED uses
    /\ UNCHANGED <<row, latest, log, lock, workVars, otherVars>>

\* Mutant of Touch: an error of the UPDATE leaves query().
TouchRaises(r) ==
    /\ at[r] = "touch"
    /\ \/ /\ uses' = [uses EXCEPT ![doc[r]] = @ + (IF doc[r] \in Live THEN 1 ELSE 0)]
          /\ Goto(r, "log")
          /\ UNCHANGED <<log, unlogged>>
       \/ DbFails /\ Unwritten(r) /\ Ends(r, 503) /\ UNCHANGED uses
    /\ UNCHANGED <<row, latest, lock, route, doc, item, right, errors, read,
                   otherVars>>

\* touch_used; an error skips the log as well.
Touch(r) ==
    /\ at[r] = "touch"
    /\ \/ /\ uses' = [uses EXCEPT ![doc[r]] = @ + (IF doc[r] \in Live THEN 1 ELSE 0)]
          /\ Goto(r, "log")
          /\ UNCHANGED <<log, unlogged>>
       \/ DbFails /\ Unwritten(r) /\ Goto(r, "result") /\ UNCHANGED uses
    /\ UNCHANGED <<row, latest, lock, route, doc, item, right, errors, read,
                   otherVars>>

LogAnswer(r) ==
    /\ at[r] = "log"
    /\ LogQuery(r, TRUE)
    /\ Goto(r, "result")
    /\ UNCHANGED <<row, latest, uses, lock, route, doc, item, right, errors,
                   read, otherVars>>

-----------------------------------------------------------------------------
\* What the route does with the answer.

ReturnAnswer(r) ==
    /\ at[r] = "result" /\ route[r] = "query"
    /\ Ends(r, 200)
    /\ UNCHANGED <<tableVars, lock, workVars, otherVars>>

\* _score_answer: right or a miss.
Score(r) ==
    /\ at[r] = "result" /\ route[r] = "calibrate"
    /\ \E n \in {0, 1} : right' = [right EXCEPT ![r] = @ + n]
    /\ NextItem(r)
    /\ UNCHANGED <<tableVars, lock, route, doc, item, errors, read, unlogged,
                   otherVars>>

VerdictReturned(r) ==
    /\ at[r] = "result" /\ route[r] = "verify"
    /\ Goto(r, "refetch")
    /\ UNCHANGED <<tableVars, lock, workVars, otherVars>>

\* Mutant of Refetch: the document is resolved anew.
RefetchAnew(r) ==
    /\ at[r] = "refetch"
    /\ LET d == IF wants[r] # None THEN wants[r] ELSE latest
       IN IF d \in Live THEN read' = [read EXCEPT ![r] = d] /\ Ends(r, 200)
          ELSE Ends(r, 404) /\ UNCHANGED read
    /\ UNCHANGED <<tableVars, lock, route, doc, item, right, errors, unlogged,
                   otherVars>>

\* The quote is looked up in the content of the document the model answered
\* about, which may be gone by now.
Refetch(r) ==
    /\ at[r] = "refetch"
    /\ IF doc[r] \in Live THEN read' = [read EXCEPT ![r] = doc[r]] /\ Ends(r, 200)
       ELSE Ends(r, 404) /\ UNCHANGED read
    /\ UNCHANGED <<tableVars, lock, route, doc, item, right, errors, unlogged,
                   otherVars>>

RequestStep(r) ==
    \/ Admit(r) \/ CheckFirst(r) \/ Find(r) \/ TooLarge(r) \/ DatabaseDown(r)
    \/ Lock(r) \/ Relock(r) \/ LogFailed(r) \/ Touch(r) \/ LogAnswer(r)
    \/ ReturnAnswer(r) \/ Score(r) \/ VerdictReturned(r) \/ Refetch(r)

-----------------------------------------------------------------------------
\* GET /health.

CheckGoto(c, where) ==
    /\ check' = [check EXCEPT ![c] = where]
    /\ UNCHANGED <<tableVars, lock, at, workVars, wants, status, threads>>

SendCheck(c) == check[c] = "idle" /\ CheckGoto(c, "queued")

\* Mutant of CheckAdmitted: health runs on the threads of the other routes.
CheckAdmittedShared(c) ==
    /\ check[c] = "queued"
    /\ Cardinality(Busy) < threads
    /\ CheckGoto(c, "asking")

\* A thread of health_limiter; the snapshot of the slot map needs _slots_guard
\* only, which nobody holds across I/O.
CheckAdmitted(c) ==
    /\ check[c] = "queued"
    /\ Cardinality({k \in Check : check[k] = "asking"}) < CheckThreads
    /\ CheckGoto(c, "asking")

\* llama.health() returns or raises within health_timeout_s, and db.ping() too.
CheckReports(c) == check[c] = "asking" /\ CheckGoto(c, "idle")

CheckStep(c) == CheckAdmitted(c) \/ CheckReports(c)

-----------------------------------------------------------------------------
Next ==
    \/ DocumentChanges
    \/ DocumentDeleted
    \/ \E r \in Request : Send(r) \/ RequestStep(r) \/ Infer(r)
    \/ \E c \in Check : SendCheck(c) \/ CheckStep(c)

\* Threads are scheduled; a completion may take longer than anyone waits.
Spec ==
    /\ Init /\ [][Next]_vars
    /\ \A r \in Request : WF_vars(RequestStep(r))
    /\ \A c \in Check : WF_vars(CheckStep(c))

-----------------------------------------------------------------------------
\* Properties.

RowsOf(r, ok) == {e \in log : e.by = r /\ e.ok = ok}

\* A finished completion whose log row is still to be written.
Pending(r) == at[r] \in {"relock", "logfailed", "touch", "log"}

\* Every completion, answered or failed, is on record once unless the database
\* refused the row, and under its document exactly as long as that exists: no
\* delete between the answer and the bookkeeping loses a row.
LogAccounts ==
    /\ \A r \in Request :
          Cardinality({e \in log : e.by = r}) + unlogged[r] + (IF Pending(r) THEN 1 ELSE 0)
              = item[r]
    /\ \A e \in log : e.doc = IF doc[e.by] \in Live THEN doc[e.by] ELSE None

\* use_count is never behind the log: a document shows at least the answers the
\* log has of it, in whatever order requests touch, log and fail.
UsesCoverLog ==
    \A d \in Live :
        Cardinality({e \in log : e.doc = d /\ e.ok})
            + Cardinality({r \in Request : at[r] = "log" /\ doc[r] = d}) <= uses[d]

\* An answer the model has given is returned, whatever becomes of the document
\* and of the bookkeeping: a query fails after its completion only if that did.
AnswerKept ==
    \A r \in Request :
        route[r] = "query" /\ item[r] = 1 /\ at[r] = "done" =>
            /\ status[r] \in {200, 502}
            /\ status[r] = 200 => RowsOf(r, FALSE) = {}
            /\ status[r] = 502 => RowsOf(r, TRUE) = {}

\* A battery's report covers all of its questions, counts as right only what was
\* answered, and agrees with the query log on what was.
BatteryAddsUp ==
    \A r \in Request :
        route[r] = "calibrate" /\ status[r] = 200 =>
            /\ item[r] = Items
            /\ right[r] + errors[r] <= Items
            /\ Cardinality(RowsOf(r, FALSE)) <= errors[r]
            /\ Cardinality(RowsOf(r, TRUE)) <= Items - errors[r]

\* The quote of a verdict is looked up in the document the model was asked about,
\* however the most recently cached one changes in the meantime.
VerdictReadsItsDocument ==
    \A r \in Request :
        route[r] = "verify" /\ status[r] = 200 => read[r] = doc[r]

\* Health answers although every thread of the other routes waits for the lock
\* and the completion that holds it never ends.
HealthAnswers == \A c \in Check : check[c] = "queued" ~> check[c] = "idle"

\* As long as completions end, every request gets its response: none waits for a
\* thread or for the lock for ever.
RequestsEnd ==
    (\A r \in Request : []<>(at[r] # "infer")) =>
        \A r \in Request : at[r] = "queued" ~> at[r] = "done"
=============================================================================
