-------------------------- MODULE CagServiceProofs --------------------------
(***************************************************************************)
(* What a request may rely on, for any number of requests, documents and   *)
(* threads, with the database failing as it likes: a verdict is checked    *)
(* against the document it is about, an answer once given is returned, and *)
(* the query log and the report of a battery add up.                       *)
(***************************************************************************)
EXTENDS CagService, FiniteSetTheorems, TLAPS

\* The rest of the types.
WorkType ==
    /\ route \in [Request -> {"query", "verify", "calibrate"}]
    /\ wants \in [Request -> Doc \cup {None}]
    /\ doc \in [Request -> Doc \cup {None}]
    /\ right \in [Request -> Nat]
    /\ errors \in [Request -> Nat]
    /\ unlogged \in [Request -> Nat]
    /\ read \in [Request -> Doc \cup {None}]
    /\ status \in [Request -> {0, 200, 404, 409, 413, 502, 503}]

\* Where a request still has a completion before it, has a document, and has a
\* completion to account for.
AheadAt == {"find", "lock", "infer"}
PendingAt == {"relock", "logfailed", "touch", "log"}
Resolved == {"lock", "infer", "result", "refetch"} \cup PendingAt

\* The course of a request: how many completions it has behind it at each place,
\* one for all routes but a battery, which asks about one document throughout.
Course(r) ==
    /\ at[r] # "done" => status[r] = 0
    /\ at[r] \in Resolved => doc[r] \in Doc
    /\ at[r] \in {"idle", "queued", "start"} => item[r] = 0
    /\ at[r] \in AheadAt => item[r] < Items /\ (route[r] # "calibrate" => item[r] = 0)
    /\ at[r] \in PendingAt \cup {"result", "refetch"} => item[r] > 0
    /\ route[r] # "calibrate" => item[r] <= 1
    /\ at[r] = "start" => route[r] = "calibrate"
    /\ at[r] = "refetch" => route[r] = "verify"
    /\ route[r] = "calibrate" /\ at[r] \notin {"idle", "done"} =>
          /\ wants[r] # None
          /\ at[r] \in Resolved \/ item[r] > 0 => doc[r] = wants[r]

CourseInv == TypeOK /\ WorkType /\ \A r \in Request : Course(r)

RequestMoves(r) == Send(r) \/ RequestStep(r) \/ Infer(r)

\* A request moves itself only.
LEMMA OthersWait ==
    ASSUME CourseInv, NEW r \in Request, RequestMoves(r), NEW q \in Request, q # r
    PROVE  /\ UNCHANGED <<at[q], wants[q], status[q], route[q], doc[q], item[q], right[q],
                          errors[q], read[q], unlogged[q]>>
BY DEF RequestMoves, Send, RequestStep, Infer, Admit, CheckFirst, Find, TooLarge,
       DatabaseDown, Lock, Relock, LogFailed, LogQuery, Write, Unwritten, Raised,
       NextItem, Touch, LogAnswer, ReturnAnswer, Score, VerdictReturned, Refetch, Goto,
       Ends, workVars, CourseInv, TypeOK, WorkType

\* A request that has its response moves no more.
LEMMA DoneStays ==
    ASSUME CourseInv, NEW r \in Request, RequestMoves(r)
    PROVE  at[r] # "done" /\ status[r] = 0
<1>1. at[r] # "done"
  BY DEF RequestMoves, Send, RequestStep, Infer, Admit, CheckFirst, Find, TooLarge,
         DatabaseDown, Lock, Relock, LogFailed, Touch, LogAnswer, ReturnAnswer, Score,
         VerdictReturned, Refetch
<1> QED BY <1>1 DEF CourseInv, Course

\* The types of what a request works with.
LEMMA WorkTypeStep ==
    ASSUME CourseInv, NEW r \in Request, RequestMoves(r)
    PROVE  WorkType'
<1>1. \A d \in Doc : d \in Live => d # None
  BY ServiceAssumption DEF Live
<1>2. latest \in Doc \cup {None}
  BY DEF CourseInv, TypeOK, Cached
<1>3. CASE Send(r)
  <2>1. PICK k \in Routes[r], d \in Named[r] :
          /\ route' = [route EXCEPT ![r] = k]
          /\ wants' = [wants EXCEPT ![r] = d]
    BY <1>3 DEF Send
  <2>2. k \in {"query", "verify", "calibrate"} /\ d \in Doc \cup {None}
    BY ServiceAssumption
  <2>3. route' \in [Request -> {"query", "verify", "calibrate"}]
    BY <2>1, <2>2 DEF CourseInv, WorkType
  <2>4. wants' \in [Request -> Doc \cup {None}]
    BY <2>1, <2>2 DEF CourseInv, WorkType
  <2> QED BY <1>3, <2>3, <2>4 DEF Send, CourseInv, WorkType
<1>4. CASE \/ Admit(r) \/ CheckFirst(r) \/ TooLarge(r) \/ DatabaseDown(r) \/ Lock(r)
           \/ Relock(r) \/ ReturnAnswer(r) \/ VerdictReturned(r)
  <2>1. UNCHANGED workVars
    BY <1>4
    DEF Admit, CheckFirst, TooLarge, DatabaseDown, Lock, Relock, ReturnAnswer,
        VerdictReturned
  <2>2. \/ UNCHANGED <<wants, status>>
        \/ \E code \in {200, 404, 413, 503} : Ends(r, code)
    BY <1>4
    DEF Admit, CheckFirst, TooLarge, DatabaseDown, Lock, Relock, ReturnAnswer,
        VerdictReturned, Goto
  <2>3. wants' \in [Request -> Doc \cup {None}]
    BY <2>2 DEF Ends, CourseInv, WorkType
  <2>4. status' \in [Request -> {0, 200, 404, 409, 413, 502, 503}]
    BY <2>2 DEF Ends, CourseInv, WorkType
  <2> QED BY <2>1, <2>3, <2>4 DEF workVars, CourseInv, WorkType
<1>5. CASE Find(r)
  BY <1>2, <1>5 DEF Find, Goto, Ends, CourseInv, WorkType, Live
<1>6. CASE Infer(r) \/ LogAnswer(r) \/ LogFailed(r)
  BY <1>6
  DEF Infer, LogAnswer, LogFailed, LogQuery, Write, Unwritten, Raised, NextItem, Goto,
      Ends, CourseInv, WorkType
<1>7. CASE Score(r) \/ Touch(r)
  BY <1>7
  DEF Score, Touch, Unwritten, NextItem, Goto, Ends, CourseInv, WorkType
<1>8. CASE Refetch(r)
  BY <1>8 DEF Refetch, Goto, Ends, CourseInv, WorkType, Live
<1> QED
  BY <1>3, <1>4, <1>5, <1>6, <1>7, <1>8 DEF RequestMoves, RequestStep

\* The course of the request that moves.
LEMMA CourseStep ==
    ASSUME CourseInv, NEW r \in Request, RequestMoves(r)
    PROVE  Course(r)'
<1>1. CASE Send(r)
  BY <1>1, ServiceAssumption
  DEF Send, CourseInv, Course, TypeOK, WorkType, Resolved, AheadAt, PendingAt
<1>2. CASE Admit(r) \/ CheckFirst(r) \/ TooLarge(r) \/ DatabaseDown(r) \/ Lock(r)
           \/ Relock(r) \/ ReturnAnswer(r) \/ VerdictReturned(r)
  BY <1>2, ServiceAssumption
  DEF Admit, CheckFirst, TooLarge, DatabaseDown, Lock, Relock, ReturnAnswer,
      VerdictReturned, Goto, Ends, workVars, CourseInv, Course, TypeOK, WorkType,
      Resolved, AheadAt, PendingAt, Inside, Live
<1>3. CASE Find(r)
  <2>1. r \in Request /\ at[r] = "find" /\ item' = item /\ route' = route
    BY <1>3 DEF Find
  <2>2. CASE at'[r] = "done"
    BY <1>3, <2>1, <2>2
    DEF Find, Goto, Ends, CourseInv, Course, TypeOK, WorkType, Resolved, AheadAt, PendingAt
  <2>3. CASE at'[r] # "done"
    <3>1. PICK d \in Live : /\ d = IF wants[r] # None THEN wants[r] ELSE latest
                            /\ doc' = [doc EXCEPT ![r] = d]
                            /\ Goto(r, "lock")
      BY <1>3, <2>3 DEF Find, Ends, CourseInv, TypeOK
    <3> QED
      BY <2>1, <3>1
      DEF Goto, Live, CourseInv, Course, TypeOK, WorkType, Resolved, AheadAt, PendingAt
  <2> QED BY <2>2, <2>3
<1>6. CASE Infer(r)
  <2>1. PICK next \in {"touch", "relock", "logfailed"} : Goto(r, next)
    BY <1>6 DEF Infer
  <2>2. /\ at[r] = "infer" /\ item' = [item EXCEPT ![r] = @ + 1]
        /\ UNCHANGED <<route, doc>>
    BY <1>6 DEF Infer
  <2>3. /\ at'[r] = next /\ wants'[r] = wants[r] /\ status'[r] = status[r]
        /\ item'[r] = item[r] + 1 /\ item[r] \in Nat
    BY <2>1, <2>2, ServiceAssumption DEF Goto, CourseInv, TypeOK
  <2>4. /\ status[r] = 0 /\ doc[r] \in Doc
        /\ route[r] # "calibrate" => item[r] = 0
        /\ route[r] = "calibrate" => wants[r] # None /\ doc[r] = wants[r]
    BY <2>2 DEF CourseInv, Course, AheadAt, Resolved
  <2> QED
    BY <2>1, <2>2, <2>3, <2>4 DEF Course, AheadAt, PendingAt, Resolved
<1>7. CASE LogAnswer(r)
  BY <1>7
  DEF LogAnswer, Goto, CourseInv, Course, TypeOK, WorkType, Resolved, AheadAt, PendingAt
<1>4. CASE LogFailed(r)
  <2>1. UNCHANGED <<route, doc, item>> /\ at[r] = "logfailed"
    BY <1>4 DEF LogFailed
  <2>2. CASE route[r] = "calibrate"
    BY <1>4, <2>1, <2>2, ServiceAssumption
    DEF LogFailed, Raised, NextItem, Goto, Ends, CourseInv, Course, TypeOK, WorkType,
        Resolved, AheadAt, PendingAt
  <2>3. CASE route[r] # "calibrate"
    BY <1>4, <2>1, <2>3, ServiceAssumption
    DEF LogFailed, Raised, Goto, Ends, CourseInv, Course, TypeOK, WorkType,
        Resolved, AheadAt, PendingAt
  <2> QED BY <2>2, <2>3
<1>8. CASE Score(r)
  BY <1>8, ServiceAssumption
  DEF Score, NextItem, Goto, Ends, CourseInv, Course, TypeOK, WorkType, Resolved,
      AheadAt, PendingAt
<1>5. CASE Touch(r) \/ Refetch(r)
  BY <1>5, ServiceAssumption
  DEF Touch, Refetch, Unwritten, Goto, Ends, CourseInv, Course, TypeOK, WorkType,
      Resolved, AheadAt, PendingAt
<1> QED
  BY <1>1, <1>2, <1>3, <1>4, <1>5, <1>6, <1>7, <1>8 DEF RequestMoves, RequestStep

\* The documents that other requests change.
LEMMA TablesTypeOK ==
    ASSUME CourseInv, NEW d \in Doc, d \in Live,
           Recached(d) \/ Failed(d) \/ Uncached(d, "gone")
    PROVE  /\ row' \in [Doc -> {"uncached", "cached", "gone"}]
           /\ latest' \in Cached' \cup {None}
           /\ latest' = None <=> Cached' = {}
<1>1. /\ row \in [Doc -> {"uncached", "cached", "gone"}]
      /\ latest \in Cached \cup {None}
      /\ latest = None <=> Cached = {}
      /\ None \notin Cached
  BY ServiceAssumption DEF CourseInv, TypeOK, Cached
<1>2. CASE Recached(d)
  BY <1>1, <1>2, ServiceAssumption DEF Recached, Latest, Cached
<1>3. ASSUME NEW s \in {"uncached", "gone"}, Uncached(d, s)
      PROVE  /\ row' \in [Doc -> {"uncached", "cached", "gone"}]
             /\ latest' \in Cached' \cup {None}
             /\ latest' = None <=> Cached' = {}
  <2>1. Cached' = Cached \ {d} /\ row' \in [Doc -> {"uncached", "cached", "gone"}]
    BY <1>1, <1>3 DEF Uncached, Cached
  <2> QED BY <1>1, <1>3, <2>1 DEF Uncached
<1> QED BY <1>2, <1>3 DEF Failed

LEMMA TableSteps ==
    ASSUME CourseInv, DocumentChanges \/ DocumentDeleted
    PROVE  CourseInv'
<1>1. UNCHANGED <<lock, at, workVars, wants, status, otherVars>>
  BY DEF DocumentChanges, DocumentDeleted
<1>2. WorkType' /\ \A r \in Request : Course(r)'
  BY <1>1 DEF CourseInv, WorkType, Course, workVars
<1>3. /\ row' \in [Doc -> {"uncached", "cached", "gone"}]
      /\ latest' \in Cached' \cup {None}
      /\ latest' = None <=> Cached' = {}
  BY TablesTypeOK DEF DocumentChanges, DocumentDeleted, Failed, Recached, Live
<1>4. uses' \in [Doc -> Nat] /\ log' \subseteq LogRow
  <2>1. CASE DocumentChanges
    BY <2>1 DEF DocumentChanges, CourseInv, TypeOK
  <2>2. CASE DocumentDeleted
    <3>1. PICK d \in Live : uses' = [uses EXCEPT ![d] = 0] /\ log' = Nulled(d)
      BY <2>2 DEF DocumentDeleted
    <3>2. uses' \in [Doc -> Nat]
      BY <3>1 DEF CourseInv, TypeOK
    <3>3. ASSUME NEW e \in log
          PROVE  [e EXCEPT !.doc = IF e.doc = d THEN None ELSE e.doc] \in LogRow
      BY DEF CourseInv, TypeOK, LogRow
    <3>4. log' \subseteq LogRow
      BY <3>1, <3>3, Zenon DEF Nulled
    <3> QED BY <3>2, <3>4
  <2> QED BY <2>1, <2>2
<1> QED
  BY <1>1, <1>2, <1>3, <1>4 DEF CourseInv, TypeOK, workVars, otherVars

\* What a step of a request adds to the log.
Logs(r) ==
    \/ log' = log
    \/ \E d \in Live \cup {None}, ok \in BOOLEAN :
          log' = log \cup {[by |-> r, item |-> item[r], doc |-> d, ok |-> ok]}

LEMMA RequestLogs ==
    ASSUME CourseInv, NEW r \in Request, RequestMoves(r)
    PROVE  Logs(r) /\ (at[r] \notin PendingAt => log' = log)
BY DEF RequestMoves, Send, RequestStep, Infer, Admit, CheckFirst, Find, TooLarge,
       DatabaseDown, Lock, Relock, LogFailed, LogQuery, Write, Unwritten,
       Touch, LogAnswer, ReturnAnswer, Score, VerdictReturned, Refetch,
       tableVars, Logs, PendingAt

LEMMA RequestTypeOK ==
    ASSUME CourseInv, NEW r \in Request, RequestMoves(r)
    PROVE  TypeOK'
<1>1. UNCHANGED <<row, latest, otherVars>> /\ Cached' = Cached
  BY DEF RequestMoves, Send, RequestStep, Infer, Admit, CheckFirst, Find, TooLarge,
         DatabaseDown, Lock, Relock, LogFailed, LogQuery, Write, Unwritten,
         Touch, LogAnswer, ReturnAnswer, Score, VerdictReturned, Refetch,
         tableVars, Cached
<1>2. uses' \in [Doc -> Nat]
  <2>1. UNCHANGED uses \/ \E n \in {0, 1} : uses' = [uses EXCEPT ![doc[r]] = @ + n]
    BY DEF RequestMoves, Send, RequestStep, Infer, Admit, CheckFirst, Find, TooLarge,
           DatabaseDown, Lock, Relock, LogFailed, Touch, LogAnswer, ReturnAnswer, Score,
           VerdictReturned, Refetch, tableVars
  <2> QED BY <2>1 DEF CourseInv, TypeOK
<1>3. log' \subseteq LogRow
  <2>1. at[r] \in PendingAt => item[r] \in 1..Items
    BY ServiceAssumption DEF CourseInv, Course, TypeOK
  <2>2. CASE log' = log
    BY <2>2 DEF CourseInv, TypeOK
  <2>3. CASE log' # log
    <3>1. PICK d \in Live \cup {None}, ok \in BOOLEAN :
             log' = log \cup {[by |-> r, item |-> item[r], doc |-> d, ok |-> ok]}
      BY <2>3, RequestLogs DEF Logs
    <3>2. item[r] \in 1..Items
      BY <2>1, <2>3, RequestLogs
    <3>3. [by |-> r, item |-> item[r], doc |-> d, ok |-> ok] \in LogRow
      BY <3>2 DEF LogRow, Live
    <3> QED BY <3>1, <3>3 DEF CourseInv, TypeOK
  <2> QED BY <2>2, <2>3
<1>4. /\ at' \in [Request -> Inside \cup {"idle", "queued", "done"}]
      /\ item' \in [Request -> 0..Items]
  <2>1. \/ item' = item
        \/ at[r] = "infer" /\ item' = [item EXCEPT ![r] = @ + 1]
    BY DEF RequestMoves, Send, RequestStep, Infer, Admit, CheckFirst, Find, TooLarge,
           DatabaseDown, Lock, Relock, LogFailed, Touch, LogAnswer, ReturnAnswer, Score,
           VerdictReturned, Refetch, workVars
  <2>2. item' \in [Request -> 0..Items]
    BY <2>1, ServiceAssumption DEF CourseInv, Course, TypeOK, AheadAt
  <2>3. \E where \in Inside \cup {"queued", "done"} : at' = [at EXCEPT ![r] = where]
    BY DEF RequestMoves, Send, RequestStep, Infer, Admit, CheckFirst, Find, TooLarge,
           DatabaseDown, Lock, Relock, LogFailed, Raised, NextItem, Touch, LogAnswer,
           ReturnAnswer, Score, VerdictReturned, Refetch, Goto, Ends, Inside
  <2> QED BY <2>2, <2>3 DEF CourseInv, TypeOK
<1>5. /\ lock' \in Request \cup {None}
      /\ \A q \in Request : lock' = q <=> at'[q] = "infer"
  <2>1. CASE Infer(r)
    BY <2>1, ServiceAssumption DEF Infer, Goto, CourseInv, TypeOK
  <2>2. CASE Lock(r)
    BY <2>2, ServiceAssumption DEF Lock, Goto, CourseInv, TypeOK
  <2>3. CASE ~Infer(r) /\ ~Lock(r)
    <3>1. /\ lock' = lock /\ at[r] # "infer"
          /\ \E where \in (Inside \ {"infer"}) \cup {"queued", "done"} :
                at' = [at EXCEPT ![r] = where]
      BY <2>3
      DEF RequestMoves, Send, RequestStep, Admit, CheckFirst, Find, TooLarge,
          DatabaseDown, Relock, LogFailed, Raised, NextItem, Touch, LogAnswer,
          ReturnAnswer, Score, VerdictReturned, Refetch, Goto, Ends, Inside
    <3> QED BY <3>1 DEF CourseInv, TypeOK
  <2> QED BY <2>1, <2>2, <2>3
<1> QED
  BY <1>1, <1>2, <1>3, <1>4, <1>5 DEF CourseInv, TypeOK, otherVars

LEMMA CourseInit == Init => CourseInv
BY ServiceAssumption
DEF Init, CourseInv, TypeOK, WorkType, Course, Cached, LogRow, Inside, Resolved, AheadAt,
    PendingAt

LEMMA CourseNext == CourseInv /\ [Next]_vars => CourseInv'
<1> SUFFICES ASSUME CourseInv, [Next]_vars
             PROVE  CourseInv'
  OBVIOUS
<1>1. ASSUME NEW r \in Request, RequestMoves(r)
      PROVE  CourseInv'
  <2>1. \A q \in Request \ {r} : Course(q)'
    BY <1>1, OthersWait DEF CourseInv, Course
  <2> QED BY <1>1, <2>1, CourseStep, WorkTypeStep, RequestTypeOK DEF CourseInv
<1>2. CASE DocumentChanges \/ DocumentDeleted
  BY <1>2, TableSteps
<1>3. ASSUME NEW c \in Check, SendCheck(c) \/ CheckStep(c)
      PROVE  CourseInv'
  <2>1. /\ UNCHANGED <<tableVars, lock, at, workVars, wants, status, threads>>
        /\ check' \in [Check -> {"idle", "queued", "asking"}]
    BY <1>3
    DEF SendCheck, CheckStep, CheckAdmitted, CheckReports, CheckGoto, CourseInv, TypeOK
  <2> QED
    BY <2>1 DEF CourseInv, TypeOK, WorkType, Course, Cached, tableVars, workVars
<1>4. CASE UNCHANGED vars
  BY <1>4
  DEF vars, CourseInv, TypeOK, WorkType, Course, Cached, tableVars, workVars, otherVars
<1> QED
  BY <1>1, <1>2, <1>3, <1>4 DEF Next, RequestMoves

-----------------------------------------------------------------------------
\* The query log.

\* A row stands for one completion of one request, a completion that is over.
LogKeyed ==
    /\ IsFiniteSet(log)
    /\ \A e \in log : e.item <= item[e.by] /\ (Pending(e.by) => e.item < item[e.by])
    /\ \A e, f \in log : e.by = f.by /\ e.item = f.item => e = f

LogInv == CourseInv /\ LogKeyed /\ LogAccounts

\* The one row a completion leaves.
NewRow(r, d, ok) == [by |-> r, item |-> item[r], doc |-> d, ok |-> ok]

\* A completion adds to item and is pending; it stops pending when its row is
\* written or given up.
Generates(r) ==
    /\ ~Pending(r) /\ Pending(r)'
    /\ item' = [item EXCEPT ![r] = @ + 1]
    /\ UNCHANGED <<log, unlogged, doc>>

Records(r, d, ok) ==
    /\ Pending(r) /\ ~Pending(r)'
    /\ d = IF doc[r] \in Live THEN doc[r] ELSE None
    /\ log' = log \cup {NewRow(r, d, ok)}
    /\ UNCHANGED <<item, unlogged, doc>>

GivesUp(r) ==
    /\ Pending(r) /\ ~Pending(r)'
    /\ unlogged' = [unlogged EXCEPT ![r] = @ + 1]
    /\ UNCHANGED <<item, log, doc>>

LeavesLog(r) ==
    /\ Pending(r)' <=> Pending(r)
    /\ UNCHANGED <<item, log, unlogged>>
    /\ doc'[r] = doc[r] \/ item[r] = 0

LEMMA LogSteps ==
    ASSUME CourseInv, NEW r \in Request, RequestMoves(r)
    PROVE  \/ Generates(r)
           \/ \E d \in Doc \cup {None}, ok \in BOOLEAN : Records(r, d, ok)
           \/ GivesUp(r)
           \/ LeavesLog(r)
<1> at \in [Request -> Inside \cup {"idle", "queued", "done"}]
  BY DEF CourseInv, TypeOK
<1>1. CASE Infer(r)
  <2>1. /\ at[r] = "infer" /\ item' = [item EXCEPT ![r] = @ + 1]
        /\ UNCHANGED <<log, unlogged, doc>>
    BY <1>1 DEF Infer, tableVars
  <2>2. \E next \in {"touch", "relock", "logfailed"} : at' = [at EXCEPT ![r] = next]
    BY <1>1 DEF Infer, Goto
  <2> QED BY <2>1, <2>2 DEF Generates, Pending
<1>2. CASE LogFailed(r) \/ LogAnswer(r)
  <2>1. \E ok \in BOOLEAN : LogQuery(r, ok)
    BY <1>2 DEF LogFailed, LogAnswer
  <2>2. /\ UNCHANGED <<item, doc>> /\ at[r] \in {"logfailed", "log"}
        /\ \E where \in {"find", "done", "result"} : at' = [at EXCEPT ![r] = where]
    BY <1>2 DEF LogFailed, LogAnswer, Raised, NextItem, Goto, Ends
  <2>3. PICK ok \in BOOLEAN :
          \/ \E d \in Doc \cup {None} :
                /\ d = IF doc[r] \in Live THEN doc[r] ELSE None
                /\ Write(r, d, ok)
          \/ Unwritten(r)
    BY <2>1 DEF LogQuery, Live
  <2>4. Pending(r) /\ ~Pending(r)'
    BY <2>2 DEF Pending
  <2> QED BY <2>2, <2>3, <2>4 DEF Write, Unwritten, Records, NewRow, GivesUp
<1>3. CASE Touch(r)
  <2>1. at[r] = "touch" /\ UNCHANGED <<item, doc>>
    BY <1>3 DEF Touch
  <2>2. \/ UNCHANGED <<log, unlogged>> /\ Goto(r, "log")
        \/ Unwritten(r) /\ Goto(r, "result")
    BY <1>3 DEF Touch
  <2> QED BY <2>1, <2>2 DEF Unwritten, Goto, GivesUp, LeavesLog, Pending
<1>4. CASE Find(r)
  <2>1. /\ UNCHANGED <<item, log, unlogged>> /\ ~Pending(r) /\ ~Pending(r)'
    BY <1>4 DEF Find, Goto, Ends, Pending, tableVars
  <2>2. item[r] # 0 => doc[r] = wants[r] /\ wants[r] # None
    BY <1>4 DEF Find, CourseInv, Course, AheadAt, TypeOK
  <2>3. item[r] # 0 => doc'[r] = doc[r]
    BY <1>4, <2>2 DEF Find, CourseInv, WorkType
  <2> QED BY <2>1, <2>3 DEF LeavesLog
<1>5. CASE \/ Send(r) \/ Admit(r) \/ CheckFirst(r) \/ TooLarge(r) \/ DatabaseDown(r)
           \/ Lock(r) \/ Relock(r) \/ ReturnAnswer(r) \/ Score(r) \/ VerdictReturned(r)
           \/ Refetch(r)
  BY <1>5
  DEF Send, Admit, CheckFirst, TooLarge, DatabaseDown, Lock, Relock, ReturnAnswer,
      Score, NextItem, VerdictReturned, Refetch, Goto, Ends, tableVars, workVars,
      LeavesLog, Pending
<1> QED
  BY <1>1, <1>2, <1>3, <1>4, <1>5 DEF RequestMoves, RequestStep

\* A delete keeps the rows, and keeps them apart.
Null(e, d) == [e EXCEPT !.doc = IF @ = d THEN None ELSE @]

LEMMA NullCounts ==
    ASSUME NEW S, S \subseteq LogRow, IsFiniteSet(S), NEW d,
           \A e, f \in S : e.by = f.by /\ e.item = f.item => e = f
    PROVE  /\ IsFiniteSet({Null(e, d) : e \in S})
           /\ Cardinality({Null(e, d) : e \in S}) = Cardinality(S)
<1> DEFINE T == {Null(e, d) : e \in S}
           g == [e \in S |-> Null(e, d)]
<1>1. \A e \in S : Null(e, d).by = e.by /\ Null(e, d).item = e.item
  BY DEF Null, LogRow
<1>2. g \in Surjection(S, T)
  BY DEF Surjection
<1>3. g \in Injection(S, T)
  BY <1>1 DEF Injection, IsInjective
<1> QED BY <1>2, <1>3, FS_Surjection

\* One request's share of LogAccounts, and the row of one completion.
Rows(r) == {e \in log : e.by = r}

Accounted(r) ==
    Cardinality(Rows(r)) + unlogged[r] + (IF Pending(r) THEN 1 ELSE 0) = item[r]

InPlace(e) == e.doc = IF doc[e.by] \in Live THEN doc[e.by] ELSE None

\* What a row is made of, to count rows of either kind.
LEMMA RowsFinite ==
    ASSUME LogInv, NEW r \in Request
    PROVE  /\ IsFiniteSet(Rows(r)) /\ Cardinality(Rows(r)) \in Nat
           /\ \A ok \in BOOLEAN :
                 IsFiniteSet(RowsOf(r, ok)) /\ Cardinality(RowsOf(r, ok)) \in Nat
<1>1. Rows(r) \subseteq log /\ \A ok \in BOOLEAN : RowsOf(r, ok) \subseteq log
  BY DEF Rows, RowsOf
<1> QED BY <1>1, FS_Subset, FS_CardinalityType DEF LogInv, LogKeyed

\* The row a completion writes is a new one, and counts for its request only.
LEMMA RecordCounts ==
    ASSUME LogInv, NEW r \in Request, NEW d \in Doc \cup {None}, NEW ok \in BOOLEAN,
           Records(r, d, ok)
    PROVE  /\ NewRow(r, d, ok) \notin log /\ IsFiniteSet(log')
           /\ Cardinality(Rows(r)') = Cardinality(Rows(r)) + 1
           /\ Cardinality(RowsOf(r, ok)') = Cardinality(RowsOf(r, ok)) + 1
           /\ RowsOf(r, ~ok)' = RowsOf(r, ~ok)
           /\ \A q \in Request \ {r} :
                 /\ Rows(q)' = Rows(q)
                 /\ \A b \in BOOLEAN : RowsOf(q, b)' = RowsOf(q, b)
<1> DEFINE e0 == NewRow(r, d, ok)
<1>1. e0.by = r /\ e0.item = item[r] /\ e0.ok = ok
  BY DEF NewRow
<1>2. log' = log \cup {e0} /\ Pending(r)
  BY DEF Records
<1>3. e0 \notin log
  <2>1. item[r] \in Nat
    BY ServiceAssumption DEF LogInv, CourseInv, TypeOK
  <2> QED BY <1>1, <1>2, <2>1 DEF LogInv, LogKeyed
<1> HIDE DEF e0
<1>4. IsFiniteSet(log')
  BY <1>2, FS_AddElement DEF LogInv, LogKeyed
<1>5. /\ Rows(r)' = Rows(r) \cup {e0} /\ e0 \notin Rows(r)
      /\ RowsOf(r, ok)' = RowsOf(r, ok) \cup {e0} /\ e0 \notin RowsOf(r, ok)
  BY <1>1, <1>2, <1>3 DEF Rows, RowsOf
<1>6. RowsOf(r, ~ok)' = RowsOf(r, ~ok)
  BY <1>1, <1>2 DEF RowsOf
<1>7. \A q \in Request \ {r} : /\ Rows(q)' = Rows(q)
                               /\ \A b \in BOOLEAN : RowsOf(q, b)' = RowsOf(q, b)
  BY <1>1, <1>2 DEF Rows, RowsOf
<1>8. /\ Cardinality(Rows(r) \cup {e0}) = Cardinality(Rows(r)) + 1
      /\ Cardinality(RowsOf(r, ok) \cup {e0}) = Cardinality(RowsOf(r, ok)) + 1
  BY <1>5, RowsFinite, FS_AddElement
<1> QED BY <1>3, <1>4, <1>5, <1>6, <1>7, <1>8 DEF e0

LEMMA LogKeyedStep ==
    ASSUME LogInv, CourseInv', NEW r \in Request, RequestMoves(r)
    PROVE  LogKeyed'
<1> USE DEF LogInv
<1>0. /\ item \in [Request -> Nat] /\ item' \in [Request -> Nat]
      /\ \A e \in log : e.by \in Request /\ e.item \in Nat
      /\ \A q \in Request \ {r} : Pending(q)' <=> Pending(q)
      /\ \A q \in Request \ {r} : item'[q] = item[q]
  <2>1. item \in [Request -> Nat] /\ item' \in [Request -> Nat]
    BY ServiceAssumption DEF CourseInv, TypeOK
  <2>2. \A e \in log : e.by \in Request /\ e.item \in Nat
    BY ServiceAssumption DEF CourseInv, TypeOK, LogRow
  <2>3. \A q \in Request \ {r} : at'[q] = at[q] /\ item'[q] = item[q]
    BY OthersWait
  <2> QED BY <2>1, <2>2, <2>3 DEF Pending
<1>1. CASE Generates(r)
  BY <1>0, <1>1 DEF Generates, LogKeyed
<1>2. ASSUME NEW d \in Doc \cup {None}, NEW ok \in BOOLEAN, Records(r, d, ok)
      PROVE  LogKeyed'
  <2> DEFINE e0 == NewRow(r, d, ok)
  <2>1. e0.by = r /\ e0.item = item[r]
    BY DEF NewRow
  <2>2. /\ log' = log \cup {e0} /\ Pending(r) /\ ~Pending(r)' /\ item' = item
    BY <1>2 DEF Records
  <2> HIDE DEF e0
  <2>3. \A e \in log' : e.item <= item'[e.by] /\ (Pending(e.by)' => e.item < item'[e.by])
    BY <1>0, <2>1, <2>2 DEF LogKeyed
  <2>4. \A e \in log : e.by = r => e.item # item[r]
    BY <1>0, <2>2 DEF LogKeyed
  <2>5. \A e, f \in log' : e.by = f.by /\ e.item = f.item => e = f
    BY <2>1, <2>2, <2>4 DEF LogKeyed
  <2> QED BY <1>2, <2>3, <2>5, RecordCounts DEF LogKeyed
<1>3. CASE GivesUp(r)
  BY <1>0, <1>3 DEF GivesUp, LogKeyed
<1>4. CASE LeavesLog(r)
  BY <1>0, <1>4 DEF LeavesLog, LogKeyed
<1> QED BY <1>1, <1>2, <1>3, <1>4, LogSteps

LEMMA AccountedStep ==
    ASSUME LogInv, CourseInv', NEW r \in Request, RequestMoves(r), NEW q \in Request
    PROVE  Accounted(q)'
<1>0. /\ item[q] \in Nat /\ unlogged \in [Request -> Nat] /\ item \in [Request -> Nat]
      /\ Cardinality(Rows(q)) \in Nat /\ Accounted(q)
  <2>1. item \in [Request -> Nat] /\ unlogged \in [Request -> Nat]
    BY ServiceAssumption DEF LogInv, CourseInv, TypeOK, WorkType
  <2>2. Accounted(q)
    BY DEF LogInv, LogAccounts, Accounted, Rows
  <2> QED BY <2>1, <2>2, RowsFinite
<1>1. CASE q # r
  <2>1. at'[q] = at[q] /\ item'[q] = item[q] /\ unlogged'[q] = unlogged[q]
    BY <1>1, OthersWait DEF LogInv
  <2>2. Rows(q)' = Rows(q)
    <3>1. CASE log' = log
      BY <3>1 DEF Rows
    <3>2. ASSUME NEW d \in Doc \cup {None}, NEW ok \in BOOLEAN, Records(r, d, ok)
          PROVE  Rows(q)' = Rows(q)
      BY <1>1, <3>2 DEF Records, NewRow, Rows
    <3> QED BY <3>1, <3>2, LogSteps DEF LogInv, Generates, GivesUp, LeavesLog
  <2> QED BY <1>0, <2>1, <2>2 DEF Accounted, Pending
<1>2. CASE q = r
  <2>1. CASE Generates(r) \/ GivesUp(r) \/ LeavesLog(r)
    <3>1. Rows(r)' = Rows(r)
      BY <2>1 DEF Generates, GivesUp, LeavesLog, Rows
    <3> QED BY <1>0, <1>2, <2>1, <3>1 DEF Generates, GivesUp, LeavesLog, Accounted
  <2>2. ASSUME NEW d \in Doc \cup {None}, NEW ok \in BOOLEAN, Records(r, d, ok)
        PROVE  Accounted(q)'
    <3>1. Cardinality(Rows(r)') = Cardinality(Rows(r)) + 1
      BY <2>2, RecordCounts
    <3> QED BY <1>0, <1>2, <2>2, <3>1 DEF Records, Accounted
  <2> QED BY <2>1, <2>2, LogSteps DEF LogInv
<1> QED BY <1>1, <1>2

LEMMA InPlaceStep ==
    ASSUME LogInv, NEW r \in Request, RequestMoves(r)
    PROVE  \A e \in log' : InPlace(e)'
<1>0. /\ Live' = Live
      /\ \A q \in Request \ {r} : doc'[q] = doc[q]
      /\ \A e \in log : InPlace(e) /\ e.by \in Request /\ e.item \in 1..Items
                        /\ e.item <= item[e.by]
      /\ item \in [Request -> 0..Items]
  <2>1. UNCHANGED row
    BY DEF RequestMoves, Send, RequestStep, Infer, Admit, CheckFirst, Find, TooLarge,
           DatabaseDown, Lock, Relock, LogFailed, Touch, LogAnswer, ReturnAnswer, Score,
           VerdictReturned, Refetch, tableVars
  <2>2. \A q \in Request \ {r} : doc'[q] = doc[q]
    BY OthersWait DEF LogInv
  <2>3. \A e \in log : InPlace(e) /\ e.by \in Request /\ e.item \in 1..Items
                       /\ e.item <= item[e.by]
    BY DEF LogInv, CourseInv, TypeOK, LogRow, LogKeyed, LogAccounts, InPlace
  <2> QED BY <2>1, <2>2, <2>3 DEF Live, LogInv, CourseInv, TypeOK
<1>1. CASE Generates(r) \/ GivesUp(r)
  <2>1. log' = log /\ doc' = doc
    BY <1>1 DEF Generates, GivesUp
  <2> QED BY <1>0, <2>1 DEF InPlace
<1>2. CASE LeavesLog(r)
  <2>1. ASSUME NEW e \in log
        PROVE  doc'[e.by] = doc[e.by]
    <3>1. item[e.by] # 0
      BY <1>0, ServiceAssumption
    <3> QED BY <1>0, <1>2, <3>1 DEF LeavesLog
  <2>2. log' = log
    BY <1>2 DEF LeavesLog
  <2> QED BY <1>0, <2>1, <2>2 DEF InPlace
<1>3. ASSUME NEW d \in Doc \cup {None}, NEW ok \in BOOLEAN, Records(r, d, ok)
      PROVE  \A e \in log' : InPlace(e)'
  BY <1>0, <1>3 DEF Records, NewRow, InPlace
<1> QED BY <1>1, <1>2, <1>3, LogSteps DEF LogInv

\* A delete takes a document from its rows, and from no others.
LEMMA LogTables ==
    ASSUME LogInv, DocumentChanges \/ DocumentDeleted
    PROVE  LogKeyed' /\ LogAccounts'
<1>0. /\ UNCHANGED <<at, item, unlogged, doc>>
      /\ IsFiniteSet(log) /\ log \subseteq LogRow
      /\ \A e, f \in log : e.by = f.by /\ e.item = f.item => e = f
  BY DEF DocumentChanges, DocumentDeleted, workVars, LogInv, CourseInv, TypeOK, LogKeyed
<1>1. CASE DocumentChanges
  <2>1. log' = log /\ Live' = Live
    BY <1>1 DEF DocumentChanges, Recached, Failed, Latest, Uncached, Live, LogInv, CourseInv,
                TypeOK
  <2> QED BY <1>0, <2>1 DEF LogInv, LogKeyed, LogAccounts, Pending
<1>2. CASE DocumentDeleted
  <2>1. PICK d \in Live : log' = Nulled(d) /\ Live' = Live \ {d}
    BY <1>2 DEF DocumentDeleted, Uncached, Live, LogInv, CourseInv, TypeOK
  <2>2. log' = {Null(e, d) : e \in log}
    BY <2>1, Zenon DEF Nulled, Null
  <2>3. \A e \in log : /\ Null(e, d).by = e.by /\ Null(e, d).item = e.item
                       /\ Null(e, d).ok = e.ok
                       /\ Null(e, d).doc = IF e.doc = d THEN None ELSE e.doc
    BY <1>0 DEF Null, LogRow
  <2>4. LogKeyed'
    <3>1. IsFiniteSet(log')
      BY <1>0, <2>2, NullCounts
    <3>2. \A e \in log' : \E f \in log : e = Null(f, d) /\ e.by = f.by /\ e.item = f.item
      BY <2>2, <2>3
    <3> QED BY <1>0, <3>1, <3>2 DEF LogInv, LogKeyed, Pending
  <2>5. ASSUME NEW r \in Request
        PROVE  Cardinality(Rows(r)') = Cardinality(Rows(r))
    <3>1. Rows(r)' = {Null(e, d) : e \in Rows(r)}
      BY <2>2, <2>3 DEF Rows
    <3>2. IsFiniteSet(Rows(r)) /\ Rows(r) \subseteq log
      BY RowsFinite DEF Rows
    <3> QED BY <1>0, <3>1, <3>2, NullCounts
  <2>6. \A r \in Request : Accounted(r)'
    BY <1>0, <2>5 DEF LogInv, LogAccounts, Accounted, Rows, Pending
  <2>7. \A e \in log' : InPlace(e)'
    <3>1. \A e \in log : e.doc = IF doc[e.by] \in Live THEN doc[e.by] ELSE None
      BY DEF LogInv, LogAccounts
    <3> QED BY <1>0, <2>1, <2>2, <2>3, <3>1 DEF InPlace
  <2> QED BY <2>4, <2>6, <2>7 DEF LogAccounts, Accounted, Rows, InPlace
<1> QED BY <1>1, <1>2

LEMMA LogInit == Init => LogInv
<1> SUFFICES ASSUME Init
             PROVE  LogKeyed /\ LogAccounts
  BY CourseInit DEF LogInv
<1>1. log = {} /\ \A r \in Request : at[r] = "idle" /\ item[r] = 0 /\ unlogged[r] = 0
  BY DEF Init
<1>2. \A r \in Request : Rows(r) = {}
  BY <1>1 DEF Rows
<1> QED BY <1>1, <1>2, FS_EmptySet DEF LogKeyed, LogAccounts, Rows, Pending

LEMMA LogNext == LogInv /\ [Next]_vars => LogInv'
<1> SUFFICES ASSUME LogInv, [Next]_vars
             PROVE  LogInv'
  OBVIOUS
<1>0. CourseInv'
  BY CourseNext DEF LogInv
<1>1. ASSUME NEW r \in Request, RequestMoves(r)
      PROVE  LogInv'
  BY <1>0, <1>1, LogKeyedStep, AccountedStep, InPlaceStep
  DEF LogInv, LogAccounts, Accounted, Rows, InPlace
<1>2. CASE DocumentChanges \/ DocumentDeleted
  BY <1>0, <1>2, LogTables DEF LogInv
<1>3. CASE (\E c \in Check : SendCheck(c) \/ CheckStep(c)) \/ UNCHANGED vars
  <2>1. UNCHANGED <<row, log, at, item, unlogged, doc>>
    BY <1>3
    DEF SendCheck, CheckStep, CheckAdmitted, CheckReports, CheckGoto, tableVars, workVars,
        vars
  <2> QED BY <1>0, <2>1 DEF LogInv, LogKeyed, LogAccounts, Pending, Live
<1> QED
  BY <1>1, <1>2, <1>3 DEF Next, RequestMoves

LEMMA LogInvariant == Spec => []LogInv
  BY LogInit, LogNext, PTL DEF Spec

\* Every variable of the service's model keeps its type.
THEOREM ServiceTypeCorrect == Spec => []TypeOK
<1>1. LogInv => TypeOK
  BY DEF LogInv, CourseInv
<1> QED
  BY <1>1, LogInvariant, PTL

\* Every completion is on record once unless the database refused the row, and
\* under its document as long as that exists, whatever is deleted between the
\* answer and the bookkeeping.
THEOREM CompletionsLogged == Spec => []LogAccounts
<1>1. LogInv => LogAccounts
  BY DEF LogInv
<1> QED
  BY <1>1, LogInvariant, PTL

-----------------------------------------------------------------------------
\* The use count.

Answered(d) == {e \in log : e.doc = d /\ e.ok}
Logging(d) == {r \in Request : at[r] = "log" /\ doc[r] = d}

\* Request may be infinite: a pool admits finitely many.
UsesInv == LogInv /\ IsFiniteSet(Busy) /\ UsesCoverLog

LEMMA UsesFinite ==
    ASSUME UsesInv, NEW d
    PROVE  /\ IsFiniteSet(Answered(d)) /\ Cardinality(Answered(d)) \in Nat
           /\ IsFiniteSet(Logging(d)) /\ Cardinality(Logging(d)) \in Nat
<1>1. Answered(d) \subseteq log /\ Logging(d) \subseteq Busy
  BY DEF Answered, Logging, Busy, Inside
<1> QED BY <1>1, FS_Subset, FS_CardinalityType DEF UsesInv, LogInv, LogKeyed

LEMMA BusyStep ==
    ASSUME UsesInv, NEW r \in Request, RequestMoves(r)
    PROVE  IsFiniteSet(Busy')
<1>1. Busy' \subseteq Busy \cup {r}
  BY OthersWait DEF Busy, UsesInv, LogInv
<1>2. IsFiniteSet(Busy \cup {r})
  BY FS_AddElement DEF UsesInv
<1> QED BY <1>1, <1>2, FS_Subset

\* What a step of a request does to a document that is still there.
LEMMA UsesStep ==
    ASSUME UsesInv, NEW r \in Request, RequestMoves(r), NEW d \in Live
    PROVE  Cardinality(Answered(d)') + Cardinality(Logging(d)') <= uses'[d]
<1>0. /\ uses \in [Doc -> Nat] /\ d \in Doc /\ d # None /\ uses[d] \in Nat
      /\ Cardinality(Answered(d)) + Cardinality(Logging(d)) <= uses[d]
      /\ IsFiniteSet(Answered(d)) /\ Cardinality(Answered(d)) \in Nat
      /\ IsFiniteSet(Logging(d)) /\ Cardinality(Logging(d)) \in Nat
      /\ at \in [Request -> Inside \cup {"idle", "queued", "done"}]
  BY UsesFinite, ServiceAssumption
  DEF UsesInv, LogInv, CourseInv, TypeOK, Live, UsesCoverLog, Answered, Logging
<1>1. \A q \in Request \ {r} : at'[q] = at[q] /\ doc'[q] = doc[q]
  BY OthersWait DEF UsesInv, LogInv
<1>2. CASE Touch(r)
  <2>1. /\ at[r] = "touch" /\ UNCHANGED <<log, doc>>
        /\ \/ /\ uses' = [uses EXCEPT ![doc[r]] = @ + (IF doc[r] \in Live THEN 1 ELSE 0)]
              /\ at' = [at EXCEPT ![r] = "log"]
           \/ uses' = uses /\ at' = [at EXCEPT ![r] = "result"]
    BY <1>2 DEF Touch, Goto, Unwritten
  <2>2. Answered(d)' = Answered(d) /\ r \notin Logging(d)
    BY <2>1 DEF Answered, Logging
  <2>3. CASE at' = [at EXCEPT ![r] = "log"] /\ doc[r] = d
    <3>1. Logging(d)' = Logging(d) \cup {r}
      BY <1>0, <2>1, <2>3 DEF Logging
    <3>2. uses'[d] = uses[d] + 1
      BY <1>0, <2>1, <2>3
    <3>3. Cardinality(Logging(d)') = Cardinality(Logging(d)) + 1
      BY <1>0, <2>2, <3>1, FS_AddElement
    <3> QED BY <1>0, <2>2, <3>2, <3>3
  <2>4. CASE ~(at' = [at EXCEPT ![r] = "log"] /\ doc[r] = d)
    <3>1. Logging(d)' = Logging(d)
      BY <1>0, <2>1, <2>4 DEF Logging
    <3>2. uses'[d] = uses[d]
      BY <1>0, <2>1, <2>4
    <3> QED BY <1>0, <2>2, <3>1, <3>2
  <2> QED BY <2>3, <2>4
<1>3. CASE LogAnswer(r)
  <2>1. /\ at[r] = "log" /\ at' = [at EXCEPT ![r] = "result"] /\ UNCHANGED <<uses, doc>>
        /\ LogQuery(r, TRUE)
    BY <1>3 DEF LogAnswer, Goto
  <2>2. \/ log' = log
        \/ log' = log \cup {NewRow(r, IF doc[r] \in Live THEN doc[r] ELSE None, TRUE)}
    BY <2>1 DEF LogQuery, Write, Unwritten, NewRow
  <2>3. Logging(d)' = Logging(d) \ {r}
    BY <1>0, <2>1 DEF Logging
  <2>4. CASE doc[r] = d
    <3>1. r \in Logging(d)
      BY <2>1, <2>4 DEF Logging
    <3>2. \/ Answered(d)' = Answered(d)
          \/ Answered(d)' = Answered(d) \cup {NewRow(r, d, TRUE)}
      BY <2>2, <2>4 DEF Answered, NewRow
    <3>3. Cardinality(Answered(d)') \in {Cardinality(Answered(d)), Cardinality(Answered(d)) + 1}
      BY <1>0, <3>2, FS_AddElement
    <3>4. Cardinality(Logging(d)') = Cardinality(Logging(d)) - 1
      BY <1>0, <2>3, <3>1, FS_RemoveElement
    <3> QED BY <1>0, <2>1, <3>3, <3>4
  <2>5. CASE doc[r] # d
    <3>1. Answered(d)' = Answered(d) /\ Logging(d)' = Logging(d)
      BY <1>0, <2>2, <2>3, <2>5 DEF Answered, NewRow, Logging
    <3> QED BY <1>0, <2>1, <3>1
  <2> QED BY <2>4, <2>5
<1>4. CASE ~Touch(r) /\ ~LogAnswer(r)
  <2>1. /\ uses' = uses /\ at[r] # "log" /\ at'[r] # "log"
        /\ log' = log \/ LogQuery(r, FALSE)
    BY <1>0, <1>4
    DEF RequestMoves, Send, RequestStep, Infer, Admit, CheckFirst, Find, TooLarge,
        DatabaseDown, Lock, Relock, LogFailed, Raised, NextItem, ReturnAnswer, Score,
        VerdictReturned, Refetch, Goto, Ends, tableVars
  <2>2. Answered(d)' = Answered(d)
    BY <2>1 DEF LogQuery, Write, Unwritten, Answered
  <2>3. Logging(d)' = Logging(d)
    BY <1>1, <2>1 DEF Logging
  <2> QED BY <1>0, <2>1, <2>2, <2>3
<1> QED BY <1>2, <1>3, <1>4

LEMMA UsesTables ==
    ASSUME UsesInv, DocumentChanges \/ DocumentDeleted
    PROVE  UsesCoverLog'
<1>0. at' = at /\ doc' = doc
  BY DEF DocumentChanges, DocumentDeleted, workVars
<1>1. CASE DocumentChanges
  <2>1. log' = log /\ uses' = uses /\ Live' = Live
    BY <1>1 DEF DocumentChanges, Recached, Failed, Latest, Uncached, Live, UsesInv, LogInv,
                CourseInv, TypeOK
  <2> QED BY <1>0, <2>1 DEF UsesInv, UsesCoverLog
<1>2. CASE DocumentDeleted
  <2>1. PICK d \in Live : /\ log' = Nulled(d) /\ Live' = Live \ {d}
                          /\ uses' = [uses EXCEPT ![d] = 0]
    <3>1. row \in [Doc -> {"uncached", "cached", "gone"}]
      BY DEF UsesInv, LogInv, CourseInv, TypeOK
    <3> QED BY <1>2, <3>1 DEF DocumentDeleted, Uncached, Live
  <2>2. log' = {Null(e, d) : e \in log}
    BY <2>1, Zenon DEF Nulled, Null
  <2>3. ASSUME NEW k \in Live \ {d}
        PROVE  Answered(k)' = Answered(k) /\ uses'[k] = uses[k]
    <3>1. \A e \in log : /\ Null(e, d).ok = e.ok
                         /\ Null(e, d).doc = IF e.doc = d THEN None ELSE e.doc
                         /\ e.doc # d => Null(e, d) = e
      BY DEF Null, UsesInv, LogInv, CourseInv, TypeOK, LogRow
    <3>2. k # None /\ k \in Doc /\ uses \in [Doc -> Nat]
      BY ServiceAssumption DEF Live, UsesInv, LogInv, CourseInv, TypeOK
    <3> QED BY <2>1, <2>2, <3>1, <3>2 DEF Answered
  <2> QED BY <1>0, <2>1, <2>3 DEF UsesInv, UsesCoverLog, Answered
<1> QED BY <1>1, <1>2

LEMMA UsesNext == UsesInv /\ [Next]_vars => UsesInv'
<1> SUFFICES ASSUME UsesInv, [Next]_vars
             PROVE  UsesInv'
  OBVIOUS
<1>0. LogInv'
  BY LogNext DEF UsesInv
<1>1. ASSUME NEW r \in Request, RequestMoves(r)
      PROVE  UsesInv'
  <2>1. Live' = Live
    BY <1>1
    DEF RequestMoves, Send, RequestStep, Infer, Admit, CheckFirst, Find, TooLarge,
        DatabaseDown, Lock, Relock, LogFailed, Touch, LogAnswer, ReturnAnswer, Score,
        VerdictReturned, Refetch, tableVars, Live
  <2> QED
    BY <1>0, <1>1, <2>1, BusyStep, UsesStep DEF UsesInv, UsesCoverLog, Answered, Logging
<1>2. CASE DocumentChanges \/ DocumentDeleted
  BY <1>0, <1>2, UsesTables DEF UsesInv, DocumentChanges, DocumentDeleted, Busy
<1>3. CASE (\E c \in Check : SendCheck(c) \/ CheckStep(c)) \/ UNCHANGED vars
  <2>1. UNCHANGED <<row, log, uses, at, doc>>
    BY <1>3
    DEF SendCheck, CheckStep, CheckAdmitted, CheckReports, CheckGoto, tableVars, workVars,
        vars
  <2> QED BY <1>0, <2>1 DEF UsesInv, UsesCoverLog, Live, Busy
<1> QED
  BY <1>1, <1>2, <1>3 DEF Next, RequestMoves

\* The use count of a document is never behind the answers on record for it, in
\* whatever order requests touch, log and fail.
THEOREM UsesNeverBehind == Spec => []UsesCoverLog
<1>1. Init => UsesInv
  <2> SUFFICES ASSUME Init
               PROVE  IsFiniteSet(Busy) /\ UsesCoverLog
    BY LogInit DEF UsesInv
  <2>1. /\ log = {} /\ Busy = {} /\ \A d \in Doc : uses[d] = 0
        /\ \A d \in Doc : {r \in Request : at[r] = "log" /\ doc[r] = d} = {}
    BY DEF Init, Busy, Inside
  <2>2. \A d \in Doc : {e \in log : e.doc = d /\ e.ok} = {}
    BY <2>1
  <2> QED BY <2>1, <2>2, FS_EmptySet DEF UsesCoverLog, Live
<1>2. UsesInv => UsesCoverLog
  BY DEF UsesInv
<1> QED
  BY <1>1, <1>2, UsesNext, PTL DEF Spec

-----------------------------------------------------------------------------
\* The response.

\* A completion that has been counted in item and not yet in right or errors, and
\* one whose row is not written yet.
Unscored(r) == IF Pending(r) \/ at[r] = "result" THEN 1 ELSE 0
Open(r) == IF Pending(r) THEN 1 ELSE 0

Verdict(r) == route[r] = "verify" /\ status[r] = 200 => read[r] = doc[r]

Answer(r) ==
    route[r] = "query" =>
        /\ at[r] = "result" => RowsOf(r, FALSE) = {}
        /\ item[r] = 1 /\ at[r] = "done" =>
              /\ status[r] \in {200, 502}
              /\ status[r] = 200 => RowsOf(r, FALSE) = {}
              /\ status[r] = 502 => RowsOf(r, TRUE) = {}

Good(r) == Cardinality(RowsOf(r, TRUE))
Bad(r) == Cardinality(RowsOf(r, FALSE))

Battery(r) ==
    /\ right[r] + errors[r] + Unscored(r) <= item[r]
    /\ route[r] = "calibrate" =>
          /\ Bad(r) <= errors[r]
          /\ Good(r) + errors[r] + Open(r) <= item[r]
          /\ status[r] = 200 => item[r] = Items

ResponseInv == LogInv /\ \A r \in Request : Verdict(r) /\ Answer(r) /\ Battery(r)

\* Rows are of completions that are over: before the first there is none, and a
\* query that is pending has none yet.
LEMMA NoRowsYet ==
    ASSUME LogInv, NEW r \in Request,
           item[r] = 0 \/ (route[r] # "calibrate" /\ Pending(r))
    PROVE  \A b \in BOOLEAN : RowsOf(r, b) = {}
<1>1. item[r] \in Nat /\ (route[r] # "calibrate" => item[r] <= 1)
  BY ServiceAssumption DEF LogInv, CourseInv, TypeOK, Course
<1>2. \A e \in log : e.item \in Nat \ {0}
  BY DEF LogInv, CourseInv, TypeOK, LogRow
<1> QED BY <1>1, <1>2 DEF LogInv, LogKeyed, RowsOf

\* What the other steps leave of a request.
Kept(q) ==
    /\ UNCHANGED <<at[q], route[q], item[q], right[q], errors[q], status[q], read[q], doc[q]>>
    /\ \A b \in BOOLEAN : /\ Cardinality(RowsOf(q, b)') = Cardinality(RowsOf(q, b))
                          /\ RowsOf(q, b) = {} => RowsOf(q, b)' = {}

LEMMA KeptResponse ==
    ASSUME NEW q \in Request, Kept(q), Verdict(q), Answer(q), Battery(q)
    PROVE  Verdict(q)' /\ Answer(q)' /\ Battery(q)'
<1>1. /\ Cardinality(RowsOf(q, FALSE)') = Cardinality(RowsOf(q, FALSE))
      /\ Cardinality(RowsOf(q, TRUE)') = Cardinality(RowsOf(q, TRUE))
      /\ RowsOf(q, FALSE) = {} => RowsOf(q, FALSE)' = {}
      /\ RowsOf(q, TRUE) = {} => RowsOf(q, TRUE)' = {}
  BY DEF Kept, RowsOf
<1>2. UNCHANGED <<at[q], route[q], item[q], right[q], errors[q], status[q], read[q], doc[q]>>
  BY DEF Kept
<1>3. Verdict(q)'
  BY <1>2 DEF Verdict
<1>4. Answer(q)'
  <2>1. /\ Answer(q) /\ at'[q] = at[q]
        /\ route'[q] = route[q] /\ item'[q] = item[q] /\ status'[q] = status[q]
    BY <1>2
  <2> QED BY <1>1, <2>1 DEF Answer, RowsOf
<1>5. Battery(q)'
  <2>1. Good(q)' = Good(q) /\ Bad(q)' = Bad(q)
    BY <1>1 DEF Good, Bad
  <2>2. Unscored(q)' = Unscored(q) /\ Open(q)' = Open(q)
    BY <1>2 DEF Unscored, Open, Pending
  <2> QED BY <1>2, <2>1, <2>2 DEF Battery
<1> QED BY <1>3, <1>4, <1>5

\* How a new row counts for its request.
LEMMA RecordKinds ==
    ASSUME LogInv, NEW r \in Request, NEW d \in Doc \cup {None}
    PROVE  /\ Good(r) \in Nat /\ Bad(r) \in Nat
           /\ Records(r, d, TRUE) => Good(r)' = Good(r) + 1 /\ Bad(r)' = Bad(r)
           /\ Records(r, d, FALSE) => Bad(r)' = Bad(r) + 1 /\ Good(r)' = Good(r)
<1>1. Good(r) \in Nat /\ Bad(r) \in Nat
  BY RowsFinite DEF Good, Bad
<1>2. ASSUME Records(r, d, TRUE)
      PROVE  Good(r)' = Good(r) + 1 /\ Bad(r)' = Bad(r)
  <2>1. RowsOf(r, TRUE)' = RowsOf(r, TRUE) \cup {NewRow(r, d, TRUE)}
    BY <1>2 DEF Records, NewRow, RowsOf
  <2>2. NewRow(r, d, TRUE) \notin RowsOf(r, TRUE)
    BY <1>2, RecordCounts DEF RowsOf
  <2>3. RowsOf(r, FALSE)' = RowsOf(r, FALSE)
    BY <1>2 DEF Records, NewRow, RowsOf
  <2>4. IsFiniteSet(RowsOf(r, TRUE))
    BY RowsFinite
  <2> QED BY <2>1, <2>2, <2>3, <2>4, FS_AddElement DEF Good, Bad
<1>3. ASSUME Records(r, d, FALSE)
      PROVE  Bad(r)' = Bad(r) + 1 /\ Good(r)' = Good(r)
  <2>1. RowsOf(r, FALSE)' = RowsOf(r, FALSE) \cup {NewRow(r, d, FALSE)}
    BY <1>3 DEF Records, NewRow, RowsOf
  <2>2. NewRow(r, d, FALSE) \notin RowsOf(r, FALSE)
    BY <1>3, RecordCounts DEF RowsOf
  <2>3. RowsOf(r, TRUE)' = RowsOf(r, TRUE)
    BY <1>3 DEF Records, NewRow, RowsOf
  <2>4. IsFiniteSet(RowsOf(r, FALSE))
    BY RowsFinite
  <2> QED BY <2>1, <2>2, <2>3, <2>4, FS_AddElement DEF Good, Bad
<1> QED BY <1>1, <1>2, <1>3

LEMMA OthersKept ==
    ASSUME LogInv, NEW r \in Request, RequestMoves(r), NEW q \in Request, q # r
    PROVE  Kept(q)
<1>1. UNCHANGED <<at[q], route[q], item[q], right[q], errors[q], status[q], read[q], doc[q]>>
  BY OthersWait DEF LogInv
<1>2. \A b \in BOOLEAN : RowsOf(q, b)' = RowsOf(q, b)
  <2>1. CASE log' = log
    BY <2>1 DEF RowsOf
  <2>2. ASSUME NEW d \in Doc \cup {None}, NEW ok \in BOOLEAN, Records(r, d, ok)
        PROVE  \A b \in BOOLEAN : RowsOf(q, b)' = RowsOf(q, b)
    BY <2>2 DEF Records, NewRow, RowsOf
  <2> QED BY <2>1, <2>2, LogSteps DEF LogInv, Generates, GivesUp, LeavesLog
<1> QED BY <1>1, <1>2 DEF Kept, RowsOf

LEMMA TablesKeep ==
    ASSUME LogInv, DocumentChanges \/ DocumentDeleted, NEW q \in Request
    PROVE  Kept(q)
<1>1. UNCHANGED <<at[q], route[q], item[q], right[q], errors[q], status[q], read[q], doc[q]>>
  BY DEF DocumentChanges, DocumentDeleted, workVars
<1>2. CASE DocumentChanges
  <2>1. log' = log
    BY <1>2 DEF DocumentChanges
  <2> QED BY <1>1, <2>1 DEF Kept, RowsOf
<1>3. CASE DocumentDeleted
  <2>1. PICK d \in Live : log' = Nulled(d)
    BY <1>3 DEF DocumentDeleted
  <2>2. log' = {Null(e, d) : e \in log}
    BY <2>1, Zenon DEF Nulled, Null
  <2>3. \A e \in log : Null(e, d).by = e.by /\ Null(e, d).ok = e.ok
    BY DEF Null, LogInv, CourseInv, TypeOK, LogRow
  <2>4. ASSUME NEW b \in BOOLEAN
        PROVE  /\ Cardinality(RowsOf(q, b)') = Cardinality(RowsOf(q, b))
               /\ RowsOf(q, b) = {} => RowsOf(q, b)' = {}
    <3>1. RowsOf(q, b)' = {Null(e, d) : e \in RowsOf(q, b)}
      BY <2>2, <2>3 DEF RowsOf
    <3>2. /\ IsFiniteSet(RowsOf(q, b)) /\ RowsOf(q, b) \subseteq log
          /\ log \subseteq LogRow
          /\ \A e, f \in log : e.by = f.by /\ e.item = f.item => e = f
      BY RowsFinite DEF RowsOf, LogInv, LogKeyed, CourseInv, TypeOK
    <3> QED BY <3>1, <3>2, NullCounts
  <2> QED BY <1>1, <2>4 DEF Kept
<1> QED BY <1>2, <1>3

\* A verdict ends at the lookup of its quote only.
LEMMA VerdictStep ==
    ASSUME ResponseInv, NEW r \in Request, RequestMoves(r)
    PROVE  Verdict(r)'
<1>0. /\ at[r] # "done" /\ status[r] = 0 /\ r \in Request
      /\ status \in [Request -> {0, 200, 404, 409, 413, 502, 503}]
  BY DoneStays DEF ResponseInv, LogInv, CourseInv, WorkType
<1>1. CASE Refetch(r)
  BY <1>0, <1>1
  DEF Refetch, Ends, Verdict, ResponseInv, LogInv, CourseInv, TypeOK, WorkType
<1>2. CASE ReturnAnswer(r) \/ Score(r)
  BY <1>2 DEF ReturnAnswer, Score, workVars, Verdict
<1>3. CASE LogFailed(r)
  BY <1>0, <1>3 DEF LogFailed, Raised, Ends, Verdict
<1>4. CASE ~Refetch(r) /\ ~ReturnAnswer(r) /\ ~Score(r) /\ ~LogFailed(r)
  <2>1. CASE CheckFirst(r) \/ Find(r) \/ TooLarge(r) \/ DatabaseDown(r)
    <3>1. status'[r] \in {0, 404, 409, 413, 503}
      BY <1>0, <2>1 DEF CheckFirst, Find, TooLarge, DatabaseDown, Goto, Ends
    <3> QED BY <3>1 DEF Verdict
  <2>2. CASE \/ Send(r) \/ Infer(r) \/ Admit(r) \/ Lock(r) \/ Relock(r) \/ Touch(r)
             \/ LogAnswer(r) \/ VerdictReturned(r)
    <3>1. status' = status
      BY <2>2
      DEF Send, Infer, Admit, Lock, Relock, Touch, LogAnswer, VerdictReturned, Goto
    <3> QED BY <1>0, <3>1 DEF Verdict
  <2> QED BY <1>4, <2>1, <2>2 DEF RequestMoves, RequestStep
<1> QED BY <1>1, <1>2, <1>3, <1>4

LEMMA AnswerStep ==
    ASSUME ResponseInv, NEW r \in Request, RequestMoves(r)
    PROVE  Answer(r)'
<1>0. /\ at \in [Request -> Inside \cup {"idle", "queued", "done"}]
      /\ status \in [Request -> {0, 200, 404, 409, 413, 502, 503}]
      /\ LogInv /\ CourseInv /\ Course(r) /\ item[r] \in Nat /\ Answer(r)
  BY ServiceAssumption DEF CourseInv, TypeOK, WorkType, ResponseInv, LogInv
<1>r. route[r] = "query" /\ Pending(r) => RowsOf(r, TRUE) = {} /\ RowsOf(r, FALSE) = {}
  BY <1>0, NoRowsYet
<1>1. CASE LogFailed(r)
  <2>1. /\ Pending(r) /\ at[r] = "logfailed" /\ UNCHANGED <<route, item>>
        /\ LogQuery(r, FALSE)
        /\ route[r] # "calibrate" => Ends(r, 502)
    BY <1>1 DEF LogFailed, Pending, Raised
  <2>2. route[r] = "query" => RowsOf(r, TRUE)' = {}
    BY <1>r, <2>1 DEF LogQuery, Write, Unwritten, RowsOf
  <2>3. route[r] = "query" => status'[r] = 502 /\ at'[r] = "done"
    BY <1>0, <2>1 DEF Ends
  <2> QED BY <2>1, <2>2, <2>3 DEF Answer, RowsOf
<1>2. CASE LogAnswer(r) \/ Touch(r)
  <2>1. /\ Pending(r) /\ UNCHANGED <<route, item>>
        /\ LogQuery(r, TRUE) \/ log' = log
        /\ Goto(r, "result") \/ Goto(r, "log")
    BY <1>2 DEF LogAnswer, Touch, Unwritten, Pending
  <2>2. route[r] = "query" => RowsOf(r, FALSE)' = {}
    BY <1>r, <2>1 DEF LogQuery, Write, Unwritten, RowsOf
  <2>3. at'[r] \in {"result", "log"}
    BY <1>0, <2>1 DEF Goto
  <2> QED BY <2>1, <2>2, <2>3 DEF Answer
<1>3. CASE ReturnAnswer(r)
  <2>1. /\ at[r] = "result" /\ Ends(r, 200) /\ UNCHANGED <<route, item, log>>
    BY <1>3 DEF ReturnAnswer, workVars, tableVars
  <2> QED BY <1>0, <2>1 DEF Ends, Answer, RowsOf
<1>4. CASE Refetch(r) \/ Score(r) \/ VerdictReturned(r) \/ CheckFirst(r)
  <2>1. route'[r] # "query"
    BY <1>0, <1>4 DEF Refetch, Score, VerdictReturned, CheckFirst, workVars, Course
  <2> QED BY <2>1 DEF Answer
<1>5. CASE Find(r) \/ TooLarge(r) \/ DatabaseDown(r)
  <2>1. /\ at[r] \in {"start", "find", "refetch"} /\ UNCHANGED <<route, item>>
        /\ at'[r] \in {"lock", "done"}
    BY <1>0, <1>5 DEF Find, TooLarge, DatabaseDown, Goto, Ends, workVars
  <2>2. route[r] = "query" => item[r] = 0
    BY <1>0, <2>1 DEF Course, AheadAt
  <2>3. route[r] = "query" => item'[r] # 1 /\ at'[r] # "result" /\ route'[r] = route[r]
    BY <2>1, <2>2
  <2> QED BY <2>1, <2>3 DEF Answer
<1>6. CASE Send(r) \/ Admit(r) \/ Lock(r) \/ Infer(r) \/ Relock(r)
  <2>1. at'[r] \notin {"done", "result"}
    BY <1>0, <1>6 DEF Send, Admit, Lock, Infer, Relock, Goto
  <2> QED BY <2>1 DEF Answer
<1> QED
  BY <1>1, <1>2, <1>3, <1>4, <1>5, <1>6 DEF RequestMoves, RequestStep

LEMMA BatteryStep ==
    ASSUME ResponseInv, NEW r \in Request, RequestMoves(r)
    PROVE  Battery(r)'
<1>0. /\ at \in [Request -> Inside \cup {"idle", "queued", "done"}]
      /\ right \in [Request -> Nat] /\ errors \in [Request -> Nat]
      /\ item \in [Request -> 0..Items] /\ item[r] \in Nat /\ Items \in Nat
      /\ status \in [Request -> {0, 200, 404, 409, 413, 502, 503}]
      /\ LogInv /\ CourseInv /\ Course(r) /\ Battery(r)
      /\ Good(r) \in Nat /\ Bad(r) \in Nat
  <2>1. LogInv /\ CourseInv /\ Battery(r)
    BY DEF ResponseInv, LogInv
  <2>2. Good(r) \in Nat /\ Bad(r) \in Nat
    BY <2>1, RowsFinite DEF Good, Bad
  <2> QED BY <2>1, <2>2, ServiceAssumption DEF CourseInv, TypeOK, WorkType
<1>s. at[r] # "done" /\ status[r] = 0
  BY <1>0, DoneStays
<1>1. CASE LogFailed(r)
  <2>1. /\ at[r] = "logfailed" /\ UNCHANGED <<route, item, right>>
        /\ at'[r] \in {"find", "done"}
        /\ IF route[r] = "calibrate"
           THEN /\ errors'[r] = errors[r] + 1
                /\ status'[r] = 200 => item[r] = Items
           ELSE errors' = errors
    BY <1>0, <1>s, <1>1 DEF LogFailed, Raised, NextItem, Goto, Ends
  <2>2. Good(r)' = Good(r) /\ Bad(r)' \in {Bad(r), Bad(r) + 1}
    <3>1. Pending(r) /\ ~Pending(r)' /\ LogQuery(r, FALSE)
      BY <1>1, <2>1 DEF LogFailed, Pending
    <3>2. CASE log' = log
      BY <3>2 DEF Good, Bad, RowsOf
    <3>3. CASE log' # log
      <4>1. PICK d \in Doc \cup {None} : Records(r, d, FALSE)
        BY <1>1, <3>1, <3>3
        DEF LogQuery, Write, Unwritten, Records, NewRow, Live, LogFailed
      <4> QED BY <1>0, <4>1, RecordKinds
    <3> QED BY <3>2, <3>3
  <2>3. Unscored(r) = 1 /\ Unscored(r)' = 0 /\ Open(r) = 1 /\ Open(r)' = 0
    BY <2>1 DEF Unscored, Open, Pending
  <2> QED BY <1>0, <2>1, <2>2, <2>3 DEF Battery
<1>2. CASE LogAnswer(r) \/ Touch(r)
  <2>1. /\ UNCHANGED <<route, item, right, errors, status>>
        /\ \/ at[r] = "log" /\ at'[r] = "result" /\ LogQuery(r, TRUE) /\ doc' = doc
           \/ at[r] = "touch" /\ at'[r] \in {"log", "result"} /\ log' = log
    <3>1. CASE LogAnswer(r)
      <4>1. at[r] = "log" /\ Goto(r, "result") /\ UNCHANGED <<route, item, right, errors, doc>>
        BY <3>1 DEF LogAnswer
      <4>2. LogQuery(r, TRUE)
        BY <3>1 DEF LogAnswer
      <4>3. at'[r] = "result" /\ status' = status
        BY <1>0, <4>1 DEF Goto
      <4> QED BY <4>1, <4>2, <4>3, Zenon
    <3>2. CASE Touch(r)
      BY <1>0, <3>2 DEF Touch, Unwritten, Goto
    <3> QED BY <1>2, <3>1, <3>2
  <2>2. /\ Bad(r)' = Bad(r) /\ Open(r)' \in {0, 1}
        /\ Good(r)' = Good(r) \/ (Good(r)' = Good(r) + 1 /\ Open(r)' = 0)
    <3>1. Open(r) = 1 /\ Open(r)' \in {0, 1}
      BY <2>1 DEF Open, Pending
    <3>2. CASE log' = log
      BY <3>1, <3>2 DEF Good, Bad, RowsOf
    <3>3. CASE log' # log
      <4>1. LogQuery(r, TRUE) /\ Open(r)' = 0 /\ Pending(r) /\ ~Pending(r)'
        BY <2>1, <3>3 DEF Open, Pending
      <4>2. PICK d \in Doc \cup {None} : Records(r, d, TRUE)
        BY <2>1, <4>1, <3>3 DEF LogQuery, Write, Unwritten, Records, NewRow, Live
      <4>3. Good(r)' = Good(r) + 1 /\ Bad(r)' = Bad(r)
        BY <1>0, <4>2, RecordKinds
      <4> QED BY <4>1, <4>3
    <3> QED BY <3>2, <3>3
  <2>3. Unscored(r) = 1 /\ Unscored(r)' = 1 /\ Open(r) = 1
    BY <2>1 DEF Unscored, Open, Pending
  <2>4. Good(r)' + Open(r)' <= Good(r) + 1
    BY <1>0, <2>2, <2>3
  <2> QED BY <1>0, <2>1, <2>2, <2>3, <2>4 DEF Battery
<1>3. CASE Infer(r)
  <2>1. /\ UNCHANGED <<route, right, errors, status, log>> /\ item'[r] = item[r] + 1
        /\ at[r] = "infer" /\ at'[r] \in {"touch", "relock", "logfailed"}
    BY <1>0, <1>3 DEF Infer, Goto, tableVars
  <2>2. /\ Unscored(r) = 0 /\ Unscored(r)' = 1 /\ Open(r) = 0 /\ Open(r)' = 1
        /\ Good(r)' = Good(r) /\ Bad(r)' = Bad(r)
    BY <2>1 DEF Unscored, Open, Pending, Good, Bad, RowsOf
  <2> QED BY <1>0, <1>s, <2>1, <2>2 DEF Battery
<1>4. CASE Score(r)
  <2>1. /\ UNCHANGED <<route, item, errors, log>>
        /\ right'[r] \in {right[r], right[r] + 1}
        /\ at[r] = "result" /\ at'[r] \in {"find", "done"}
        /\ status'[r] = 200 => item[r] = Items
    BY <1>0, <1>s, <1>4 DEF Score, NextItem, Goto, Ends, tableVars
  <2>2. /\ Unscored(r) = 1 /\ Unscored(r)' = 0 /\ Open(r) = 0 /\ Open(r)' = 0
        /\ Good(r)' = Good(r) /\ Bad(r)' = Bad(r)
    BY <2>1 DEF Unscored, Open, Pending, Good, Bad, RowsOf
  <2> QED BY <1>0, <2>1, <2>2 DEF Battery
<1>5. CASE Send(r)
  <2>1. /\ UNCHANGED <<item, right, errors, log, status>> /\ item[r] = 0
        /\ at[r] = "idle" /\ at'[r] = "queued"
    BY <1>0, <1>5 DEF Send, tableVars, Course
  <2>2. Good(r)' = 0 /\ Bad(r)' = 0
    <3>1. \A b \in BOOLEAN : RowsOf(r, b) = {}
      BY <1>0, <2>1, NoRowsYet
    <3>2. \A b \in BOOLEAN : RowsOf(r, b)' = {}
      BY <2>1, <3>1 DEF RowsOf
    <3> QED BY <3>2, FS_EmptySet DEF Good, Bad, RowsOf
  <2>3. Unscored(r) = 0 /\ Unscored(r)' = 0 /\ Open(r)' = 0
    BY <2>1 DEF Unscored, Open, Pending
  <2>4. right[r] = 0 /\ errors[r] = 0
    BY <1>0, <2>1, <2>3 DEF Battery
  <2> QED BY <1>0, <1>s, <2>1, <2>2, <2>3, <2>4 DEF Battery
<1>6. CASE \/ Admit(r) \/ CheckFirst(r) \/ Find(r) \/ TooLarge(r) \/ DatabaseDown(r)
           \/ Lock(r) \/ Relock(r) \/ ReturnAnswer(r) \/ VerdictReturned(r) \/ Refetch(r)
  <2>1. /\ UNCHANGED <<route, item, right, errors, log>>
        /\ Pending(r)' <=> Pending(r)
        /\ at'[r] # "result"
    BY <1>0, <1>6
    DEF Admit, CheckFirst, Find, TooLarge, DatabaseDown, Lock, Relock, ReturnAnswer,
        VerdictReturned, Refetch, Goto, Ends, workVars, tableVars, Pending
  <2>2. route[r] = "calibrate" => status'[r] # 200
    BY <1>0, <1>s, <1>6
    DEF Admit, CheckFirst, Find, TooLarge, DatabaseDown, Lock, Relock, ReturnAnswer,
        VerdictReturned, Refetch, Goto, Ends, Course
  <2>3. /\ Unscored(r)' <= Unscored(r) /\ Open(r)' = Open(r)
        /\ Unscored(r) \in {0, 1} /\ Unscored(r)' \in {0, 1} /\ Open(r) \in {0, 1}
        /\ Good(r)' = Good(r) /\ Bad(r)' = Bad(r)
    BY <2>1 DEF Unscored, Open, Good, Bad, RowsOf
  <2> QED BY <1>0, <2>1, <2>2, <2>3 DEF Battery
<1> QED
  BY <1>1, <1>2, <1>3, <1>4, <1>5, <1>6 DEF RequestMoves, RequestStep

LEMMA ResponseNext == ResponseInv /\ [Next]_vars => ResponseInv'
<1> SUFFICES ASSUME ResponseInv, [Next]_vars
             PROVE  ResponseInv'
  OBVIOUS
<1>0. LogInv /\ LogInv'
  BY LogNext DEF ResponseInv
<1>1. ASSUME NEW r \in Request, RequestMoves(r)
      PROVE  ResponseInv'
  <2>1. Verdict(r)' /\ Answer(r)' /\ Battery(r)'
    BY <1>1, VerdictStep, AnswerStep, BatteryStep
  <2>2. ASSUME NEW q \in Request, q # r
        PROVE  Verdict(q)' /\ Answer(q)' /\ Battery(q)'
    <3>1. Kept(q)
      BY <1>0, <1>1, <2>2, OthersKept
    <3> QED BY <3>1, KeptResponse DEF ResponseInv
  <2> QED BY <1>0, <2>1, <2>2 DEF ResponseInv
<1>2. CASE DocumentChanges \/ DocumentDeleted
  <2>1. ASSUME NEW q \in Request
        PROVE  Verdict(q)' /\ Answer(q)' /\ Battery(q)'
    BY <1>0, <1>2, TablesKeep, KeptResponse DEF ResponseInv
  <2> QED BY <1>0, <2>1 DEF ResponseInv
<1>3. CASE (\E c \in Check : SendCheck(c) \/ CheckStep(c)) \/ UNCHANGED vars
  <2>1. UNCHANGED <<log, at, route, item, right, errors, status, read, doc>>
    BY <1>3
    DEF SendCheck, CheckStep, CheckAdmitted, CheckReports, CheckGoto, tableVars, workVars,
        vars
  <2>2. ASSUME NEW q \in Request
        PROVE  Verdict(q)' /\ Answer(q)' /\ Battery(q)'
    <3>1. Kept(q)
      BY <2>1 DEF Kept, RowsOf
    <3> QED BY <3>1, KeptResponse DEF ResponseInv
  <2> QED BY <1>0, <2>2 DEF ResponseInv
<1> QED
  BY <1>1, <1>2, <1>3 DEF Next, RequestMoves

LEMMA ResponseInvariant == Spec => []ResponseInv
<1>1. Init => ResponseInv
  <2> SUFFICES ASSUME Init, NEW r \in Request
               PROVE  Verdict(r) /\ Answer(r) /\ Battery(r)
    BY LogInit DEF ResponseInv
  <2>1. /\ route[r] = "query" /\ at[r] = "idle" /\ item[r] = 0
        /\ right[r] = 0 /\ errors[r] = 0
    BY DEF Init
  <2> QED BY <2>1 DEF Verdict, Answer, Battery, Unscored, Pending
<1> QED
  BY <1>1, ResponseNext, PTL DEF Spec

\* A verdict is checked against the document the model was asked about, however the
\* most recently cached one changes in the meantime.
THEOREM VerdictIsAboutItsDocument == Spec => []VerdictReadsItsDocument
<1>1. ResponseInv => VerdictReadsItsDocument
  BY DEF ResponseInv, Verdict, VerdictReadsItsDocument
<1> QED
  BY <1>1, ResponseInvariant, PTL

\* A query returns the answer the model has given it, whatever becomes of the
\* document and of the bookkeeping.
THEOREM AnswerReturned == Spec => []AnswerKept
<1>1. ResponseInv => AnswerKept
  BY DEF ResponseInv, Answer, AnswerKept, RowsOf
<1> QED
  BY <1>1, ResponseInvariant, PTL

\* A battery reports all of its questions, none twice, and agrees with the log.
THEOREM BatteryReportsAll == Spec => []BatteryAddsUp
<1>1. ASSUME ResponseInv, NEW r \in Request, route[r] = "calibrate", status[r] = 200
      PROVE  /\ item[r] = Items
             /\ right[r] + errors[r] <= Items
             /\ Bad(r) <= errors[r]
             /\ Good(r) <= Items - errors[r]
  <2>1. Good(r) \in Nat
    BY <1>1, RowsFinite DEF ResponseInv, Good
  <2>2. right[r] \in Nat /\ errors[r] \in Nat /\ Items \in Nat
    BY <1>1, ServiceAssumption DEF ResponseInv, LogInv, CourseInv, WorkType
  <2>3. Unscored(r) \in {0, 1} /\ Open(r) \in {0, 1} /\ Battery(r)
    BY <1>1 DEF Unscored, Open, ResponseInv
  <2> QED BY <1>1, <2>1, <2>2, <2>3 DEF Battery
<1>2. ResponseInv => BatteryAddsUp
  BY <1>1 DEF BatteryAddsUp, Good, Bad
<1> QED
  BY <1>2, ResponseInvariant, PTL
=============================================================================
