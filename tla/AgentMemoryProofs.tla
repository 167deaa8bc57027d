------------------------- MODULE AgentMemoryProofs -------------------------
(***************************************************************************)
(* What the plugin's memory files promise, for any number of calls,        *)
(* claims, documents and quotes, and whatever the language model answers.  *)
(***************************************************************************)
EXTENDS AgentMemory, TLAPS

CallsOK ==
    /\ cached \subseteq Canon
    /\ stage \in [Call -> {"free", "pre", "run", "post"}]
    /\ tool \in [Call -> ToolName]
    /\ fact \in [Call -> Claim \cup {NoFact}]
    /\ \A i \in Call : stage[i] # "free" => fact[i] \in Claim

\* A direct write that is about to run has passed the pre-hook's check.
RunIsGated ==
    config.veto /\ ~config.override =>
        \A i \in Call :
            stage[i] = "run" /\ Watched(i) => fact[i] \in evident

MemoryInv ==
    /\ CallsOK
    /\ VerifiedHasEvidence
    /\ TwistNeverStored
    /\ RunIsGated
    /\ DirectIsGated
    /\ ConflictRecorded

-----------------------------------------------------------------------------
\* A check is made against a document of the canon.
LEMMA TargetIsCanon == ASSUME cached \subseteq Canon PROVE Target \subseteq Canon
BY DEF Target, LatestCached

\* The gate trusts a claim only when the check was evidence for it: a quote
\* that is not Blank, long enough, and in the document.
LEMMA TrustedIsEvidence ==
    ASSUME NEW c \in Claim, NEW outcome \in Checks(c), cached \subseteq Canon,
           Trusted(Evaluate(c, outcome.response, FALSE))
    PROVE  c \in outcome.evidence
<1> DEFINE r == outcome.response
<1>1. c # EmptyClaim /\ Supported(r)
  BY DEF Trusted, Evaluate, Refuted, TopicPresent, Unproven, Supported
<1>2. outcome \in Outcomes(c)
  BY <1>1 DEF Checks
<1>3. r # Unavailable /\ r # NotAnObject
  <2>1. Unavailable.verdict # "supported" /\ NotAnObject.verdict # "supported"
    BY DEF Unavailable, NotAnObject
  <2> QED
    BY <1>1, <2>1 DEF Supported
<1>4. PICK d \in Target : outcome \in Findings[c][d]
  BY <1>2, <1>3 DEF Outcomes
<1>5. PICK a \in Answer :
           outcome = [response |-> VerifyClaim(c, d, a),
                      evidence |-> IF a.verdict = "supported"
                                      /\ a.quote \in Substantial \cap Found[d]
                                   THEN {c} ELSE {}]
  BY <1>4, TargetIsCanon DEF Findings
<1>6. /\ a.verdict = "supported"
      /\ a.quote \in Substantial
      /\ Grounded(a.quote, d) # "no"
  BY <1>1, <1>5 DEF Supported, VerifyClaim
<1>7. a.quote \in Found[d]
  BY <1>6, GateAssumption DEF Grounded
<1> QED
  BY <1>5, <1>6, <1>7

\* A fact is kept as episodic only when some document lacks its vocabulary.
LEMMA EpisodicIsUndiscussed ==
    ASSUME NEW c \in Claim, NEW outcome \in Checks(c), cached \subseteq Canon,
           outcome.response.verdict = "absent", ~TopicPresent(outcome.response)
    PROVE  \E d \in Canon : RecallProbe[c][d] # "high"
<1>1. outcome.response # Unavailable /\ outcome.response # NotAnObject
  <2>1. Unavailable.verdict # "absent" /\ NotAnObject.verdict # "absent"
    BY DEF Unavailable, NotAnObject
  <2> QED
    BY <2>1
<1>2. PICK d \in Target : outcome \in Findings[c][d]
  <2>1. outcome \in Outcomes(c)
    BY <1>1 DEF Checks
  <2> QED
    BY <1>1, <2>1 DEF Outcomes
<1>3. d \in Canon
  BY <1>2, TargetIsCanon
<1>4. PICK a \in Answer : outcome.response = VerifyClaim(c, d, a)
  BY <1>2, <1>3 DEF Findings
<1>5. RecallProbe[c][d] # "high"
  BY <1>4 DEF TopicPresent, VerifyClaim
<1> QED
  BY <1>3, <1>5

-----------------------------------------------------------------------------
\* What a check does to the history variable: it grows, and covers the fact of
\* the call when the gate trusts it.
LEMMA AskedGrows ==
    ASSUME CallsOK, NEW i \in Call, stage[i] # "free", NEW outcome, Asked(i, outcome)
    PROVE  /\ evident \subseteq evident'
           /\ Trusted(Evaluate(fact[i], outcome.response, FALSE)) => fact[i] \in evident'
<1>1. outcome \in Checks(fact[i]) /\ evident' = evident \cup outcome.evidence
  BY DEF Asked
<1>2. fact[i] \in Claim /\ cached \subseteq Canon
  BY DEF CallsOK
<1>3. Trusted(Evaluate(fact[i], outcome.response, FALSE)) => fact[i] \in outcome.evidence
  BY <1>1, <1>2, TrustedIsEvidence
<1> QED
  BY <1>1, <1>3

\* The empty files keep every promise.
LEMMA InitMemory == Init => MemoryInv
BY DEF Init, MemoryInv, CallsOK, VerifiedHasEvidence, TwistNeverStored, RunIsGated, Watched,
       DirectIsGated, ConflictRecorded, Conflicts, ToolName

\* A step that writes nothing and moves no call into "run" or out of "post"
\* keeps everything.
LEMMA StartStep ==
    ASSUME MemoryInv, NEW i \in Call, Start(i)
    PROVE  MemoryInv'
<1>1. CallsOK'
  BY MemoryAssumption DEF MemoryInv, CallsOK, Start, Goto, canonVars
<1>2. /\ memory' = memory /\ quarantine' = quarantine /\ evident' = evident
      /\ config' = config
      /\ \A x \in Call : x # i => /\ stage'[x] = stage[x]
                                /\ tool'[x] = tool[x]
                                /\ fact'[x] = fact[x]
      /\ stage[i] = "free" /\ stage'[i] = "pre"
  BY DEF MemoryInv, CallsOK, Start, Goto
<1>3. VerifiedHasEvidence' /\ TwistNeverStored' /\ DirectIsGated'
  BY <1>2 DEF MemoryInv, VerifiedHasEvidence, TwistNeverStored, DirectIsGated
<1>4. RunIsGated'
  BY <1>2 DEF MemoryInv, RunIsGated, Watched
<1>5. ConflictRecorded'
  BY <1>2 DEF MemoryInv, ConflictRecorded, Conflicts, RecordedOrChecking
<1> QED
  BY <1>1, <1>3, <1>4, <1>5 DEF MemoryInv

\* The pre-hook gates a write and diverts what the gate refuses.
LEMMA PreToolCallStep ==
    ASSUME MemoryInv, NEW i \in Call, PreToolCall(i)
    PROVE  MemoryInv'
<1>1. CallsOK'
  BY DEF MemoryInv, CallsOK, PreToolCall, Continue, Finish, Goto, ToolName, canonVars
<1>2. /\ memory' = memory /\ quarantine \subseteq quarantine'
      /\ config' = config /\ tool[i] = tool[i]
      /\ \A x \in Call : x # i => /\ stage'[x] = stage[x]
                                /\ tool'[x] = tool[x]
                                /\ fact'[x] = fact[x]
      /\ stage[i] = "pre"
  BY DEF MemoryInv, CallsOK, PreToolCall, Continue, Finish, Goto, Unwritten, Divert,
         Appended
<1>3. evident \subseteq evident'
  BY AskedGrows DEF PreToolCall, MemoryInv
<1>4. VerifiedHasEvidence' /\ TwistNeverStored' /\ DirectIsGated'
  BY <1>2, <1>3 DEF MemoryInv, VerifiedHasEvidence, TwistNeverStored, DirectIsGated
<1>5. RunIsGated'
  <2> SUFFICES ASSUME config.veto, ~config.override, NEW x \in Call,
                      stage'[x] = "run", Watched(x)'
               PROVE  fact'[x] \in evident'
    BY <1>2 DEF RunIsGated
  <2>1. CASE x # i
    BY <1>2, <1>3, <2>1 DEF MemoryInv, RunIsGated, Watched
  <2>2. CASE x = i
    <3>1. PICK outcome \in Checks(fact[i]) :
              /\ Asked(i, outcome)
              /\ IF Trusted(Evaluate(fact[i], outcome.response, FALSE))
                 THEN Continue(i, "run") /\ Unwritten
                 ELSE Divert(i, "pre-block") /\ Finish(i)
      <4>1. \/ tool'[i] = tool[i] /\ fact'[i] = fact[i]
            \/ tool'[i] = "note"
        BY DEF MemoryInv, CallsOK, PreToolCall, Continue, Finish
      <4>2. Watched(i)
        BY <2>2, <4>1 DEF Watched, BuiltinMemoryTools
      <4> QED
        BY <4>2 DEF PreToolCall
    <3>2. Trusted(Evaluate(fact[i], outcome.response, FALSE))
      BY <2>2, <3>1 DEF MemoryInv, CallsOK, Finish, Goto
    <3>3. fact'[i] = fact[i]
      BY <3>1, <3>2 DEF Continue
    <3> QED
      BY <1>2, <2>2, <3>1, <3>2, <3>3, AskedGrows DEF MemoryInv
  <2> QED
    BY <2>1, <2>2
<1>6. ConflictRecorded'
  BY <1>2, <1>3 DEF MemoryInv, ConflictRecorded, Conflicts, RecordedOrChecking
<1> QED
  BY <1>1, <1>4, <1>5, <1>6 DEF MemoryInv

\* cag_remember stores what its own check lets through.
LEMMA RememberStep ==
    ASSUME MemoryInv, NEW i \in Call, Remember(i)
    PROVE  MemoryInv'
<1>1. /\ CallsOK'
      /\ config' = config /\ tool' = tool /\ fact' = fact
      /\ \A x \in Call : x # i => stage'[x] = stage[x]
      /\ stage[i] = "run" /\ stage'[i] = "post"
      /\ quarantine \subseteq quarantine'
  BY DEF MemoryInv, CallsOK, Remember, Continue, Goto, Store, Divert, Appended,
         canonVars
<1>2. PICK outcome \in Checks(fact[i]) :
          /\ Asked(i, outcome)
          /\ IF Trusted(Evaluate(fact[i], outcome.response, FALSE)) THEN Store(i, "verified")
             ELSE IF /\ outcome.response.verdict = "absent"
                     /\ ~TopicPresent(outcome.response)
                     /\ config.absentToMemory
             THEN Store(i, "unverified")
             ELSE Divert(i, "refused")
  BY DEF Remember
<1>3. evident \subseteq evident'
  BY <1>1, <1>2, AskedGrows DEF MemoryInv
<1>4. ASSUME NEW e \in memory', e \notin memory
      PROVE  /\ e.kind # "direct"
             /\ e.kind = "verified" => e.fact \in evident'
             /\ e.kind = "unverified" => \E d \in Canon : RecallProbe[e.fact][d] # "high"
  <2>1. CASE Trusted(Evaluate(fact[i], outcome.response, FALSE))
    <3>1. Store(i, "verified") /\ fact[i] \in evident'
      BY <1>1, <1>2, <2>1, AskedGrows DEF MemoryInv
    <3> QED
      BY <1>4, <3>1 DEF Store, Appended, Entered
  <2>2. CASE /\ ~Trusted(Evaluate(fact[i], outcome.response, FALSE))
             /\ outcome.response.verdict = "absent"
             /\ ~TopicPresent(outcome.response)
             /\ config.absentToMemory
    <3>1. \E d \in Canon : RecallProbe[fact[i]][d] # "high"
      BY <1>1, <1>2, <2>2, EpisodicIsUndiscussed DEF MemoryInv, CallsOK, Asked
    <3> QED
      BY <1>2, <1>4, <2>2, <3>1 DEF Store, Appended, Entered
  <2>3. CASE Divert(i, "refused")
    BY <1>4, <2>3 DEF Divert
  <2> QED
    BY <1>2, <2>1, <2>2, <2>3
<1>5. VerifiedHasEvidence'
  BY <1>3, <1>4 DEF MemoryInv, VerifiedHasEvidence
<1>6. TwistNeverStored'
  BY <1>4 DEF MemoryInv, TwistNeverStored
<1>7. DirectIsGated'
  BY <1>1, <1>3, <1>4 DEF MemoryInv, DirectIsGated
<1>8. RunIsGated'
  BY <1>1, <1>3 DEF MemoryInv, RunIsGated, Watched
<1>9. ConflictRecorded'
  BY <1>1, <1>3, <1>4 DEF MemoryInv, ConflictRecorded, Conflicts, RecordedOrChecking
<1> QED
  BY <1>1, <1>5, <1>6, <1>7, <1>8, <1>9 DEF MemoryInv

\* A direct write passed its pre-hook, or nothing gated it.
LEMMA WriteDirectlyStep ==
    ASSUME MemoryInv, NEW i \in Call, WriteDirectly(i)
    PROVE  MemoryInv'
<1> DEFINE line == [fact |-> fact[i], kind |-> "direct", tool |-> tool[i]]
<1>1. /\ CallsOK'
      /\ config' = config /\ tool' = tool /\ fact' = fact
      /\ evident' = evident /\ quarantine' = quarantine
      /\ \A x \in Call : x # i => stage'[x] = stage[x]
      /\ stage[i] = "run" /\ stage'[i] = "post"
      /\ memory' = memory \cup {line}
  BY DEF MemoryInv, CallsOK, WriteDirectly, Continue, Goto, Entered, canonVars
<1>2. VerifiedHasEvidence' /\ TwistNeverStored'
  BY <1>1 DEF MemoryInv, VerifiedHasEvidence, TwistNeverStored
<1>3. DirectIsGated'
  BY <1>1 DEF MemoryInv, DirectIsGated, RunIsGated, Watched
<1>4. RunIsGated'
  BY <1>1 DEF MemoryInv, RunIsGated, Watched
<1>5. ConflictRecorded'
  <2> SUFFICES ASSUME "quarantine" \notin config.unwritable,
                      NEW e \in Conflicts(BuiltinMemoryTools)'
               PROVE  RecordedOrChecking(e)'
    BY <1>1 DEF ConflictRecorded
  <2>1. CASE e = line
    BY <1>1, <2>1 DEF RecordedOrChecking
  <2>2. CASE e \in memory
    BY <1>1, <2>2 DEF MemoryInv, ConflictRecorded, Conflicts, RecordedOrChecking
  <2> QED
    BY <1>1, <2>1, <2>2 DEF Conflicts
<1> QED
  BY <1>1, <1>2, <1>3, <1>4, <1>5 DEF MemoryInv

\* The post-hook records what it finds unsupported.
LEMMA PostToolCallStep ==
    ASSUME MemoryInv, NEW i \in Call, PostToolCall(i)
    PROVE  MemoryInv'
<1>1. CallsOK'
  BY DEF MemoryInv, CallsOK, PostToolCall, Finish, Goto, ToolName, canonVars
<1>2. /\ memory' = memory /\ quarantine \subseteq quarantine'
      /\ config' = config
      /\ \A x \in Call : x # i => /\ stage'[x] = stage[x]
                                /\ tool'[x] = tool[x]
                                /\ fact'[x] = fact[x]
      /\ stage[i] = "post" /\ stage'[i] = "free"
  BY DEF MemoryInv, CallsOK, PostToolCall, Finish, Goto, Unwritten, Divert,
         Appended
<1>3. evident \subseteq evident'
  BY AskedGrows DEF PostToolCall, MemoryInv
<1>4. VerifiedHasEvidence' /\ TwistNeverStored' /\ DirectIsGated'
  BY <1>2, <1>3 DEF MemoryInv, VerifiedHasEvidence, TwistNeverStored, DirectIsGated
<1>5. RunIsGated'
  BY <1>2, <1>3 DEF MemoryInv, RunIsGated, Watched
<1>6. Watched(i) /\ "quarantine" \notin config.unwritable =>
          \/ fact[i] \in evident'
          \/ \E q \in quarantine' : q.fact = fact[i]
  <2> SUFFICES ASSUME Watched(i), "quarantine" \notin config.unwritable
               PROVE  \/ fact[i] \in evident'
                      \/ \E q \in quarantine' : q.fact = fact[i]
    OBVIOUS
  <2>1. PICK outcome \in Checks(fact[i]) :
            /\ Asked(i, outcome)
            /\ IF Trusted(Evaluate(fact[i], outcome.response, FALSE))
               THEN Unwritten ELSE Divert(i, "direct-write")
    BY DEF PostToolCall
  <2>2. CASE Trusted(Evaluate(fact[i], outcome.response, FALSE))
    BY <1>2, <2>1, <2>2, AskedGrows DEF MemoryInv
  <2>3. CASE Divert(i, "direct-write")
    <3> DEFINE mark == [fact |-> fact[i], mark |-> "direct-write"]
    <3>1. mark \in quarantine' /\ mark.fact = fact[i]
      BY <2>3 DEF Divert, Appended
    <3> QED
      BY <3>1
  <2> QED
    BY <2>1, <2>2, <2>3
<1>7. ConflictRecorded'
  <2> SUFFICES ASSUME "quarantine" \notin config.unwritable,
                      NEW e \in Conflicts(BuiltinMemoryTools)'
               PROVE  RecordedOrChecking(e)'
    BY <1>2 DEF ConflictRecorded
  <2>1. /\ e \in Conflicts(BuiltinMemoryTools)
        /\ e.tool \in BuiltinMemoryTools
        /\ e.fact \notin evident' /\ e.fact # EmptyClaim
    BY <1>2, <1>3 DEF Conflicts
  <2>2. RecordedOrChecking(e)
    BY <2>1 DEF MemoryInv, ConflictRecorded
  <2>3. CASE \E q \in quarantine : q.fact = e.fact
    BY <1>2, <2>3 DEF RecordedOrChecking
  <2>4. ASSUME NEW x \in Call, stage[x] = "post", tool[x] = e.tool, fact[x] = e.fact
        PROVE  RecordedOrChecking(e)'
    <3>1. CASE x = i
      BY <1>6, <2>1, <2>4, <3>1 DEF Watched, RecordedOrChecking
    <3>2. CASE x # i
      BY <1>2, <2>4, <3>2 DEF RecordedOrChecking
    <3> QED
      BY <3>1, <3>2
  <2> QED
    BY <2>2, <2>3, <2>4 DEF RecordedOrChecking
<1> QED
  BY <1>1, <1>4, <1>5, <1>7 DEF MemoryInv

\* Nothing the canon does changes a file, a call or the history.
LEMMA CanonStep ==
    ASSUME MemoryInv, NEW d \in Canon, CacheCanon(d) \/ DeleteCanon(d)
    PROVE  MemoryInv'
<1>1. /\ cached' \subseteq Canon
      /\ UNCHANGED <<config, memory, quarantine, callVars, evident>>
  BY DEF MemoryInv, CallsOK, CacheCanon, DeleteCanon
<1> QED
  BY <1>1 DEF MemoryInv, CallsOK, VerifiedHasEvidence, TwistNeverStored, RunIsGated, Watched,
      DirectIsGated, ConflictRecorded, Conflicts, RecordedOrChecking, callVars

\* Every step keeps the promises.
LEMMA MemoryInductive == MemoryInv /\ [Next]_vars => MemoryInv'
<1> SUFFICES ASSUME MemoryInv, [Next]_vars
             PROVE  MemoryInv'
  OBVIOUS
<1>1. ASSUME NEW i \in Call, CallStep(i)
      PROVE  MemoryInv'
  BY <1>1, StartStep, PreToolCallStep, RememberStep, WriteDirectlyStep,
     PostToolCallStep DEF CallStep
<1>2. ASSUME NEW d \in Canon, CacheCanon(d) \/ DeleteCanon(d)
      PROVE  MemoryInv'
  BY <1>2, CanonStep
<1>3. CASE UNCHANGED vars
  BY <1>3 DEF MemoryInv, CallsOK, VerifiedHasEvidence, TwistNeverStored, RunIsGated, Watched,
      DirectIsGated, ConflictRecorded, Conflicts, RecordedOrChecking, vars, callVars,
      canonVars
<1> QED
  BY <1>1, <1>2, <1>3 DEF Next

\* The files keep their promises for every set of calls, claims and documents,
\* under every configuration and whatever the language model answers: verified
\* facts have evidence, twisted ones are never stored as episodic, direct writes
\* are gated where the host honors the veto and on record where it does not.
THEOREM FilesKeepPromises ==
    Spec => [](/\ VerifiedHasEvidence /\ TwistNeverStored
               /\ DirectIsGated /\ ConflictRecorded)
<1>1. MemoryInv => VerifiedHasEvidence /\ TwistNeverStored /\ DirectIsGated
                     /\ ConflictRecorded
  BY DEF MemoryInv
<1> QED
  BY InitMemory, MemoryInductive, <1>1, PTL DEF Spec

\* A fact stored as verified has a check behind it that cited the canon.
THEOREM VerifiedIsBacked == Spec => []VerifiedHasEvidence
BY FilesKeepPromises, PTL

\* A fact every document discusses is never stored as an episodic one.
THEOREM TwistsEscalate == Spec => []TwistNeverStored
BY FilesKeepPromises, PTL

\* Where the veto is honored, a direct write has a check behind it.
THEOREM DirectWritesAreGated == Spec => []DirectIsGated
BY FilesKeepPromises, PTL

-----------------------------------------------------------------------------
\* What a step may write, when its call has a fact.
Writes(i) ==
    \/ Unwritten
    \/ \E kind \in {"verified", "unverified"} : Store(i, kind)
    \/ memory' = memory \cup {Entered(i, "direct")} /\ UNCHANGED quarantine
    \/ \E mark \in Mark : Divert(i, mark)

\* What a step writes are entries.
LEMMA WritesTypes ==
    ASSUME TypeOK, NEW i \in Call, fact[i] \in Claim, Writes(i)
    PROVE  memory' \subseteq Entry /\ quarantine' \subseteq [fact : Claim, mark : Mark]
<1>1. CASE Unwritten
  BY <1>1 DEF Unwritten, TypeOK
<1>2. \A kind \in {"verified", "unverified", "direct"} : Entered(i, kind) \in Entry
  BY DEF TypeOK, Entered, Entry
<1>3. ASSUME NEW kind \in {"verified", "unverified"}, Store(i, kind)
      PROVE  memory' \subseteq Entry /\ quarantine' \subseteq [fact : Claim, mark : Mark]
  BY <1>2, <1>3 DEF Store, Appended, TypeOK
<1>4. CASE memory' = memory \cup {Entered(i, "direct")} /\ UNCHANGED quarantine
  BY <1>2, <1>4 DEF TypeOK
<1>5. ASSUME NEW mark \in Mark, Divert(i, mark)
      PROVE  memory' \subseteq Entry /\ quarantine' \subseteq [fact : Claim, mark : Mark]
  <2>1. [fact |-> fact[i], mark |-> mark] \in [fact : Claim, mark : Mark]
    OBVIOUS
  <2> QED
    BY <1>5, <2>1 DEF Divert, Appended, TypeOK
<1> QED
  BY <1>1, <1>3, <1>4, <1>5 DEF Writes

\* A step of a call keeps the types.
LEMMA StepTypes ==
    ASSUME TypeOK, NEW i \in Call, CallStep(i)
    PROVE  TypeOK'
<1>1. ASSUME NEW outcome, Asked(i, outcome), fact[i] \in Claim
      PROVE  evident' \subseteq Claim
  <2>1. Target \subseteq Canon
    BY TargetIsCanon DEF TypeOK
  <2>2. outcome.evidence \subseteq {fact[i]}
    <3>1. CASE outcome.evidence = {}
      BY <3>1
    <3>2. CASE \E d \in Target : outcome \in Findings[fact[i]][d]
      BY <1>1, <2>1, <3>2 DEF Findings
    <3> QED
      BY <1>1, <3>1, <3>2 DEF Asked, Checks, Outcomes
  <2> QED
    BY <1>1, <2>2 DEF TypeOK, Asked
<1>2. CASE Start(i)
  BY <1>2, MemoryAssumption DEF TypeOK, Start, Goto, canonVars
<1>3. CASE PreToolCall(i)
  <2>1. evident' \subseteq Claim
    BY <1>1, <1>3 DEF PreToolCall, TypeOK
  <2>2. Writes(i) /\ fact[i] \in Claim
    BY <1>3 DEF PreToolCall, TypeOK, Writes, Mark
  <2> QED
    BY <1>3, <2>1, <2>2, WritesTypes DEF PreToolCall, TypeOK, Continue, Finish,
        Goto, canonVars, ToolName
<1>4. CASE Remember(i)
  <2>1. evident' \subseteq Claim
    BY <1>1, <1>4 DEF Remember, TypeOK
  <2>2. Writes(i) /\ fact[i] \in Claim
    BY <1>4 DEF Remember, TypeOK, Writes, Mark
  <2> QED
    BY <1>4, <2>1, <2>2, WritesTypes DEF Remember, TypeOK, Continue, Goto, canonVars
<1>5. CASE WriteDirectly(i)
  <2>1. Writes(i) /\ fact[i] \in Claim
    BY <1>5 DEF WriteDirectly, TypeOK, Writes
  <2> QED
    BY <1>5, <2>1, WritesTypes DEF WriteDirectly, TypeOK, Continue, Goto, canonVars
<1>6. CASE PostToolCall(i)
  <2>1. evident' \subseteq Claim
    BY <1>1, <1>6 DEF PostToolCall, TypeOK
  <2>2. Writes(i) /\ fact[i] \in Claim
    BY <1>6 DEF PostToolCall, TypeOK, Writes, Mark
  <2> QED
    BY <1>6, <2>1, <2>2, WritesTypes DEF PostToolCall, TypeOK, Finish, Goto,
        canonVars, ToolName
<1> QED
  BY <1>2, <1>3, <1>4, <1>5, <1>6 DEF CallStep

\* The plugin's state stays well formed: every call under way has a fact, and "the
\* latest document" is one that is cached.
THEOREM MemoryTypeCorrect == Spec => []TypeOK
<1>1. Init => TypeOK
  BY DEF Init, TypeOK, ToolName
<1>2. ASSUME TypeOK, NEW d \in Canon, CacheCanon(d) \/ DeleteCanon(d)
      PROVE  TypeOK'
  BY <1>2 DEF TypeOK, CacheCanon, DeleteCanon, callVars
<1>3. TypeOK /\ [Next]_vars => TypeOK'
  <2>1. ASSUME TypeOK, UNCHANGED vars
        PROVE  TypeOK'
    BY <2>1 DEF TypeOK, vars, callVars, canonVars
  <2> QED
    BY <1>2, <2>1, StepTypes DEF Next
<1> QED
  BY <1>1, <1>3, PTL DEF Spec

\* For every claim that is not blank, the port for OpenClaw and the reference gate
\* rule alike on every response that is an object, whatever the verdict, the quote and
\* the overlap in it; on one that is not, neither trusts the claim.
THEOREM PortIsFaithful == Spec => []PortAgrees
<1>1. ASSUME NEW c, c # EmptyClaim, NEW r, r # NotAnObject
      PROVE  Decide(r) = Evaluate(c, r, TRUE)
  BY <1>1 DEF Decide, Evaluate, Supported, Refuted, TopicPresent, Unproven
<1>2. Decide(NotAnObject) = "raises"
  BY DEF Decide, NotAnObject
<1>3. PortAgrees
  BY <1>1, <1>2 DEF PortAgrees, Trusted
<1> QED
  BY <1>3, PTL
=============================================================================
