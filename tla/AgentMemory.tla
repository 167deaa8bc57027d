---------------------------- MODULE AgentMemory ----------------------------
(***************************************************************************)
(* The Hermes plugin (integrations/hermes/cag_plugin.py): tool calls of an *)
(* agent that end in its memory file, the gate that checks a fact before   *)
(* it is written, the hooks around direct writes, and the canon that       *)
(* changes underneath them.                                                *)
(*                                                                         *)
(* The host runs a call in three steps, pre_tool_call hook, tool,          *)
(* post_tool_call hook; the calls of an agent's turns interleave.  Each    *)
(* check goes to the oracle anew and may be answered differently.          *)
(***************************************************************************)
EXTENDS GroundingGate

CONSTANTS
    Tool,           \* the tools of the host that write to its memory
    Call,           \* tool calls under way at the same time
    NoFact,         \* a call slot that is free
    MaxLines,       \* bound of the model: lines in the two files when a call starts
    Pinned,         \* the values CAG_DOCUMENT_ID may have
    NoCanon,        \* CAG_DOCUMENT_ID unset: the most recently cached document
    Unwritable      \* the sets of files that it may not be possible to write

\* The plugin's own tool, two built-in names the hooks know, one they do not.
ToolName == {"cag_remember", "memory", "save_memory", "note"}

ASSUME MemoryAssumption ==
    /\ NoFact \notin Claim
    /\ NoCanon \notin Canon
    /\ Tool \subseteq ToolName
    /\ Pinned \subseteq Canon \cup {NoCanon}
    /\ MaxLines \in Nat
    /\ Unwritable \subseteq SUBSET {"memory", "quarantine"}

BuiltinMemoryTools == {"memory", "save_memory"}

Entry == [fact : Claim, kind : {"verified", "unverified", "direct"}, tool : ToolName]
Mark == {"refused", "pre-block", "direct-write"}

VARIABLES
    config,         \* the environment variables, whether this Hermes honors a
                    \* veto, and the files the plugin cannot write; fixed for the
                    \* life of the plugin
    cached,         \* the cached documents
    latest,         \* the most recently cached of them, or NoCanon
    memory,         \* the entries of MEMORY.md
    quarantine,     \* the entries of MEMORY.quarantine.md
    stage,          \* where each call is
    tool,           \* the tool it names
    fact,           \* the fact it carries
    evident         \* history: the claims some check supported with a quote long
                    \* enough to be evidence that occurs in the document

callVars == <<stage, tool, fact>>
canonVars == <<cached, latest>>
vars == <<config, canonVars, memory, quarantine, callVars, evident>>

TypeOK ==
    /\ config \in [veto : BOOLEAN, override : BOOLEAN, absentToMemory : BOOLEAN,
                   pinned : Pinned, unwritable : Unwritable]
    /\ cached \subseteq Canon
    /\ latest \in cached \cup {NoCanon}
    /\ memory \subseteq Entry
    /\ quarantine \subseteq [fact : Claim, mark : Mark]
    /\ stage \in [Call -> {"free", "pre", "run", "post"}]
    /\ tool \in [Call -> ToolName]
    /\ fact \in [Call -> Claim \cup {NoFact}]
    /\ \A i \in Call : stage[i] # "free" => fact[i] \in Claim
    /\ evident \subseteq Claim

Init ==
    /\ config \in [veto : BOOLEAN, override : BOOLEAN, absentToMemory : BOOLEAN,
                   pinned : Pinned, unwritable : Unwritable]
    /\ cached = {}
    /\ latest = NoCanon
    /\ memory = {}
    /\ quarantine = {}
    /\ stage = [i \in Call |-> "free"]
    /\ tool = [i \in Call |-> "note"]
    /\ fact = [i \in Call |-> NoFact]
    /\ evident = {}

-----------------------------------------------------------------------------
LatestCached == cached \cap {latest}

\* The document a check is made against, if it is there to be found.
Target == IF config.pinned = NoCanon THEN LatestCached ELSE cached \cap {config.pinned}

\* The answers the model may give about a claim and a document, and whether they
\* are evidence.
Findings == [c \in Claim |-> [d \in Canon |->
    {[response |-> VerifyClaim(c, d, a),
      evidence |-> IF a.verdict = "supported" /\ a.quote \in Substantial \cap Found[d]
                   THEN {c} ELSE {}] : a \in Answer}]]

\* What verify may return for claim c now: no answer from the oracle or one that is
\* no object, or any answer of the model about the target.
Outcomes(c) ==
    {[response |-> r, evidence |-> {}] : r \in {Unavailable, NotAnObject}} \cup
    UNION {Findings[c][d] : d \in Target}

\* What the gate has in hand when it rules on c: it asks nothing about a blank claim.
Checks(c) ==
    IF c = EmptyClaim THEN {[response |-> Unavailable, evidence |-> {}]} ELSE Outcomes(c)

\* gate_memory_write ruled on the fact of call i.
Asked(i, outcome) ==
    /\ outcome \in Checks(fact[i])
    /\ evident' = evident \cup outcome.evidence

Goto(i, where) == stage' = [stage EXCEPT ![i] = where]

Finish(i) ==
    /\ Goto(i, "free")
    /\ tool' = [tool EXCEPT ![i] = "note"]
    /\ fact' = [fact EXCEPT ![i] = NoFact]

Continue(i, where) == Goto(i, where) /\ UNCHANGED <<tool, fact>>

\* _append swallows an OSError, and no caller looks at what it returns.
Appended(name, file, line) == IF name \in config.unwritable THEN file ELSE file \cup {line}

Entered(i, kind) == [fact |-> fact[i], kind |-> kind, tool |-> tool[i]]

Store(i, kind) ==
    /\ memory' = Appended("memory", memory, Entered(i, kind))
    /\ UNCHANGED quarantine

Divert(i, mark) ==
    /\ LET line == [fact |-> fact[i], mark |-> mark]
       IN quarantine' = Appended("quarantine", quarantine, line)
    /\ UNCHANGED memory

Unwritten == UNCHANGED <<memory, quarantine>>

\* CAG_OVERRIDE_MEMORY registers cag_remember under the name "memory" too.
RunsRemember(i) ==
    tool[i] = "cag_remember" \/ (tool[i] = "memory" /\ config.override)

-----------------------------------------------------------------------------
\* The agent calls a tool with a fact, a blank one included.
Start(i) ==
    /\ stage[i] = "free"
    /\ Cardinality(memory) + Cardinality(quarantine) <= MaxLines
    /\ \E t \in Tool, c \in Claim :
          /\ tool' = [tool EXCEPT ![i] = t]
          /\ fact' = [fact EXCEPT ![i] = c]
    /\ Goto(i, "pre")
    /\ UNCHANGED <<config, canonVars, memory, quarantine, evident>>

\* Both hooks look at these tools only, and return early on a blank fact.
Watched(i) == tool[i] \in BuiltinMemoryTools /\ fact[i] # EmptyClaim

\* Mutant of PreToolCall: it blocks only what it could record.
PreToolCallNeedsRecord(i) ==
    /\ stage[i] = "pre"
    /\ \/ /\ config.override \/ ~Watched(i)
          /\ Continue(i, "run") /\ Unwritten /\ UNCHANGED evident
       \/ /\ ~config.override /\ Watched(i)
          /\ \E outcome \in Checks(fact[i]) :
                /\ Asked(i, outcome)
                /\ IF Trusted(Evaluate(fact[i], outcome.response, FALSE))
                   THEN Continue(i, "run") /\ Unwritten
                   ELSE /\ Divert(i, "pre-block")
                        /\ IF config.veto /\ "quarantine" \notin config.unwritable
                           THEN Finish(i) ELSE Continue(i, "run")
    /\ UNCHANGED <<config, canonVars>>

\* _on_pre_tool_call steps aside under the override; a block reaches the host,
\* which honors it or does not.
PreToolCall(i) ==
    /\ stage[i] = "pre"
    /\ \/ /\ config.override \/ ~Watched(i)
          /\ Continue(i, "run") /\ Unwritten /\ UNCHANGED evident
       \/ /\ ~config.override /\ Watched(i)
          /\ \E outcome \in Checks(fact[i]) :
                /\ Asked(i, outcome)
                /\ IF Trusted(Evaluate(fact[i], outcome.response, FALSE))
                   THEN Continue(i, "run") /\ Unwritten
                   ELSE /\ Divert(i, "pre-block")
                        /\ IF config.veto THEN Finish(i) ELSE Continue(i, "run")
    /\ UNCHANGED <<config, canonVars>>

\* Mutant of Remember: any absent verdict may be kept in the memory file.
RememberIgnoresTag(i) ==
    /\ stage[i] = "run"
    /\ RunsRemember(i)
    /\ \E outcome \in Checks(fact[i]) :
          /\ Asked(i, outcome)
          /\ LET r == outcome.response
                 episodic == r.verdict = "absent" /\ config.absentToMemory
             IN IF Trusted(Evaluate(fact[i], r, FALSE)) THEN Store(i, "verified")
                ELSE IF episodic THEN Store(i, "unverified")
                ELSE Divert(i, "refused")
    /\ Continue(i, "post")
    /\ UNCHANGED <<config, canonVars>>

\* cag_remember: trusted facts are stored, absent ones whose vocabulary the
\* canon does not have may be stored tagged, the rest is quarantined, a blank fact
\* among it.
Remember(i) ==
    /\ stage[i] = "run"
    /\ RunsRemember(i)
    /\ \E outcome \in Checks(fact[i]) :
          /\ Asked(i, outcome)
          /\ LET r == outcome.response
                 episodic == /\ r.verdict = "absent"
                             /\ ~TopicPresent(r)
                             /\ config.absentToMemory
             IN IF Trusted(Evaluate(fact[i], r, FALSE)) THEN Store(i, "verified")
                ELSE IF episodic THEN Store(i, "unverified")
                ELSE Divert(i, "refused")
    /\ Continue(i, "post")
    /\ UNCHANGED <<config, canonVars>>

\* Any other memory tool writes what it is given, in a way of its own.
WriteDirectly(i) ==
    /\ stage[i] = "run"
    /\ ~RunsRemember(i)
    /\ memory' = memory \cup {Entered(i, "direct")}
    /\ Continue(i, "post")
    /\ UNCHANGED <<config, canonVars, quarantine, evident>>

\* Mutant of PostToolCall: it steps aside under the override, as the pre-hook does.
PostToolCallStepsAside(i) ==
    /\ stage[i] = "post"
    /\ \/ (config.override \/ ~Watched(i)) /\ Unwritten /\ UNCHANGED evident
       \/ /\ ~config.override /\ Watched(i)
          /\ \E outcome \in Checks(fact[i]) :
                /\ Asked(i, outcome)
                /\ IF Trusted(Evaluate(fact[i], outcome.response, FALSE))
                   THEN Unwritten ELSE Divert(i, "direct-write")
    /\ Finish(i)
    /\ UNCHANGED <<config, canonVars>>

\* _on_post_tool_call checks the fact anew and records a conflict.
PostToolCall(i) ==
    /\ stage[i] = "post"
    /\ \/ ~Watched(i) /\ Unwritten /\ UNCHANGED evident
       \/ /\ Watched(i)
          /\ \E outcome \in Checks(fact[i]) :
                /\ Asked(i, outcome)
                /\ IF Trusted(Evaluate(fact[i], outcome.response, FALSE))
                   THEN Unwritten ELSE Divert(i, "direct-write")
    /\ Finish(i)
    /\ UNCHANGED <<config, canonVars>>

-----------------------------------------------------------------------------
\* The canon changes: a document is ingested or re-saved (mark_cached makes it
\* the most recent one), or deleted.
CacheCanon(d) ==
    /\ cached' = cached \cup {d}
    /\ latest' = d
    /\ UNCHANGED <<config, memory, quarantine, callVars, evident>>

\* Mutant of DeleteCanon: the document served by default is not looked up anew.
DeleteCanonKeepsLatest(d) ==
    /\ d \in cached
    /\ cached' = cached \ {d}
    /\ UNCHANGED <<config, latest, memory, quarantine, callVars, evident>>

\* Which of the others was cached last is left open.
DeleteCanon(d) ==
    /\ d \in cached
    /\ cached' = cached \ {d}
    /\ IF latest # d THEN UNCHANGED latest
       ELSE latest' \in IF cached' = {} THEN {NoCanon} ELSE cached'
    /\ UNCHANGED <<config, memory, quarantine, callVars, evident>>

CallStep(i) ==
    Start(i) \/ PreToolCall(i) \/ Remember(i) \/ WriteDirectly(i) \/ PostToolCall(i)

Next ==
    \/ \E i \in Call : CallStep(i)
    \/ \E d \in Canon : CacheCanon(d) \/ DeleteCanon(d)

Spec == Init /\ [][Next]_vars

-----------------------------------------------------------------------------
\* Properties.

\* cag_remember stores a fact as verified only when a check was answered
\* "supported" with a passage of the canon then pinned, whatever else the model,
\* the hooks and a changing canon did before or after.
VerifiedHasEvidence ==
    \A e \in memory : e.kind = "verified" => e.fact \in evident

\* A fact whose vocabulary every document discusses is never stored as an
\* episodic, merely tagged one: an absent verdict on it escalates.
TwistNeverStored ==
    \A e \in memory : e.kind = "unverified" =>
        \E d \in Canon : RecallProbe[e.fact][d] # "high"

\* On a host that honors the veto, with the built-in tool not overridden, a direct
\* write through a built-in memory tool lands only on evidence, unless it is blank.
\* The veto does not wait for its record: it holds also when the file cannot be
\* written.
DirectIsGated ==
    config.veto /\ ~config.override =>
        \A e \in memory :
            /\ e.kind = "direct"
            /\ e.tool \in BuiltinMemoryTools
            /\ e.fact # EmptyClaim
            => e.fact \in evident

Conflicts(tools) ==
    {e \in memory : /\ e.kind = "direct"
                    /\ e.tool \in tools
                    /\ e.fact \notin evident \cup {EmptyClaim}}

RecordedOrChecking(e) ==
    \/ \E q \in quarantine : q.fact = e.fact
    \/ \E i \in Call : stage[i] = "post" /\ tool[i] = e.tool /\ fact[i] = e.fact

\* Where nothing can be vetoed, a direct write through a built-in tool that no
\* check ever supported is on record in the quarantine, or about to be, as long as
\* the quarantine can be written.
ConflictRecorded ==
    "quarantine" \notin config.unwritable =>
        \A e \in Conflicts(BuiltinMemoryTools) : RecordedOrChecking(e)

\* cag_verify.py, the port for OpenClaw, rules as the reference gate does on an
\* action that rests on a claim, for every response the check of a call that begins
\* may get, and trusts no more than it does.  Two cases are apart.  On a response that
\* is no object the gate escalates and the port fails, which trusts nothing either.
\* On a blank claim the gate blocks unasked and the port goes by the answer, so the
\* property says nothing of it.
PortAgrees ==
    \A i \in Call : stage[i] = "pre" /\ fact[i] # EmptyClaim =>
        \A outcome \in Outcomes(fact[i]) :
            LET r == outcome.response
                gate == Evaluate(fact[i], r, TRUE)
            IN /\ Decide(r) = IF r = NotAnObject THEN "raises" ELSE gate
               /\ Trusted(Decide(r)) => Trusted(gate)
=============================================================================
