# llama-cag-n8n in TLA+

A verification development for the CAG stack of this repository: a service that
evaluates a document once in `llama-server`, keeps the resulting KV state in a
slot and on disk, and answers questions from it, with a gate that lets an agent
write only what a document supports.  TLA+ modules model the parts that have a
protocol, TLC checks them on small instances, and TLAPS proves the central
invariants for instances of every size.

- [The system](#the-system)
- [Modules](#modules)
- [Correspondence with the code](#correspondence-with-the-code)
- [Runs](#runs)
- [What the runs found](#what-the-runs-found)
- [Bounds and fairness](#bounds-and-fairness)
- [Proofs](#proofs)
- [Not modelled](#not-modelled)
- [Plan](#plan)

`PROJECT.json` maps every definition to the lines it models, every run to its
properties, every property to a mutant of the code that it catches, and every
hazard to its line.

## The system

| component | state | operations | interacts with |
|---|---|---|---|
| CAG engine, `api/app/cag.py` | slot map `_slots`, timestamps `_slot_used`, memo `_model_checked`, the big lock; `model.marker` and `doc-<id>.bin` on disk | ingest and warm, query with restore or recompute, deferred re-save, delete, fingerprint check, maintenance, calibrate | calls the llama-server client and the table; is called by the HTTP layer from several threads; starts daemon threads |
| llama-server, reached through `api/app/llama.py` | KV state of each slot, the slot files, the served model, the slot count | completion, slot erase / save / restore, `/props`, `/tokenize` | restarts and is reconfigured independently of the engine |
| document table, `api/app/db.py`, `database/schema.sql` | row status, `cache_file`, `content_sha256` unique | insert, find, mark cached / failed, delete; query log and aggregates | one statement at a time, with no lock of the engine |
| answer budget, in `cag.py` | a document's token count, the slot geometry of the moment | the gates at ingest; history trimming and clamping of a query | geometry comes from `config.py` and may change between ingest and query |
| periodic maintenance, `cag.py`, sent by an n8n schedule | none of its own | remove the cache files no row names, report | reads the table, then the directory, then each file, beside the running engine, with no lock |
| calibration, `cag.py` | none | run a battery of questions, score the answers | a query per item |
| query log and bookkeeping, `db.py` | `query_log`, `use_count`, `cached_at` | log a completion, touch a document, aggregates | written after the answer; a delete sets `document_id` to NULL |
| claim verification, `cag.py` with `grounding.py` | none | verify a claim: the model's verdict, then mechanical grounding of its quote and a recall probe | a query underneath |
| grounding gate, `integrations/cag_gate`, and its port `integrations/openclaw/cag-verify` | none | rule on a verification response: allow, quarantine, escalate, block | asks `POST /verify` |
| Hermes plugin, `integrations/hermes` | `MEMORY.md`, `MEMORY.quarantine.md` | `cag_remember`, pre- and post-tool hooks, override of `memory` | the gate, and a host that may ignore a veto |
| HTTP layer `main.py` / `extract.py`, health | the thread pool and health's own limiter | one route per operation, exceptions to status codes | the engine, from as many threads as the pool has |
| MCP server and client, CLI, n8n workflows, web UI, deployment | little or none | forward requests | the HTTP layer |

What is hard here, component by component, with the property that makes it
right:

- **The slot map against the server.**  The engine believes a document hot in a
  slot; the server may have failed in the middle of evaluating it, may have
  restarted, or may wrap `id_slot` around.  The map must be injective
  (`SlotMapInjective`), must always leave an eviction victim
  (`EvictionHasVictim`), and must not lie when the lock is free
  (`HotMapTruthful`).
- **The disk against the table.**  A save is followed by an UPDATE, a DELETE by
  an unlink, and a delete can fall in the middle of a save.  No file may be
  stranded (`NoStrandedFile`), no live row may name a missing file
  (`CachedFileExists`), and a file must hold its own document (`FilesTruthful`).
- **The model against both.**  Cache files outlive the model that produced
  them.  A slot must never hold another model's state (`KvFresh`), which rests on
  a memoized fingerprint check, a marker file, and one forced re-check.
- **Deferred work.**  The re-save runs after the response, when everything may
  have changed (`FilesTruthful`, `NoStrandedFile`, `HotIsPersisted`).
- **One big lock** taken, released and taken again along error paths, held for
  minutes over calls that fail.  What its holder has read must stay so
  (`LockIsolates`), no error path may keep it or leave a row pending
  (`NothingAbandoned`, and the liveness property `Drains`), and a pool of threads
  is parked in front of it (`RequestsEnd`, `HealthAnswers`).
- **A sweep beside it all.**  Maintenance takes no lock; it must spare every
  file a save in flight or a row has a claim to (`SweepSparesClaimed`) and remove
  the others in the end (`OrphansSwept`).
- **Bookkeeping after the answer.**  The document may be deleted and the database
  may fail between the answer and its log row: the answer must be returned
  (`AnswerKept`), the row must be there (`LogAccounts`), the counters must agree
  (`UsesCoverLog`, `BatteryAddsUp`), and the text a verdict is checked against must be the one
  it was made from (`VerdictReadsItsDocument`).
- **Text algorithms with cut-offs.**  One pass with two pointers (`ProbeIsMax`,
  `ExcerptLocatesBest`, `SilenceIsReal`), and windows that are seeded, thinned and
  sampled (`UncappedQuoteScored`, `RarestSeeded`, `SampleSpread`).
- **Budget arithmetic** at the boundaries of a slot's context (`BudgetHolds`,
  `KeptIsLongest`, `ClampedAlone`, `AdmittedIsAnswerable`).
- **The gate in time.**  A fact is checked before a write and after it, against
  a canon that changes in between, on a host that may not honor a veto
  (`VerifiedHasEvidence`, `TwistNeverStored`, `DirectIsGated`,
  `ConflictRecorded`), and the rules exist twice (`PortAgrees`).

The hazards in `PROJECT.json` list each of these at the line where it bites.

## Modules

| module | what it is |
|---|---|
| `CagParameters` | document ids and the faults an instance allows |
| `LlamaServer` | the server as the client's callers see it: slots, slot files, restarts, another slot count |
| `DocumentStore` | the `documents` table and the statements run on it |
| `CagEngine` | the engine: request threads, re-save workers, the map, the memo, the lock; EXTENDS the two above and composes them |
| `DocumentCache` | what the engine promises about KV state: a cache of two levels; `CagEngine` implements it under a refinement mapping (`ImplementsCache`) |
| `MCCagEngine` | its instances for TLC |
| `CagEngineProofs`, `CagCacheProofs`, `CagTruthProofs` | theorems about the engine, each extending the one before: types, files, lock, error paths and slot map; models, names of files and the refinement; the truth of map and table |
| `CagMaintenance`, `MCCagMaintenance`, `CagMaintenanceProofs` | the engine with `maintenance()` running beside it, its instances, its theorems and the engine's own carried over; EXTENDS `CagEngine` |
| `CagService`, `MCCagService`, `CagServiceProofs` | a request's way through the HTTP layer and the parts of `query()`, `verify_claim()` and `calibrate()` around the completion, health beside it; its instance, its theorems |
| `ProbeScan`, `QuoteWindows` | the recall probe's pass, and the choice of windows of the fuzzy match |
| `GroundingText`, `MCGroundingText`, `GroundingTextProofs` | the two as `verify_claim()` uses them, one or the other per answer; its instance, theorems about each |
| `GroundingGate` | the response of a verification and the rulings made of it |
| `AgentMemory`, `MCAgentMemory`, `AgentMemoryProofs` | the Hermes plugin around the gate, its instance, its theorems |
| `AnswerBudget`, `MCAnswerBudget`, `AnswerBudgetProofs` | admission and budget arithmetic, its instance, its theorems |

## Correspondence with the code

### CagEngine

A thread has a `pc` that names where it is between two interactions with
something another thread, the database or the server can change.  The code
between two such points is one action.  Work under the big lock is split at
every call to the server and at every statement, because restarts and other
threads' database work need no lock.

| `pc` | code of `cag.py` |
|---|---|
| `insert` → `warm` → `warm_slot` → `warm_chat` → `warm_save` → `mark_cached` / `mark_failed` / `gone_unlink` → `gone_unmap` | `_ingest` 308–381 and `_warm` 386–419 |
| `hot` → `hot_slot` → `recheck` → `restore` → `chat` → `unmap` | `query` 432–569 and `_make_hot` 755–800 |
| `resave` → `resave_mark` → `resave_unlink` | `_schedule_resave` and `_resave` 802–849 |
| `del_unlink` → `del_unmap` | `delete_document` 855–876 |

`lock` is the thread that holds `_lock`.  `_slots_guard` protects single
assignments and is never held across a call, so it needs no variable.
Timestamps are ranks: `used[s]` is 0 when `_slot_used` has no entry for `s`, and
otherwise its place in the order.  The KV state of a slot is the document whose
prompt was evaluated and the model that evaluated it.  The text of the answer, the
token statistics and the log are left out.  `_ensure_model_marker` is one
step (`CheckReturns`, `CheckRaises`): it runs under the lock, and the fault
`"race"` allows a restart between a forced check and the restore that follows.
`/props` is taken to report `total_slots`, as the deployed server does; an
older build omits it, and then the slot-count guard is skipped (`cag.py:229-230`).
`Arrival` is the routes of `main.py`: plain functions that the server runs in a
pool of threads, so requests reach the engine in any order and at any time.  A
request that returns before it changes anything (a duplicate upload, an
unknown document, a question that does not fit) is the thread staying idle.

`Faults` is the set of things that may go wrong in an instance; each is
explained in `CagParameters`.  Without `"llama"` the server answers every call;
a `"crash"` ends every thread and empties the map and the memo, while table,
files, marker and server survive.  `Shared = FALSE` is native mode, where the
engine does not see the slot files.

### DocumentCache

The abstract cache has a served model, the memory of the slots and a disk.
State enters memory by evaluation or from disk, and disk from memory, always
under the document's own name and always as the served model evaluates it.
The mapping is the identity on what the two share: `served <- model`,
`memory <- kv`, `disk <- files`; threads, lock, slot map, table, memo and marker
are invisible.  What has to be shown is that whenever the engine restores or
saves, the state it moves is fresh and the document's: the work of the lock, the
slot re-validation of `_resave`, and the fingerprint check.

### CagMaintenance

The steps are the statement (`SweepTable`), the glob and the `time.time()` that
follows it (`SweepDirectory`), the `stat` of a file (`SweepLook`), its `unlink`
(`SweepUnlink`) and the report (`SweepReturns`).  Ages are abstract: a file is
`young` from the step that wrote it (`Written`) until `Ages`, and `Ages` waits
until the process that wrote it has told the table, since
`maintenance_grace_s` is an hour and an UPDATE follows its save at once.  `recent` is what the sweep's own
`now` makes of it.  Without `"race"` no file is written between the look at its
age and its unlink.  A save that rewrites a file with the same content counts as
a write only when its process says so (`Written` looks at the `pc`).

### CagService

One value of `at` per request names where it is: `queued` for a thread, `find`
for its document, `lock`, `infer` (the completion, which may answer, or fail
with or without a slot to unmap), `relock`, `logfailed`, `touch`, `log`, and
what the route does with the answer: `result` and, for a verdict, `refetch`.  A
battery goes back to `find` for each item.  Other requests' ingests, re-saves
and deletes are `DocumentChanges` and `DocumentDeleted`, at any moment; they take
no thread of the pool in this module.  `threads`, the size of the pool, is chosen
in `Init` from `PoolSizes` and stays.
`DbFails` lets any statement of a request raise `psycopg.Error`: where the code
catches it, the request goes on (`Touch`, `LogQuery`); where it does not, it ends
with 503 (`DatabaseDown`).  What the slots hold is not in this module, and
whether an answer is scored right is a free choice.

### ProbeScan and QuoteWindows

A document is a function from positions to the word that begins there, or
nothing of interest.  `ProbeScan` is `recall_probe()` with one action per
iteration of its outer and inner loop; its pointers are positions of hits.
`Report` cuts the excerpt as the code does (`Cut`): from 40 characters before the stretch
to 60 after its last word begins, and of that the first 240.  The stretch may be
400 wide, so the excerpt need not show all of it: `ExcerptLocatesBest` says which part
it does show, the counted tokens that begin within 200 characters of its start.
`QuoteWindows` is `_best_fuzzy_ratio()` up to the scoring: one `Seed` per word, one
`Thin` per start, then the sample.  `difflib`'s score is data: a quote counts as
found when a window holds all of it, which is when its blocks can add up.

### GroundingGate and AgentMemory

The text work is data: `Found[d]` is the set of quotes `grounding()` finds in
document `d`, `Substantial` the quotes of at least `min_grounded_quote_chars`,
`Words[c]` the distinctive tokens of a claim and `Stretches[d]` the sets of tokens
that stand close together in a document, over which `RecallProbe` is computed.  What the language model answers
is any verdict with any quote, in each check anew.  `Evaluate` states
`GroundingGate.evaluate` under the default `Policy` by what the response shows
of the claim; `Decide` follows `cag_verify.py` in the order of its tests.  Two inputs
are treated apart in the code and so in the model.  A blank claim (`EmptyClaim`) the gate
blocks before it asks (`gate.py:156-157`); in the plugin both hooks return early on
it and `cag_remember` quarantines it.  `cag_verify.py` has no such test.  A response that is
no object (`NotAnObject`) the gate escalates (`gate.py:65-66`); in `cag_verify.py`
`data.get` raises, outside the `try`: exit status 1, as for any refusal, but no JSON.

A tool call passes `pre`, `run` and `post`, the host's pre-hook, tool and
post-hook, and calls interleave.  `config` holds the two environment switches,
the pinned document, whether the host honors a veto, and the memory files that
cannot be written; it is chosen in `Init`.  `_append` swallows the `OSError` and no
caller looks at what it returns: `Appended` leaves such a file alone and the call
goes on as if it had been written.
`evident` is a history variable: the claims some check supported with a quote
that is long enough and occurs in the document it was checked against.

### AnswerBudget

Admission (`_ingest` 334–354), the budget (`query` 443–474), one action per round
of each trimming loop, the clamp, and the return; `Reconfigure` restarts the
engine with another context size or slot count between any two requests.

## Runs

| run | instance | shows |
|---|---|---|
| `CagSlotMap` | 2 slots, 3 documents, 2 threads, 1 worker; the server's slot count changes | `SlotMapInjective`, `EvictionHasVictim`, `CachedFileExists`, `TypeOK`: every interleaving of ingest, query, re-save and delete, with evictions and with checks that raise; crashes and wipes, which this run leaves out, are covered by the proofs of the two |
| `CagFailures` | 1 slot, 2 documents, 2 threads, 2 workers; any server call may fail or time out | `HotMapTruthful`, `NoStrandedFile`; `NothingAbandoned`: whichever call fails, the lock is let go and the row gets an outcome |
| `CagModels` | 2 slots, 2 documents, 2 models, 2 threads, 2 workers; restarts, crashes, failing marker writes | `KvFresh`, `FilesTruthful`; `HotIsPersisted`: at rest a hot document's file exists and holds whatever of it the slot holds; and the refinement `ImplementsCache` |
| `CagFaults` | maintenance beside the engine: 2 slots, 1 document, 2 threads, 1 worker; eleven faults at once | `LockIsolates`: while a thread works under the lock nothing it has read changes, whatever fails; `SlotMapInjective` and `EvictionHasVictim` are proved for this composition |
| `CagDrains` | maintenance beside the engine: 1 slot, 1 document, 2 threads, 1 worker; server failures, lost replies, restarts, no crash; fairness | `SweepSparesClaimed`; once requests stop, every thread ends, the lock is free and nothing is left pending (`Drains`), and no orphan file is left (`OrphansSwept`) |
| `CagService` | a battery of 2 items about one document beside a query or a verification of the latest, 2 documents, a pool of 1 thread or of 2, 1 health check; any statement may fail | `LogAccounts`, `UsesCoverLog`, `AnswerKept`, `BatteryAddsUp`, `VerdictReadsItsDocument`, `TypeOK`; `HealthAnswers` under fairness, and `RequestsEnd`: whether a request waits for the other's thread or both meet at the lock |
| `GroundingText` | every document of 6 positions over 3 tokens, every set of tokens, a window of 3, an excerpt of 4 from 1 before the stretch; every document of 10 spots over 2 anchors, 2 quotes of length 8, caps of 5 seeds and 3 windows | `ProbeIsMax`, `ExcerptLocatesBest`, `SilenceIsReal`; `UncappedQuoteScored`, `RarestSeeded`, `SampleSpread` |
| `AgentMemory` | 3 claims, one of them blank, 2 editions of the canon, 4 quotes, 3 tools, 2 calls, all configurations, both files writable or neither | the four promises about the memory files; `PortAgrees` for claims that are not blank; `TypeOK` |
| `AnswerBudget` | slots of 150 to 400 tokens, 4 texts, 4 questions, histories of up to 3 turns, 3 answer lengths | `BudgetHolds`, `KeptIsLongest`, `ClampedAlone`, `AdmittedIsAnswerable` |
| `CagJunkResave`, `CagStaleRollback`, `GroundingSampled` | | one disagreement between code and text each, below |

A property of a passing run is paired with a mutant: a small plausible change of
one definition (a dropped re-validation, a mapping kept too long, a count in
place of a timestamp) under which the same run reports the property violated.
Mutants stand just before the definition they change.

## What the runs found

1. **A failing query can poison a cache file** (`CagJunkResave`, `cag.py:527`).
   The error path leaves the `with self._lock` block and then takes the lock
   again to unmap the slot.  A re-save that waits for the lock runs in between:
   its check that the slot still holds the document passes, and it saves a slot
   the failed completion left empty or half-known under `doc-<id>.bin`.  The
   test at `api/tests/test_cag.py:517-518` describes exactly this as the thing
   to prevent.
2. **A roll-back can restore another model's state** (`CagStaleRollback`,
   `cag.py:217`).  The memo answers for warms and re-saves after a restart on
   model 2, so model 2's state is saved beside model 1's marker.  Back on
   model 1 the forced check finds marker and model in agreement.
3. **A quote that is present may not be found** (`GroundingSampled`,
   `grounding.py:125`).  When more windows than `_WINDOW_CAP` survive thinning,
   every k-th is kept by position.  The seeds of the rarest word are among
   them, but nothing protects them from the sample.  `grounding.py:53-55` says that "the cap
   never skips the match by document position".  The same happens on the real
   code: in 3000 sentences that share a word of the quote, a quote with one word
   changed and with a first word that occurs nowhere else is reported as not
   grounded at every other position tried; in 300 sentences it is always found.

Observations without a run.  The first five differ from a text of the
repository and were seen in the models; the others follow from the code and no
text promises otherwise:

- A healed query may leave nothing on disk (`cag.py:784`): `_make_hot` maps the
  slot before it calls the forced check; the wipe clears the map, and the re-save
  after the answer finds the slot unmapped.  The document heals on the query
  after that one (`README.md:761-762` says on their next query).
- The slot-count guard stops guarding (`cag.py:217`): it sits behind the memo, so a
  server recreated with another `--parallel` under a running engine is sent
  completions (`cag.py:207-208`: "instead of routing a single request").
- The safety net has a hole (`cag_plugin.py:184`): the post-hook looks at three
  built-in tool names only, while its documentation promises it for memory
  tools the plugin does not know by name.
- The port rules otherwise than the gate on a blank claim.  `cag_verify.py:10`
  calls itself "a standalone port of cag_gate.GroundingGate"; the gate blocks a
  blank claim unasked ("empty claim", asserted by `test_gate.py:95-103`), while
  `cag_verify.py:86-97` sends it: an empty one is refused by the request model and
  escalates, one of spaces goes by the answer, which may even allow it.  `PortAgrees` leaves
  out blank claims for that reason.  On a body that is no object neither trusts, but the
  port fails without a JSON line where the gate escalates.
- With `"race"` in `CagDrains`, `SweepSparesClaimed` fails: a file saved again between
  the sweep's `stat` and its `unlink` is removed although it is young.

- `KvFresh` also fails in the instance of `CagStaleRollback` without
  `"rollback"`, with two models, once `/props` may be unreachable (`"props"`) or
  unnamed (`"anonymous"`) at the moment of the check, an unlink of the wipe may
  fail (`"unlink"`: the marker is rewritten all the same), a restart may fall
  between check and restore (`"race"`), or in native mode (`Shared = FALSE`,
  where there is nothing to glob).  With `"restart"` alone it holds.  Exchange
  `Faults` and `Shared` in `CagStaleRollback.cfg` to see each.
- An UPDATE that raises after a successful warm, or a crash, leaves a row
  `pending` that no later upload of the same bytes heals, since only failed rows
  are taken up again (`cag.py:319-323`).
- Two ingests healing the same failed row write its status last-writer-wins; a
  late `failed` can hide a good cache until the next ingest.
- `GET /stats` takes no lock but runs in the shared pool, whose threads may all be
  parked on the lock; only health has a limiter of its own.
- A database error at the lookup of a later item ends a battery with 503 and
  discards the items answered; a `LlamaError` there does not.
- A verdict with no `document_id` whose document is deleted before the re-fetch
  is a 404; the MCP tool then words it "No document with id None exists".
- The answer-gate flow without `document_id` resolves the latest document twice;
  its note tells the caller to pass one.
- `cag_remember` answers `stored: true`, and for a refused fact `quarantined: true`, also
  when the file could not be written (`cag_plugin.py:114`, `130`, `135`): the fact is then nowhere.
  `ConflictRecorded` therefore assumes a quarantine that can be written; a veto
  does not depend on it (`DirectIsGated`).
- Under `CAG_OVERRIDE_MEMORY` the post-hook also runs after `cag_remember` and
  quarantines, as a direct write, a fact the tool has just diverted itself.

## Bounds and fairness

- Documents, threads, workers, slots and models are small sets.  Two documents
  compete for one slot and three for two: an eviction needs one document more
  than there are slots.  Two threads and two workers allow every pairwise race,
  also of re-saves; the code has no step that waits for two others.  Three
  documents in `CagSlotMap` leave room for one worker.
- Maintenance beside the engine multiplies its states, so `CagFaults` and
  `CagDrains` have one document: the sweep looks at each file by itself, and what
  can go wrong is between the sweep and the processes that write that file.
- A document id is used once, as `BIGSERIAL` gives it out; when all are gone
  nothing more can happen, which is why the engine's configurations say
  `CHECK_DEADLOCK FALSE`.  `Drains` is what excludes a real deadlock there.
- `WorkersSuffice` admits a query only while a worker is free for the re-save it
  may start.  The code's thread supply is not limited; a failing thread start is
  the fault `"spawn"`.
- Models are numbered in the order they are deployed; a restart goes forward
  unless `"rollback"` is present.
- `MaxLines` keeps a new tool call from starting once the two memory files have
  that many lines; with two calls in flight there is room for the lines each
  hook adds.  The canon goes on changing, so deadlock is checked there.
- `MaxTurns`, `Text`, `Question`, `MaxTokens` are chosen around the boundaries:
  a document that exactly fills the limit with its name, the question of exactly
  `Reserve - MinFit` tokens and the next one, an answer larger than the reserve,
  a text of more characters per token than the pre-gate assumes.
- `CagService` has a battery of two items, so that a document can change, fail or
  be deleted between them, beside one other request; a pool of two threads, so that
  both can be parked before the lock while health is asked, or of one, so that a
  request waits for the other to give its thread back and a thread that is not
  given back is noticed; and a limiter of one health check.  Each request is sent once, which is why it says
  `CHECK_DEADLOCK FALSE`; `RequestsEnd` is what excludes a request stuck on the
  way.
- `GroundingText` takes every document over its positions.  In `QuoteWindows` ten
  spots let an anchor occur more often than the cap of seeds and leave more
  windows than the cap of windows, so each cap is both reached and not; the gap
  between spots makes neighbouring seeds fall within one advance of each other
  or not.  The document of the probe is one longer than its last hit, and the excerpt's
  cap is reached by some stretches and not by others, at either end of the
  document.  It ends when the text is read, hence `CHECK_DEADLOCK FALSE`.
- Symmetry is used only in runs without liveness: over threads, workers and calls,
  which nothing distinguishes, and in the engine over documents, each of which
  has a content of its own.

Fairness is stated where a run has a liveness property:

- `MaintFairness` (`CagDrains`) is weak fairness of a started thread's and worker's
  next step: the operating system schedules it, and every client call has a
  timeout, so a step that calls the server ends.  Arrivals, crashes, restarts
  and a change of slot count are not fair.  `Drains` and `OrphansSwept` are
  conditional on requests ceasing; a waiting thread needs only weak fairness
  because then finitely many threads compete for the lock.
- It is also weak fairness of the sweep: the n8n schedule sends `POST /maintenance`
  every night, and the loop over the files goes on.
- It is strong fairness of `Ages(d)`, that an hour passes after a file was written.
  Weak fairness would not do: whether the hour may be counted as over depends on
  where sweep and writers are, and a sweep every night makes that change forever.
- `CagService!Spec` is weak fairness of the steps of a request and of a health
  check.  The completion itself (`Infer`) is not fair: `query_timeout_s` is
  ten minutes, and `HealthAnswers` is to hold without its end.  `RequestsEnd`
  assumes that each completion ends.

## Proofs

Each theorem holds for any constants that satisfy the named assumptions of the
modules: at least one slot, disjoint threads and workers, `None` outside the
other sets, models that are natural numbers.

- `TypeCorrect` (`CagEngineProofs`): `Spec => []TypeOK`, for every set of faults.
  Helper lemmas give the type of each primed variable once (`TouchType`,
  `FilesType`, `CheckReturnsType`, ...); the step lemma has one case per action.
- `NothingStranded` (`CagEngineProofs`): under `FilesReliable` (shared directory,
  no crash, no lost reply to a save, no failing UPDATE or unlink), `NoStrandedFile`
  is invariant.  With `TypeOK` it is inductive: the pcs in `SettlingPc` are
  precisely the places where a process still owes the table or the disk a step.
  Each assumption is necessary: a crash between save and UPDATE strands a file.
- `NeverStale` (`CagCacheProofs`): under `FingerprintReliable`, `KvFresh`.
  `KvFresh` alone is not inductive, since a restore brings in what a file holds.
  `FreshInv` adds `Provenance` (a file's model is between the marker and the
  served model) and `RestoreIsSafe` (between a forced check and its restore, every
  file is the served model's).  `Provenance` needs models to go forward only: that
  is where a roll-back breaks the protocol.
- `LockDiscipline` (`CagEngineProofs`): a process in a critical section holds the
  lock, for every set of faults, hence no two are inside.
- `ErrorPathsSettle` (`CagEngineProofs`): under `UpdatesReliable` (no crash, no failing
  UPDATE), `NothingAbandoned`, through failing server calls, checks, unlinks and
  thread starts.  Both premises are necessary: either one leaves a row pending,
  and a crash is what the observation on `cag.py:319-323` is about.  With `LockHeld` it is
  inductive, because a step can orphan the lock or a pending row only at the thread that
  owns it (`AbandonStep`, `OthersStay`), so each action is looked at for its own
  thread alone.  `RestIsClean` draws the consequence: with no thread at work the
  lock is free and no row is pending.  `Drains` adds to this only that threads end.
- `LockProtects` (`CagEngineProofs`): `LockIsolates`, for every set of faults.  Half of the
  engine's steps run outside the lock (statements, unlinks, arrivals, thread starts);
  the proof sorts the steps into those that leave the map, the memo and the
  marker alone and those that, by `LockHeld`, no other thread can be under the lock for.
- `HotInOneSlot` (`CagEngineProofs`): `SlotMapInjective` for every set of faults.
  `MapInv` adds `WarmUnmapped` (a document being warmed is mapped nowhere but in
  the slot it is being warmed in): the mapping after a save is made from a slot chosen three steps earlier,
  and only the lock, by `LockHeld`, keeps others from mapping the document meanwhile.
- `OccupiedHasTimestamp` and `SlotAlwaysFound` (`CagEngineProofs`):
  `EvictionHasVictim` for every set of faults, and that `_slot_for` then has an answer.
  `VictimInv` adds `RanksDense`, that the ranks in use are the highest without a
  hole; without it touching a slot could push another's rank down to 0, which
  stands for no timestamp.  That is a fact about how the model represents
  timestamps, and the proof is what shows the representation sound.
- `FilesKeepTheirNames` (`CagCacheProofs`): under `NamesReliable` (no server call
  fails half-way, the slot count stays), `FilesTruthful`.  `NameInv` follows a
  state from where it is evaluated to where it is saved: a warm's slot is
  unmapped (`WarmClaimed`) and holds the document when the save comes (`WarmNamed`), and a
  mapped slot holds its document unless a query is filling it (`HotNamed`,
  `AnswerMapped`).  `"llama"` breaks it, as `CagJunkResave` shows; drift breaks it because two slots
  become one.
- `EngineIsACache` (`CagCacheProofs`): under the premises of `NeverStale` and
  `FilesKeepTheirNames`, `Spec => ImplementsCache`.  `CacheInv` is the conjunction of their
  invariants; with it, each action that moves state is a step of `DocumentCache`
  and every other one a stutter.
- `NamedFileExists` (`CagTruthProofs`): under `FilesLast` (`/props` and marker writes
  work, and restarts, if any, bring up the same model), `CachedFileExists`, through
  restarts, crashes, drift, failing calls,
  unlinks and updates.  `DiskInv` adds `MarkerVouches` (no check can find a reason to
  wipe) and, per process, that whoever unlinks has seen the row gone and whoever
  is about to name a file has written it (`Sound`).
- `HotIsHot` (`CagTruthProofs`): under `SlotsLast` (the server keeps its memory and
  its slots), `HotMapTruthful`, failing calls included.  `HotInv` says who answers for
  a mapped slot that does not hold its document: the query that is filling it, or
  the one whose completion failed there and has yet to unmap it (`HotKept`).
- `HotOutlivesEviction` (`CagTruthProofs`): under `ResavesLand` (completions, saves and
  restores succeed, the slot count stays, a re-save finds a thread), `HotIsPersisted`,
  through restarts on any model, wipes, crashes, lost replies, deletes, and failing updates,
  unlinks and checks.  What it says: the file exists, and holds whatever the slot
  holds of the document.  It does not promise that this is much: after a restart between chat
  and save both may be empty, and a forced check under another model wipes the file; either
  costs a recomputation.  `HotIsPersisted` speaks of a state at rest; `PersistInv` says what holds
  before: a mapped live document has its file, or a process `Backs` it, a query that
  recomputes it or the re-save such a query spawned.  A wipe empties the map with the files,
  which is why it may happen, and a file is unlinked only after its row is gone (`Aged`), which
  is why a delete may.  A re-save that finds no thread leaves a wiped file missing.
  `MatchInv` is the half about content: what a mapped slot holds the file holds, or there is no
  file, or a process `Backs` the entry (`MatchStep`: each action removes an entry, matches it
  afresh, or leaves it to whoever backs it).
- `MaintenanceSparesClaimed` (`CagMaintenanceProofs`): under `FilesLast` and without
  `"race"`, `SweepSparesClaimed`.  `SweepInv` follows the sweep's stale
  knowledge: between table and glob a row can come to name only a file younger than the
  grace period, because whoever owes the table a name has just saved
  (`NamedIsYoung`); what the loop may still unlink is claimed by nobody (`Unclaimed`).  It rests on
  `DiskInv`, carried through the sweep.  `"race"` lets a file be written between the
  look at its age and its unlink, a window of microseconds the code leaves open.
- `MaintainedEngineIsACache` (`CagMaintenanceProofs`): under the premises of `EngineIsACache`,
  `MaintSpec => ImplementsCache`.  Every step beside the engine's own is a stutter of the
  engine (`SweepOrEngine`), except the unlink, which changes one file
  (`SweepRemoves`) and is a `Remove` of the abstract cache.
- `PromisesSurviveMaintenance`, `IsolationSurvivesMaintenance` (`CagMaintenanceProofs`): `KvFresh`,
  `FilesTruthful`, `HotMapTruthful`, `NothingAbandoned`, `NoStrandedFile` and `LockIsolates` with the
  sweep beside the engine, each under the premise it has without it: the engine's
  invariants speak of what files hold, and none but `DiskInv` and `PersistInv` of there being one.
- `HotOutlivesMaintenance` (`CagMaintenanceProofs`): `HotIsPersisted` with the sweep beside the
  engine.  `PersistInv` cannot be carried over, since the sweep removes files that
  nobody names and a hot document's file might be one of them.  `NamedInv` says instead
  that the row of a mapped live document names its file, or a process is on its way to
  name it (`NamedBy`), and that a query still sees the name it has read (`FileRead`); what a
  row names the sweep spares.  `MatchInv` does carry over: a removed file matches any slot
  (`MatchSweep`).  The premises are those of `MaintenanceSparesClaimed` and
  `NamingsLand`: completions, saves and updates succeed and a re-save finds a thread.  With
  a failing save, a lost reply or a failing update TLC finds a hot document at rest whose
  file was never named and has been swept; the next eviction then costs a recomputation.
- `ShapeSurvivesMaintenance`, `MaintenanceTypeCorrect` (`CagMaintenanceProofs`): `SlotMapInjective`,
  `EvictionHasVictim` and the types, with the sweep beside the engine, for every set of faults.
- `CompletionsLogged` (`CagServiceProofs`): `LogAccounts`, for any number of requests,
  documents and threads and a database that fails as it likes.  `LogInv` adds `Course`
  (how many completions a request has behind it at each place, and that a battery
  keeps to one document) and `LogKeyed` (a row stands for one completion, one that is over): that
  is what makes the row a completion writes a new one, and what keeps rows apart when
  a delete takes their document away.
- `UsesNeverBehind` (`CagServiceProofs`): `UsesCoverLog`, counting the requests between their
  `touch_used` and their log row; with the pool, these are finitely many.
- `VerdictIsAboutItsDocument`, `AnswerReturned`, `BatteryReportsAll` (`CagServiceProofs`):
  `VerdictReadsItsDocument`, `AnswerKept`, `BatteryAddsUp`.  `ResponseInv` counts, for a battery on its way, the
  completion that is not scored yet (`Unscored`) and the one whose row is not
  written yet (`Open`), and says that a query has no failed row by the time it has an answer.
  `ServiceTypeCorrect` is `TypeOK`.
- `FilesKeepPromises` (`AgentMemoryProofs`): the four promises about the memory
  files, for any claims, quotes, canon and number of concurrent calls; direct writes of a blank
  fact are not gated and the properties do not count them.
  `MemoryInv` adds `RunIsGated` (a direct write about to run has passed its
  check) to bridge the pre-hook and the write.  `TrustedIsEvidence` is the
  lemma about the gate itself.  `VerifiedIsBacked`, `TwistsEscalate` and
  `DirectWritesAreGated` give three of them by name; `MemoryTypeCorrect` is `TypeOK`.
- `PortIsFaithful` (`AgentMemoryProofs`): `PortAgrees`, by cases over the response of
  the check of a call about to begin, for claims that are not blank; it rests on the
  rules and on no invariant.
- `PassIsExact`, `ExcerptLocates`, `SilenceIsExact` (`GroundingTextProofs`): the pass of
  the recall probe computes the maximum it is meant to, for any text, tokens and
  window.  `ProbeInv` says that `counts` and `distinct` describe the hits between the two
  pointers (`Counted`), that every stretch that ends before `hi` has been
  accounted for (`Bounded`), and that some stretch attains `best` (`Attained`).  That the cut
  around it shows its beginning is arithmetic on the ends of the slice (`CutShows`).
- `ThinningKeepsMatches`, `RarestIsSeeded` (`GroundingTextProofs`): unless a cap was
  reached, a quote one of whose words lies in its first quarter is scored as a whole
  wherever it stands; the rarest word is seeded whatever is cut.  `WindowsInv` says that a start dropped by thinning has
  a kept one within an advance before it (`NoneLost`), and the arithmetic that a
  quarter and an advance stay within the half quote a window has to spare is `LengthsOK`.

- `SampleIsSpread` (`GroundingTextProofs`): `SampleSpread`.  `SpreadInv` keeps the starts strictly
  increasing while they are thinned; that every k-th of a sequence misses less than a stride
  between two kept ones is arithmetic on positions, stated as lemmas.
- `BudgetKept`, `LongestHistoryKept`, `HistoryGoesFirst`, `AdmittedIsAnswered` (`AnswerBudgetProofs`):
  the four properties of the budget, for any documents, questions, geometries and
  histories of any length; `RefusedAlone` adds that a refused question would not fit even alone.
  The code carries a running sum through two loops; `BudgetInv` says that it is the cost of
  what is left (`SpentIsCost`), that what was dropped could not be kept
  (`TrimsUnusable`), and where the second loop stops (`Settled`).  A history that fits
  still fits when the second loop takes a leading answer from it, since no turn
  costs less than nothing.
  The model adds up with a fold.  That the cost of a history is the cost
  of its first turn and of the rest (`CostTail`) is derived from the fold's definition in
  the library by the minimum principle on the naturals: a least counterexample does what induction
  would.

Only model-checked: `Drains`, `OrphansSwept`, `HealthAnswers`, `RequestsEnd`.  Liveness under
fairness is outside the prover's reach.  Every invariant and action property of
a passing run, and the refinement, is also a theorem.

## Not modelled

- Data: tokenization, prompt text, answer text, text extraction, JSON parsing, the
  normalization of text, `difflib`'s score, `_score_answer`.  Where a decision depends on
  them the models take every outcome.
- The aggregates and `stats`: reads that no decision of the engine depends on.
- Appends to the memory files that fail now and then: a file of `AgentMemory` can be
  written for the life of the plugin or not at all, which is what a wrong path
  or a missing permission gives.
- The upload reader of `main.py` with its size cap, and validation of requests:
  they reject before any state changes.
- The gate client and the MCP server and client: stateless, one request per call; the
  outcomes of a request are in `GroundingGate` and `CagService`.
- The CLI: a sequential program over `.env`, containers and one converted file.  Its
  hazards have no second actor (a `.partial` left by a killed conversion and
  published by the next, at `llamacag.py:453`; `setup --force` rewriting `.env`).
- n8n workflows, web UI, configuration parsing, containers: no protocol of their
  own.  What deployment makes possible is in `Faults`, and the nightly schedule is
  in `MaintFairness`.

## Plan

1. *Done*: the engine with server and table, its safety and liveness runs; the
   gate and the plugin around it; the budget; their first theorems.
2. *Done*: maintenance beside the engine, with ages, a grace period and the
   counterpart of `NoStrandedFile` under lost replies (`OrphansSwept`).
3. *Done*: the abstract cache, the refinement checked and proved.
4. *Done*: the windows of the fuzzy match and the recall probe's pass against
   what they are meant to compute, checked and proved.
5. *Done*: requests, verification, calibration and the query log around the
   completion, beside deletes and health.
6. *Done*: the truth of the slot map and of the table, the eviction's victim, the
   port.
7. *Done*: proofs that what the map holds is on disk, that the sweep spares what is
   claimed, and of every invariant of `CagService`.
8. *Done*: proofs of the budget and the sample, of the error paths and of the
   isolation the lock gives, and of the engine's promises with maintenance
   beside it.
9. To do: names counted by the tokens of the prompt they
   stand in, in `AnswerBudget`; the bounded upload reader.
