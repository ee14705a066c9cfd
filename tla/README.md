# Paritran: a TLA+ verification project

Paritran turns complaints into evidence packets: a FastAPI process runs a
nine-stage pipeline in worker threads, streams its events to browsers, stores
its results in PostgreSQL and anchors every consequential act in a hash-chained
audit ledger.  This directory holds TLA+ models of the parts whose correctness
depends on the order in which things happen, and of the pure algorithms they
call, the TLC configurations that check them on small instances, and theorems
about them checked by TLAPS.

Paths below are relative to the repository; `B/` stands for
`backend/paritran/`.

## 1. The system

| Component | State it keeps | Operations | Talks to |
|---|---|---|---|
| Audit chain: `B/db/migrations/001_schema.sql`, `B/db/repo.py`, `B/db/seed.py`, `B/api/main.py` (lifespan, metric) | table `audit_log`, its sequence, table `users`, one advisory lock, the chain-head metric of each api process | hash-chain trigger, `append_audit`, append hooks, `seed_users`, priming of the metric, `verify_audit_chain` | every writer of audit rows; several api processes share the database |
| Event channels: `_append`, `_emit`, `subscribe`, `unsubscribe`, the generators of `B/api/sse.py` and `B/api/routers/demo.py` | `entry.events`, `entry.queues`, one snapshot and one queue per stream | record, open, subscribe, replay, tail, close, disconnect | the run registry and the demos record; browsers read |
| Run registry: `B/api/runstore.py` | `_runs`, one `RunEntry` per run, the mapper cache | `start_run`, `drive`, `_execute_and_persist`, `_evict_old_runs`, `get_mapper` | worker threads post callbacks to the event loop; persistence |
| Demo orchestrator: `B/demo.py`, `B/api/routers/demo.py` | `_demos`, one `DemoEntry` per demo | `start_demo`, `_orchestrate`, `_reject_one_link` | starts a run, waits for its task, reads its artifacts, appends to the chain |
| Pipeline: `B/pipeline.py` | local to a thread | nine stages, degradation of the mapper and of F9, the errors that refuse a packet | calls the engine, emits events |
| Persistence and reads: `B/db/persist.py`, `B/eval/harness.py`, `B/api/routers/networks.py`, `cases.py` | ten tables | `persist_run`, `_write_eval_run`, one transaction each; endpoints that answer from memory | called by the worker thread |
| Process start: `B/api/main.py` (lifespan), `B/db/migrate.py`, `B/db/seed.py` | `schema_migrations`, the schema, `users` | secrets gate, `run_migrations` under a session lock, seeding | the database, other starting processes |
| Authentication: `B/api/auth.py`, `B/api/deps.py` | none (stateless tokens) | login, refresh, role gates, rate limit | browser, every endpoint |
| Auditor tools: `B/api/routers/audit.py` | scratch table | chain pages, verify, tamper test | the audit chain |
| Engine: `B/engine/` | none | linkage, money trail, triage, mapping, F9 gate, custody chain, packet | pure functions |
| Committed prototype: `src/paritran_prototype.py` | none | the single script the engine was ported from | the reference of `tests/test_reproduction.py` |
| Extraction and generation: `B/engine/synthetic.py`, `ner.py`, `ingest_ocr.py`, `B/engine/legal/semantic.py`, `B/llm/` | model caches | generator, NER, OCR, embeddings, model server | external software |
| Browser client: `frontend/src/lib/api.ts`, `sse.ts` | `sessionStorage`, `refreshInFlight`, one state per stream | login, logout, `refreshOnce`, `apiFetch`, streams that reconnect | REST and SSE |
| User interface, deployment, scripts | none of interest | rendering, packaging | |

What is hard, and what makes each part correct:

- **Audit chain.**  Transactions of several processes insert at once, abort
  after drawing a sequence number, die between a user and its audit row, or
  lose the acknowledgement of a commit.  Correct means: the committed rows are
  one chain in `seq` order, rows become visible in that order, each user is
  seeded once, nothing is announced that can still roll back, and nobody waits
  forever for the two kinds of lock.
- **Event channels.**  Events are recorded while a stream replays, and the list
  behind the snapshot is freed while it is served.  Correct means: a stream
  forwards exactly the events since the first it was given, and ends with the
  terminal one.
- **Run registry.**  A thread, its callbacks on the loop, the task that awaits
  it and evictions by newer runs touch one entry.  Correct means: status,
  events, artifacts, results and database rows tell one story, and each run
  ends.
- **Demo.**  A narrator reads what another thread is writing and claims that an
  audit row exists.  Correct means: it narrates a completed run, and what it
  claims is in the chain.
- **Pipeline and engine.**  Nine stages hand their products on, two of them
  degrade, and what a run found is told in events, results, endpoints, packet
  and rows.  Correct means: the stub path reproduces the prototype, money is
  conserved, labels say what ran, and packet, endpoints and rows tell one story.
- **Process start.**  Several processes start on one database, the files may be
  redeployed meanwhile and any of them may die.  Correct means: each migration
  body takes effect once, nobody serves half a schema or a left-over password,
  and no start hangs.
- **Requests.**  Tokens expire, rows are appended between the three
  transactions of a tamper test.  Correct means: every row of the chain is the
  deed of somebody who may do it, and a report is always of a break in the
  middle of a chain that itself verified.
- **Browser client.**  Calls and streams share a refresh across logouts and
  logins, the page is reloaded, the answer of a refresh is lost.  Correct means:
  one refresh at a time, no token presented again after it brought its new pair,
  no call left waiting, no sign-out without an attempt.

## 2. Modules

| Module | What it is |
|---|---|
| `AuditChain` | the ledger: one action per statement of the trigger, the transactions of `append_audit` and `seed_users`, the metric, aborts, lost replies, crashes |
| `AuditLedger` | the abstract promise: a sequence that grows at its end |
| `AuditChainRefinement` | `AuditChain` implements `AuditLedger` |
| `Ordering` | sequences by position: `sorted`, a list comprehension with a condition, a count; written so that they can be proved about |
| `EventLog` | one kind of channel, used for runs and demos, with the stream generator; `LogSpec` is also the abstract specification the registry implements |
| `RunStore` | extends `EventLog`: registry, thread pool, worker body, loop callbacks, persistence |
| `Demo` | extends `RunStore`: the demos and their narrators |
| `Synthetic` | the bundles the generator can produce |
| `Linkage`, `MoneyTrail`, `LegalMapping`, `F9`, `Custody`, `Packet` | the engine, one module per directory, as operators over a bundle |
| `RunViews` | what a completed run turns into: endpoint answers and rows |
| `Pipeline` | the nine stages; extends the modules above |
| `Prototype` | the committed script as a reference definition, instantiated by `Pipeline` |
| `Migrations` | the runner under its lock, with redeployment and death anywhere |
| `Access` | token pairs and role gates |
| `TamperTest` | scratch copy, corruption and walk as operators on a chain |
| `Service` | extends these three: start of processes, sessions, writers, tamper test |
| `ClientSession` | the browser's session, refresh, calls and streams |
| `..._proofs` | the theorems about the module of that name; those about `Migrations`, `Access` and `TamperTest` are in `Service_proofs` |
| `DataTheorems` | lemmas the proofs share: induction over numbers and finite sets, finite sums, sequences in an order, best elements |
| `MC...` | instances for TLC |

Composition is by EXTENDS, with the shared step conjoined to the step that makes
it, as the code calls a function: `RunStore` and `Demo` conjoin `Record` of
`EventLog` to what emits, `Service` conjoins `Migrate` and `End` of `Migrations`
to what a process does around them, `Pipeline` applies the engine's operators in
its stages.  Two seams are abstract on purpose.  `Demo` and `Service` reach the
audit chain through single steps with the outcomes `AuditChain` gives an append:
that is what the refinement of `AuditLedger` shows.  `RunStore` keeps of the
pipeline what the registry can tell apart: `NStages` events, `run.completed`, an
outcome.

### AuditChain

The grain is a SQL statement: PostgreSQL runs each at READ COMMITTED, so
statements of several transactions interleave and each sees the rows committed
before it plus its own.  `LockChain`, `DrawSeq` and `InsertRow` are the three
statements of the trigger; `CommitSeed`, `CommitAppend` and the rollbacks go
through `EndTx`, which frees the advisory lock with the transaction.  A
transaction is named by its process, since a handler or a starting process has
one at a time.  `ON CONFLICT DO NOTHING` waits for another transaction's
uncommitted row of the same username (`CanInsertUser`).  SHA-256 is a free
constructor, so hashes are equal only if their preimages are.  The unique index
on `prev_hash` is not a guard: `NoFork` says it never has anything to reject.
UPDATE, DELETE and TRUNCATE are forbidden by triggers and grants, so there is no
such action.

### EventLog, RunStore, Demo

Everything in these modules that runs on the event loop without an `await` is
one step.  `stored` is `entry.events`; `emitted` is a history variable that
eviction does not clear.  The handler that finds the entry (`Open`) and the
generator that subscribes (`Subscribe`) are two steps, as the server runs them.
A worker thread is a program counter (`worker`) that never touches the events;
it appends callbacks to `posted`, and `Deliver` or `Resume` runs the oldest.
The eviction at registration is part of `StartRun`.  Persistence can raise
before or after its commit (`PersistFails`).  The order of events inside the
pipeline and their payloads are abstracted to `NStages` events followed by
`run.completed`.  In `Demo` the barrier is `Barrier`, and a demo whose run was
evicted meanwhile takes the branch of the code that finds no edges.

### Pipeline and the engine

An action of `Pipeline` is a stage: it emits its events and adds its product to
`art`, which stands for the local variables of `execute` and later for
`PipelineArtifacts`.  The engine's functions are operators of a bundle.  What
they compute is kept (who is linked, which sections come out, how much is
traced, what the gate withholds); what they are computed from by numerical or
textual means is a constant or a choice:

- a draw of the generator is a free choice within the range it draws from
  (`Generated` in `Synthetic`);
- the modularity search returns some partition of the graph into connected
  blocks (`Communities`);
- BM25 scores, cosines, matched rule groups and the verbatim test of the bare
  acts are constant functions of a text or a quote, and the matched threshold a
  constant;
- the model server's answer is any member of `Replies`, or it is unavailable;
- figures that the code rounds are rounded to the nearest integer of the same
  scale, ties up.

A packet error ends the run after its stage has started (`PacketRaises`), and
`OnlyEmptyRunsFail` shows which of the possible errors is real.  `Prototype` is
written from the script and not from the engine, with its own control structure
(one pass, its own counters), so `ReproducesPrototype` compares two
translations.

### Migrations, Access, TamperTest, Service

`Migrations` has an action per statement of `run_migrations` that the database
can see: waiting for the session lock, ensuring the role, ensuring the table of
records, reading it with the directory, then per file the checksum comparison
and the transaction of body and record, and the release.  `Deploy` adds or
changes a file at any moment, so a runner can work on a listing that is no
longer the directory.  `End` is a failure, a crash or a shutdown: it frees the
lock and rolls back the open transaction, as PostgreSQL does when a connection
ends.  `schema` is a history variable: the bodies that took effect.

In `Service` a start passes the secrets gate, migrates, seeds and serves; a
second start may run with other settings.  Tokens are records; an expired one is
simply not held any more.  The tamper test is the three transactions the handler
makes, with its state in `job`, and other rows can be appended between them.
Decisions and intake artefacts are one action (`Write`): same gate, same append.
The row a supervisor's demo appends later is in `Demo`.
The sequence numbers of the chain have gaps (`NextSeq`), because a rolled back
append keeps its number: the middle row is found by position and reported by
number, and the two must not be confused.

### ClientSession

JavaScript runs one task at a time, so an action is one task: a click or an
answer from the network with all that it sets off, including the resumption of
everybody who awaits the same promise.  `refreshInFlight` names whose promise
the module variable holds, and `trip` says whether that caller's round trip is
open, so a promise that has settled and was not reset is a reachable state and
not a special case.  Token pairs are numbers in the order the server issues
them.

A refresh has two halves.  `Exchange` is the server's (`B/api/auth.py:136-138`):
it keeps no session, so it issues a pair for every request it handles whose
token has not expired, also when the browser has given that request up.
`RefreshGranted` is the arrival of that pair.  `RefreshFailed` is every other
end of the round trip as the browser sees it (`api.ts:171-180`): a refusal, a
connection lost on the way there or back, a body that cannot be read.  It may
therefore come before or after the exchange.  Only a call that waits clears the
session then; when just a stream waits, the old pair stays stored and its token
is presented again by the next 401.  `Reload` ends every request of the page and
keeps `sessionStorage`.  `requests` counts the refresh requests that the server
may still handle; one that is lost is one that it never handles.

The answers to other requests are computed when they arrive; since tokens only
ever expire, a request refused earlier is also refused then.  The pair of a login
whose answer is lost is one nobody ever holds (`LoginFailed`).

## 3. Runs

| Run | Instance | Question |
|---|---|---|
| `AuditChain_safety` | 2 processes, a handler in each, 2 users, 3 appends, 3 starts, 2 faults | the inductive invariant (`LedgerInv`) and all safety properties; refinement of `AuditLedger`; appends and starts end |
| `AuditChain_metric` (violation) | 1 process, 2 handlers | is the metric the latest row? |
| `RunStore_safety` | 2 runs on 2 threads, registry of 1, 1 stream, 2 faults | status, events, artifacts, results and rows agree; the inductive invariant; the registry implements `LogSpec` |
| `RunStore_live` | 1 thread, registry of 1 | runs and retained streams end |
| `RunStore_evicted` (violation) | the same, no faults | does every stream end? |
| `RunStore_tag` (violation) | 1 run, both generators | is the tag of an eval row honest? |
| `Demo_safety` | 2 demos, 2 runs, registries of 1, 1 fault; the demos are symmetric | what the beats say is true; the inductive invariant |
| `Demo_live` | 1 demo, 2 runs on 1 thread, 1 fault | demos end |
| `Pipeline_runs` | 2 syndicates, 3 complaints and 1 noise complaint, 5 sections, 3 families of bundles, both generators, both mappers | are the results those of the prototype, is value conserved, are labels honest, do packet, endpoints and rows agree? |
| `Service_safety` | 2 processes, 2 files, 3 users, 4 environments | is each body applied once, who serves, what reaches the chain, what does a tamper report say, do starts end? |
| `ClientSession_safety` | 2 calls, 1 stream, 3 token pairs, 1 dropped connection | the inductive invariant (`SessionInv`); refreshes are shared, a token that brought its new pair is not presented again, calls end |
| `ClientSession_attempt` (violation) | 2 calls at a time, 3 calls | does a 401 trigger a refresh attempt? |

**Bounds.**  `MaxRequests`, `MaxStarts`, `MaxEnds`, `MaxDeploys`, `MaxLogins`,
`MaxExpired`, `MaxFaults`, `MaxPairs`, `MaxCalls` and `MaxDrops` cap how often
something happens from outside; `NStages`, `Threads`, `MaxRows`, `MaxSkipped`
and the two `MAX_RETAINED` constants cap sizes.  Each is chosen as the smallest
with which the interesting case happens.

- *Audit chain.*  Two processes, two users and three starts give two concurrent
  seedings, one of them restarted after a crash; the third append extends a
  chain with a gap.
- *Registry and demos.*  A registry of one makes every second start evict a run
  that is still executing, and a second demo evict the first.  One thread for
  two runs makes one of them wait; two threads make them race for the mapper
  cache.
- *Session.*  Three token pairs allow a login, a refresh and a second login or a
  second refresh; or an exchange whose answer is lost, and a second exchange of
  the same token whose pair arrives.  For that one dropped connection is enough:
  the stream's refresh is lost, the call's repeats it.
- *Service.*  Two starts make two runners compete for the lock, or one follow a
  dead one; one end is enough to kill a runner between any two statements; one
  deployment adds a file between two listings or changes one that was applied.
  Two logins give an auditor and an officer, one expiry ends their access tokens
  and leaves the refresh.  Three rows come from the seeding, so five leave room
  for a deed during a tamper test and for its report; one skipped number makes
  position and number of a row differ.
- *Pipeline.*  A network of two complaints is the least with an inside link, and
  a third complaint is near, far from or bridging it.  The first family of
  bundles varies every identifier the complaints can draw, with bleed between
  the syndicates, the second every ledger and every mule paid into (all subsets
  of the edges, so every break), the third every language with every mapper and
  generator.  The five sections include the evidence provision and a pair that
  ties, and the replies of the model include a bracketed section, a malformed
  item, an invented section, empty fields, no array and no answer.

The theorems lift the bounds of all of these: every invariant, action property
and refinement below holds for any number of actors, rows, events, bundles and
faults.  Only the liveness properties rest on the instances.

CHECK_DEADLOCK is FALSE everywhere: each of these systems may stop when users
ask for nothing more, and a pipeline run is over after its last stage.

**Fairness.**  In `AuditChain`, a statement that can run does run (weak), and the
two waits are strong because PostgreSQL queues the waiters of a lock; nothing
obliges requests, starts or faults.  In `RunStore` and `Demo`, threads that
have a place run, the loop runs its callbacks, the generator of a connected
client is resumed, and dwells end (weak); the pool's queue is first in first
out, so waiting for a thread is strong.  In `Service` a start goes on by itself
(weak, on `MigrateStep` and `Seed`); weak is enough for its wait for the lock,
because no more than `MaxStarts` starts can overtake a waiter.  In
`ClientSession` every request is answered or fails (weak); the user, the clock
and the streams are free.

**Mutants.**  Each property of a passing run has a variant of the code under the
comment "Mutant" that breaks it: a lock that is not awaited, a snapshot that
misses what is recorded during replay, a status that flips early, an error that
is swallowed, a file recorded outside its transaction, a corrupted row reported
by its position, a section counted for every complaint, a refresh that is not shared or leaves
the old token stored, a queue of waiting calls that a failure does not resume,
and so on.  They are never part of a specification.

## 4. Where documents and code disagree

1. `AuditChain_metric`: the help text of the chain-head metric says "head_hash
   and seq of the latest row" (`B/api/main.py:241-242`).  Hooks run after the
   commit in the order coroutines resume, so the metric can stay on an older
   row.
2. `RunStore_evicted`: a stream that starts after its finished run was evicted,
   and after its handler found the entry, replays nothing and never ends
   (`B/api/sse.py:65-66` promises both).
3. `RunStore_tag`: a run that degraded to the stub is tagged with the Ollama
   model (`B/eval/harness.py:69-70` promises the contrary).
4. `ClientSession_attempt`: a missing refresh token leaves a settled promise in
   `refreshInFlight`, and in the next session a 401 signs the user out with no
   refresh attempt (`frontend/src/lib/api.ts:5-7` promises one).

Read while modelling, and not the subject of a run because no state of a model
depends on them:

- `B/llm/ollama_client.py:14-15` says that callers report `parse_errors` next to
  the F9 numbers; nothing reads the attribute.
- `B/pipeline.py:469` emits the metric `f9_withheld_stub_fabrications` for a
  live model too, where the comment at 584-586 reserves that name for the stub.
- The docstring of `lifespan` (`B/api/main.py:79`) says seeding runs over
  `ADMIN_DATABASE_URL`; `B/db/seed.py:52` connects over `DATABASE_URL`.

## 5. Proofs

All theorems hold for every value of the constants that meets the named
assumptions: `ProcAssumption` and `SeedAssumption` (transactions have distinct
names, users are listed once), `BoundAssumption`, `TerminalAssumption` and
`NoneAssumption` (terminal events are events, the null value is not a channel),
`RegistryAssumption` and `DemoAssumption` (runs and demos are channels and no
demo is a run; the terminal events of each are its own two; the null value is
not a result), `MigrationAssumption` (file names are listed once), the three
users of `ServiceAssumption` (as many as `MIN_TAMPER_ROWS`), `ClientAssumption`,
and those of the engine: `SyntheticAssumption` (sizes of the generator),
`LinkageAssumption` and `TrailAssumption` (a network has two members, the cap is
positive), `LegalAssumption` (each corpus lists a section once, scores are
numbers, the golden sets are not empty), `F9Assumption` (the phrases of the stub
are verbatim in the frozen corpus, its paraphrase and its invented section are
not), `PipelineAssumption` (a run is of a generated bundle, every text that can
be generated has scores, the tampered index is a record).  TLC evaluates them in
the runs.

A theorem about data is proved by induction over sets: a lemma takes the set of
the instances it is about (`NatInduct`, `FiniteInduct` in `DataTheorems`),
because a lemma with an operator parameter cannot be instantiated by the provers
used here.  From these come the facts about sums (`SumFunction` over a set that
grows by one element, is split, or is grouped) and about `Listed`, which puts an
element of a strictly ordered finite set at the place its predecessors leave it:
it enumerates the set, each element once, and is the only sequence that does so
in that order.

**AuditChain_proofs.**  `ChainVerifies` is not inductive: it says nothing of the
rows still pending, nor of who may add one.  `IInv` adds that whoever has drawn
a number or inserted a row holds the lock (`LockInv`); that numbers grow along
committed and pending rows together, and a number about to be used is above all
of them (`OrderInv`); that those rows form one chain with distinct hashes
(`LinkInv`); and that a username is new in at most one transaction, whose audit
row exists or is being inserted (`SeedInv`).  Lemmas about heads of finite sets
of rows carry the chain through the insertion of a greatest row; there is one
step per action and one per part of `IInv` that the action can disturb.  From
`Invariance` follow `TypeCorrect`, `AlwaysVerifies`, `ForkFree`, `SeedsOnce`,
`AnnouncesCommitted` and, as an action property of every step, `CommitOrder`.

The refinement needs more.  `AuditLedger` appends a whole seeding at once, in
the order the code lists the users, so what a seeding transaction holds when it
commits has to be exactly the announcements of the users not seeded before, in
that order.  `SeedTurnInv` (with `IInv` it is `LedgerInv`, proved in
`LedgerInvariance`) says where a seeding stands: the users before `nextUser` are
committed or new in this transaction, the row being inserted announces the last
of them, and the rows inserted so far have the order of their users.
`LogInTurn` and `EntriesAre` read the ledger off the table, each row once and by
`seq`; `CommitEntries` shows that the rows of a commit come after all rows
committed before, so that the entries only grow at their end; `OneInTurn` and
`SeedsInTurn` say what they grow by; and since positions of committed rows do
not move, an acknowledged position stays acknowledged.  `LedgerStep`
has one case per action: `CommitAppend` records an entry, `CommitSeed` the
missing ones, `RunHooks` and `HookFails` acknowledge, and every other action is a
stutter of the ledger.  `LedgerImplemented` follows.

**EventLog_proofs.**  `NothingLost` relates a stream to the events recorded since
its first, so it needs that the stored list is a suffix of the history and that
nothing follows a terminal event (`StoredInv`), and what a stream can hold in
each phase (`PhaseInv`).  `LogInv` is their conjunction.  Lemmas about suffixes
and concatenation come first; recording, subscribing, replaying, forwarding and
closing each have their own lemma.  `StreamsLoseNothing` and
`ClosedStreamsAreComplete` follow.  They hold of any recorder that respects
`LogSpec`.

**RunStore_proofs.**  The four properties of the registry are not inductive,
because a worker that has finished and a loop that has not yet heard of it
disagree.  `RunInv` says what they agree on.  `StoryInv`: the recorded events of
a run followed by the callbacks still posted end as the place of its worker
says, and hold no terminal event before that.  `WrittenInv` and `RowsInv`: what
the entry claims about results and rows where the worker is.  `MapperInv`:
whoever has a mapper has the cached one, and results carry its label.
`ServedInv`: a registered run with results has its artifacts.  The first
consequence is `ImplementsChannels`: nothing is recorded in a run that is over,
so every step of the registry is a step of `LogSpec` or a stutter, and
`RunStreamsLoseNothing` follows from the theorem about the channels.  The other
four properties follow from `RunInv` directly.

**Demo_proofs.**  `DemoInv` adds to `RunInv` what a demo has emitted and written
where its task stands (`NarrativeInv`) and that no event of a demo is ever
dropped (`WholeInv`: eviction removes a demo from the registry and keeps its
events).  A run that completed stays completed, so what a beat quoted remains
true.

**Service_proofs.**  `MigrationInv`: who
works on the schema holds the lock (`LockInv`), so what it read as recorded is
still recorded for the files it has still to do (`LoopInv`), and the body in
its open transaction is of a file without a record (`RecordInv`).  `SchemaInv`
follows a shipped file from the listing to its record.  `GoodChain` is what the
trigger builds: linked rows whose numbers grow; `BreakAtCorruption` shows that
on any such chain of at least three rows the walk over the corrupted copy breaks
at the corrupted row and that it has a row on either side, whatever the length
and the gaps.  `ServiceInv` joins both with the users (seeded all or none), the
tokens (only of seeded users, in their role), the jobs (a finished scratch test
broke at a row that is still where it was) and the environments.  Each action of
`Service` is shown to be a step of `Migrations` or to leave it alone.

**ClientSession_proofs.**  `SessionInv` adds to the types that the only open
round trip belongs to the promise in flight (`OneTrip`), that a pair is
exchanged for a later one (`Ancestry`), that the stored pair has not brought a
new one (`Unspent`), and that a pair on its way to the browser answers the open
round trip, is not stored, not presented and nobody's parent (`Fresh`): without
the last, the arrival of a pair could store one that is already used up.
`TypesKept`, `SharesOneRefresh`, `NobodyWaitsInVain` and `RenewsOnce` follow.
`RenewsOnce` does not say that the server exchanges a token once: it does so as
often as answers are lost.  It says that at most one of those pairs arrives, and
that the token is not presented after that.

**Pipeline_proofs.**  `PipelineInv` says of a run after n stages which fields it
has, what it has emitted, and that each field is what its stage computes from
the fields before it (`ProductInv`); `PipelineIsInductive` has one lemma per
stage.  What is left is to show, of the products, what the properties claim of
them.  `IsBundle` keeps of a generated bundle what those arguments use: the
complaints are numbered from 0, a fraud pays into a mule of the first layer of
its syndicate, and noise shares no identifier with anybody.

- `RunsFailOnlyEmpty`: a connected block of two or more complaints holds no
  noise, so a network has a ground-truth majority; and sections come from the
  corpus, so the packet is never refused.
- `RowsAsServed`, `PacketServed`: members of networks are complaints of the
  bundle, each network's majority has a trail and a place in the triage queue,
  a section of the packet was mapped for a member, and every verdict of the gate
  is either passed or withheld for one of the two reasons.
- `LabelsHonest`: the evidence provision is not a candidate of any ranking; the
  stub, label and corpus go together in every branch of `RunGate`.
- `ValueIsConserved`: a complaint of a syndicate reaches cash-out exactly if its
  mule pays the second layer and the second layer pays out (`HasPath` in a
  ledger that only has those edges); so the hops into cash-out add up to the
  traced value, and the hops into a break to the rest.  Sums over complaints are
  regrouped by mule and then by syndicate (`SumGroups`).
- `CustodyBreak`: hashes are equal only if record and predecessor are, so the
  links of an altered chain hold except at the altered record.
- `PrototypeReproduced`: figure by figure.  The walk of the prototype, edge by
  edge, is `HasPath` again; counting pairs by position agrees with counting them
  by identity because complaints are numbered in order; a section ranked second
  or better is one that at most one other beats; the script's carried hashes
  differ from the record that was altered on; and its sums go over positions
  where the engine's go over complaints.

**Only model-checked.**  Liveness: `AppendEnds`, `StartupEnds`, `RunEnds`,
`RetainedStreamEnds`, `DemoEnds`, `CallsEnd` and `StartEnds`, because fairness
and ENABLED are beyond the prover used here; and the four claims of section 4,
which do not hold.  `PipelineInv` is the invariant of a proof and not of a run.
RECURSIVE operators are not used in any module a theorem depends on.

## 6. Abstractions, and what is not modelled

- **Service.**  `RUN_MIGRATIONS_ON_STARTUP` is true, as in the compose file.  An
  append, and the seeding transaction, are single steps (see `AuditLedger`).
  The primary key of `schema_migrations` is not a guard: `MigratedOnce` says it
  has nothing to reject.  Decisions and artefacts are one action.  Access tokens
  expire together.  JWT signing, argon2, the clock and the counters of the rate
  limiter are left out: a token that does not verify is one nobody holds.
- **Pipeline.**  Metric events, latencies and free texts are left out; see
  section 2 for what is a constant or a choice.  A model server that fails
  degrades the run; any other exception out of it, such as a `RecursionError`
  on a reply nested too deeply, ends the run, which is `PipelineRaises` of
  `RunStore` and has no counterpart in `Pipeline`.
- **Extraction and generation.**  The extractor finds what its patterns cover
  together; the patterns one by one, OCR, embeddings and the random generator
  are regular expressions, floating point and external software.
- **REST reads** that only list rows, the metrics page, the security headers.
  What the reads of runs rely on is `CompletedIsServed` and `PersistedAsServed`.
- **Browser.**  One tab: a duplicated tab copies `sessionStorage` and refreshes
  on its own.  Left out are reconnection by timer (`autoReconnect`), the status
  stream and the recent-runs list; rendering; deployment; scripts; static sites.
- `reset()` of the registry and of the demos, which only tests call, and the
  Prometheus counters, which nothing reads.

## 7. Plan

Done, in this order: `AuditChain` with its refinement and proofs; `EventLog`
with its proofs; `RunStore`; `Demo`; `ClientSession` with its proofs; the engine
and `Pipeline` against the prototype; `Migrations`, `Access`, `TamperTest` and
`Service` with their proofs; the proofs of `RunStore` and `Demo`; the proof of
the refinement of `AuditLedger`; the proofs of `Pipeline`.

Left, most important first:

1. A refinement of the pipeline part of `RunStore` by `Pipeline`: its stages map
   to the abstract ones, its errors to the raise of the worker.
2. The seam between `Demo` or `Service` and the audit chain as a theorem: their
   single steps on the chain are steps of `AuditLedger`.
3. `autoReconnect` in `ClientSession`, with its timer and its attempts.

Runs stay few: a later component shares a run with another where one
configuration can ask both questions.

## 8. Running

    tlc -workers 2 -config AuditChain_safety.cfg MCAuditChain.tla
    tlc -workers 2 -config RunStore_safety.cfg MCRunStore.tla
    tlc -workers 2 -config Pipeline_runs.cfg MCPipeline.tla
    tlc -workers 2 -config Service_safety.cfg MCService.tla
    tlapm AuditChain_proofs.tla
    tlapm Pipeline_proofs.tla

`PROJECT.json` names the module and the configuration of every run, the source
lines each definition models, the hazards with the properties that cover them,
and the theorems.
