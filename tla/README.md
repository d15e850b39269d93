# Verification of visp-memory

visp-memory keeps a project's memories (episodes, beliefs, intents) for coding agents. One
SQLite database holds the rows and their relationships, an optional vector index beside it
holds embeddings, small SQLite files hold the journals of maintenance operations. A server
offers the store over HTTP and MCP; a command line can open it directly instead.

This directory holds TLA+ models of the parts of the Python package (`src/visp_memory/`, paths
below are relative to it) whose correctness depends on the order in which several actors take
their steps, TLC configurations that check them on small instances, and proofs, checked by
TLAPS, of what matters most. `PROJECT.json` is the machine-readable index: components, runs,
the source lines of every definition, seeded faults that each property must detect,
hazards and theorems.

    tlc -workers 2 -config MCWriterLock.cfg MCWriterLock     # a run
    tlapm RecallProofs.tla                                   # the proofs of a module

Contents: 1 the system · 2 the plan · 3 module by module · 4 runs and bounds · 5 proofs ·
6 known to be false or limited · 7 not modelled.

## 1. The system

### Who runs

- **Processes.** At most one server, or any number of local processes, use a data directory;
  `core/writer_lock.py` decides which.
- **The event loop of the server.** HTTP routes are `async def` and call the store
  synchronously, so a request without an `await` inside runs alone on the loop. Routes written
  as plain `def` (import, for one) run in a thread pool.
- **Threads beside it.** MCP tools, importance decay among them, run in worker threads
  (`interfaces/mcp.py:1980`), and so do dreaming's requests and its schedule
  (`server/routers/dreaming.py:38`, `core/dreaming/scheduler.py:34`). They share the store with the
  event loop and are ordered only by SQLite's transactions and by the few locks of the code.
- **Two stores per memory.** SQLite and the vector index are not one transaction.

So what has to be right is mostly not in any one function: it is in sequences of commits that
other threads, failures and process exits cut into.

### Components

| component (sources) | state | operations | what makes it correct |
|---|---|---|---|
| writer lock (`core/writer_lock.py`) | lock files, `flock`s, `server.json`, per-process registry | acquire and release a role, probe, fork, crash | a served store has no other user; a role stays visible; an interrupted acquisition leaves nothing that blocks |
| server startup (`server/app.py`, `server/writer_role.py`, `server/worker_mode.py`, `server/owner_token.py`) | the held role, the mode of the worker, the owner's token and record | take the role at import, hand it to the lifespan, park, stop | one worker writes, from its first migration to its last dreaming cycle |
| memory lifecycle (`core/lifecycle.py`, `core/merge_preview.py`) | `memories`, `relationships`, journal `lifecycle.db` | merge, rollback, undo, soft delete, restore | failed or undone means as before; undo never overwrites later changes |
| belief lineage (`core/storage.py`, `core/lifecycle.py`) | rows with `source_ids` and successors, vectors | store with sources, revise, delete, purge with its cascade | nothing stays asserted without its basis; one current version |
| learning and quality (`core/memory.py`, `core/source_support.py`, `core/compression.py`, `quality/*`) | tier of trust of each row, `contradicts` relationships | learn, reconcile, supersede, compress, deduplicate, patch | no text climbs above the tier it came from; contradictions are on record |
| capture (`capture/*`) | `capture_manifest.json`, beside the memories | capture a commit, a test report, a conversation | what the manifest calls captured is stored, a retry completes the rest |
| retrieval (`core/recall_candidates.py`, `core/contract_recall.py`, `core/hybrid_retrieval.py`, `core/injection.py`) | none that lasts | recall, recall for a task, inject | windows fill, a code graph only adds, budgets are kept and used |
| intents (`core/intent_workflow.py`, `core/storage.py`, `server/routers/intents.py`) | `intents.status`, `intents.context` | report, edit, append outcome, evaluate | status mirrors the newest report of one workflow, whatever is retried, reordered or edited |
| dreaming (`core/dreaming/*`) | `dream_runs`, `dream_actions`, `dream_dismissals`, marks in memory metadata | run, review, dismiss, undo, schedule | merges only exact copies, undo is the inverse, what was refused stays refused |
| repositories (`core/storage.py`, `server/routers/repositories.py`) | `repositories`, children, per-repository locks, tombstones | register, write, import, purge | a purge tells the truth; writes never slip under it |
| vector index, search, graph import (`core/storage.py`, `core/memory_import_export.py`, …) | rows, vectors | store, update, delete, rebuild, import, search | the index follows the rows; a search is right when it does not; an import is all or nothing over two stores |
| backends (`core/storage.py`, `core/arcadedb_storage.py`, `core/neo4j_storage.py`, `core/neo4j_admin.py`, `core/maintenance.py`) | schema versions, backups, the governed graph | open, migrate, back up, restore, purge | what one version wrote the next call opens; an older store survives its migration |
| belief validation and authority (`core/belief_write.py`, `core/authority.py`) | attestations | check one request | a pure check, except for nonces (in `ArcadeStore`) |
| interfaces, hooks, remote client, accounts, sessions, diagnostics, configuration | single-row records, files of other tools | – | – |

`PROJECT.json` lists all of them with their files and with the reason where one is not modelled.

### How they interact

The lifecycle manager, dreaming, decay, learning and the tools write the same rows of `memories`:
some in one `BEGIN IMMEDIATE` transaction (dreaming, workflow reports), some as read, compute, write
back (`soft_delete`, `restore`, decay, evaluations, undo), some as a series of commits with calls
of a language model between them (learn, compress, merge, revise, purge). Captures call learn and
keep a manifest of their own; recall reads what all of these leave. Hard behaviours, each with its
line, are the *hazards* of `PROJECT.json`: stale reads written back, failures between two commits,
retries and reordering of reports, purges racing with writes, crashes inside journaled
operations, captures that overlap, servers that hand a role from import to lifespan, and windows
of a search over rows that move.

## 2. The plan

In order of importance:

| module | abstract specification | what it is for | state |
|---|---|---|---|
| `WriterLock` | `StoreRole`, an atomic lock service | two writers on one store | modelled, checked, proved |
| `Merge` | – | merges of many commits, rollback, nested undo | modelled, checked, proved |
| `Beliefs` | – | derivation, revision and purge over rows and vectors | modelled in part, checked, proved |
| `IntentWorkflow` | `StatusMirror`, a log that only grows | reports out of order, edits beside them | modelled, checked, proved |
| `Dreaming` | – | automatic changes and their undo | modelled in part, checked, proved |
| `RepositoryPurge` | – | purge against writers that do or do not lock | modelled in part, checked, proved |
| `VectorIndex` | – | an index that lags behind the rows, its repair, and searches that cope | modelled in part, checked, proved |
| `ServerLife`, composed with `StoreRole` | – | the role over import and lifespan, owner files, the dreaming schedule | modelled, checked, proved |
| `SqliteStore`, `ArcadeStore`, `Neo4jStore`, composed in `StorageBackends` | – | opening, migrating, purging and restoring a store | modelled in part, checked, proved |
| `Learning` | – | tiers of trust and contradictions through every write | modelled, checked, proved |
| `Capture` | – | captures killed, retried and overlapping | modelled, checked, proved |
| `Recall` | – | refilled windows, what a code graph adds, the budget of an injection | modelled in part, checked, proved |
| `Sessions`, `TurnKeys` | – | session and feedback records, turn keys beside vectors | planned |

Everything that the runs check, apart from liveness, is proved (section 5).

Each component has up to four modules: `X` (state, one action per step, `Spec`), `XProps` (what it
must satisfy; at the end of `X` in the shorter ones), `XProofs` (`LockAndServerProofs`,
`MergeAndBeliefsProofs` and `IntentsPurgeStoresProofs` are about several components each), and `MCX`
(constants of the runs). An operator marked *Mutant* is the same step with a plausible bug; nothing
uses it except the check that a property notices it.

## 3. Module by module

### `WriterLock` – `core/writer_lock.py`

*State.* `lock[f]` is the set of processes that hold a copy of the descriptor that has `f`
locked, so that `fork` is modelled by what it does: a lock is free when all copies are closed.
`refs` is the registry `_registry`, `linked` the directory `.locks`, `meta` the content of
`server.json`, `pc` with `tries`, `todo`, `live`, `scanAt` the place and locals of the operation
under way in a process (the module mutex allows one).

*Actions.* Every system call is a step: `CreateOwn`, `LockOwn`, `PassGate`, `Recreate`,
`LeaveGate` for a local; `BeginScan`, `ScanEntry`, `ScanUnlocked`, `ScanUnlink`, `Serve` for a
server; `UnlinkOwn`, `CloseServer`, `ReleaseRef` for releases; the probe
`server_role_is_held`; `Fork` and `AfterFork`; `Crash` anywhere; failing and denied calls.

*Abstraction.* `StoreRole` grants a role in one step when it is compatible with what other
processes hold. `ImplementsStoreRole` maps the registries to it.

*Left out.* The branch for Windows; a fork by one thread while another is between `open` and
`flock` (see 6); file names are reused once no process refers to them; a missing `server.lock`
at a probe is the same as a free one.

### `Merge` – `core/lifecycle.py`

*State.* `mem` (rows: status, tags, text, merge record, deletion record), `edges`
(relationships; `n` is the identity, so that a re-created one differs from the old one),
`journal` (operations of `lifecycle.db`), `at` and `run` (the request under way and its locals:
requests are serialised on the event loop).

*Actions.* `Preview`, `Record` (pending entry), `Copy` (one relationship), `CopiesDone`,
`UpdateTarget`, `UpdateSource`, `Finish`; `Error` is an exception inside the `try` and starts the
rollback, which shares `RestoreRow`, `Unlink`, `Relink` and `Settle` with `Undo`; `Crash` is any
other stop. `SoftDelete`, `Undelete`, `Remove` and `Edit` are what others do; with `scene.threads` they
also come between the commits of a request.

*Left out.* The refusals of a preview that concern scope, provenance and validity (all rows are
alike), links made by users during a merge.

### `Beliefs` – `core/storage.py`, `core/lifecycle.py`

*State.* `row` (status, citations, deletion record), `vec`, `job[w]` (the store or revision of
a worker thread and what it has read), `req` (the purge request). `crashed` is history.

*Actions.* `StoreEpisode`, `CheckSources` and `Insert` (two transactions when the caller brings
evidence), `Index`; `Revise`, `Relate`, `Mark`, `Missed`, `Compensate`; `MoveToTrash`, `Restore`,
`Patch` (any status over any other, as the route writes it); `BeginPurge`, `RevokeDerived`, `DropVector`, `DropRow`, `EndPurge`; `Exit`.

*Left out.* Pins and holds (they block like the active status), automatic links, validation of
evidence and authority, supersession by contradiction, `verify_consistency`, the index rebuild.

### `IntentWorkflow` – `core/intent_workflow.py`, `core/storage.py`, `server/routers/intents.py`

*State.* One intent: `status`, `context` (report in force, history, outcomes, evaluation),
`evaluating` (what an evaluation has read and will write back), `watched`: one delivery of a report
and its answer, chosen arbitrarily. A property of `watched` is a property of every delivery.

*Actions.* `Init` strips workflow keys as `set_intent` does; reports are applied, recognised as
repeated, or refused; `Edit` is `update_intent` with any context, including one that
pretends to reports that were never made; `AppendOutcome`; `BeginEvaluate` and `EndEvaluate`;
`Crash`. `StatusMirror` is what `docs/guides/WORKFLOW_REPORTS.md` promises.

*Left out.* Description, priority, who may call, the audit log, other databases' versions.

### `Dreaming` – `core/dreaming/`, `core/compression.py`, `core/lifecycle.py`

*State.* `mem` (status, text, the metadata that dreaming and deletion write, `archived_at`,
whether decay has touched it), `linked` ids, the tables `runs`, `actions`, `dismissals`, and the
two read-modify-write operations under way beside them: `page` (what decay has read) and
`request` (what a soft deletion or a restore has read).

*Actions.* `Run` plans and applies in one transaction; `Review`, `Dismiss`, `Undo` are one
transaction each; `Store`, `Edit`, `SetStatus`, `Purge`, `Relate` are what people do; `ReadRow`
then `SoftDelete` or `Restore`, `ReadPage` then `Fade` row by row; `Crash`. A fingerprint is the
row without its access counts, so it is modelled by the row.

*Left out.* Windows and limits (the project fits one window, so the cut at `PROPOSAL_LIMIT` never
happens), proposals that can only be dismissed, the refresh of vectors
after the commit, merges of `core/lifecycle.py` on the same rows. The schedule is in `ServerLife`.

### `RepositoryPurge` – `core/storage.py`, `server/routers/repositories.py`

*State.* For one repository: `repo` (no row, a placeholder that a write made, a declared row),
`rows`, `children` (kinds of other records), `tombstone` (`_purged_repository_ids`), `lock`,
`write` (the `store_memory` that holds the lock) and `purge` (the request and its locals). `kept`
in it is history: what the purge found when it took the lock and nobody has deleted.

*Actions.* `BeginWrite`, `Insert`, `EndWrite` (vector and links, or an exception at any point);
`Register`; the writers without the lock: `AddChild` (`set_intent`, `store_evidence`,
`start_session`, `add_repo_dependency`), `Import`, `Delete`; the purge: `Find`, `BeginPurge`,
`List`, `DeleteListed`, `DeleteChildren`, `Verify` (kind by kind), `DeleteRepository`,
`EndPurge`; `Restart`, which forgets locks and tombstones and registers the scopes that hold
memories or intents. Any step of the purge may fail.

*Left out.* Relationships and recall events (they go with their memories by foreign keys), the
pages of the listing, vectors and turn keys (a failing index is a failing deletion; their order is
in `Beliefs`), archiving. A purge runs on the event loop, so there is one at a time.

### `VectorIndex` – `core/storage.py`

*State.* `row` (status, and whether the text has a term of the query), `vec` (the entries of the
index, a partial function), `job[w]` (the operation of a thread and its locals), `writer` (who
holds SQLite's write lock across steps: only an import does). History: `stale` names the ids whose
entry need not agree with their row, and why is in the comment of `IndexFollows`; in a job, `sole`,
`steady` and `never` are what its own end is judged by.

*Actions.* `Store` then `Index`; `Update`, `ReadBack`, `Copy`; `Delete`, `Drop`, `Remove`;
`Rebuild` then `Upsert`; `Import`, `Fill`, `Commit`, `Undo`; `Search`, `Query`, one `ReadHit` per
hit, `TextSearch`, `Reply`; `Crash`. Every call of the index may fail, and so may the commits of a
deletion and an import (for a deletion, also the turn keys, which go between the vector and the row).

*Left out.* Turn keys, the backfill of a new collection, the validation of an imported document
and its other tables, export, ranking (any subset of the right size may be the best), and layers:
a search takes its limit from each layer before it ranks.

### `ServerLife` – `server/app.py`, `writer_role.py`, `worker_mode.py`, `owner_token.py`, dreaming's schedule

*State.* `proc[p]` (how the process was started, where it is, its data directory, its references
to the role, its supervisor), the files `token` and `record` of the endpoint and the lock `gate`
around them, `job[p]` (a dreaming cycle under way), the schedule (`enabled`, `due`) that servers of
one Neo4j graph share. The role is `StoreRole` of the data directory, which `WriterLock` implements.

*Actions.* `Preflight` and `Build` (import), `Claim`, `WriteToken`, `WriteRecord` (lifespan),
`Poll`, `Cycle`, `RecordFailure` (dreaming), `Stop`, `Release`, `CleanUp`; `Spawn`, `Leave`,
`Terminate`, `StopSupervisor` for workers; `Use` and `Finish` for local processes and maintenance;
`Configure`, `TimePasses`, `Kill`.

*Left out.* The fallback from Neo4j to SQLite, routes, requests.

### `SqliteStore`, `ArcadeStore`, `Neo4jStore`, `StorageBackends`

*State.* A store's version marks, memories, evidence, citations, authority, and what each process
has opened. Rows and nodes are functions whose domain is the ids that exist; so is `copy`, from the
backup directories of SQLite to the files in them. `file` of Neo4j is the set of its backup files,
which has at most one member. History: `original`, `used`, `legacy`; of ArcadeDB `spoiled` (beliefs
that a purge failed to delete) and `stranded` (deleted beliefs whose attestation nothing deletes any
more); of Neo4j the purge's field `later` (memories that other processes stored after it had found
none left).

*Actions.* Of SQLite: `Check`, `Create`, `Stamp` (CREATE TABLE commits by itself), `Backup`,
`Migrate`. Of the graphs: opening (reading marks, validating the whole graph, marking), governed
writes, each one transaction; the purge of a repository step by step, each of which may fail (one at a time; the purging process
writes nothing to its repository meanwhile, `Writable`, but the others of a Neo4j graph may);
the operator's backup, restore and migration. `StorageBackends` composes the three: a deployment
uses one of them (`backend`), and the instances `Sql`, `Arc` and `Neo` of the other two stand
still. Its own definitions are called `StoresInit`, `StoresNext`, `StoresSpec`, and state what the
three promise together. A read of the whole graph at opening (`Accepts`, `Valid`) refuses what no write
should leave behind, so that a wrong write makes a store that does not open.

*Left out.* Search, sessions, intents, feedback and turn keys of these backends.

### `Learning` – `core/memory.py`, `core/source_support.py`, `core/compression.py`, `core/reflection.py`, `quality/`

*State.* `row` (status, layer, the tier of its tag and of its source column, its fact), `edge`
(`contradicts`), `learner[l]` (a call and what it has read), `merge` (the deduplication under way:
the tags that it read, the copies and relationships that are left). `basis` (the least trusted tier
that a belief's text came from) and `told` are history.

*Actions.* `Learn` (sources are resolved), `CheckConflict`, `Decide`, `ApplyNoop`, `ApplyUpdate`,
`Establish`, `Link` and `LinkFails`, `Quarantine`, `Supersede`, `Done`; `Digest` and `StoreDigest` for
compression and reflection; `Capture`, `Revise`, `Patch` (any status over any other, words of what
is no belief, tags), `Trash` by others; `BeginDedupe`, `Reword`, `ListEdges`, `Retarget`, `Fold`,
`WriteBack` and `DedupeStops`, a deduplication commit by commit; `Exit`.

*Left out.* Prohibitions, evidence, redaction, scopes; a language model's answer is a free choice,
and so are the ids that it names. A PATCH and a revision are one step: a writer in another process
between their reads and their write is not modelled, nor is an administrator's edit of `source`.

### `Capture` – `capture/git.py`, `capture/tests.py`, `capture/conversation.py`

*State.* `rows` (what each memory says, and from which source records), `file` (the manifest, or
`None` when it is torn), `run[p]` (a capture, its copy of the manifest and its locals), counters
of faults, of those that are kills or errors of the store (`cuts`), and of removed memories; `scene` bounds a behaviour.

*Actions.* `Start`, `StartText`; every save is a truncation and a `Fill`; `StorePart`,
`RecordSource`, `Unchanged`; the steps of a conversation (`ConversationStep`: source records,
chunks, claims, entries, the final one); `StoreFails`, `Crash`, `Remove`. A call of the store may
raise before it commits or after it has (the index and the links come after the commit,
`core/storage.py:3665-3708`): `StoreFails` and `LearnFails` may leave their row, and `Reuse` may end
early, as `get_memory` writes an access count (`core/storage.py:3788`). An error of a save ends a
capture as a kill in the save does.

*Left out.* An error of the save inside a claim, after which the capture goes on with the chunk
marked failed and the claim's key kept. Parsing, dry runs, the instruction file, export of the manifest, installing hooks;
`bootstrap` is these captures one after another.

### `Recall` – `core/recall_candidates.py`, `core/contract_recall.py`, `core/hybrid_retrieval.py`, `core/injection.py`, ranking

*State.* `scene` (what the memories are like) and `live` (which are active), `ask`, and the
locals of one call: `window`, `seen`, `found`, `vector`, `results`, `corpus`, `walk`, `answer`.

*Actions.* `Refill` (one search of a layer by vectors and words; the index may lag or fail),
`Rank`; `Direct` and `List` (a search of each layer, then the newest rows), `Begin` and `Walk`
(the walk over relationships, a round each), `Retrieve`; `Inject`; `Change` (rows come and go).
Scores are integers in units of 1/10000; the weights, floors and ceilings are the code's.

*Left out.* How a row's importance, age, use and utility make its base score, eligibility and
trust (inputs of a scene); the strategies `hybrid` and `hybrid_union`, briefs, proactive recall,
the context compiler's selection.

## 4. Runs and bounds

All runs hold.

| run | question | instance |
|---|---|---|
| `writer_lock` | is the guard an atomic lock service, does every operation end, and does a crash free the store? | 2 processes, 2 local files, 2 attempts, 2 references, forks between operations, fairness |
| `merge` | do rows and graph come back, newest merge first, over nobody's change? | 3 memories; either 2 merges, 1 link, 2 changes, 1 exception, or 1 merge, 2 links, threads, 1 change, 1 crash |
| `beliefs` | do purges revoke before they remove, do revisions settle? | 3 beliefs, 2 threads, 1 move to the trash, 1 fault |
| `intent_workflow` | does the status mirror the reports? | 8 reports of 2 tasks, 3 reporters, 1 outcome |
| `dreaming` | are merges of exact copies only, undos inverse, refusals lasting? | 3 notes, 2 texts, 2 cycles, 2 writes |
| `repository_purge` | is the report true, and are writes kept out? | 3 memories, all kinds of records |
| `vector_index` | does the index follow the rows, and are searches right when it does not? | 2 memories, 2 threads, 3 writes, 2 faults |
| `storage_backends` | for what does a backend refuse what it wrote, does it keep what it migrates, and what does a purge leave? | 2 processes, 2 memories, 2 repositories, 1 or 2 evidence records, 1 backup |
| `server_life` | is there one writer from import to the last cycle, without a gap, with its own owner files? | 3 processes of any kind, 2 directories, 2 workers, 1 kill |
| `learning` | is no tier laundered, no contradiction lost, one side left standing? | 3 memories, 2 calls at once, 2 channels; at most 4 events: 3 calls, captures or deduplications, 2 edits, 1 fault |
| `capture` | is the manifest honest, and does a retry complete without storing twice? | a commit, 2 versions of a report, 2 of a conversation of 2 turns; scenes with 1 or 2 kills and faults |
| `recall` | do windows fill, does a code graph only add, is an injection within and up to its budget? | 5 memories, 3 layers, limits 1 and 2, some 6,300 scenes |

*Why the bounds are enough.* Two processes and two attempts show a scan, a local that announces
itself meanwhile, a fork, a retry and its end; for more processes the safety properties are proved.
Three memories are a merge with two sources, or two nested merges that share a row; two
relationships are a parallel pair or a chain. Three beliefs are source, derived belief and
successor, or a chain of two derivations; two threads show two revisions of one belief. Eight
reports hold a repetition, an overtaking, a reused event and revision, a foreign task and an
inconsistent completion; `Reports` is listed in `MCIntentWorkflow`. Three notes and two cycles are a
merge, a third copy or an edit, and a cycle after an undo. Two memories and a limit of two are the
least with which an entry that is behind takes a result from a row that the index lacks. Three
processes are a supervisor with two workers, or a server with a successor and a local; two
directories show servers that share an endpoint only; one kill leaves a worker without its
supervisor, or the files of a server that has gone (more kills: proved). Three memories and two
calls of `learn` are two facts that contradict each other and a third that a call decided about; the
order of tiers is shown by the most and the least trusted channel that may learn. Two turns and two
versions show a chunk that failed beside one that did not, and entries of the older version. In
`MCRecall` limits are small enough that every cut happens (windows of 1 to 4 over five rows, a
retrieval window of 2, one admission), with every combination of four kinds of memories. Unbounded
counters are capped by constants named in the guards (`MaxTries`, `MaxRefs`, `MaxMoves`,
`MaxFaults`, `MaxRuns`, `MaxWrites`, `MaxKills`, `MaxCreated`, `MaxEdits`, `MaxCalls`, `MaxSources`, `MaxEvents`,
`MaxFields`; `Patched` names the statuses that PATCHes write) or by the fields of a scene (`Merge`, `Capture`, `Recall`); `RepositoryPurge` needs none.

*Symmetry* permutes ids, files, processes or texts. It is sound where it is used: the modules
only compare them for equality (`Dreaming` permutes texts, not ids, as some ids are derived,
expired or linked; `Recall` numbers its memories by age and permutes none), and no run with a
liveness property uses it.

*Deadlock* is checked except where all bounded work may be done or a call has answered
(`CHECK_DEADLOCK FALSE` in `WriterLock`, `Merge`, `Beliefs`, `StorageBackends`, `ServerLife`,
`Learning`, `Capture` and `Recall`).

*Fairness* appears in `writer_lock` only (`LiveSpec`): weak fairness of `Step(p)`, the steps of an
operation that a process has begun. The operating system schedules a process that is not
blocked, and no call here blocks: locks are taken with `LOCK_NB` and polled a bounded number of
times. Nothing obliges a program to start an operation, to release a role, or to crash. Safety
runs have no fairness.

## 5. Proofs

All theorems hold for every value of the constants that satisfies the named assumptions of the
module. The assumptions only keep names apart (`ServerLock` is not a local file, `None` is not
an id) and give bounds their types.

**`LockAndServerProofs`** is about two modules. *Of `WriterLock`:* `Exclusive` is not inductive:
whether a server may register depends on a scan that other processes interleave with. The invariant
`IndInv` adds why the scan is conclusive. `GateSerialises`: descriptors are copied by forks, yet one
process at a time is critical, because a copy keeps the file locked. `ScanComplete`: a scan that has
met no live local still has every registered one ahead of it, because a local registers only after
passing the gate, which the scanner holds; and it never removes the file of a registered local.
`FilesOwned` and `RolePlaces` say where a process can be while it holds a role. From `IndInv` follow
`ExclusiveHolds`, `AnnouncedHolds`, `MetadataHolds`, `ProbeSoundHolds` and, step by step,
`RefinesStoreRole`. `NoOrphanLockHolds` assumes that no fork happens inside an acquisition, and
needs its own invariant, as it speaks of copies that nobody has a reference to. *Of `ServerLife`:*
the invariant says at which steps a process holds references of its role (`Held`), that two
processes whose references are for one directory are both local ones (`Exclusion`), whose the
endpoint's files are (`FilesNamed`), and that only a server that serves or stops dreams (`Dreams`).
`DirectoriesExclusive` follows, cycles of dreaming included. `ClaimGranted`: what a process imported
under its own role keeps its claim granted, as nobody else can hold a role there in the meantime.
`FilesNameServer` is the part of `FilesNamed` about a server that serves, and needs the gate between
the two writes. `CyclesScheduled`: a step that runs a cycle uses up what was due, for all servers.

**`IntentsPurgeStoresProofs`** is about three components. *Of `IntentWorkflow`:* `TypeCorrect` includes that
the report in force is the last of the history, which every writer of the context restores.
`Implements`: each step is a step of `StatusMirror` or leaves history and status alone. `Answered`:
a history only grows, so a report that was once found in it stays. `Newest` is the subtle one: its
invariant says of the watched delivery that it is refused only for a reason that later steps
preserve. `Settled` needs that an evaluation is written only to a row that is still active.
*Of `RepositoryPurge`:* `PurgeTypeCorrect` includes that the lock is held by exactly the write or
purge that took it. `Excluded` and `Open` are inductive together. `Truthful` rests on `Progress`:
what the purge found is there until somebody deletes it, and a purge without a failure has
deleted the other records and, past the check for memories, all of those. *Of `StorageBackends`:*
`StoresInv` has a part for each backend; a step of one leaves the others alone. What a store refuses
at its next start is not an invariant alone, because the places where it is not checked matter.
`SqlInv` (SQLite) says what a process knows that has passed the check: the file was new then, or
sound, and is no old deployment's (`WorkerOK`); CREATE TABLE may commit and the process die before
the stamp, so that a file without a version holds no rows (`FileNew`). An upgrade is alone, and the
copy it made is the file it migrates (`UpgradeOK`), from which `AlwaysKept` follows when it
replaces it. That the migrated file is valid needs that every version the migrations start from holds
sound citations (`FileOld`), which no current build writes to. `ArcInv` (ArcadeDB) says which ids
were given out (`Given`: no attestation is of a memory that is yet to be stored), that a
prohibition has exactly one attestation (`OneAuthority`), and how far a purge is (`Swept`: before
the evidence goes, a memory of the repository is still to be deleted or is `spoiled`; before the
record goes, none is left), and that an attestation outlives its belief only where `stranded`, or
the purge at work, says so (`AttestedKept`). `RefusesLeftoversOnly` reads off what a store can be
refused for; SQLite's part is `FileSound`. `AlwaysPurged` follows for ArcadeDB from `Swept`, for
Neo4j from `NoneFound`: once a purge has verified, each memory of its repository was stored later, by
another process. `NeoInv` (Neo4j) says further that
the graph and every backup file are consistent, governed or as they were before evidence was
(`Whole`), with ids that are all given out, so that a restored graph meets no new id twice; that a
process which is open has found a governed graph (`Opened`); and that between its backup and its
commit a migration owns what it saved (`Saved`), though other processes may write `Repository`
nodes and mark the graph as governed in between.

**`DreamingProofs`.** `TypeCorrect` says that the tables of the journal agree: each applied item
has exactly one change, with the rows before and after. `Inverse` follows, as an undo compares
rows with that record. `NeverReapplied` rests on `Remembered`: what was undone or dismissed has
its signature among the dismissals. `ExactCopies` rests on `Alike`: the rows of a duplicate item
had one text when it was planned.

**`VectorIndexProofs`.** `Complete` and `LiveOnly` hold for any index, limit and number of threads.
`WindowSuffices` is the argument for the text search: its window has room for the results that
are already there, so if it leaves the answer short of the limit it was all that matches. `AllFit`
says what each operation knows: what a search has found was active during it, its hits are
within the limit, and the active matches it will be judged by are still in the rows. `InStep` is
about ids that one operation at a time works on. Its invariant says what such an operation knows
(`Knows`: what it is about to write is the row that there is), what it finds at an id that was in
agreement before (`Finds`), and that an id is of at most one operation that is alone on it (`Apart`).

**`LearningProofs`.** `NoLaundering` is not inductive alone: a call stores a row with a tier that it
took from rows it read earlier, and a deduplication writes back a tier that it read long before.
`Sound(l)` says of each call what it has read, `MergeSound` that what will be written back is no
better than what the row's text came from, and `Frame` what no write does to a row in between:
bring a removed one back, change its layer, lower what its text counts as, or take an edge between
rows that stay. `ContradictionsFound`: a call that returns has linked every row that the detector
named, or quarantined its own and failed. `OneSideStaysUp` is
about circles of any length. The order in which rows were stored is not in the state, but what a
call may yet retire is fixed when its fact is stored (`Retires`), before anything can retire that
fact; so no set of rows is retired from within (`Acyclic`), whatever the calls still do and whatever
statuses are written over theirs.

**`CaptureProofs`.** What rows say only grows (`Grows`), so a true entry stays true; every step is
then the affair of one capture (`Local`), whose copy of the manifest holds true entries only, and
which has stored what it is about to enter. `ManifestsHonest` holds though manifests overwrite each
other, as each is true by itself. `ClaimsCiteTheirText` follows from the source records that a
capture prepared for the version it is at. `CleanRunsComplete`: a capture in which nothing failed
has a finished entry for every chunk behind it (`Smooth`), whatever it began with.
`StoredAgainForFaultsOnly` is about captures one after another (`Orderly`: the manifest of the one in
progress is the one on disk, or about to be). How often a thing was stored is bounded by the
faults so far, and by one more if the manifest says that it is there (`Fits`). So a capture may store
what is not entered, and pays with the entry; a kill or an error of the store costs the one thing
it had stored and not entered (`CutStep`), and a removed record, or one whose read fails, those that
`_prepare_source_episodes` stores again behind it, of which each is stored once more at most
(`Gone`, `TurnsDropped`). A failing model and a refused claim cost nothing.

**`RecallProofs`.** A search returns the first rows of a finite set by a strict total order;
`TopBound` and `TopAll` (at most the limit; all, if fewer) rest on a first and a last member, found by
well-founded induction over subsets. `WindowsFill` needs that fewer rows are known than the next
window may bring (`Windowed`): a full window with nothing new cannot happen, so the refill ends
for no other reason than that it has enough or has all. `AddsOnly`: memories are admitted only if no
other channel has them, so that base, ranks and values of the others do not depend on the graph
(`KeySame`), and the ceiling of the admitted (5100) is below the floor of identity matches (5200,
`FloorAndCeiling`); `Unmoved` carries this to the state in which the answer is read. `PromptsFit`:
what is injected is a prefix of the ranking that fits the budget. Sums and the greedy choice are
recursive functions over positions; that such functions exist is proved for runs of *n* steps
before their recursion equations are used.

**`MergeAndBeliefsProofs`** is about two modules. *Of `Merge`:* a row says which merges are in it
(`Marks`: its list of merges, and the one it went into), and `MemoriesRestored` is an argument about
these marks. While nobody else edits rows, a row without marks is an initial one, a row with a mark
has all marks of the snapshot behind it, and no row has the mark of a merge that was rolled back or
undone (`Restorable`): so when every merge is over there is no mark left. This has to hold of the
snapshots too, as they become rows again, and of every half of a merge, a rollback and an undo,
whatever errors and crashes came before. `UndoOverwritesNothing`: what an undo has yet to restore is
what it has checked (`Untouched`). `UndoNewestFirst` needs what the comparison of rows is conclusive
about (`Nested`): a merge that stands is in each of its rows and in the snapshots of every later
merge of them, itself or by a later one, and what a merge left bears no later mark. It holds while
no request was cut short (section 6). `GraphKept` has an invariant of its own (`Graphed`). It says
after each commit of the one merge, its rollback or its undo which relationships are the originals,
which were displaced and which are copies, and that copies and journal account for what is missing,
but for what was purged with a row. *Of `Beliefs`:* `PurgesRevokeFirst` follows from `Revoking`:
what the purge has not visited yet cites nothing that is left to purge, because citations are
written once, with a row that is new, and rows are restored or brought back from the archive only
between purges. `RevisionsSettle` is about faults (section 6) and about the step that ends a
revision: a worker takes its successor back only for a failing call or because one of the two rows
has gone (`Sound`), so if the compensation is the first call to fail, the predecessor is not there;
and what has gone is never stored again (`Tame`), whatever a `PATCH` writes.

*Only model-checked.* Liveness (`OperationEnds`, `CrashReleases`): under fairness it is beyond the
prover; everything else that a run checks is proved.
*Only proved* (their runs would repeat others): `TypeCorrect` of each module, `IndInvHolds`,
`AnnouncedHolds` and `NoOrphanLockHolds` of `WriterLock`, `Settled` of `IntentWorkflow`.

## 6. Known to be false or limited

Found with these models (with the constants named) or while reading the code for them, and kept
here so that a reader does not take their absence for a claim.

- *Interrupted merges.* A process that stops inside a merge leaves rows merged under a `pending`
  operation. Nothing resumes or rolls it back, and undo accepts only `completed` ones
  (`Merge`, one crash). An interrupted undo cannot be retried: the rows no longer match. It
  leaves its merge `completed` with rows that show it no more, so an older merge of
  these rows can be undone before it; `UndoNewestFirst` is about requests that were not cut short.
- *Nested merges and the graph.* Undoing two nested merges, newest first, does not restore the
  graph: a re-created relationship has a new id, which the older journal does not know
  (4 memories, 2 merges). A relationship found at the target may belong to another merge, whose
  undo removes it (4 memories, 2 merges). `GraphKept` therefore speaks of one merge.
- *Failed merges and the graph.* The list of created relationships is kept only when
  `_retarget_relationships` returns (`core/lifecycle.py:143`), so an exception in the middle of it
  leaves committed copies behind although the error says "Merge failed and was rolled back".
- *Undo and threads.* With writers on other threads an undo can overwrite a change made
  after its check (with `scene.threads` and one edit; `UndoOverwritesNothing` is about the others).
- *Citations of what has gone.* A store that brings its evidence validates its sources before its
  transaction (`core/storage.py:3545`); a purge in between leaves it citing a row that has gone.
- *Revisions.* Two revisions of one belief by two threads both succeed: it has two successors. If
  marking the predecessor fails and deleting the successor fails as well, both stay current
  (`Beliefs`, two faults); `RevisionSettles` is checked and proved for one. It is about the end of
  a revision: `PATCH /memories/{id}` writes any status over any other
  (`server/routers/memories.py:966`), so a request can serve a superseded belief beside its successor.
- *A derivative in the trash.* A purge revokes only active derivatives (`core/lifecycle.py:260`).
  A derived belief that is in the trash loses the citation of what was purged and comes back
  asserted when it is restored, against "no window exists where a belief is still asserted while its
  basis is gone" (`core/lifecycle.py:323`).
- *Decay and merges.* Decay writes back a whole metadata object that it read earlier
  (`core/compression.py:663`). A merge committed in between loses its record, and its undo refuses.
- *Outcomes and evaluations.* An outcome appended while an evaluation runs is lost
  (`server/routers/intents.py:315`).
- *A third copy.* After a merge of A and B was undone, a later identical C makes a new group
  {A, B, C}, which the next cycle merges automatically. A pending proposal is repeated by each cycle,
  and can be approved in one after being dismissed in another.
- *Behind a purge.* An intent, evidence or import that is committed after the verification of a
  purge survives it, although the report says "purged"; imports ignore the tombstone. After a
  purge, `set_intent` re-creates a placeholder repository, to which memory writes stay refused
  until somebody registers it. The route's backup is read before the lock is taken, so it can miss
  a memory that is then purged.
- *Two operations on one vector.* Updates of one memory by two threads can leave the status of one
  and the text of the other in the index for good; a rebuild can bring back the vector of a memory
  that was deleted after its listing. Searches are right nevertheless (`SearchFinds`,
  `ServesLive`), and a later operation that is alone repairs the entry, except that no operation
  removes the vector of a row that has gone.
- *Import after a crash.* A process that exits while an import writes its vectors leaves them
  without rows; the same document is refused from then on ("collides with a pre-existing
  vector"), and a rebuild does not remove them.
- *Forks inside an acquisition.* With such points in `ForkPoints`, a child can keep `server.lock`
  locked after its parent released it (`NoOrphanLock`), until it runs `_after_fork` or exits.
- *`server.json`* may name a dead process while another one holds `server.lock` but has not yet
  written it.
- *Starting.* A record whose process id was reused keeps the endpoint's server from starting. The
  role is released before the owner's files are removed, so an overlapping restart can be refused.
  Two local processes that first open one SQLite store: the second may find tables without a
  version and is refused for good (`core/storage.py:1123`). A failure that is recorded late can move
  another server's next cycle.
- *ArcadeDB.* Deleting a prohibition leaves its attestation behind (`core/arcadedb_storage.py:1655`),
  and the next opening refuses the store for it (`:572-583`); so does a purge that deleted the belief
  and failed later, whose retry never removes the attestations of beliefs that the first one deleted.
  When in a purge the deletion of a belief fails and that of its evidence does not, the belief is
  without evidence and the store is refused as well. Of SQLite, a process killed between CREATE TABLE
  and the version stamp leaves a file without rows that is refused (`core/storage.py:1123`). These are
  all (`RefusedForLeftoversOnly`).
- *Neo4j.* A memory that another process stores after a purge verified that nothing is left, and before
  it deletes the repository's record, stays without one (`core/neo4j_storage.py:1780`);
  `PurgeLeavesNothing` says that no other does. The tombstones that a process keeps of the
  repositories it purged are left out, so that the model writes more than the code. Restoring a
  graph of schema 5 between another process's probe and its mark is excluded by
  `docs/guides/STORAGE.md:354`.
- *Learning.* Against `docs/reference/TRUST.md:157`: when a row is given a better tier between a
  call's decision to update it and the write (`core/memory.py:536`), by a review or by the tags that
  a deduplication writes back (`quality/dedup.py:392`), the new text comes under that tier
  unreviewed; and an episode's new words, PATCHed by anybody who may write it, stay under its stored
  tier (`server/provenance_guard.py:37`) and count as of that when a fact is learned from it.
  `NoLaundering` exempts both, and says so. A detector that answers "conflict" and names no row
  leaves a fact without an edge (`core/memory.py:423`). A quarantine is best effort: an exit between a fact's commit and
  its edges leaves an active row without them. A no-op may answer with a row that has gone since.
- *Bootstrapping again.* "re-running updates rather than duplicates" (`capture/bootstrap.py:203`)
  is not so for reverts, warnings about fragile files and decisions, which bypass the manifest.
- *Captures.* Overlapping captures lose each other's entries and may store a thing twice
  (`StoredOnce` is about those that do not overlap). An error of the store may store a thing twice:
  one whose read fails makes all later source records be stored again, and a memory that was
  committed before the error is stored again by the retry; the bound counts them. A partial failure of a test report stores its
  earlier cases again. A trashed source record is reused and then refused, so the conversation
  does not complete until it is restored or purged. The hook captures `HEAD` in the background:
  the first of two quick commits is left to the next sync. An export reads memories before the
  manifest, so an entry may name a memory that it lacks.
- *Floors.* An identity match that the text search has also found, with little evidence, scores
  0.28 to 0.295, below a one-hop admission at 0.2986, so that an admission may take its place
  among the three that `recall_for_task` adds (against `core/hybrid_retrieval.py:42` and
  `docs/reference/BENCHMARK.md:127`). `GraphOnlyAdds` is about identity matches it has not found.
- *Windows.* `Fills` promises rows that the search by words finds: a vector hit whose row was
  retired in between leaves the window not full and ends the refill, though further rows that only
  vectors would find may exist (`core/recall_candidates.py:81`). A row that a boost would put first may lie
  beyond the window. "Rendered cost never shrinks" (coverage selection) does not hold when
  adjacent spans merge.

## 7. Not modelled

- Who may call: accounts, tokens, scopes. This project is about what accepted calls do to the
  stored memories.
- Formatting, parsing and transport: the command line, MCP, HTTP schemas, the dashboard, hooks,
  the remote client. They are most of the package's lines and hold no state of their own that several
  actors share; what of them matters here (that MCP tools run on worker threads, that routes
  run on the event loop, that hooks start captures in the background) is in the models.
- Rendering within a budget of tokens: session briefs, task briefs, coverage selection and the
  context compiler compute a text from what `Recall` retrieves.
- Calls to embedding and language models: they appear as faults or free choices.
- Search, sessions, intents and feedback of Neo4j and ArcadeDB; their governed graph is in
  `Neo4jStore` and `ArcadeStore`.
- Single-row records without a second writer: sessions, teams, attribution, recall utility.
- The Windows branch of the lock.
- Of the modelled components, what section 3 lists under *Left out*.
