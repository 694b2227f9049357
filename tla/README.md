# Lossless Codex Orchestrator: TLA+ models and proofs

LCO lets an orchestrator see and steer Codex sessions without owning them. It
indexes the session files Codex writes into a SQLite database of derived state
(sessions, source ranges, summary leaves, prepared cards), reports from it, and
sends approved controls (send, steer, interrupt) to the Codex app-server. A set
of smokes and release tools then says whether all of that is proven to work.
This directory holds TLA+ modules of the parts where ordering, crashes,
concurrency and limits decide whether those jobs are done right, the TLC
configurations that check them on small instances, and the theorems TLAPS proves
about them.

Paths below are relative to the repository; `adapters` stands for
`packages/adapters/src/index.ts`, `jsonrpc` for
`packages/adapters/src/codex-jsonrpc.ts`, `router` for
`packages/mcp-server/src/codex-control-router.ts`, `core` for
`packages/core/src/index.ts` and `cli/` for `packages/cli/src/`.

## 1. The system

| part | state | operations | talks to |
|---|---|---|---|
| audit log (`adapters` 701-788) | an append-only JSONL file, an HMAC key file | append, find, hasApprovalUse, tail | the file system; every process that controls Codex |
| approval gate (`adapters` 800-1003) | none of its own: the audit log | dry run; live call: look up, match, check unused, claim, send, record | audit log, JSON-RPC client |
| JSON-RPC client (`jsonrpc`) | the persistent client, its operation queue, request ids, unread lines | request, requestSequence, requestSequenceUntilTurnResolved | the Codex app-server over a Unix socket, a WebSocket or stdio |
| control router (`router`) | the map of opaque target references | route, deliver, interrupt | JSON-RPC client, approval gate |
| schema (`core` createDatabase, migrate) | tables, triggers, the ledger of migrations, the search index | open, migrate, backfill, repair, vacuum | every process that opens the database |
| Codex indexer (`core` 3889-4050, 4937-5762, 20095-20378) | `codex_source_files` (watermarks), sessions, ranges, leaves, cards, event content, the destructive generation | index: prune, stat, skip, append delta, full parse, materialise, mark | session files (Codex writes them), the database (several processes) |
| Claude indexer (`core` 4166-4580) | `claude_sessions`, its search text | index files, index an inventory | session files, the database |
| prepared cards (`core` 7117-7514) | `prepared_cards`, inbox items, the cards and aliases of LCM peers | make the cards of a run's threads; refresh all; refresh peers | the derived tables, plans, attention, peer databases |
| hooks (`core` 7982-8276) | captured packets, title aliases, state-prep jobs | finalize a title, capture a closeout or a compaction, prepare state | the derived tables; one process per hook |
| session diff (`core` 11978-13181) | signed cursors held by the caller | diff since a cursor | the derived tables |
| watchers (`core` 11626-11970) | specs, observations, queue items | evaluate, persist, list events | the derived tables |
| reports (`core`) | none | ranges, leaves, cards, inbox, events, target coverage, LCM expansion | the derived tables, peer databases |
| retrieval telemetry (`core`) | searches, follows, harvested scenarios | record, attribute, prune, harvest | search and the describe and expand tools |
| active state and autonomy tick (`core` 14300-14500) | none | fuse index, watchers, app-server and desktop map; plan steps | the reports |
| desktop planner (`core` 13600-13800, 14600-14900; `adapters` 1700-2700) | reports that the agent keeps | map, coherence, fallback, lane, next step | the desktop accessibility tree, the app-server, the index |
| starting a thread and proving it (`adapters`, `packages/mcp-server/src/tools.ts`, `packages/core/src/search.ts`) | none | start, post-create proof | the app-server, the index |
| drive and the Claude probe (`packages/adapters/src/drive.ts`, `claude.ts`) | one audit record | probe the claude command, dry run, plan | audit log, child processes |
| MCP server (`packages/mcp-server/src/server-runtime.ts`) | the lazily opened runtime | initialize, list, call | one client over its pipes |
| smokes and gates (`cli/`) | files of evidence directories | live control, refresh, idle route, tool smoke, dogfood, product smoke, desktop evidence, the GA smoke | everything above |
| publication (`.github/workflows/publish-npm.yml`, `scripts/`) | the registry's packages and dist-tags | prepare, check, publish, verify, rerun | npm |
| search ranking, policy, redaction, sanitizers, provenance, compaction canary | none | pure functions and read-only queries | all of the above |
| CLI commands, OpenClaw plugin, local UI | none | one command or tool call each | all of the above |

What is hard:

* **Approvals.** Several processes (a CLI, an MCP server per client, the
  OpenClaw plugin) open one audit file without a lock. An approval must be used
  once, for what it was granted, within its lifetime, also when a write is cut.
* **The shared connection.** A request that timed out is answered late; the
  app-server sends notifications and requests of its own in between; the socket
  closes at any time; a handshake fails while operations are queued behind it.
* **Targets that move.** Between the reading of a thread and the action on it,
  turns start and end, and threads load and unload.
* **Files that move.** Codex appends to, half-writes, rewrites or removes the
  file an index run is reading, other runs write the same rows, and a run may be
  abandoned between any two of its many transactions.
* **Reports without a snapshot.** A report asks several SELECTs outside a
  transaction, under caps, while writers go on: what it omits must be told.
* **Evidence without a lock.** Smokes leave files that later commands read
  whenever they were written: what a gate says must rest on what happened.

The list of hazards, each at its line and with the properties that are about
it, is in `PROJECT.json`.

## 2. Modules

### Control

| module | models | used by |
|---|---|---|
| `AuditLog` | the audit file: records, appends, cut appends, the two scans | `TargetControl` |
| `ApprovalLedger` | what the gate promises: grant once, use at most once, for the control granted | `TargetControl`, `ControlRouter` (as the abstract specification) |
| `TargetControl` | `createTargetControl().execute`, calls of several processes | `TargetControlProofs` |
| `JsonRpcClient` | `CodexJsonRpcClient` and the persistent client around it | `MCJsonRpcClient` |
| `ControlRouter` | `createCodexControlRouter` | `MCControlRouter` |
| `TargetControlProofs`, `JsonRpcClientProofs`, `ControlRouterProofs` | lemmas and theorems | |

These meet at interfaces that are checked on both sides. The gate assumes
of its transport (`MayRun` in `TargetControl`) that *accepted* means performed,
*refused* and *gated* mean not performed, and only *indeterminate* leaves it
open; `SendContract` in `JsonRpcClient` is that assumption as a property of the
client. The router uses the gate as the ledger (`KeepsTheLedger`), and the gate
implements the ledger (`ImplementsLedger`) when one process uses the file.
`LiveProofs` and `IdleRoute`, the smokes that drive the gate, take it as that
ledger too.

**AuditLog and TargetControl.**
A file is a sequence of lines and a flag: the last line has no newline, since
the write that made it was cut. The next append goes on in that line and spoils
it. `Find` scans from the end and fails on a line that does not parse;
`HasApprovalUse` skips such lines. That difference is deliberate in the code and
`SpentIsVisible` depends on it.

A call goes idle, matched, unused, claimed, answered, idle. From the lookup to
the claim the code never awaits: `LoopFree` keeps the other calls of the same
process out, while calls of other processes run between any two steps. `Crash`
kills the calls of a process; the `...Cut` actions are writes of which nothing, a
prefix or all but the newline reaches the file, after which the process dies or
the call throws. Action, target and parameter hash are one value, the binding,
because the code compares the three together. `uses`, `granted`, `ran` and
`closing`, the id of the record that closes a call, are history variables.

**JsonRpcClient.**
`queue` is the promise chain `operationQueue`, `link` the transport of the
current client (`failing`: its handshake was refused and nothing has dropped it
yet), `inbox` the lines received and not read. `Receive` is one turn of the loop
in `requestRaw`, `ReceiveTurn` one in `waitForJsonRpcTurnResolution`. Requests
carry a connection number so that the app-server cannot answer over a new
connection what it was asked over an old one, though it may still perform it.
The app-server (`Perform`, `Reply`, `Refuse`, `TurnEnds`, `Ask`) is external: it
does any of this in any order, or nothing.

**ControlRouter.**
`List`, `ReadMetadata` and `ReadTurns` are the awaited requests of
`loadDaemonTargets` and `readTargetProjection`, with Codex's own actions between
any two. `Select` hands out a reference; `Begin` checks that it has not expired,
and `Valid` is `validateTarget`. `held` collects the turns the target went
through while the call was in flight, `hits` the controls Codex performed, with
the turn they hit and the approval they went under. Codex performs a steer or an
interrupt only on the turn it names, as its protocol's `expectedTurnId` says. The
ledger's `uses` is what Codex performed under an approval, over all requests that
reach it, and not what a call claims.

### The index and what is derived from it

| module | models | state | actions |
|---|---|---|---|
| `SourceIndexer` | `indexCodexSessions` for one file | file, watermark, rows, run | one per transaction or statement of a run; Codex's writes |
| `EventContent` | the search's optional event-content cache, kept by the same runs | file generations, events, content, runs | stat, reads, append, backfill, upsert, derive; drop and clear |
| `ClaudeIndexer` | `indexClaudeSessions` and the inventory | files, rows, texts, the run | a statement each; writes, inventory, death |
| `SchemaUpgrade` | `createDatabase`, `migrate`, search repair, `VACUUM` | columns, triggers, ledger, keys, search index | one per statement of an opener; an older process's writes |
| `CardRefresh` | the cards of threads and Claude sessions | texts, leaves, attention, cards, marks, who wrote them, what each run has read | upsert, append, ranges, leaves, lookup, card, a mark for each, failure, refresh; watchers |
| `LcmPeers` | the cards of LCM peers and the aliases of their paths | peer files, links, cards, aliases | refresh; peers write, move, come and go |
| `TitleFinalizer` | the hooks: title, closeout, compaction, state prep | rows written, what each process has read and reports | a statement each; redelivery, death, index and clear |
| `WatcherQueue` | `persistWatcherObservations` | clock, observations, attention | persist any batch of specs; time |
| `RetrievalTelemetry` | recorded searches and follows, harvest | rows, pruning times, calls | search, open, attribute, write, harvest |

**SourceIndexer.**
One file of one thread. A line is two pieces, its text and its end, so that half
a line can be on disk. A hash is the text that was hashed. `session`, `ranges`,
`leaves` and `card` hold the set of `<<ordinal, line>>` they were derived from;
a derived value is right when it is derived from the right rows. Each statement
outside a transaction, and each transaction, is one action. Every write changes
the mtime: a rewrite that keeps size and mtime is invisible by design
(`tests/index-fast-skip.test.ts`). `got` is the session read for an append, then
the ranges read before the transaction that writes the leaves. `calm` is history:
nothing else changed since the run began.

**EventContent** has what that module leaves out: the id of an event holds the
hash of the whole file, so an append renames every event, and the content must
be renamed with it. **SchemaUpgrade** keeps one column with its backfill and
triggers and one search index as representatives of the schema's many. A process
of an older version writes beside it all along. **CardRefresh** numbers the texts
of a thread; a card made of mixed numbers is a mixture of two moments. Its `by`
says for each thread which run last read its file, and which has since written
leaves, card and either mark, so that the property can tell the last reader's from
those of a run that read the file before it.
**TitleFinalizer** is the one module of writers with no transaction at all.

### What LCO reports

| module | models | state | actions |
|---|---|---|---|
| `SessionDiff` | the mutation clock, five collectors, cursor, snapshot, staleness | the five tables with stamps, one diff, the caller's cursor | commits; ask; one per collector |
| `PreparedReads` | six bounded reports of the prepared tables | two tables by key, the report's counts and page | one per statement; row writes |
| `TargetCoverage` | `getPreparedTargetCoverage` | the tables with their stamps, what has been read | one per SELECT; a derivation run and commands, the ranges read in a step before the leaves are written |
| `LcmWalk` | `walkLcmSummarySources` | a peer's graph, the walk's queue | one per SELECT or row; the peer writes |
| `AutonomyTick` | `createCodexAutonomyTick` and the fusion of a thread's state | what is known of each lane | one: any knowledge gives one plan |
| `DesktopPlanner` | map, coherence, fallback, lane, next step, verdict | the world, the agent's map and reports | ask, follow, keep, drop; the world changes |
| `ThreadProof` | start of a thread and the proof after it | Codex's and the index's view, what was read | one per question; Codex, indexers, titles |
| `Drive` | the version probe of the claude command with its processes and timers; the plan with its approval | child, pipes, timers; clock, record, log | one per event; one per step of the plan |
| `McpSession` | one stdio session of server and client | requests, lines, the lazy runtime, the databases that failed starts left open | read, answer, fail to start, time out, die |

**SessionDiff.** Processes commit transactions to the tables; each stamps its
rows with one mutation timestamp, taken from `allocateSessionDiffMutationTimestamp`
under any clock. A diff takes its snapshot and then reads five tables, between
which others commit. `ChainIsTheChanges` is the abstract promise: whoever follows
the cursors gets every row once, in order, or is told that the cursor is stale.
**Drive** has the probe in it: for a Claude target the plan waits for what it settles with.

### What proves it

| module | models | state | actions |
|---|---|---|---|
| `LiveProofs` | the two live-control smokes, the refresh smoke, the working-app gate | audit length, what Codex performed, evidence files | one per call and file; timeouts, deaths |
| `IdleRoute` | the idle-route harness with its child server | the package, the receipt, each run and child | one per call; the child goes on by itself |
| `ReleaseEvidence` | desktop approval, action, observation, report, release status | five files, signing keys, actions | one per command step; expiry, lost key |
| `ToolEvidence` | dogfood, tool smoke, published-package smoke, tool coverage | gateways, reports | one per call and report; the world changes |
| `EvidenceChain` | matrix, run, contract, reviews, finalization, GA smoke | the candidate, one file per report | one per command; the candidate moves |
| `ProductProbe` | the product smoke's CLI and MCP probe | pipes, pending ids, timers, child | one per line, timer and exit |
| `DualPublish` | the publishing workflow of two names | registry, dist-tags, runs | one per step; failures, reruns, slow lookups |

In all three tables actions bear the name of the function or of the statement they model, and `map` in
`PROJECT.json` gives the lines. Definitions that a comment calls history or
"ghost" are not in the code: they record what happened so that a property can
say it.

### Composition for checking

`MCDerived` checks the 23 components of the last three tables that have no run of
their own. They share no state, so their product would only multiply the states: a
behaviour chooses one component (`component`), whose variables are the pool `v1` to
`v16` by position, and the rest of the pool is constant (`Derived`). The components
come in three parts, each a module with its own specification: `DerivedStore` is
what LCO keeps, `DerivedReports` what it tells, `DerivedHarness` what its harnesses
and releases rest on. The specification of `MCDerived` is their disjunction: no step
changes `component`, so that each of its behaviours is one of one part's, and a
theorem about a part's specification is about the behaviours of `derived` that
choose one of the part's components; of all others its property says nothing. The
parts exist for the proofs: `StoreProofs`, `ReportProofs` and `HarnessProofs` extend
one each. Each property is that of its module, guarded by the choice.

`MCControlRouter` gives the choice between two shapes of instance in the same way,
`MCJsonRpcClient` between a send and an idle delivery, and `MCTargetControl` has two
maps from calls to processes, which the `.cfg` files choose from.

## 3. Runs

| run | instance | checks | result |
|---|---|---|---|
| `control_1proc` | 1 process, 2 calls, 2 controls, 4 records, clock 0..1, 2 cut writes | `HonestReport`, `ImplementsLedger` | holds, 136 539 states |
| `control_2proc` | 2 processes with 1 call each, 4 records, 2 cut writes | `SpentIsVisible`, `UsesWhatWasGranted` | holds, 135 497 states |
| `control_2proc_use` | the same, 3 records, no cut write | `SingleUse` | **violated** |
| `jsonrpc` | a send or an idle delivery, and a steer; 1 app-server request with an id of its own | `SendContract`, `TurnsAreAsReported`, `NoAnswerIsStolen`, `EveryOperationEnds` | holds, 1 028 808 states |
| `jsonrpc_collide` | the same, the app-server's request bears id 2 | `SendContract` | **violated** |
| `router` | 2 calls that race on 1 thread, or 1 call at a time over 2 threads that load and unload, with a clock 0..1; 2 turns, 2 references, 1 approval | `HitsWhatWasApproved`, `KeepsTheLedger` | holds, 2 456 649 states |
| `indexer` | 1 process, 4 writes, caps of 5 pieces and 2 events | `SkipIsSound`, `WatermarkIsHonest`, `CatchesUp`, `EpochOnlyGrows` | holds, 599 145 states |
| `indexer_shared` | 2 processes, 2 writes | `SettledIsSound` | **violated** |
| `diff` | 2 files, 2 lines, clocks of 1 and 2, a scan limit of 1, pages of 2, 3 commits between diffs | `ChainIsTheChanges`, `RewritesAreTold` | holds, 1 526 441 states |
| `diff_shared` | 1 file, 2 commits, also during a diff | `DrainsWhateverIsCommitted` | **violated** |
| `derived` | 23 components, one per behaviour | 24 properties, below | holds, 1 560 636 states |
| `tool_coverage` | 2 threads, 2 smokes, 1 change of a gateway | `CoveredRowsWereProven` | **violated** |

Run one with, for example,
`tlc -config MCTargetControl.cfg MCTargetControl.tla`.

The components of `derived`, with the distinct states each has:

| component | property | bounds (`MCDerived.cfg`) | states |
|---|---|---|---|
| `LcmWalk` | `NothingOmittedSilently` | 4 summaries and an empty id, 4 links, caps of 3 nodes and 2 levels, 1 write of the peer | 121 073 |
| `LcmPeers` | `OneReadingPerPeer` | 2 files, 1 link, 2 summary ids, scan limit 1, 4 steps | 24 171 |
| `AutonomyTick` | `ProbedBeforeDriven` | 2 threads, all that may be known of one, 3 steps | 69 120 |
| `WatcherQueue` | `QueueFollowsObservations` | 1 watch, 2 targets, TTL 2, clock 0..2, 2 runs | 1 589 |
| `TitleFinalizer` | `HooksWriteOnce` | 2 processes, 3 hook runs, 2 titles, 1 event delivered often, 2 preparations | 37 467 |
| `ClaudeIndexer` | `RowsTellTheFiles` | 2 files, 2 sessions, 2 steps of others | 22 792 |
| `EventContent` | `EveryEventHasContent` | 2 processes, 2 lines, 1 change | 168 320 |
| `TargetCoverage` | `ReadyWasSo`, `DerivedIsReady` | 2 events, dated or not, 7 instants, 1 other command | 75 860 |
| `ReleaseEvidence` | `ReadyIsEarned` | 2 actors, 2 references, TTL of 1 hour, 1 launch, 1 key | 109 606 |
| `PreparedReads` | `EveryRowAccountedFor` | 3 keys, limits 0..2, pages of 1, 1 row write during a report | 32 729 |
| `SchemaUpgrade` | `OpenedIsWhole` | 2 openers, 3 openings, 2 ranges, all or none of 2 sessions there from the start, 3 writes of an older process | 96 662 |
| `RetrievalTelemetry` | `ProposalsHappened` | 2 agents, 1 query, callers' clocks 0..2, a table of 1 row, 3 calls | 69 285 |
| `LiveProofs` | `ProofsAreEarned` | 2 operators, 1 directory, a tail of 2, 4 records, 2 controls | 112 462 |
| `IdleRoute` | `ReceiptIsTrue` | 2 runs at a time | 33 786 |
| `DesktopPlanner` | `PlannerLeadsOn` | 2 threads, 1 change of the world, 2 asks | 45 669 |
| `ToolEvidence` | `SmokesAreHonest` | 2 threads, 1 change, 1 smoke per profile, 1 run per command | 126 738 |
| `EvidenceChain` | `GaIsGrounded` | 3 candidates, 2 reports made anew | 79 648 |
| `CardRefresh` | `CardsAreWhole` | 2 processes, 1 thread, 1 Claude session, 2 texts, 1 watcher change; signals and attention come with the last text; a behaviour reads the thread or the Claude session | 206 914 |
| `ThreadProof` | `SaidWasSo` | every order of Codex, indexers and titles between five questions | 26 859 |
| `ProductProbe` | `PassesOnlyIfServed` | 2 unread lines | 53 158 |
| `McpSession` | `CallsGetTheirAnswers` | 3 requests, 1 repair | 16 676 |
| `Drive` | `DriveIsGrounded` | TTL 2, clock 0..3 | 12 240 |
| `DualPublish` | `NamesStayAlike` | 2 versions, 2 builds each, 1 rerun each | 17 812 |

What the bounds are for:

* `control_*`: an approval takes a dry run, a claim and a closing record, so four
  records leave room for a second dry run or a second claim. Two cut writes are
  what it takes to spoil a record that is already on file: one cut, and one that
  goes on in its line and is cut too. A lifetime of one tick and a clock of two
  values put a lookup on either side of the expiry; the runs with two processes
  stop the clock, since none of their properties is about it.
* `jsonrpc*`: two operations are one that leaves a late answer behind and one
  that meets it. Each operation is submitted once; a steer takes three requests on
  a new connection. `ServerIds` is the one id the app-server uses: 9, which the
  client never reaches, or 2, which it awaits.
* `router`: two turns are the one approved and the next; one thread suffices for
  races between calls, two threads for the choice between them. A single
  approval is enough: approvals do not interact.
* `indexer*`: five pieces are two lines and a half, so that the caps, an append
  of one line, of half a line and of the other half, and a rewrite that is longer
  than the old text all occur. Two lines are also the cap on events, and three
  lines exceed the cap on bytes.
* `diff*`: two rows of one stamp with a scan limit of one, and a page that is full
  before the rows are, are where order and cursor could disagree. Two clock
  values let a writer's clock be behind the last stamp. The rows of a leaf, a card,
  an inbox item and a watch are one each: what a collector does with several it
  does with the lines of a file.
* `derived`: a walk with two levels and room for three of four summaries has
  complete ancestries of two sources, diamonds, cycles and links to an empty id, and
  those that either cap cuts off. Overlapping runs of `CardRefresh` need two texts, and
  of these the last is the one whose signals and attention a card can hide. Caps of 0,
  1 and 2 (limits, pages, scans, tails) put a table below, at and above each; two of everything that can be confused (threads,
  titles, files, sessions, references, directories of evidence where a property
  tells them apart); lifetimes of one or two ticks with a clock that goes past
  them; one or two interfering writes, since each reader or runner is followed for
  one report or a few runs, and interference only matters between two of its
  steps. `EvidenceChain` starts with all reports ready for candidate 1 and any
  subset of them made again for candidate 2, since making them one at a time from
  nothing would only prolong every behaviour.

Each property is also checked against a plausible mistake in the code. An
operator that a comment calls "a slip" is such a mistake (a comparison dropped, a
bound off by one, a field left alone); no action uses it. PROJECT.json
`mutants` says which definition it stands in for, and under it the property named
there fails in its own run.

`CHECK_DEADLOCK FALSE` everywhere: all of these systems may stop (every call has
returned and the bounds are used up).

**Type invariants** are part of the invariants that section 4 proves (`TypeOK`,
`TypeInv`); the properties that are run read every field of the state.

**Symmetry** is declared only where no temporal property is affected by it: over
the calls of one process, over the controls, over the threads of a tool smoke,
and, in `derived`, over processes (`Actors`: index processes, openers, hooks,
agents, operators, runs) and over things without an order (`Refs`: files,
sessions, titles, rows). No module chooses among them with CHOOSE.
`PassesOnlyIfServed` is an action property of a component without any of these.

**Fairness** is assumed in `JsonRpcClient` only. The head of the queue goes on
(`UseConnection`, `Connect` or `MeetsFailedClient`: a resolved promise runs its
continuation), and each wait has a timer that fires (`Timeout`, `TurnTimeout`).
Nothing is assumed of the app-server, the socket or the user, and `Receive` is
not fair: an operation ends by its deadline even when lines arrive for ever. Under
that, `EveryOperationEnds`. Elsewhere the processes are commands that may be
killed at any step and that nothing starts again, so that no fairness is
justified; what must come of an undisturbed run is stated as safety of the state
at its end (`CatchesUp`, `EveryEventHasContent`, `RowsTellTheFiles`).

### What the runs show

Properties that hold, control:

* A spent approval never passes a later lookup (`SpentIsVisible`): not from
  another process, not after a crash, not when the claim itself was lost with a
  spoiled line, since the scan that looks for the dry run then stops at that line.
  Skipping such lines in `find`, as `hasApprovalUse` does, would break it.
* With one process the gate implements the ledger, cut writes and crashes
  included.
* A caller who is told *sent* or *not sent* is told the truth, but for one case
  the property names: Codex performed the control, and the write of the record that
  closes this very call failed, of which the file has no finished line then or later;
  the router then reports a rejection (`router` 129-137). A cut in any other write
  excuses nothing.
* Late answers, lost connections and failed handshakes never make the client
  report what did not happen, nor leave an operation behind; a running turn is
  steered only after this very connection proved its posture
  (`TurnsAreAsReported`).
* A deliver or interrupt spends its approval only on a target that existed at
  some moment of the call, although it reads state and turn in two requests, and
  Codex hits only the turn approved (`HitsWhatWasApproved`). What Codex performs
  over all requests of racing calls is at most one control per approval, the one
  granted (`KeepsTheLedger`).

The index and its reports:

* With one index process, whatever is skipped as unchanged has exactly the
  derived state a full parse would give; a stale stat only causes more work.
* A chain of diffs tells every change once and in order or says stale, with clocks
  that disagree, equal stamps and a scan limit below the number of rows, but for chains
  that saw a commit during a diff or a stamp given a second time (`torn`); it also says
  stale when history it delivered was rewritten, but for a case named below.
* An undisturbed run repairs the content cache whatever came before, and makes
  the Claude rows say what the files say, whichever of two files of a session is
  newer.
* Overlapping, failing and dying openings leave a whole schema beside an older
  process; cards of peers are those of one reading; under overlapping runs a card
  whose marks are set is of one text, unless a run that read the file earlier wrote
  last; hooks tell one title for ever; the attention queue asks what observations say.
* No bounded report passes over a row in silence, but where the property names
  what another process must have done (`Shifted`); a thread that is called ready
  was made of every indexed event at one moment of the reading, and one that is marked
  as derived is ready to whoever asks, but for what an append with an old date or a
  derivation from ranges read before an append leaves behind.
* A lineage walk names a reason for all it leaves out; a harvested scenario is
  what happened; a plan probes a thread in doubt before it drives it.
* What the start proof, the planner and drive say was so when they looked, up to
  the exceptions below.

The evidence:

* Ready reports of desktop evidence, live control, refresh and idle route rest on
  what was performed, with processes that overwrite each other's files and die
  between two of them.
* A ready tool smoke asked every required tool; a ready GA smoke rests, through
  all reports, on none that was not ready, and, of those that name a candidate, on
  its own. Both names of a version are the same build however often its jobs
  failed.

Disagreements between the code and what the repository says of it:

* `control_2proc_use`: two processes on one audit file may use one approval
  twice. `openwiki/workflows.md:119-120` calls it single-use.
* `jsonrpc_collide`: a request of the app-server that bears the awaited id is
  taken for a successful result (`jsonrpc` 191-198), so a control is reported
  accepted that was not performed.
* `indexer_shared`: two index runs that overlap may leave a file that is skipped
  as unchanged from then on, also under `--verify`, without leaves or card: the
  marks are set outside the transactions that wrote what they mark, and the leaf
  write of one run fails.
* `diff_shared`: two commits between two SELECTs of one diff: it sees the second
  and not the first, and its cursor passes over the first for good.
* `tool_coverage`: a tool whose only call failed may have a covered row, because
  the published-package smoke lists every tool that was called.

### What the modelling showed besides

Not disagreements with a stated promise, but behaviour that a maintainer should
know; the properties name these as exceptions, or the models contain them.

The index and its reports:

* A diff about one thread does not compare the destructive generation (`core`
  12506, 12517). When the file of its thread is indexed again with the very text its
  history had begun with, and then grows past what it was with other lines, the diff
  takes it for an append: ranges that the chain has delivered are gone and it does not
  say stale (`SessionDiff`, `anew`). It takes five commits, which the run's bound does
  not reach; it came out of the proof of `RewritesAreTold`, and TLC shows it with one
  file of three lines when the property leaves the exception out.
* The allocator of mutation stamps takes the largest stamp of the rows that
  exist; after a deletion and a clock that goes back, an old stamp may be given
  again (`SessionDiff`, `torn`).
* The lookup cache of cards is built outside the transactions that write them
  (`core` 4011), and the ranges are read before the transaction that writes the leaves
  (`core` 6756). A run that read a thread's file earlier may therefore write leaves, a
  card and marks of the older text after the run that read it last, or in the place of
  one that failed, and the file is then skipped as current (`CardRefresh`, `Late`).
* Ranges that an older process writes between a backfill and the creation of the
  triggers keep a missing or wrong key for ever, since the ledger has the backfill
  down as done. A VACUUM may renumber the rowids that the search index is pinned
  to; the next full opening repairs it (`SchemaUpgrade`).
* A title hook that dies between its packet and its alias leaves the thread
  without an alias for good (`core` 8170). Overlapping state-prep hooks may write
  an older output back, and two may both report that they inserted the row
  (`TitleFinalizer`, `PrepKeepsUp` is about hooks that ran alone).
* `refreshSourceFileWatermarkMetadata` (`core` 3968, 4039-4050) sets size and mtime of
  whatever watermark the path has by then. If an overlapping run has just stored an
  older text there, the file is skipped from then on with rows of that text, until
  `--verify` or the next change (`WatermarkIsHonest` fails with two processes).
* Content of rows that a racing run renamed never matches again and is filled in
  by every run (`EventContent`, `crossed`). Texts of Claude sessions that another
  process wrote while a run was dropping them may be left over (`ClaudeIndexer`,
  `meddled`).
* The inbox report drops items whose card it does not list without counting them;
  `Shifted` in `PreparedReads` names which reports shift under which writes.
* `walkLcmSummarySources` reports a diamond without a cycle as a cycle (`core`
  18970-18973; compare `docs/releases/RELEASE_NOTES_1.5.0.md:35-36`).
* Telemetry: the caller supplies `now`; following one's own `expand_query` counts
  as an opening of its rank 1.
* The watcher's confidence defaults to 75 (`core` 16707). The tick's order is a
  sum of type, state rank and urgency (`core` 14367-14392), while
  `docs/OPENCLAW_PLUGIN.md:169` speaks of "safety-first by step type".

Reports to agents:

* The proof after a start may say persisted, or index found, of a thread that is
  not in the index, when a title or alias contains its id or is contained in it
  (`packages/mcp-server/src/tools.ts` 1915-2030, `search.ts` 476-525, 570-619;
  `Misled`). `liveProofState.persisted` is never true, so that `createdThreadId` is
  never set.
* Planner: `fallback_ready` cannot be reached from LCO's own fallback reports
  (`adapters` 2606-2613); a reconcile packet without a snapshot never ends the
  stale state (`core` 13757-13778); the resume packet of a triggered watcher changes
  nothing that the planner reads, so that it is asked for again as long as the agent
  passes the watcher on (`core` 13712-13727); a fallback report made without a coherence
  report makes it ask for one for ever (`core` 13711-13724). Titles that the
  app-server and the index disagree about may be joined to the wrong thread
  (`unfit`), and a map kept from before counts as visible now.
* Drive: an audit log cut in a line makes the lookup throw after the dry run was
  recorded. Claude session ids with a colon or over 128 characters pass drive and
  are refused later. The Claude probe does not kill a descendant that outlives an
  exited child and holds its pipes, and calls a child that exited with 0
  unavailable when its soft timer fires before the pipes close.
* MCP server: a failed start is retried with each call, and when the migration throws,
  `createDatabase` (`core` 3174-3176) has opened a database that nothing closes
  (`server-runtime.ts` 91-92, 124-131): each such call leaves one more open until the
  process ends (`McpSession`, `LeftOpen`).

The evidence:

* The refresh proof accepts an index run that overlapped the action
  (`overlapped`); `liveCodexControlRun` is false for a control that was performed
  and timed out; the two files of the working-app gate may be of different runs.
* Idle route: a run without `--execute` runs whatever is installed after hashing
  it, and overwrites the receipt of an executing run; a crash leaves a reserved
  receipt, after which no executing run can start in that directory.
* `writeDesktopGuiProofReport` (`adapters` 1999-2021) does not remove an older
  approval and runtime proof when a new report is not ready; the approval of an
  action may be used again within its lifetime.
* The product probe may see EPIPE of a server that has exited, with no listener;
  a response that was written before its request counts as its answer.
* Dogfood takes `already_installed` for a proven install.
* GA compares the candidate only of reports that name one: tool smoke, dogfood,
  sweeps, preflight, bundle, reviews and privacy scan do not, although
  `docs/BETA_RELEASE_RUNBOOK.md:208` and `:628-629` say that all point at the same
  sha. Coverage and matrix give older smokes the candidate of an option; a
  workflow-run file counts as QA lab evidence; a matrix under a dry-run scope has
  no required rows; the claim scopes of run, status and matrix are not compared
  with GA's own.
* Publication: concurrency is per tag, so that an older version's delayed run may
  move `latest` back with everything green; a version of which one name is
  published, and whose jobs were all run again with a different build, can never
  be completed by the workflow.

## 4. Theorems

Every theorem holds for all values of the constants that meet the named
assumptions: any sets of processes, calls, threads, files and ids, finite or
not unless said, and any bounds. TLC checked each inductive invariant on the
instances of section 3 before it was proved, and some of them on larger ones.

| module | theorem | property | besides the modules' ASSUMEs |
|---|---|---|---|
| `TargetControlProofs` | `GateInvariant` | the inductive invariant `GateInv` | |
| | `TypeCorrect`, `SpentStaysVisible`, `UsedAsGranted` | `TypeOK`, `SpentIsVisible`, `UsesWhatWasGranted` | |
| | `CallersAreToldTheTruth` | `HonestReport` | |
| | `OneProcessSingleUse`, `OneProcessImplementsLedger` | `SingleUse`, the refinement of `ApprovalLedger` | one process uses the file |
| `JsonRpcClientProofs` | `ClientInvariant` | the inductive invariant `ClientInv` | no request of the app-server bears an id that is awaited |
| | `AnswersMeanWhatTheySay`, `TurnsReportedTruly`, `AnswersAreNotStolen` | `SendContract`, `TurnsAreAsReported`, `NoAnswerIsStolen` | the same |
| | `ApartIdsKeepTheContract` | these three | the app-server's ids are none that the client reaches |
| `ControlRouterProofs` | `RouterInvariant` | the inductive invariant `RouterInv` | |
| | `RouterHitsWhatWasApproved`, `RouterKeepsTheLedger` | `HitsWhatWasApproved`, the refinement of `ApprovalLedger` | |
| `SourceIndexerProofs` | `IndexInvariant` | the inductive invariant `IndexInv` | one process indexes |
| | `WatermarksAreHonest`, `SkipsAreSound`, `RunsCatchUp`, `EpochsOnlyGrow` | `WatermarkIsHonest`, `SkipIsSound`, `CatchesUp`, `EpochOnlyGrows` | the same |
| `SessionDiffProofs` | `DiffInvariant` | the inductive invariant `DiffInv` | |
|  | `ChainsAreTheChanges` | `ChainIsTheChanges` | |
|  | `RewriteInvariant` | what it takes besides, `RewriteInv` | |
|  | `RewrittenHistoryIsTold` | `RewritesAreTold`, an action property | |
| `StoreProofs` | `HooksKeepTheirWord` | `HooksWriteOnce` | |
|  | `PeersAreReadWhole` | `OneReadingPerPeer` | |
|  | `ExpansionsOmitNothingSilently` | `NothingOmittedSilently` | |
|  | `CardsStayWhole` | `CardsAreWhole` | |
|  | `OpenedDatabasesAreWhole` | `OpenedIsWhole` | |
|  | `EventsHaveTheirContent` | `EveryEventHasContent` | |
|  | `ClaudeRowsTellTheFiles` | `RowsTellTheFiles` | |
| `ReportProofs` | `ProofsSayWhatWas` | `SaidWasSo` | |
|  | `DrivesAreGrounded` | `DriveIsGrounded` | |
|  | `DerivedThreadsAreReady` | `DerivedIsReady` | |
|  | `QueuesFollowTheirObservations` | `QueueFollowsObservations` | |
|  | `PlannersLeadOn` | `PlannerLeadsOn` | |
|  | `PlansProbeBeforeTheyDrive` | `ProbedBeforeDriven` | |
|  | `ReportsAccountForRows` | `EveryRowAccountedFor` | |
|  | `HarvestsTellOfDeeds` | `ProposalsHappened` | |
| `HarnessProofs` | `ReceiptsAreTrue` | `ReceiptIsTrue` | |
|  | `LiveProofsAreEarned` | `ProofsAreEarned` | |
|  | `GaRestsOnItsCandidate` | `GaIsGrounded` | |
|  | `SmokesTellWhatTheyCalled` | `SmokesAreHonest` | |
|  | `ReadinessIsEarned` | `ReadyIsEarned` | |
|  | `BothNamesStayAlike` | `NamesStayAlike` | |
|  | `AnswersFindTheirCalls` | `CallsGetTheirAnswers` | |
|  | `OnlyTheServedPass` | `PassesOnlyIfServed`, an action property | |

The hypotheses are not there for convenience. Each is what the matching violated
run lacks: a second process on one audit file (`control_2proc_use`), an id that
collides (`jsonrpc_collide`), a second index process (`indexer_shared`). That
`WatermarkIsHonest` needs one process too came out of the proof: with a second
one TLC finds that a run which sees the text it last indexed renews the mtime of a
watermark that another run has replaced by that of an older text (section 3). `ApartIdsKeepTheContract` discharges the
client's hypothesis: an operation takes at most two ids of a connection, and the
initialize one, so that ids of the app-server outside `1 .. 2 * |Ops| + 1` never
collide.

**The gate.** `SpentIsVisible` is not inductive: nothing in it says why a claim
that was found unused a step ago is still appended to a file in which the scan
works. `GateInv` adds

* `FileInv`: every line is corrupt, or a record whose id was minted, whose dry
  run says what was granted and when, and whose claim names an approval that was
  minted before; no two lines have the same id; a torn file is not empty;
* `FreshInv`: ids not minted yet were neither granted nor used, and no line has
  them;
* `CallInv`: a call past its lookup has an approval that was minted for exactly
  its binding;
* `EventLoopInv`: of the calls of one process at most one is between its lookup
  and its claim;

and, for one process, `UnspentInv`: what such a call found unused still is.
A step that appends a line either keeps `HasApprovalUse`, or spoils the last
line, and then no scan from the end gets past it. `TargetControlProofs`
states that first, as lemmas on the operators of the audit file; the step lemmas
cite them, one per action.
The refinement maps `granted` and `uses` to themselves: `DryRun` and `DryRunCut`
are `Grant`, `Claim` is `Use`, everything else stutters. `HonestReport` needs
`AnswerInv`: the answer that a call carries agrees with what Codex ran.

**The client.** `ClientInv` says that only the head of the queue is under way
(`QueueInv`); that what the app-server holds or has performed was sent once, by an
operation that has begun, and bears the id that operation waits for (`RequestInv`);
that an id names one request of a connection (`AwaitInv`); that a control is
performed by the last request of its operation and only then (`RanInv`); what a
reply that has arrived means to whoever waits for it (`InboxInv`); and that what an
operation says follows from that (`ReportInv`). Actions fall into six groups by the
variables they touch, and each conjunct is proved per group.

**The router.** `CallInv` ties what a call has read to the history of its target:
the turn it holds is one that the thread had while the call was in flight. Codex
performs a steer or interrupt only on the turn named in it, so that what it hits
is what the call validated.

**The indexer.** `MarkInv`: the watermark is not ahead of the file, its hash is the
text when size and mtime agree, and session, ranges, leaves and card are derived
from one another as far as its flags say. `StatInv` and `ReadInv`: what a run has
read of the file is still so as long as the mtime stands, and what it has read of
the rows is still so, since no other process writes them. `DeriveInv`: what it
derives comes from the row it wrote. `CalmInv`: how far an undisturbed run has come.
Lemmas on `Parsed`, the rows of a text, carry the append path: the rows of a text
are those of its first lines and those of the rest, numbered on.

**Session diff.** A row's position (stamp, kind, key) tells which row it is, and
positions are ordered. So a collector that reads a bounded number of rows leaves out
only what lies after all it returned, a page ends no later than the first such end,
and what was delivered is not after the cursor's position. Conversely what is not
after it was delivered (`Reached`), as long as the chain is not `torn`: nothing was
committed during its diffs, and each commit since gave later stamps. `RewriteInv`
adds that the snapshot a cursor carries shows every range the chain has delivered,
that a history goes on from the text it began with, and that while the destructive
generation stays, every file of a global snapshot keeps what it was.

**The components of `derived`** are proved in place, in the three modules that
choose among them (`DerivedStore`, `DerivedReports`, `DerivedHarness`): the theorems
are about `StoreSpec`, `ReportSpec` and `HarnessSpec`, whose behaviours are those of
`MCDerived` that choose one of the module's components. A lemma says that a step is
one of the chosen component, and each component's invariant is kept by its own
steps. The invariants are the last section of each component's module. What they add
to the property:

* `LcmWalk`: all that is listed is expanded, queued or in hand. At the end it is
  therefore closed under sources, and the least closed set lies within it.
* `TitleFinalizer`: an alias is the packet's title; which state-prep hook is alone,
  and that what it read is no older than what was told.
* `CardRefresh`: what the run that read a thread's file last has read is of the
  session's text still, since any later reading would make another run the last
  (`Grounded`), so that the leaves and the card are right wherever that run wrote both
  (`Held`); marks are those of runs that wrote what they mark.
* `SchemaUpgrade`: how far each opener has come tells what is there; ranges that did
  not slip in have no wrong key, and no null one once the backfill is done.
* `EventContent`: the row that an undisturbed run has looked at is the store's, but
  for what racing runs renamed (`crossed`).
* `ClaudeIndexer`: texts go before their row; an undisturbed run has told of all files
  but those it has yet to do, in the order of the list.
* `ThreadProof`: what has been read so far was so since the first question.
* `Drive`: a record is only kept of an available target; a probe whose result is good
  has exited, with no flag set and no timer left.
* `TargetCoverage`: ranges and leaves are stamped after every event they were made
  from and cards after the date they state; what the run holds is what there is while
  the session stays; and from where the run derives them leaves and card are stamped
  after the session's date, or are missing because a command outran the run.
* `WatcherQueue`: each observed spec keeps what the queue is to follow; over the specs
  of one run this is a least-counterexample argument (`WFMin`).
* `DesktopPlanner`: a map that shows the target without doubt, of titles that tell
  threads apart, is of a screen that showed it; each report, fallback and kept map
  rests on such a map, and what was followed has had its effect.
* `AutonomyTick`: the steps of one thread and kind are one; their order is total, so
  that ranks are a bijection onto 1 .. n (a pigeonhole argument); a probe ranks before
  a control of the same thread; and doubt leaves less than full coverage.
* `PreparedReads`: what was read is the beginning, in the order of keys, of the keys
  that the table had, and what stayed is fit in it; pages reach the offset or the
  bound; and the rows that are selected are as many as their places.
* `RetrievalTelemetry`: each follow is of one deed and of a search that showed its
  reference in time; the pairs of a harvest inject into the deeds.
* `IdleRoute`: what a run and its child have done by each of the run's places, that a
  living child has its directories, and that a run that nothing stopped by its report
  has seen its child end.
* `LiveProofs`: an approval has one deed at most (`DeedsInv`); what an answer, a
  report or a refresh says of it is what there is under it, and stays so as deeds are
  added (`SmokeInv`, `FilesInv`, `RefreshInv`); and a row is no older than any text
  that was read for it outside an overlap.
* `EvidenceChain`: what each report says of those it rests on, through all seven
  layers; the desktop contract may name an older candidate; a ready matrix that has
  rows is of both controls apart.
* `ToolEvidence`: while nothing blocks, each required tool is proven or still to be
  called; a defect leaves a blocker other than `gateway_setup`; whatever was asked was
  asked of the one selected thread.
* `ReleaseEvidence`: what any file, and any action under way, says of a launch is
  earned, and the launch bears the same reference.
* `DualPublish`: a run that has checked or published a name has its own build under
  it; the compatibility name has no version whose canonical one is another build;
  and the two dist-tags can not differ once both runs have verified.
* `McpSession`: each line read or in a pipe is of one request that is pending or has
  been given up, no request has two, and each answer suits the request it names; a
  call whose start left a database open is answered as unavailable.
* `ProductProbe`: one request is open at most, and while nothing invalid was read the
  answers served are those before it.

For this the models say what the code computes in a form that the provers can use: a
fold over a run's specs is a recursive function (`WatcherQueue`), a closure the least
closed set (`LcmWalk`), a sort the ranks of its rows (`AutonomyTick`, `PreparedReads`).

The three modules have twelve ASSUMEs, which TLC evaluates in `derived`: that files
and links have different paths, that an absent row, file, report, digest or probe
result is not one of those there are, that lifecycle signals and cards are those of the
tables, that threads are finitely many and numbers, that limits, pages and windows
are numbers, that the planner's target is among the threads shown, that a control may
be a send, and that a session has requests.

The attempts corrected the models in these places. `CardRefresh` marked any
thread of a run once one card was made, which a run over one thread cannot show;
a run now marks the thread whose card it made, and a thread may fail alone, as
in `core` 4012-4021. CASE expressions with overlapping arms in `ThreadProof`,
`Drive` and `CardRefresh`, of which TLC takes the first and TLA+ any, became
IF chains in the order of the code. `RewritesAreTold` got the exception that section 3
describes.

**Only model-checked.** Liveness (`EveryOperationEnds`): TLAPS has no rule for
fairness here. `ReadyWasSo`: what a reader got at several moments has to be related to
what the thread was at one of them, and that argument is not written down. Every other
property of a run that holds is proved. The violated properties are refuted by TLC's
counterexamples.

## 5. Not modelled, and why

* The text of records, messages and responses, redaction, hashing (an HMAC or a
  SHA-256 is the value it is taken of), the sanitizers of reports, and the audit
  key's creation.
* `startThread` and `resumeThread` in `JsonRpcClient`: one request without a
  sequence, on the same path as an idle delivery; what a start claims is in
  `ThreadProof`. `interruptThread` there is `steer` under another name; in
  `ControlRouter` it is an action of its own.
* The stdio client opens a connection per operation, so nothing is shared; the
  loopback WebSocket is not used by the control path of the runtime. Which
  transport is taken is a table over the environment.
* In the indexer: several files that carry one thread, and files whose mtime does
  not change. A write that fails for lack of a lock is modelled as the run's
  failure at that step. Of the schema, one column and one search index stand for
  all.
* What only reads one thing and formats it: search ranking, LCM peer probes and
  describe reports, watcher resume packets, aggregation and digests, policy,
  provenance, the compaction canary, the CLI's commands, the plugin and the UI
  (whose processes are the second process of the shared runs).
* Smokes that probe one installation and write one report: sweeps, scorecard,
  dashboard, preflight, scenario smokes. `EvidenceChain` reads what they left as
  ready or not. What npm and GitHub do inside is external: `DualPublish` takes a
  dist-tag as set once the command succeeds.
* In the models of reports, the interference is bounded: a report is followed for
  one answer. `TargetCoverage` ends with the first complete answer and stops, as
  the code, at the first missing row.

## 6. Plan

Done: the control path; the indexer of one file, the content cache, the Claude
indexer, cards, hooks and schema; session diff; the bounded reports, planner and
tick; the evidence of smokes, gates and releases; publication. Proved: every
property of a run that holds, but the liveness property and `ReadyWasSo`. Left, in
this order:

1. **Indexer, continued**: two files of one thread.
2. **Start-up**: the audit key's creation by two processes; the selection of a
   transport.
3. **Session diff**: a diff about a target that is no Codex thread.
4. **Coverage**: a proof of `ReadyWasSo`.
