# TLA+ models and proofs for meta-harness

Specifications of the control logic of `src/metaharness`, of the selflearn
library and of the tools this repository is developed with, the TLC
configurations that check them and the TLAPS proofs about them.  Paths below
are relative to the Python package `src/metaharness` unless they start with
`docs/`, `tests/`, `development/`, `scripts/` or `selflearn/`, which is
`selflearn/src/selflearn/`.

## The system

meta-harness runs workflows of delegated tasks on a fleet of model workers of
different price.  A request becomes a workflow, a DAG of steps; the engine
journals every transition and parks at human gates; each step is one task
that the executor routes to a worker, verifies and escalates; coding workers
are external command lines in a leased workspace; offline, the optimizer and
the discovery kernel search for better harness configurations and park what
they find for a human.

| Component | State it keeps | Operations | Interacts with | What is hard |
|---|---|---|---|---|
| workflow engine, `workflows/engine.py` | per run: status, outputs, approvals, the awaited gate | start, advance, approve, reject, fail, archive, restore, adopt at boot | journal (every transition first), executor (one await per step), web service and command line | two processes on one run, stale memory before a lock, crash between two appends, races of decisions |
| run journal, `workflows/journal.py` | the file, its records in memory, a process lock | acquire (lock and reload), append, release | engine | torn and failed writes, sequence numbers assigned from memory |
| task executor, `core/executor.py` | attempt history, exclusions, the tier forced next | execute | router, budget, matrix, registry, verifiers, judge | interleaved tasks on shared evidence and money, retry policy by cause |
| router and matrix, `routing/router.py` | passes and samples per model | decide, next_tier, record | executor | decisions re-taken after an escalation, exploration of an unproven member |
| budget and plateau, `core/budget.py` | money spent, recent scores | charge, stop | executor | charged after the fact |
| local worker, `harness/local.py` with `context/live.py` | the sections of one attempt | declare, fit to the budget, ask, call tools | executor, model endpoint, tool registry | a dialogue cut by rules made for texts, tools that come and go while it waits |
| coding worker and lease, `harness/coding.py`, `harness/isolation.py` | process-local reservations, file locks, a process tree | claim, launch, stop, release | executor, operating system | timeouts and cancellations against descendants, failures half way through a claim |
| optimizer, `optimization/` | the candidate ledger, pending and promoted configuration | search, propose, evaluate, gate, approve, boot | console, proposer | restart between the writes of an approval, stale baselines, a budget that ends anywhere |
| discovery supervisor, `discovery/supervisor.py` | an event journal, attempts and their budgets | submit, run, stop, resume, recover | scheduler, launcher, evaluator | intents and outcomes across crashes, two clocks, replay against what was emitted |
| steering, `discovery/evolution.py`, `policy.py`, `scheduler.py`, `heartbeat.py` | the active policy and its ancestors, strategy rows, firings | propose, validate, activate, roll back, plan a batch, evaluate heartbeats | supervisor, knowledge hub | children that wait while another is activated, caps over several tenures, an evaluation that raises half way |
| knowledge hub, `discovery/knowledge.py` | artifacts and use receipts of a campaign | append, query, read | workers, the supervisor's issuance | assignments anybody can mint, an intent whose outcome was lost |
| lineage workspaces, `discovery/lineage.py` | one branch and worktree per lineage, receipts | create, commit, quarantine, close, recover | git, workers, operators | the repository changes before its receipt is durable |
| blueprint and suite stores, `blueprints/store.py`, `evals/store.py`, `evals/artifact_store.py` | drafts with revisions, immutable versions, publish intents | save, tune, fork, publish, archive, recover | console | four durable writes behind one intent |
| suite extras, `optimization/suites.py`, `harvest.py` | one file of added questions, its lock | ask a generator, harvest, append, tune | console, command line | two writers and a reader that splits by position |
| console fleet, `web/app.py`, `web/state.py`, `config.py`, `cli.py` | agents, providers, registry, pools, `config.json` | admit, move, remove, change a provider, restart | router, registry | an admission awaits the endpoint in the middle |
| MCP servers, `tools/mcp.py`, `tools/registry.py`, `web/app.py` | configurations, mirrored tools, the last load | add, change, delete, load, restart | engine | a load awaits the server in the middle |
| scaffold campaign, `evals/h_campaign.py` | create-only evidence, a holdout ledger | run, claim the holdout, reload | evaluator | the holdout opened once, across crashes and runs |
| memory, `memory/` | append-only records and receipts, proposals, a snapshot's advice | commit, search, read, propose, reopen | workers through `harness/memory.py` | transactions cut off, ids after a reopen, advice derived from what may not be seen |
| selflearn, `selflearn/` | packs in plain files, failures of topics, compiled executors | publish, mark, deprecate, restore, doctor; observe, sweep; evaluate, activate, run | acquisition, the harness | files written in place by several processes, a doctor that repairs them |
| remote workplan, `development/remote_workplan/` | cards, claims, reservations, an outbox | qualify, claim, bind, submit, integrate, accept, requeue, revalidate; dispatch, reconcile | Linear, workers of several hosts | leases that end during a call, comments that may or may not have been posted |
| local workplan, `scripts/workplan.mjs` | a board in one file, a lock and its recovery guard | every command | developers and agents of one machine | commands that die holding the lock |

`PROJECT.json` lists every part, the ones left out with the reason.

### What makes each component correct

*Engine and journal.*  The journal is contiguous and canonical whoever writes
it, but for a number that an event sink whose append raised behind a whole record
leaves to the next one; the memory of a process that holds the lock is the replay of the file;
gated work runs only behind a recorded approval; one decision per gate;
settled steps never run again; a run never stays "running".
*Executor, router, budget.*  The verdict is the one the last attempt earned;
evidence is only what shows skill; a retry happens for a reason; the ceiling is
overrun by at most a charge per task; escalation never shuts the last door.
*Local worker.*  What is sent is a conversation: every turn has its answers, in order,
no round is forgotten, and no text is trusted more than it was declared to be, however
little room there is; the assembler refuses, it does not fail.
*Coding worker.*  One attempt per workspace; nothing of a lease is left behind;
a stop leaves nothing alive; every lease ends.
*Optimizer.*  Nothing recorded changes; no configuration is paid for twice;
what is promoted won on held-out tasks; a restart changes nothing.
*Discovery supervisor.*  Recovery knows what the dead instance knew and accepts
what it wrote, cut anywhere; budgets and deadlines are not renewed by a crash; no
launch after a stop; every submission ends once.
*Steering.*  The strategy rows replay to the active policy; a policy's cap holds
over all its tenures; a batch is exactly as planned; a firing has its artifact.
*Knowledge, lineages.*  What is visible was written under an issued assignment;
lineages are kept apart; the journal replays unless a receipt in it straddles a
worker's commit; a quarantine holds.
*Stores.*  A version is published once and an interrupted publication can be
completed.  *Suite extras.*  What a search was given never judges it,
a built-in held-out question that a generator writes again excepted.
*Fleet, MCP servers.*  What is routed to is what is registered; what is kept comes
back after a restart; a tool that may be used is the one configured now, unless loads
of its server overlapped or its secrets were in the clear.
*Campaign evidence.*  The holdout is read once; what reloads as accepted was earned.
*Memory.*  Fresh ids and whole writes; no advice derives from a secret.
*selflearn.*  The doctor leaves a pack that loads; no failure counts twice; only
approved executors run; after evaluations one by one, none a repeat, the runtime runs
the last one or the doctor tells.
*Workplans.*  Paths of two cards never overlap, nobody holds two cards, done is
integrated; the issue comes to show the card; no command is lost on the board.

## Modules

| Module | Models | EXTENDS / INSTANCE |
|---|---|---|
| `WorkflowRun` | `workflows/engine.py` over `workflows/journal.py`, the handlers of `web/app.py` and `portable/cli.py` that drive it | INSTANCE `RunContract` |
| `RunContract` | what a run promises to a reader of its journal | |
| `WorkflowRunMC`, `WorkflowRunProofs` | workflows for TLC; proofs about the file and the lock, and about what it records | `WorkflowRun` |
| `TaskExecutor` | `core/executor.py` with `routing/router.py` and `core/budget.py` | |
| `LocalWorker`, `LocalWorkerMC` | `harness/local.py` with `assemble_live`; four small tasks | |
| `Projection` | the outbox of the workplan's `gateway.py`, `linear.py` | |
| `TaskExecutorMC` | pools, tasks, prices; a worker and its model; two instances of the outbox | `TaskExecutor`, `LocalWorkerMC`; INSTANCE `Projection` |
| `TaskExecutorProofs` | proofs of the executor and of the local worker | `TaskExecutor`, `LocalWorker` |
| `CodingWorker` | `harness/coding.py` under `harness/isolation.py` | |
| `CodingWorkerMC` | two processes, three calls | `CodingWorker` |
| `HarnessOptimizer` | `optimization/loop.py`, `ledger.py`, approval in `web/app.py`, boot in `cli.py` | |
| `HarnessOptimizerMC` | one suite | `HarnessOptimizer` |
| `CampaignSupervisor`, `CampaignSupervisorProofs` | `discovery/supervisor.py`: live operation, replay, recovery; proofs | |
| `ArtifactStore` | `blueprints/store.py`, `evals/store.py`, the tuning endpoint | |
| `Fleet` | the worker and provider handlers of `web/app.py`, `web/state.py`, `identity/registry.py`, `config.py`, the boot in `cli.py` | |
| `ToolServers` | the MCP handlers of `web/app.py`, `tools/mcp.py`, `tools/registry.py` | |
| `Console` | a console: searches, stores, fleet, tool servers | `HarnessOptimizer`; INSTANCE the three above |
| `ConsoleMC`, `ConsoleProofs` | a small one; proofs of all parts | `Console`, `HarnessOptimizerMC` |
| `ScaffoldCampaign` | `evals/h_campaign.py`: runs, claim, reload | |
| `ScaffoldCampaignMC` | a small campaign | `ScaffoldCampaign` |
| `MemoryBroker` | `memory/stores.py`, `broker.py`, `harness/memory.py` | |
| `PackStore`, `Learner`, `Executors` | selflearn: `store/packstore.py` with `doctor.py`; `learning/gaps.py`; `compilation/` with the doctor's report | |
| `Records` | what outlives a process: campaigns, memory, packs, learning, executors | `ScaffoldCampaign`; INSTANCE the four above |
| `RecordsMC`, `RecordsProofs` | small ones; proofs of all parts | `Records`, `ScaffoldCampaignMC` |
| `KnowledgeHub` | `discovery/knowledge.py` with the issuance of `supervisor.py` | |
| `LineageWorkspace` | `discovery/lineage.py`, git, workers, operators | |
| `SearchPolicy`, `Heartbeats` | `discovery/evolution.py`, `policy.py`, `scheduler.py`; `heartbeat.py` | |
| `Discovery` | what works beside the supervisor | INSTANCE the four above |
| `DiscoveryMC`, `DiscoveryProofs` | small ones; proofs of all parts | `Discovery` |
| `RemoteWorkplan`, `WorkplanMC` | `development/remote_workplan/gateway.py`; two cards | |
| `LocalWorkplan`, `SuiteExtras` | `scripts/workplan.mjs`; `optimization/suites.py`, `harvest.py`, the coverage endpoint | |
| `Locks` | what locks with files: leases, board, suite | `CodingWorker`; INSTANCE the two above |
| `LocksMC` | small ones | `Locks`, `CodingWorkerMC` |
| `WorkplanProofs` | proofs of the locks and of the gateway | `Locks`, `RemoteWorkplan` |
| `Folding` | facts about folds over any operator, with their proofs | |

The modules that hold several parts have a variable `part`, chosen in the
initial state and never changed: the parts share no state in the code, and a
behaviour is one of them.

### WorkflowRun

One run and the processes that may load it.  `journal` is the file (a record
per event: kind, step, sequence number as the writer computed it, what replay
reads), `torn` a partial last record; `mem[p]` is the `RunState` object of a
process, `seen[p]` how many records its `Journal` has, `queue[p]` and `op[p]`
its pending and running operations, `lock` the sidecar lock, `pc` and `task`
the place in `_advance_locked`.  Each `journal.append_event` with the memory
updates beside it is one action, since the code awaits nowhere else than at the
lock and at the executor call; `Crash` may fall between any two.  An append has
four outcomes (`Write`, `Raises`; journal.py:373-405): written, raised with nothing
written, with a torn record, or with the whole record in the file, which the fsyncs
behind the write allow (397, 403) and of which the writer's own list knows nothing
(271).  A raise takes the operation's error path (`OnError`: the web service queues
`fail`), and the next operation reloads under the lock; only in the middle of an
executor call, where the engine or the worker catches it (`SinkRaises`), is the next
record numbered from memory.  `Acquire` reloads the file, `Refresh` rebuilds the
state, and the actions after it follow the order of the loop: the rejected
gate, the parked artifact, the skipped dependent, the condition, the gates,
the references, the attempts.  `Replay` is a closed form of
`_state_from_entries`; `Folded` is the loop itself, entry by entry, and
`ReplayIsTheFold` says that the two agree on every journal that is written.

`RunContract` knows only phase, done, skipped, decision and gate;
`ImplementsContract` checks that the engine's journal, read by replay, moves
only as the contract allows, over crashes, duplicate requests and interleaved
processes.

### TaskExecutor

Tasks on one event loop sharing matrix, budget and registry.  A step runs from
one await to the next: hints, worker call, execution verifier, judge; between
them other tasks charge, bank evidence, and the operator retires workers.  A
call's result is reduced to the cause of the verdict it gets: `pass`, `fail`,
`schema`, `error`, `timeout`, `contract`, `authenticity`, `budget`, `none`
(unverified).  `Decisions` is `Router.decide` with floor, affordability,
threshold, exploration and pins; estimated pass rates are in percent, with the
smoothing of the code.  Reflections, advice text and hints are data.

### LocalWorker

One worker over an OpenAI-compatible endpoint, attempt after attempt.  `drafts` is what
an attempt has declared so far, in order; each round of it assembles all of them again
(`Assemble`, with no await in it), sends what came out (`sent`) or ends, waits for the
model (`Reply`, `PostFails`) and for one tool after the other (`CallTool`, `CallFails`).
`tools` is the registry of the harness, in which the tools of an MCP server come and go
during those waits (`Reload`); the schemas of an attempt (`offered`) are fixed at its start.
A text is its length, so cuts, shares, joined messages and the hard budget are computed as
the code does (`Shares`, `Fitted`, `Joins`, `Total`), scaled down to a few tokens.  The
checks that the records of the context make of themselves are `SectionsAreValid`,
`EnvelopeIsValid`, `ManifestIsValid`: an exception of theirs ends the attempt as
"malformed", a refusal of the assembler as "contract".  Left out: redaction, hashes,
the flat prompt that command lines are given, how an answer is parsed.

### CodingWorker

The claim of a resolved workspace has two locks, the process-local holder table
and the file lock, taken one after the other and given back in the order of the
nested `finally` blocks.  A command line is its leader and one descendant,
which may share the group and the pipes or not and may be seen by the scan of
`/proc` or not; SIGTERM obliges nobody.  Timeout, cancellation (also during
the stop of a timed-out call, coding.py:530) and the death of the harness may
come at any point.

### HarnessOptimizer

A suite's ledger (`disk`), what a running search holds in memory (`search`),
the three files of the human gate and the configuration that is live.  A
search runs from one await to the next; a proposal has any parent and any
configuration, passes or fails the code gate, and is refused as a duplicate;
the budget may end in any evaluation; approvals and refusals arrive any time;
the console may die between any two writes of an approval and boots from what
is on disk.

### CampaignSupervisor

One campaign, the instance that runs it and the journal it leaves.  An action is
a handler from one await to the next (`Launch`, `ExecutorReturns`,
`EvaluatorReturns`) or a command (`Submit`, `RequestStop`, `Recover`, ...); it
collects the events it emits, and `Take` writes them all (`Durable`) or a proper
prefix (`Lost`: the process died, or an append of unknown durability poisoned the
instance).  `durable` is the journal as replay reads it: each event written is
put through `Observe`, that is `_replay_event` with its evidence table
(`Precursor`), the contradiction rule, the pairing of intents and outcomes and the
receipt checks; `recover()` reads nothing else of a journal.  `mem` is what the
live instance tracks by itself, so `LiveIsReplay` compares two independent
translations.  `wall` may be set back, `mono` may not; a clock read behind its
last accepted reading poisons (`RolledBack`).  An action reads the wall clock
once, where the code may read it a few instructions apart.  Waiting attempts
acquire the semaphore in any order, a superset of its FIFO, and a retry may be
overtaken where a free slot would let it go on at once.  Several histories
(`calls`, `why`) are there for the properties.  Left out: hashes and identities
of events and receipts, the knowledge events, which no code emits, and a torn
last line, with which `read_all` refuses the file.  In this repository only tests
drive the supervisor.

### ArtifactStore

One id of a store is its catalog entry, its draft, its publish intent and its
numbered versions, each a file; a caller works under the file lock of the id,
write by write, and may die between two writes, which frees the lock.  Reads take
no lock, and a save names the revision its caller has seen.  A publication writes
intent, version, catalog, and then unlinks draft and intent; whoever comes next,
a reader of the draft excepted, completes what it finds.  `births` tells drafts of
one id apart.

### Fleet and ToolServers

`Fleet` is the admission of a worker from one await to the next: `AddBegins`
checks and sends the ping, `AddEnds` or `AddRefused` go on with what configuration,
registry and pools are by then.  `Saved` writes the file from memory; `Restart`
builds registry and pools from the file alone, with a stand-in for every tier that
is empty, and may fail (`Boots`).  Agents and pools are sets: their order, which decides
between equal workers only, is left out.  Only workers with an endpoint wait; the other
kinds are admitted in one step and add no interleaving.

`ToolServers` keeps a configuration's content, its enabled flag and whether its
secrets are in the clear: a save obscures them, and the fingerprint is of the text.
A load clears the source, awaits, and registers; `MayBeUsed` is `_tool_is_current`.

### ScaffoldCampaign

Runs of one frozen specification, each given an evidence root, may share roots and
share the holdout ledger.  What executing a split yields is drawn from `Trials`, a
set of outcomes with usage and faults, and the three gates are evaluated as the
code does, over cells and repetitions.  `Claim` claims before `OpenHoldout` reads; every
exception ends in one handler, which writes an aborted terminal for a burned slot.
`Reloads` is `verify_campaign`: it derives the gates again from the files.

### MemoryBroker, PackStore, Learner, Executors

`MemoryBroker` has a database of records, index and mutation receipts, written in
transactions of two or three statements, and one counter of ids in memory.  The
broker's searches, reads, proposals and the log of observations apply the policy of
a snapshot, but for the lifecycles, which a request may name itself (broker.py:1478);
operators use the store itself beside it.

`PackStore` has the files of one pack, the copies of the processes that opened it,
the writes each still has to make, an editor and crashes that tear a file, and the
doctor with its four repairs.  A publish has two forms: `Publish`, and `PublishRefused`,
whose probes are refused when the entry in memory is published already
(packstore.py:239-249).  A vector cleared by a publish stays in the sidecar.  Files an
editor renamed or copied are `strays`; a file may be cut within a character
(`Cut`), on which the doctor stops.  It is assumed that the doctor runs only while nobody
has the pack open.  `Learner` has one owner and counters as histories.
`Executors` follows one evaluation of a gate write by write; gates take no lock.  A
receipt is a hash of what was decided and of the time, which the caller gives, so
evaluations may share one (`Times`), and a transition moves every record that is equal
to the one it names (registry.py:168-180).

### KnowledgeHub, LineageWorkspace, SearchPolicy, Heartbeats

An assignment is issued when its acceptance is durable (`submit.outcome`); the hub
asks the supervisor.  Anybody may present any assignment.  `LineageWorkspace` splits
every operation where git is called, with git failing, workers that edit and commit,
operators that clean or remove a worktree, and a death between repository and
receipt.  Behind a commit, status, head, parent and tree are read by four commands
(`ReadStatus`, `ReadHead`, `ReadParent`, `Verify`), and the worktree may change between
any two; a tree hash is the commit whose tree it is.  `Recover` replays the receipts
the caller persisted, with the checks of heads and trees.  `SearchPolicy` takes
proposals through the four stages of `policy.py` and plans batches with the bounds
and all seven selectors of the scheduler, over a few shapes of populations; `Heartbeats` works
on one beat after the other and may raise in between.

### RemoteWorkplan and Projection

A call is one transaction.  It names the revision its caller saw, so a call that
overlapped a change is refused; what remains of overlapping calls is that the first
transaction of a call looks at the lease and the second does not, kept in
`lease` ("late": ended, with a call still under way).  `Projection` has
the outbox as a sequence with keys that are inserted once, dispatchers that claim
a batch under leases, calls to Linear that fail before or after their effect, and a
reconciler that reads the issue, later compares, and enqueues a repair.

### LocalWorkplan and SuiteExtras

A command takes the lock file, reads the board, and renames a new one over it; the
recovery of a dead command's lock is taken step by step, under the guard.
`Outcomes(board)` is the set of boards a whole command can make of one, so that
`BoardIsSound` compares interleaved commands with an atomic one.  `LocksMC` bounds
what the commands do: many on one card, or one at a time on three.

`SuiteExtras` has a request of the console and a harvest that propose questions,
each filtered against what it knows (`Filtered` is the set of what an answer may
leave), and `append_extras` step by step: lock, fresh
read, replace, unlock; saves fail and processes die.  `Tune` reads the file at any
time and hands every other question to the search and to the gate.

## Runs

Distinct states and times with two TLC workers.  Every run of a passing
configuration is exhaustive within its bounds.

| Run | Question | Instance | States |
|---|---|---|---|
| `workflow_gates` | gates, decisions, replay, contract | service and command line, two three-step workflows (artifact review and branch behind a gate; tool gate and references), one crash, two requests | 445 k states, 146 s |
| `workflow_crashes` | what a crash, a failed or a torn append may do, and does every running run settle | two services, review and branch, one attempt, one crash, one append that raises behind nothing, a part or all of its record, one request | 330 k states, 117 s |
| `executor` | one task against every cause; two tasks with shared evidence and money; is what a worker sends a conversation; does the issue follow the card | three tiers, five attempts, ceiling 7, one retirement; a pool of two in the middle, one task pinned, ceiling 5; four tasks, four replies, two tools, two tool rounds; two dispatchers, batches of two, two troubles, an item that cannot be sent, or one dispatcher, a reconciler, one trouble; two revisions | 545 k states, 169 s |
| `refusals` | violated: a task that was refused is refused again | the worker of `executor` | |
| `locks` | claims, stops and crashes; commands that die; questions added while others tune | two processes, three calls, one forking command line, one cancellation, one crash; three commands on one card, one command at a time on three cards, two owners, two heads; a request and a harvest, four questions, batches of two, one failure or death | 395 k states, 132 s |
| `lease_descendants` | violated: nothing survives a stop in the group | two processes, three calls | |
| `console` | searches, approvals, restarts; publications; admissions; tool loads | two knobs, a clean and a leaky artifact, two searches of two rounds, one crash; two clients and two artifacts, two versions, two revisions, two drafts, one death; two tiers, three ids, one provider, two clients, three admissions, one update, one restart; one server, two tools, two settings, two loads, three edits, one restart | 413 k states, 152 s |
| `supervisor` | live against replay, budgets, deadlines, every submission ends | two attempts, one slot, one restart each, one evaluation, one crash or lost append, one clock set back, three instants | 2.2 M states, 208 s |
| `records` | evidence, memory, packs, learning, executors | two runs, two roots, two repetitions, one crash; three records, one reopening; one entry, two processes, two faults (a refused publish, a crash, an edit), three operations; two packs that share a topic, four failures of a topic, cap three, two crashes; two gates, two evaluations at one of two times, one crash, one change | 1.9 M states, 206 s |
| `discovery` | knowledge, lineages, steering, heartbeats | two attempts, either lineage, one recovery; two lineages, two commits, three receipts, two restarts; three policies around the root, six calls, three populations, two windows, two waiting children; four beats, four numbers, two engines | 1.5 M states, 234 s |
| `lineage_recoverable` | violated: the journal of a manager has no gap | one failing git command | |
| `workplan` | reservations, seats, integration | two cards with nested or disjoint paths, two workers, two definitions, two fences in total, two epochs, one delivery | 1.5 M states, 145 s |

Several properties of a run are conjunctions of the properties named in the
modules: `GatesDecide` (gated work has its approval, and a gate one decision),
`HistoryIsSound`, `EvidenceIsEarned`, `WritesAreFreshAndWhole`, `PacksHeal`,
`SignalsAreEarned`, `ExecutorsAreEarned`, `LineagesReplay`, `SteeringIsSound`,
`PublicationsComplete`, `FleetIsSound`, `SuiteIsSound`, `BoardIsSound`,
`IssueFollowsCard`; the parts are stated one by one where they are defined.

Why the bounds are enough.  Two processes suffice for a stale copy, a lost
lock and a race of decisions, since every operation works under one lock and
reads nothing of a third; three steps give a dependency, a branch and a gate
in each relative position; one crash falls between every pair of appends, and
a second only repeats the recovery from a state already reached (the state
after a boot is a function of the file).  In the executor each rule concerns
at most two attempts of a tier and one tier above; three tiers and five
attempts contain every pair, and `Window` (3) stops a task before the fifth.
Two tasks are needed for shared evidence, a third adds more of the same.  Thirteen
tokens are room for six small sections, of which the later rounds cut and omit some, and
for a long system prompt that is cut at once; so an attempt is refused before the first,
the second or the third request; two calls in a turn are the least with an order.  The
lease is taken by one of two contenders of a process or by another process:
three calls.  Three commands are the least of which one holds the recovery guard
over a lock that a second gave up and a third took.  Two searches are the least
with an approval between them.  Two clients and two drafts give a save that names
a draft somebody deleted and made again.  Two admissions of one id overlap a
removal; a third moves it back.  A load is overtaken by one edit and one other load.
Two attempts make one wait while the other runs and compete for the one evaluation;
a single lost turn falls between any two events, also of the recovery that
follows a `RolledBack`; three instants put a deadline before, at and after any
step.  Two campaign runs dispute one ledger and, in one root, each other's files.
Three records are a secret, one derived from it and one derived from that.  A pack's
files depend on each other entry by entry (two entries were checked once, apart
from the run).  Two lineages are a parent and a child; three receipts let
one be quarantined between two others.  The policies of the run choose parents in four
of the seven ways (elite, baseline, diverse, and underexplored when a population is
concentrated); the theorem is about any of them.  Two fences in total let a card be handed on
once, or two cards be claimed once each.  Two revisions give a repair that
is older than what the issue shows.

Fairness.  `FairSpec` asks weak fairness of what a live process does by itself:
the coroutines of an event loop that runs (`WorkflowRun`'s `Work`,
`TaskExecutor`'s `Step(t)`, `CodingWorker`'s `Step(c)`, the optimizer's `Step`),
and of `Boot` for services, which a supervisor restarts.  The campaign supervisor
has no driver but tests, so its `FairSpec` states what one must do: recover after
a crash, call `run_available` for what is queued, let the clock run.  `Moves(a)`
and `Recovers` are the handlers named by what they change.  Each await in these
steps has a timeout in the code (worker calls, sandboxes, the judge, the SIGTERM
grace of a stop).  Nothing is assumed of humans, clients, command lines,
descendants, budgets or crashes.  The projection has no driver in this repository
but its two commands: `IssueFollowsCard` assumes that somebody keeps calling `dispatch`
and `reconcile`, that leases end, and that Linear fails finitely often (the bound
on troubles).  Deadlock checking is off where the system really stops: a settled
run, a finished task, a lease given back, all searches used, a published artifact.

Mutants.  Every property of a run has one: a definition as a plausible bug would
have it (a dropped guard, a missing refresh, an unrecorded step), written right
before the definition it replaces and marked `Mutant:`.

## Where code and text disagree

Checked by a violation run:

- `lease_descendants`: a stop that finds the leader gone signals nobody
  (coding.py:568), against the comment at coding.py:512-514.
- `lineage_recoverable`: a number is taken for a receipt before the git command
  it records (lineage.py:312); when git fails, the next receipt leaves a gap, which
  `recover` refuses.

- `refusals`: a refused context is said to come "BEFORE any model call" and to be refused
  again by any retry (live.py:82-85, executor.py:525-526); the assembler is called again in
  every tool round, with what the model and the tools have said by then (local.py:315-405).

Seen while modelling, visible in the models, with no run of their own.

Engine and executor:

- web/app.py:436 resumes only "running" runs, so a crash between `step.failed` and
  `run.failed` leaves a stream that engine.py:297-300 says is finished.
- The tool gate's approval also satisfies the post-artifact gate of the same step
  (engine.py:335, 386, 521), against docs/architecture.md:87.
- `max_attempts` 0 is accepted (core/types.py:108, workflows/dsl.py:50): the loop
  body never runs and the default verdict UNVERIFIED is recorded as a completed
  step, which executor.py:216-218 calls a former defect on another path.
- A torn record makes every later load of that run raise (journal.py:428-445):
  the run stays where it was, while engine.py:3-5 promises a resume.
- An append that raises behind a whole record (journal.py:397, 403) inside the executor's
  event sink is caught (engine.py:480-483) and the next record, `step.failed`, has its
  number again; every later load refuses the file (journal.py:454).  `SequenceContiguous`
  names the case.  Behind a whole `approval.resolved` the client is refused although the
  decision counts, and nobody advances the run until it is repeated or the service
  boots (`Unheard`); behind a whole `run.started` the caller has no run and the next boot
  one more.
- A coroutine cancelled while its thread waits for the run lock (engine.py:283)
  leaves the lock taken; nothing in the service cancels one before it ends.
- A task stopped by the budget reports less than it did: no `task.attempt`
  record and no share of the last charge (executor.py:379, 417, 457).
- The affordability filter may route an escalated task downwards
  (router.py:441; executor.py:6 says escalation goes up).
- A cancellation during the unshielded stop of a timed-out call abandons it
  between SIGTERM and SIGKILL (coding.py:530); a command line outlives a harness
  that dies, in a session of its own.

Optimization:

- A promotion is compared with the first candidate ever evaluated (loop.py:203),
  the approval card says "today" (web/dashboard.py:2545-2548).
- suites.py:6 calls search and held-out sets disjoint, and `append_extras`
  (suites.py:201) says both its callers have filtered against both; the coverage
  endpoint knows only the built-in search questions (app.py:642, 675), so a built-in
  held-out question that the generator writes again may enter the search.
  `SidesStayApart` names such questions (`repeated`) and says that they are the only ones
  ever given to both sides: "disjoint" does not hold of the program.
- An approval names a suite and promotes what is pending when it arrives; the
  pending file is unlinked before the promotion is written, so a crash between the
  two loses the approval.  A candidate the budget cut short is never evaluated again.

Console:

- Two overlapping loads of one MCP server: the load of an older configuration that
  answers last registers tools that count as current, or marks the server as
  failed (mcp.py:105 says stale capabilities are more dangerous than temporary
  unavailability).  Obscuring secrets in a save changes the fingerprint, and the loaded
  tools are unusable until they are loaded again.
- `config.json` is written in place: a crash in a save leaves a console that does
  not start.  An agent kept under the id of a stand-in of another tier, or an emptied
  provider address, makes the next boot fail (app.py:1630: "persist the definition
  so it survives restarts").  A refused admission leaves its key in memory, and the
  next save keeps it; a worker admitted again without `persist` comes back in its old tier.
- A draft that was deleted or published and made again has revision 1 again, so a
  stale save replaces it (docs/harness-blueprints-overhaul.md:74 promises a 409).
  `list_versions` of the suite store (store.py:481-513) unlinks the temporary file of
  a publication under way; the tuning endpoint persists a proposal before it applies it.

Discovery:

- A campaign is stopping, an evaluation completes, the process dies before the
  terminal.  Recovery cancels the attempt (supervisor.py:775-790) and the next
  recovery refuses the journal for good: the rule at supervisor.py:1382-1397 rests on
  the claim that no producer ends such an attempt otherwise.  A `TIMED_OUT` that only
  the monotonic clock saw is refused as well (row 4 of the table at supervisor.py:221).
  Both are exceptions of `HonestJournalsReplay`.
- A supervisor task cancelled from outside during a port call strands its attempt
  until the next recovery.
- The head, its parent and its tree are read by three git commands (lineage.py:421, 422,
  429).  A worker that commits in between makes a receipt with the parent or the tree
  of another commit; the manager returns it, and a manager that recovers from it is
  poisoned (lineage.py:696-703, 775-788).  `JournalsReplay` names such receipts
  (`Straddles`) and says that no other is refused.
- A crash between `git worktree add` and its receipt leaves a branch that makes every
  later creation of that lineage fail; a commit that fails its check leaves the head
  past the recorded one, and the lineage is refused until recovery quarantines it.
- A policy whose cap is spent can be made active by a rollback and never schedules;
  a rollback to the root is impossible; a heartbeat's key leaves the population out,
  and a new engine over an old hub is refused for a number that has its artifact.

Campaign evidence and memory:

- An approved target that is a validation case of another view is accepted and fails
  only when the campaign runs (h_campaign.py:596-603, 2039-2064, 3068-3075).
- A run that collides with another writes an aborted receipt for a slot that the
  other burned, against `_persist_aborted_terminal` (h_campaign.py:2433).
- `latest in chain` of the broker looks only at what the query found
  (broker.py:846).  A record longer than the compression limit, or of a narrower scope,
  makes every later consultation fail once it is accepted.  A sink that raises gives a
  durable write a REJECTED receipt (audit.py:78-80).  A revision of a dormant candidate
  is active.

selflearn:

- A crash between the entry and `probes.jsonl` leaves a deprecated entry with live
  probes, and the doctor does not see it; a probe it retired as unvalidated comes back
  by deprecating and restoring the entry.  A torn manifest loses the streak of harmful
  marks, which no entry file keeps, and each mark rewrites the only copy of an entry.
- `publish` sets status and vector before it looks at the probes (packstore.py:239-249):
  after a refusal the entry is published in memory, and the next write of the manifest
  makes a pack that does not load.  A publish without a vector clears the one in memory
  and does not rewrite the sidecar (240-241, 255): it is back after the next load.
- The doctor crashes on an entry file cut within a UTF-8 character (doctor.py:670-675
  catches OSError only), and leaves a misnamed copy of an entry where it is.
- An evaluation that repeats the active executor's, to the time of its decision, makes a
  second record of one identity: the swap supersedes both, and none is active
  (registry.py:168-180, gate.py:309-312).
- `registry.json` is created by a plain write: a crash there leaves what the doctor
  calls not fixable.  Two gates at once lose each other's records and may leave two
  active executors or none; the runtime runs the first active one, and neither looks
  at the lifecycle of the entry.  The doctor does not compare a source's text with its record.

Workplans:

- Owned paths are not exclusive among cards under way: `bind_worktree` takes a blocked
  card whose paths were given up back to work without looking
  (docs/dual-subscription-high-level-implementation-plan.md:191); a claim does not check
  the backend epoch (:230); integration and acceptance go on while a card is frozen
  (:279).  After a revalidation, a card in `verifying` can be accepted with the
  integration made under the old definition.
- The receipt of a switch of the backend fails its own validation for good; as many such
  items as the limit starve the outbox.  Two dispatchers may both pass the marker check
  and comment twice.  Late repairs may move the issue back for a while.
- A command that dies holding the recovery guard blocks every later one; `sync` takes no
  lock; `claim-next` is refused for everybody while any ready card names another worktree.

## Proofs

TLAPS proves these for every value of the constants that satisfies the named
assumptions of the modules (`StepsAssumption`, `CodingWorkerAssumption`,
`WorkplanAssumption`, ...): any number of processes, steps, calls, cards, crashes.

- `WorkflowRunProofs`.  `TypeCorrect` and `JournalIsContiguous` (the journal's
  sequence numbers have no gap, and a duplicate only behind an append of the event sink
  that raised).  Neither is
  inductive: a writer numbers a record by the length of its own copy.  `IInv`
  adds `LockInv`: a process past the reload holds the lock, it numbers its next record
  behind the last of the file (`Numbers`: or like it, when that is one the sink left),
  and what it does not have in memory is no end of the run.  Lemmas on appending (`AppendContiguous`,
  `WriteProceeds`, `WriteReturns`, `WriteFails`) serve all actions.
- `WorkflowRunProofs`, second half.  What those records say.  `HInv` adds to `IInv` that the
  state in memory is the replay of the file for whoever holds the lock, and what
  each place in the loop has established about the step it works on.  From it:
  `LiveStateIsReplayHolds`; `GatesDecideHolds` (work behind a gate has its
  approval, and a gate one decision); `ContractHolds`, the safety of the refinement
  of `RunContract`, by a lemma per kind of record on what appending it does to the
  replay; and `HistoryIsSoundHolds`.  The last needs `ReplayIsTheFold`: the loop is
  a recursive function, and instead of an induction over journals its invariant
  `FoldInv` is carried along the steps, each of which appends one record at most.
- `TaskExecutorProofs`.  `EvidenceIsSkillHolds` (only verdicts on a worker's skill
  reach the capability matrix), `NoIdleRetryHolds` (a task stays on a tier it
  failed on only for a reason), `VerdictIsEarnedHolds`.  `CallsInv` follows a task's
  attempts from await to await: what is remembered of each call, in order, and what
  the counters make of it.  The last theorem assumes `MaxAttempts # 0`: with 0, which
  the code accepts, the verdict is the default one.
- `TaskExecutorProofs`, the local worker.  `ConversationIsSoundHolds` assumes of the numbers
  only that they are natural and the weights not zero (`LocalWorkerAssumption`).  `TalkInv`
  describes what is declared as a dialogue: a turn has its answers behind it, in order, but
  for the calls still open; an answer has its turn before it; every round so far has its turn.
  Fitting keeps the drafts and their places (`SectionsKeep`, `FittedKeeps`), so what is sent is
  the dialogue as it is when no call is open; and no section that it can make is one that
  the records refuse, hence nothing ends as malformed.
- `WorkplanProofs`, the locks.
  - Leases.  `NothingLeaks` says which calls own which lock and is inductive with the
    type invariant; `LeaseIsReturned` is it, and `LeaseExcludes` follows, two calls
    inside being both the owner of the flock.
  - Suite.  `SuiteIsSoundHolds`: `SuiteInv` says that who has read under the lock holds
    the file as it is, hence each save adds to its end; that no batch has a question of
    the search or one twice; and that each side was given only what is on it, which
    stays there because the file only grows; `RepeatedInv`, that a built-in held-out
    question in a batch or in the file was written by a generator.
  - Board.  `BoardIsSoundHolds`: `LocksHeld` says that one command works and one
    recovers, that the lock about to be moved away is still the dead one's, and that what
    a command is about to write is made of the board as it is; so the board changes by
    whole commands, each of which keeps `Sound` (`RowsFit`, `FittingKeeps`).
  - `LocksKeep` puts the three together, without the bounds of the run.
- `ConsoleProofs`, searches.  `MemoryIsTheDisk`: a running search decides on what
  the directory holds; with it each write of a search appends, hence
  `LedgerIsAppendOnly`, a property of steps.  `PromotedIsEarnedHolds` follows the
  winner from the gate through the pending file to the live configuration;
  its lemmas show that the chosen candidate is best of a finite set.
  `RestartKeepsLiveHolds`: no step parts what is live from what the files would start.
- `ConsoleProofs`, publications, workers and tools.  `PublicationsCompleteHolds`: `StoreInv` says
  for each artifact that a pending intent fits its draft and the versions (`Pending`),
  that versions have no gap and no draft makes two (`Counted`, `Told`), and for a
  caller inside the critical section what of the intent it has carried out.  Lemmas
  `WithinKeeps` and `BrowsingKeeps` are the frame: a caller disturbs its own artifact
  only.  `ToolsAreCurrentHolds`: a load that nobody overlapped has the tools for itself.
  `FleetIsSoundHolds`: `PoolsInv` writes the pools as a function of the registry, and
  `KeptInv` keeps the agents of memory and file equal, one of a name and each with a
  provider in both; `BootEnrols` shows that what starts from such a file is enrolled
  the same way.
  `ConsoleKeeps` carries the three to the specification the run checks.  They assume
  (`ConsoleAssumption`) that None is none of the things it stands beside, and that
  every tier has a stand-in of its own name (`mock-{tier}`, cli.py:130).
- `RecordsProofs`, campaigns.  `HoldoutIsReadOnce`: who has opened the holdout is
  whom the ledger names.  The invariant ties the place of a run to the claim: a run
  past `Claim` holds it, a run before has opened nothing.  `EvidenceIsEarnedHolds`
  is about a reload, perhaps long after: `CInv` says what each run must have seen to
  be where it is, that a root is owned by the run that wrote its first report, and
  that it holds exactly what its owner wrote while that one lives.  `Frame` reduces every
  step to what it does to its own run and root.  It assumes `TargetsFiled` (see the
  misfiled target above); `AcceptedIsEarnedHolds`, the half about what a reload
  accepts, does without.
- `RecordsProofs`, the other parts.  Each theorem is about `RecordsSpec`, by `PartsStep`: a step of the
  whole is a step of every part or leaves it alone.
  - Memory.  `WritesAreFreshAndWholeHolds`: `BrokerInv` numbers all writes before the
    counter and the open one after the rows, so that what a reopened store recovers from
    the rows is enough.  `NothingIsLaunderedHolds` adds `DeriveInv`: a row whose
    sensitivity is allowed derives from allowed rows only, and rows never change.  A
    record that an operator commits by itself has no sources (`RecordsAssumption`): the
    store checks none, only the broker does.
  - Packs.  `PacksHealHolds`, without an assumption.  For `WritesThrough`, `ThroughInv`
    says that files and memory agree but for the writes a process still has to make
    (`Agree`, `Pends`) and for vectors that a publish cleared, and that a batch leaves all of them pending; for `DoctorHeals`,
    `DoctorInv` says what each phase has put right.
  - Learning.  `SignalsAreEarnedHolds`: `CountInv` weighs the failures used up by signals
    and those left, in memory and in the file, against those observed, `BackoffInv` the
    counters against the sweeps since.  `InOrder` numbers failures anew, and the lemma
    needed of it is that it is onto, hence makes none.
  - Executors.  `ExecutorsAreKept`: `EarnedInv` says what an evaluation has established at
    each of its places, and that no list of records, in a registry or in the hands of a
    gate, names as active what was not earned; so it does not matter whose list wins.
    `LoneInv` ends in: the executor activated last is active.  `ExecutorsAreEarnedHolds`
    adds the doctor, and assumes one source per procedure (`OneSourceEach`), as the run
    has it.  It has to: an evaluation of a second source that writes the file anew after
    somebody deleted it, and dies, leaves a text under the record of another one, which
    the runtime refuses and the doctor does not report.
- `DiscoveryProofs`.  Each theorem is about `DiscoverySpec`, of which the run checks a
  bounded instance; `PartsMove` takes its steps apart.
  - Knowledge.  `WritesAreIssuedHolds`: what the supervisor has in memory as issued is
    durable in its journal, and what the hub shows beyond its writer was issued when it was
    written; the journal only grows.  `LineagesAreKeptApartHolds` follows the same steps for
    reads and supersessions.
  - Steering.  `SteeringIsSoundHolds`: `SteerInv` says that no policy has spent more than
    its cap, and that there is a run of policies from the root to the active one of which each
    row of the history explains one step (`Derived`); playing the history then gives that run
    (`DerivedReplays`).  The ancestors of a policy are a fold as well, of as many rounds as
    there are policies, and more rounds take no ancestor away (`EldersGrow`), so a rollback
    stays explained when policies become known.  A batch has parents of distinct lineages
    because picking keeps that, in whatever order candidates were ranked; and its parts fill
    the width, whichever bounds cut it.  `PulseInv`: what an engine remembers to have
    appended is in the hub.
  - Workspaces.  `LineagesReplayHolds`: `WorkInv` says that there is a run of states, one
    per receipt, durable or only returned, which accounts for what the manager knows
    (`Accounted`), as long as no receipt straddles a worker's commit; a crash cuts the run short, and what is left is what the next
    manager comes to know.  `DoingFits` says what an operation under way has established of the
    repository before its receipt, and `TreesRooted` what a worktree can be left at by
    whoever touches it.
  They assume (`DiscoveryAssumption`) the bounds the schemas set (policy.py:112-160,
  population.py:79-127), a finite set of lineages, and that None is none of the things it
  stands beside.
- `CampaignSupervisorProofs`.  `NothingIsForgottenHolds`, `HonestJournalsReplayHolds`.  Neither
  property is inductive: `LiveIsReplay` says nothing of a journal that is refused, and
  the budgets nothing of calls whose outcome is not yet written.  `SupInv` sets the memory
  beside the replay (`Track`): equal but for the time of the last event while the
  journal is accepted, with the budget of every call made or still to come (`Payable`),
  which a refusal does not end; and it says which tasks wait for what (`Manned`).  A
  handler writes several events of which any prefix may be all that lasts, so its turn
  is followed event by event: after each one the replay must be good, and only at the
  end agree with the memory.  A stop and a recovery go over the attempts one
  after another; `Recovering` is what holds between two of them.  They assume
  (`CampaignSupervisorAssumption`) finitely many attempts, as a submission adds one.
- `Folding`.  `FoldLeft` is defined by recursion over data, which the provers do not
  unfold, and the library's induction theorems take a predicate, which they cannot instantiate.
  `Climb` is induction with a set in its place, obtained from the well-foundedness of
  finite subsets; from it follow the equations of a fold (`FoldOfNone`, `FoldAppend`) and
  that it keeps what its operator keeps (`FoldKeeps`).  The modules above instantiate it
  with their operators: a row played, a candidate picked, an event written, an attempt resolved.
- `WorkplanProofs`, the gateway.  `ReservationsApartHolds`, `SeatsHold`,
  `DoneIsIntegratedHolds`: one invariant each over claims and cards, with a step per
  call of the gateway; reservations need in addition what a status reserves.

Every invariant of the passing runs, and every property of their steps, is stated by one of
these theorems, under the assumptions named.  Only model-checked: liveness, out of the
prover's reach (`RunsSettle`, `LoneTaskSettles`, `IssueFollowsCard`, `EveryLeaseEnds`,
`EverySearchEnds`, `EverySubmissionEnds`).

## Plan

Done: all components of the first plan; the parts of the system that keep state and
change it concurrently or across failures.  Next:

1. The automatic promotion of a command-line search beside a console.
2. The model gate and the ablation contracts as operators against reference
   definitions over bounded inputs.

## Not modelled

Texts, prompts, parsing, rendering, signatures, sandbox command lines and
network calls are data or external effects.  Pure functions without state: planning
and templates, readiness, role contexts, redaction and the older `fit_messages`,
correction texts, the
gate's arithmetic, packaging and rendering of archives, the explorer's manifests.  Model
and network calls of selflearn's acquisition; the transports of the workplan gateway.  Also
left out: the legacy journal format (read only through a projection), persistence
of the capability matrix, automatic promotion by a command-line search and two
searches of one suite from two processes (nothing keeps the second out, and ids may
then repeat), skills and the circuit breaker of the memory (used by tests only), the broker's list
of lifecycle proposals (no operation reads it), islands
of the knowledge hub (never visible), temporary files that a crash leaves behind.
`PROJECT.json` gives the reason part by part.
