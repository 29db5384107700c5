# TLA+ models of golden-repo

A verification development kept beside the code: TLA+ modules translated from the
source, TLC configurations that check them on small instances, and theorems that
TLAPS proves for every value of the constants. `PROJECT.json` lists components,
runs, the source lines behind each definition, hazards and theorems. Paths below
are relative to the repository's root (`src/` in `PROJECT.json`).

    tlc -workers 2 -config Chassis.cfg MCChassis     # one run
    tlapm AuditLoggerProofs.tla                      # proofs of one module

## 1. Inventory

### 1.1 Parts of the system

| Part | State it keeps | Operations |
|---|---|---|
| Audit logger, `chassis/audit.py` | `_buffer`, `_sinks`, two locks | `log`, `flush`, `add_sink` |
| HTTP boundary, `chassis/chassis_app.py`, `actions.py`, `engine_boot.py`, `errors.py` | lifespan, `_handlers`, `_inflate_fn`/`_deflate_fn`, the engine's pool | startup, shutdown, `POST /v1/execute`, `GET /v1/health`, `register_handlers`, `clear_handlers`, `set_packet_bridge` |
| Authentication, `chassis/auth/` | the key | `dispatch`, the app behind it |
| Request middleware, `chassis/middleware.py` | order of the layers; no app of the repository applies them | `apply_chassis_middleware`, four `dispatch`es |
| Health aggregator, `chassis/health.py` | `_probes` | `register`, `deregister`, `check_all`, `check_one` |
| Constellation runtime, `chassis/action_registry.py`, `orchestrator.py`, `router.py`, `types.py` | `ACTION_MAP`, `_HANDLERS`, `_METRICS`; a packet with its trace, payload and hash | `register_action`, `validate_startup`, `execute`, `route_packet`, `append_trace` |
| Domain spec loader, `chassis/config.py` | cache of (spec, mtime) | `load_raw`, `invalidate`, `list_domains` |
| Feature flags, `engine/features.py`, `engine/P2_3_features.py` | `_flags`, the JSON file | import, `reload`, `is_enabled`, `feature_flag` |
| PII engine, `chassis/pii.py` | none, but it copies and rewrites payloads | `detect`, `mask`, `redact` |
| Engine metrics, `engine/metrics.py` | `_buffer`; instantiated nowhere | `emit`, `timer`, `flush` |
| Engine handlers and services, `engine/handlers.py`, `engine/services/`, ... | none | one handler per action |
| Execute client, `client/` | none; a packet and its attempts | `execute` in Python and in TypeScript |
| Review pipeline, `tools/review/`, `.github/workflows/ai-review.yml` | the files that its four jobs hand on | classify, five analyzers, aggregate (twice), semantic review |
| Audit dispatcher and auditors, `tools/audit_dispatch.py`, `tools/auditors/` | registry, findings of one run | select, four auditors, report, exit |
| Audit engine, `tools/audit_engine.py` | none: it does not compile | |
| Perplexity audit agent, `scripts/perplexity_audit_agent.py` | `_request_times`, findings, reports | full, category and incremental audits |
| VPS deploy, `tools/deploy/deploy.sh` | clones, origin, the server's checkout, env file, images, containers | commit, push, reset, sync env, rebuild, health |
| Conformant node app, `app/`, `chassis/contract_enforcement.py` | readiness, contracts; a module it imports is missing | preflight, startup, health |
| CI and release workflows; infrastructure scripts; observability configuration | none of their own | job graphs, checks of the environment |

### 1.2 How they interact

- A request passes authentication where `auth/app.py` is used, and reaches
  `hook.execute()`. The graph hook calls `execute_action`, which reads the module
  globals of `actions.py`: the inflate function, the handler, and, after the
  handler's await, the deflate function. Other requests and re-wiring run in that await.
- Handlers log to the audit logger and are gated by feature flags. Audit entries go
  to sinks at the next `flush`; nothing in the repository schedules one.
- Constellation routes a packet among handlers by action name; it is synchronous,
  and each hop may forward to another action.
- The review pipeline hands decisions between jobs in JSON files: the output of one
  aggregation is an input of the next.
- `deploy.sh` runs on operators' machines against one server without a lock.
- The execute client posts signed packets to a conformant node, whose duties are in
  `contracts/conformant_node_contract.yaml`, and posts them again after a failure. (The
  endpoint of `chassis_app.py` takes another body and would answer 422.)
- The audit dispatcher reads the working tree and asks git; its exit code, like that of
  the Perplexity agent, gates a build.

### 1.3 What is hard, and what makes each part correct

| Part | Hard because | Correct if |
|---|---|---|
| Audit logger | threads append under one lock while `flush` copies and clears under another; sinks fail half way; flushes overlap or are cancelled | no entry disappears; every sink gets every entry, in order; duplicates only for a reason |
| HTTP boundary | globals are re-read after an await; errors of five origins meet in two `except` clauses; startup may fail half way | 200 means that the handler did its work; no handler without its pool; a packet is deflated by the bridge that inflated it |
| Authentication | probes and `OPTIONS` pass; the key may be unset | nobody without the key reaches a handler |
| Health | probes hang, and change while a check awaits | healthy vouches for every probe; one timeout in all |
| Constellation | handlers forward in circles, crash, raise in odd places | routes end; metrics add up; the trace explains the route |
| Feature flags | files are edited in place, or are no JSON object; six gates in an order; two variants | blocked stays blocked, on the allowlist, too; after a bad file callers get their defaults and the decorator is shut; widening a rollout turns nobody away |
| Domain loader | staleness is decided by mtime, read before the file | the spec served is one that the file held, and the newest once mtime grew |
| Review | fields renamed between two aggregations; jobs fail, are skipped or cancelled | a block blocks; a warning arrives; the order of reports does not matter |
| Perplexity agent | a rate limit computed from past requests; retries; answers of any shape; reports and packs written file by file | the limit holds in every window; findings are what was heard, and so are the packs, wherever the program stops; a pass means no P0 |
| Deploy | any command may fail under `set -e`; runs overlap | what runs is on origin; a finished run deployed its push with its own env file |
| Execute client | a timeout does not say whether the packet was executed; copies arrive late and out of order | one execution per call at most; an answered call is over; a call ends |
| PII engine | copies share inner dicts; fields are found again by a dotted path | what is found is not readable in the copy, now or later; nothing else changes |
| Audit dispatcher | git may fail at any call; a ref, HEAD and the working tree may all differ; auditors may be missing | a pass means that nothing blocking was found, and that the public classes, methods and plain arguments still stand |

`PROJECT.json` lists 40 hazards at their lines, each with the properties that would
catch it, or with a note on why none does.

## 2. Modules

| Module | Models | Rests on |
|---|---|---|
| `AuditDelivery` | the promise of an audit log: at-least-once delivery to all initial sinks | |
| `AuditLogger` | `chassis/audit.py` | implements `AuditDelivery` by `INSTANCE` |
| `AuditLoggerProofs` | eight theorems | `AuditLogger`, TLAPS |
| `ReviewAggregate` | the loop of `aggregate_reports` | |
| `ReviewPipeline` | `ai-review.yml` and the scripts that its jobs run | extends `ReviewAggregate`, whose machine two of its jobs run |
| `ReviewProofs` | ten theorems on the loop and on the pipeline | `ReviewPipeline`, TLAPS |
| `Chassis` | HTTP boundary, authentication, engine boot | |
| `ChassisProofs` | four theorems | `Chassis`, TLAPS |
| `HealthAggregator` | `chassis/health.py` | |
| `HealthAggregatorProofs` | three theorems | `HealthAggregator`, TLAPS |
| `Constellation` | registry, orchestrator, router, trace | |
| `ExecuteClient` | `client/`, against a network and a node | |
| `PacketsProofs` | six theorems on the two ends of a packet | `Constellation`, `ExecuteClient`, TLAPS |
| `FeatureFlags` | both flag modules and the file they read | |
| `DomainLoader` | the spec loader of `chassis/config.py` | |
| `PIIHandler` | `chassis/pii.py` | |
| `NodePartsProofs` | seven theorems on the three modules above | `FeatureFlags`, `DomainLoader`, `PIIHandler`, TLAPS |
| `BuildGate` | the promise of a program whose exit code gates a build | |
| `PerplexityAudit` | the audit agent | implements `BuildGate` (in `MCAudits`) |
| `AuditDispatch` | the audit dispatcher and its four auditors | implements `BuildGate` (in `MCAudits`) |
| `AuditsProofs` | five theorems on both audits and the gate | `MCAudits`, TLAPS |
| `Deploy` | `deploy.sh`, by several operators | |
| `DeployProofs` | five theorems | `Deploy`, TLAPS |

`MC*` modules give constants their values or a symmetry set. Three of them also put
modules side by side: `MCPackets` (`Constellation`, `ExecuteClient`), `MCNodeParts`
(`FeatureFlags`, `DomainLoader`, `PIIHandler`) and `MCAudits` (`PerplexityAudit`,
`AuditDispatch`). These modules share no state, so each run explores the behaviours of
one of them while the others rest, not their product.

Definitions whose name ends in `_Mut` are not part of a model: each is a plausible bug
in the definition after it, and replacing that definition by it violates the property
that `PROJECT.json` pairs with it under `mutants`. They show that a property speaks
about the code. Every module states the types of its variables (`TypeOK`,
`AggregateTypeOK`, `LoaderTypeOK`, ...). Most of them are theorems or part of an
inductive invariant of section 5; adding the definition to a `.cfg` checks it too.

### 2.1 AuditLogger

`buffer`, `sinks` and `store` are `_buffer`, the registered sinks and what each
persisted; `pc`, `batch`, `at` are the locals of each `flush()`. The event loop
interleaves coroutines only where they await, so `flush()` is cut at each
`write_batch` (`SinkOk`, `SinkFail`, `FlushCancel`). Threads come between any two
bytecodes, hence the further cuts: copy | clear (`FlushCopy`, `FlushClear`),
concatenate | rebind (`SinkFail`, `FlushRebind`) and, for the thread, load |
append (`ThreadLoad`, `ThreadAppend`). `stale` says that the thread holds a list
that `_buffer` no longer names. The asyncio lock needs no variable: nothing awaits
under it. Retention and the fields of an entry are data.

### 2.2 ReviewAggregate and ReviewPipeline

`Absorb` is one turn of the loop of `aggregate_reports`. Two shapes of report exist:
those of the checks, with `verdict`, and those of `aggregate.py` itself, with
`final_verdict`; `VerdictOf` is `report.get("verdict", "APPROVE")`. The pipeline runs
that machine in two of its jobs (`AggregateIn`, `AggregateReads`, `AggregateDone`) and
has one action for each other job's progress, `StepFails` for a failing step of any
job, `Skip` for a job whose needs or condition do not hold, `Superseded` for
`cancel-in-progress`, and the final job under `if: always()`. A pull request is a set of
kinds of path (what the policy's globs tell apart) and a size class. Where an analyzer
reads files of the repository that are not part of the change, its verdict is a free
choice. `aggregate.py` run by path cannot import `tools`, and the final job does not
install PyYAML: the model does not decide how a runner is set up and lets any step fail.

### 2.3 Chassis

A request is cut once, at the handler's await: `Execute` (inflate, look up) and
`HandlerEnds` or `DeflateRaises`. `Rewire` changes registry or bridge in between.
`auth` chooses the app: plain, or behind authentication with or without a key
configured. A bridge is a pair of functions; `packet` says which one inflated a request,
`deflated` which one deflated its answer, and the history variable `wired` which ones
have been in place since. An "opaque" result is a dict that has no JSON: FastAPI
serializes it after the endpoint returned. Handlers, bridges, driver and ASGI server are
external. Neither `create_app` (`chassis_app.py:216-337`, `auth/app.py:89-179`) applies the
layers of `chassis/middleware.py`, and CORS is off by default (`auth/app.py:110`), so the
only layer is authentication.

### 2.4 HealthAggregator

One record of probes per running check, taken when `gather` is called; `Tick` is
the passing of time, which no due timer lets by. A probe may answer, raise
(both `ProbeEnds`) or hang until `ProbeTimesOut`. `CheckOne` awaits one probe in the
same way.

### 2.5 Constellation

Registration and `validate_startup`, then requests one at a time: `Reject`, `Accept`,
then one action per way that a turn of the router's loop can end. `Escape` is an
exception other than `ConstellationError`, which `execute` lets out with its counters
half updated. It is assumed that registration comes before validation, and that
handlers do not mutate the packet they are given. The node registry is not in the
repository and is a constant.

### 2.6 FeatureFlags

`file` is the JSON file, `served` is `_flags`. Operators save in place (`Truncate`,
then `Fill`) or leave something that is no JSON object (`Spoil`). `Import` and
`Reload` may hit any of these. `Load` and `LoadRaises` say what becomes of each kind
of file in each variant: `features.py` turns every exception into no flags, the
variant returns what is no object and lets a decoding error out. `is_enabled` is the
first verdict of six gates; each variant has its list of them, in the order of its code
(`FeaturesGates`, `VariantGates`). Rules are known by how they come out for the one
context that callers give. Flags do not interact, so one stands for
all; the fields of a flag have the types of `engine/features.json`.

### 2.7 PerplexityAudit

A sequential program with a clock. `queries` is computed from the arguments and from
which files can be read; files and `--changed-files` are lists, so that one may be asked
about twice. Each query waits for its `Slot`, is posted, and is answered, retried or given
up; then the report is built and written in two files, followed by the phase packs and
the exit code. A pack is a directory and three files per category with a P0 or P1
(`PackParts`), and each of these is a step of its own (`WritePack`), in the order that
`sorted` gives the categories (`Precedes`). `Crash` is any exception that nothing catches;
between two parts of a report or pack it leaves what is written. Answers are lists of
elements, each with a severity and the category it names, if any; "junk" is an element that
is no object, "odd" one with a value the report cannot be built from.

`asyncio.sleep` lasts what it is asked for. How long an attempt takes is not bounded:
`timeout` (line 417) is httpx's bound on each connect, write, read and wait for a
connection, so an answer that trickles in takes longer. `Durations` is any set of lengths.
Prompts and layout are data.

### 2.8 Deploy

A commit is the set of changes it contains. Each step of `main` is an action,
`Fail` ends a run at any of them (`set -euo pipefail`, a dropped connection, Ctrl-C;
a command whose connection drops has run or has not). The env file is written by
`cat >`, hence `Truncate` and `SyncEnv`; images are built service by service from the
checkout as it then is (`BuildContext`). `Prune` removes images that no container uses,
and `Up` builds what is missing. `--dry-run` changes `AfterReset` and nothing else, as in
the script. Operators are not locked out. Branches other than `DEPLOY_BRANCH` are
refused, as `ALLOW_NON_MAIN` is taken to be unset.

### 2.9 ExecuteClient

One call of `execute()` at a time for one job; `call` and `attempt` say which post is
current, `at` where the coroutine stands. A packet is built once per call, so attempts
share its `PacketId`; `IdempotencyKey` differs between the clients. The network
(`Deliver`, in any order and as late as it likes, or never) and the node (`Accepts`,
`HandlerEnds`) are external: the node rejects packets it has received and, for some
actions, packets without a key or with a known one, as its contract says. A reply
reaches only a client that still waits for that attempt.

### 2.10 DomainLoader and PIIHandler

`load_raw` is cut at its system calls: `Resolve` (exists), `Stat`, `CheckSize`,
`ReadYaml`. `ChangeSpec` is any change of the file between them, with any mtime up to
now (a restored file brings an old one). One domain stands for all.

`copies` are the outer dicts, the caller's first, and `box` is the one inner dict that
all of them share, because `mask` and `redact` copy one level. `Split` is
`path.split(".")`: the key `box.email` cannot be told from a key in the box. Detection
is reduced to "hinted by its key" and "a pattern is found".

### 2.11 AuditDispatch and BuildGate

`main()` is `List`, `SelectFails` or `Select`, then one auditor at a time, `WriteReport`
and `ExitStatus`. A run has a working tree, HEAD, `main` and `origin/main`, each with one
file under `engine/` and one under `tests/`, of which counts whether it can be read
and parsed and what its public class and method are. A signature has plain arguments
(`args`), all other arguments and defaults (`others`) and a return type; the auditor keeps
the first and the last of these. `GitSays` lets any call of git
fail. The static auditors find what of their kinds of flaw the tree has
(`StaticScan`), in files of the form they can read.

`BuildGate` is what both auditing programs promise: a verdict is given once, and is
never "pass" after something blocking was found. `MCAudits` maps an answer with a P0,
and a finding of CRITICAL or HIGH in a `--strict` run, to what blocks.

## 3. Runs

| Run | Instance | What it shows |
|---|---|---|
| `audit_threads` | one loop entry, two threads, two flushes, two sinks (one initial), two failures, one cancellation | Whatever is lost: a sink holds nothing that an earlier one lacks (`FanOutInOrder`), a `flush()` that returned gave its entries to all initial sinks (`SettledEverywhere`), an entry has one owner between turns (`SingleOwner`), and a sink sees an entry twice only after a failure (`DuplicatesNeedFailures`). |
| `audit_loop_only` | two loop entries, two flushes, two sinks, two failures; no thread, no cancellation | Nothing is lost, flushes that do not overlap keep the order of the log, the logger implements `AuditDelivery`; under fairness every entry is settled. |
| `audit_thread_safe` | one thread, one flush, no failure | **Violated**: see section 6. |
| `review_pipeline` | every set of seven kinds of path, three sizes, any step failing, a newer push at any time | The first aggregation blocks exactly when an analyzer did; a warning of the semantic review reaches the final verdict; that review only sees changes inside both limits that nothing blocked (`ReviewedWithinLimits`); both aggregations compute the verdict of the *set* of reports (`OrderIndependent`), and reading on never weakens it. |
| `review_block_lost` | the same | **Violated**: see section 6. |
| `chassis` | two requests, two actions, two bridges, two re-wirings, one error type with and without its keyword, three kinds of app | 200 means that the handler ran to its end (`OkMeansCompleted`); with authentication nothing but probes runs without the key (`OnlyAuthorizedRun`); a packet is deflated by the bridge that inflated it, and by another or none only if that was wired while its handler ran (`BridgeOfItsTime`). |
| `health` | two names, two overlapping calls of `check_all` or `check_one`, timeout of two ticks, two changes | Healthy vouches for every probe registered throughout; a check takes one timeout however many probes hang; it returns. |
| `packets` | runtime: two actions, two nodes of which one is in the node registry, three hops, two requests. Client: either language, two calls of three attempts | Counters add up with every way to end; the trace explains a route that returned; routes end. A call's handler ends well at most once, and over all calls if a JavaScript caller names a key (`ExecutedAtMostOnce`); an answered Python call is over; a Python call ends though replies are lost, late or out of order. |
| `deploy` | two operators, two services, five flag combinations, one edit each, three runs in all | A run that pushed has its push checked out and, unless runs overlapped, running; services start with the env file that was checked; only a commit whose push failed is ever left behind; nothing rolls back. |
| `deploy_dry_run` | one run with `--dry-run` | **Violated**: see section 6. |
| `audits` | agent: every mode, two files, two categories, lists of changed files with one outside of the scanned directories and one given twice, any of them readable, four answers, attempts of length 0 and 3, two requests per window of ten, two attempts. Dispatcher: twelve command lines, every set of importable auditors, trees that can be read, parsed, or not, refs that exist or not, any call of git failing | The rate limit in every window; findings exactly as heard, and packs that follow from them, begun in order, one at a time, and complete when a full audit exits (`FindingsAreWhatWasHeard`); waiting for the rate limit is not added to work (`TimeBounded`); a strict pass leaves public classes, methods and plain arguments compatible (`PassMeansCompatible`, which states under what conditions); both programs implement `BuildGate`. |
| `node_parts` | flags: both variants, two users in different buckets and the anonymous one, 34 flags, seven kinds of file, two edits. Loader: five forms of file, three changes, three ticks. PII: every payload over two keys, a box and a dotted key, two copies | After a load that finds no object callers get their defaults, or an error, and the decorator lets nobody in (`FailsClosed`); a wider rollout turns nobody away; the variant says on only where `features.py` does, but for a null flag, and both consult their gates in the same precedence (`VariantIsStricter`). A load serves what is in the file as long as mtimes grow. What `mask()` or `redact()` cleaned stays clean, and nothing changes that was not found or asked for. |

### Bounds, and why they are enough

- *Audit*: a lost entry takes one thread and one flush; reordering takes two entries
  and two flushes; partial fan-out takes two sinks, the second one also registered
  late. Each of these is present, and the theorems of section 5 drop all bounds.
- *Review*: the fold keeps one verdict, so three reports give every verdict followed
  by every report; the theorem covers all lengths. Every subset of the kinds is
  explored; a kind is one way for the policy's globs to match.
- *Chassis*: two requests suffice for one to be between its two halves while another
  runs or while the globals change, and two changes and two bridges for one to be
  replaced by the other or by none, and to come back.
- *Execute client*: a third attempt can overtake the two before it; a second call meets the
  leftovers of the first.
- *Health*: two hanging probes would show timeouts that add up.
- *Constellation*: three hops allow a circle between two actions and one more turn; a
  second request starts from the counters that the first one left.
- *Deploy*: three runs are one that fails, its repetition, and one of the other
  operator's between them. Operators are interchangeable (symmetry); services are not.
- *Perplexity*: four queries against two per window make the oldest recent request
  change; a backoff is shorter than the window, and two attempts reach the last one; two
  attempts of the longer duration and a backoff nearly fill a window. The findings of a query
  may go to two packs, of which the later one comes first.
- *Dispatcher*: one file in scope and one out of it, each with every form; results of
  files and auditors are independent but for the set they end up in.
- *Feature flags*: three steps of rollout, an edit that spoils the file and one that
  repairs it; each gate that can shut a flag occurs together with an allowlist.
- *Loader*: three changes give a cached version, one that comes between stat and read, and
  one after it. *PII*: two copies are a copy and the copy of a copy, or two siblings.

Deadlock is checked in the audit-logger and health runs. The others model programs that
end (a review, a deploy, an audit, a stopped app, a call), so they switch it off.

### Fairness

- *AuditLogger*: asyncio runs ready callbacks in FIFO order, so a flush that can go
  on does (`WF` on the rest of its turn, `SF` on the completion of `write_batch`,
  which other turns of the loop disable for a moment), given that sinks answer.
  `CallerFairness` adds an assumption about the engine, that `flush()` is called
  again: `audit.py` has no timer, and `buffer_size` triggers nothing.
- *HealthAggregator*: timers fire, finished gathers resume, time passes. No fairness
  for probes: they may hang for ever.
- *Constellation*: `WF(RouterTurn)`: a synchronous loop whose handlers return.
- *ExecuteClient*: `WF` on the client's own steps: its coroutine and timers run. Network
  and node owe nothing, so only a timeout ends a wait.
- *Chassis*, *Deploy*, *ReviewPipeline*, *PerplexityAudit*, *AuditDispatch*,
  *FeatureFlags*, *DomainLoader*, *PIIHandler*: none; nothing is claimed to happen
  eventually.

## 4. What is only model-checked

- Liveness: `EventuallySettled`, `CheckReturns`, `RouteEnds` and `PythonCallReturns` rest on
  fairness, which is out of the prover's reach.
- What a run is expected to violate (section 6).
- The type invariants of `PerplexityAudit` and `AuditDispatch`: the proofs about these two
  modules carry the types they need in their own invariants.

Every other property of a passing run is a theorem: the run shows it on a small instance,
the theorem for every value of the constants that the assumptions allow.

## 5. Proofs

All theorems are proved from the assumptions that the modules name next to their
constants. Most of these only say what a constant is (a bound is a natural number, `None`
is no entry, the operators' env files differ from the first one). Those that say more:

| Assumption | Why the code justifies it |
|---|---|
| `LoopOnly` (`AuditLogger`; a hypothesis of three theorems) | the precise condition under which the docstring's promise holds: no threads, no cancelled flush |
| `PolicyAssumption`, `BlockingAssumption` (review) | `review_policy.yaml` lists no check twice, and every deterministic one as blocking |
| `ErrorsAssumption`, `OutcomesAssumption` (`Chassis`) | what a handler may raise or return is what `errors.py` and `handle_execute` tell apart |
| `AnswerAssumption` (`Constellation`) | a status is never Python's `None` |
| `ConfigsAssumption`, `BucketAssumption` (`FeatureFlags`) | the forms a flag can have; a user's hash is taken modulo 100 |
| `ModesAssumption` (`Deploy`) | a run is started with some flags, and deploys at least one service |
| `ListsAssumption` (`PerplexityAudit`) | categories, files and changed files are finite lists, with repeats or without |
| `DurationsAssumption` (`PerplexityAudit`) | an attempt takes some number of units of time; there is no bound on it |
| `BackoffAssumption` (`PerplexityAudit`) | arithmetic: `2 ^ k` is a natural number, which the provers do not know |
| `CasesAssumption` (`AuditDispatch`) | a file is missing, Python, broken or binary |

TLC evaluates each of them on the instance of its runs.

### 5.1 AuditLoggerProofs

| Theorem | States |
|---|---|
| `AuditTypeCorrect` | `Spec => []TypeOK` |
| `AuditFanOutInOrder`, `AuditSettledEverywhere` | fan-out by whole prefixes of the sink list; what a returned `flush()` settled is in every initial sink |
| `AuditSingleOwner` | one owner per entry between turns of the loop |
| `AuditDuplicatesNeedFailures` | a sink is handed an entry at most once more than `write_batch` has raised |
| `AuditNoEntryLost`, `AuditImplementsDelivery`, `AuditDeliveredInOrder` | assuming `LoopOnly`: no entry disappears, `Spec => DeliverySpec`, and unless flushes overlap first copies arrive in the order of logging |

`FanOutInOrder` is not inductive: nothing in it says how far a batch has
come. `PrefixWritten` adds that (a batch being written is in every sink before
the one it is at, and unregistered sinks hold nothing), and `FanOutInv` is the
conjunction. `SingleOwner` speaks of the moments between turns; `Ownership` extends
it into a turn, where the flush that has the loop is the only one to share entries
with the buffer, and says that nothing is owned that was not logged. `TurnsAtomic`
says what threads would break: from copy to clear the buffer is the batch, from
concatenation to rebind it is part of it. `LoopInv` joins the three with
`NoEntryLost`; refinement follows by mapping each action to `Accept`, `Persist`,
`Settle` or a stutter of `AuditDelivery`, with what is owed read off buffer and batches.

Duplicates and order need more, as they speak of copies and positions. `FewCopies` says that
an entry that may still be handed to a sink has been there once less than the failures so
far allow. `LoggedInParts` says that, as long as no two flushes overlap, the log
is what is settled, then the batch, then the buffer; each step moves these borders along the
log. `OrderInv` joins them with `LoopInv`: a write hands a sink the next piece of the log,
and the sink has all before it.

### 5.2 ReviewProofs

For the script run any number of times on any reports (`AggregateSpec`): `AggregateTypeCorrect`,
`AggregateOrderIndependent`, `AggregateNeverWeakens`. The loop invariant is
`OrderIndependent` itself; the lemma `AbsorbIsUnion` says that absorbing a report gives the
verdict of the set with that report added.

`PipelineImplementsAggregate` shows that the workflow is such a use of the script, and so
`PipelineOrderIndependent` and `PipelineNeverWeakens` follow from the theorems above. For
`PipelineBlockingChecksBlock`, `PipelineReviewedWithinLimits` and `PipelineWarningReachesFinal`,
`PipelineInv` says what each artifact stands for: the classification is
that of the pull request (`ClassTrue`), a job aggregates its own reports and its inputs are
settled by then (`AggregatesItsOwn`), the deterministic artifact tells whether a check
blocked (`DetFileTrue`), the semantic one exists only for a change within limits and without
a block (`SemFileTrue`), and the verdict was given when all it rests on was there (`VerdictTrue`).

### 5.3 ChassisProofs, HealthAggregatorProofs

`ChassisTypeCorrect`, `ChassisOkMeansCompleted`, `ChassisOnlyAuthorizedRun`,
`ChassisBridgeOfItsTime`. What an answer says is about its own request, so `ChassisInv` is
the types and one `RequestInv` for each: a request that is open has no code and no outcome,
one that is not received has no packet. Each step of a request keeps its own `RequestInv`
and `Untouched` says that it leaves the others alone; a rewiring of the engine leaves all alone.

`HealthTypeCorrect`, `HealthOneTimeout`, `HealthyVouches`. The probes of a check wait side by
side: every one still pending has waited for exactly as long as the check has run
(`SideBySide`), hence one timeout for all. `RunsTheSteady` says that a running
check has a task for each probe that was registered when it began and stayed.

### 5.4 PacketsProofs

`RuntimeTypeCorrect`, `RuntimeMetricsAddUp`, `RuntimeTraceExplainsRoute`: `RouteTraced` adds that a
packet on its way carries what it came with and one "forwarded" entry for each hop.
`ClientTypeCorrect`, `ClientAnsweredIsOver` (an action property) and `ClientExecutesAtMostOnce`: that an
execution happens once per call and per key follows from `SeenWhatStarted`: the node has
seen the identifiers of whatever it began, and two things it began differ in them.

### 5.5 NodePartsProofs

`FlagsTypeCorrect`, `FlagsFailClosed`, `VariantNeverLooser`, `FlagsWideningKeepsUsers` (an action
property): `FailedMeansNothing` says that what is served after a failed load has no flag to
answer from. `GatesDecide` shows for both lists of gates, from the first of them that does not
pass, who overrides whom.
`LoaderServesCurrent`: as long as mtimes grow, what is cached under the file's mtime is
what the file holds and nothing is cached under a later one (`CacheTrue`), and the mtime taken
before a read belongs to no later content (`StampTrue`). `PIIOnlyWhatWasFound` and
`PIICleanedStaysClean` are inductive with the types; the lemmas say which paths a call
detects and what its change does to the new copy and to the inner dict that all copies share.

### 5.6 DeployProofs

`DeployTypeCorrect`, `DeployPushedIsDeployed`, `DeployServicesHaveCheckedEnv`,
`DeploySkipsOnlyFailedPushes` and `DeployNothingRollsBack` (an action property). `DeployInv` says
that commits flow one way: from a clone to origin unless a failed push stranded them (`NothingLost`), from
there to the checkout (`PushesReachOrigin`), from the checkout into contexts and images
(`BuiltFromCheckout`). Two runs past their reset have noted each other
(`MeetingsNoted`), so a run that met none has a checkout nobody moved, and what it
built and started is that checkout (`RebuildsCheckout`); likewise the env file stays the one whose
hash was compared until another run writes it (`KeepsCheckedEnv`).

### 5.7 AuditsProofs

- `PerplexityRateLimited`. `RequestTimesInOrder`, `AgedFirst` and `RecentIs` say that the
  filtered list is the end of the list of all starts, and `KeepsTheRecent` that whatever is
  forgotten is a window old; with that the new start is a window after the one `RpmLimit` before.
- `PerplexityTimeBounded`. The bound is in terms of `longest`, the longest that any query took
  from the moment it passed the rate limit, whatever that is. `TimeKept`: at every start
  there is room left for its query (`Within`), and what the query under way has spent is no
  more than `longest`. `OneWindowMore` charges a wait to the window that `RpmLimit` starts fill,
  `LongerQueries` says that the bound only grows with `longest`.
- `PerplexityFindingsHeard`. `AuditInv` has three parts. `HeardInv`: answers are about turns that
  only grow and never pass the current one, and the findings are the concatenation of what those
  taken said. `Categorized`: every finding is of a known category. `PacksInOrder`: packs are
  begun after the report only, for categories with a P0 or P1, and what precedes a begun one is
  complete; since `Precedes` is a total order of them (`PacksOrdered`), at most one is open. A
  concatenation of lists is defined by a recursive function: `SumsExist` and `SumsAgree`
  show by least counterexample that the function exists and is determined, from which
  `FlattenAppend` (one list more) and `FlattenIn` (what the elements are) follow.
- `AuditsImplementGate`: both audits implement `BuildGate`. What was heard is among the findings, and
  findings only grow until the exit code is decided, once.
- `DispatchPassIsCompatible`. `ApiInv`: every file that needs no comparison any more is
  compatible with origin/main in its plain arguments and return types, or a blocking finding
  is recorded.

## 6. Disagreements between code and documents

Shown by a run that is expected to be violated:

- `audit_thread_safe`: `chassis/audit.py:117` says "Thread-safe for mixed sync/async
  usage." A thread's entry appended between `list(self._buffer)` (line 179) and
  `clear()` (line 180) is in no buffer and no batch.
- `review_block_lost`: `review_policy.yaml:101` says
  `block_if_any_blocking_check_fails: true`. The second aggregation reads `verdict`
  from a file whose field is `final_verdict`, so a deterministic BLOCK counts as
  APPROVE (`aggregate.py:36`) and the job succeeds.

- `deploy_dry_run`: `deploy.sh:103` says of `--dry-run` "Print commands without
  executing". The helper that would see to it (line 87) has no caller: everything is
  committed, pushed, reset, stopped and rebuilt, and only the env file is spared.

Met while modelling, stated by the models but not by a run of their own:

- `deploy.sh:320`: the push is tried only when something was staged. After a failed
  push, a second run stages nothing, skips the push, deploys the older origin and
  prints Done, although line 8 says that it pushes. `OnlyFailedPushesAreSkipped` says
  exactly how far this goes.
- Overlapping deploys can put an older image back (`NothingRollsBack` excepts them).
- `chassis_app.py:292`: the error types of `errors.py:14` are not mapped to the status
  codes they name; a failed handler gives 422 or 500 by a keyword of its message.
- `router.py:57` replaces the payload on forward without recomputing `content_hash`
  (`contracts/packet_envelope_v1.yaml:174`).
- `aggregate.py:43` counts an ESCALATE of advisory checks only, so that of
  `protected_paths`, a blocking check that never blocks, is dropped.
- `perplexity_audit_agent.py:845`: an incremental audit without changed files is a
  full audit, which also may take much longer than its caller expects; retries are
  not counted by the rate limit (line 415); `timeout` bounds each operation of httpx, not an
  attempt (line 417); a failure in the loop of the phase packs (lines 590-609) leaves a pack
  in part and exits 1, whatever the findings were.
- `features.py:233`: the decorator passes no context, so a flag that only rules
  restrict (`advanced_analytics` of `features.json`) is on for everyone behind it, and
  an endpoint without a `user_id` argument passes allowlist and rollout alike.
  `features.py:137` says of the allowlist "overrides everything else": it overrides percentage
  and rules, not the switch, the environment or the blocklist. After a bad file (lines
  76-81) callers that give `default=True` are let through. A null flag is an error in
  `features.py:119` and the default in `P2_3_features.py:82-84`.
- `deploy.sh:241`: under `set -e` a failing health script ends the run, so "completed with
  warnings" (line 243) is never printed. With `ALLOW_NON_MAIN` the current branch is pushed
  (line 324) and `DEPLOY_BRANCH` deployed, unless `BRANCH` is set as well.
- `ai-review.yml:44` (and 51, 58, 146, 227): the lines of the embedded scripts are not
  indented, which ends the `run: |` block: as committed, the file is no YAML. The model takes
  the steps as they are meant.
- `chassis/__init__.py:19` imports `chassis.app`, which is not in the repository, so nothing of
  the package can be imported until that line goes; the models are of the modules.
- `auth/app.py:101-103`: the last layer added runs first, so where CORS is on it runs before
  authentication, not after it as the comment says. `auth.py:67-71` logs that a key
  "change-me-in-production" is refused; only the empty key is.
- `ai-review.yml:205`: a deterministic job that failed or was cancelled leaves the final
  job without its report, and no report is an APPROVE. The final verdict can in fact only
  be APPROVE or WARN; `escalate_if_pr_exceeds_size_limit` has no effect, as the semantic
  review, which would escalate, does not run on oversize changes.
- `execute_client.py:22`: the generated idempotency key never reaches the packet (line 23),
  so an action that needs one rejects every packet of the Python client; and since attempts
  share a `packet_id`, a retry after a lost reply is rejected as a duplicate and can never
  succeed. `executeClient.ts:14` has no timeout, and retries HTTP errors that the Python
  client raises.
- `config.py:97`: `>=` serves a file restored with an equal or older mtime stale;
  `LoadServesCurrent` has the precise condition. The dict returned is the cached one.
- `pii.py:128`: "Returns new dict" holds of the outer dict only. Lists are not descended
  into, a dict under a hinted key only recursed into, and a key with a dot never masked.
- `api_regression.py:63-68`: a failing git, a missing or stale `main` and a deleted or
  renamed file all count as no regression, although `docs/contracts/API_REGRESSION.md`
  calls a removed class CRITICAL; what is compared is the working tree, not HEAD; a file
  that is not UTF-8 ends the run with a traceback. Line 34 keeps `args.args` of a method only:
  renaming or removing a keyword-only argument (all but three of `AuditLogger.log`,
  `chassis/audit.py:138-154`), a positional-only one, `*args` or `**kwargs`, or changing a
  default, passes `--strict`, although line 30 of that document calls renamed or removed
  arguments HIGH. `PassMeansCompatible` therefore speaks of plain arguments.
- `audit_dispatch.py:153-159`: auditors whose requirements are not met are skipped, and a run
  without auditors passes, `--strict` or not. `--pr-comment` prints "Audit Failed" (line 110)
  for findings that pass.

## 7. Not modelled, and why

- *Request middleware*: no `create_app` applies `chassis/middleware.py`; the only use of
  `apply_chassis_middleware` is the example in its docstring (lines 158-160).
- *Health probes* that swallow their cancellation or block the event loop: `wait_for` waits for
  them, so a check takes as long as they do. They are outside of `HealthAggregator`.
- *Audit engine*: `tools/audit_engine.py:169` is a SyntaxError, although pre-commit, the
  Makefile and `ci.yml` run the file. A program that does not compile has no behaviour.
- *Conformant node app*: `app/main.py` imports `chassis.app`, which is not in the
  repository. The contract of such a node is the environment of `ExecuteClient`.
- *Engine metrics, hashing, transactions*: `MetricsCollector` is used nowhere and makes no
  claim about threads; the rest is wrappers and pure functions.
- *Engine handlers, services, models, configuration*: stateless; a handler appears in
  `Chassis` as what its await ends with.
- *LLM security helpers*: regular expressions, text templates, schemas.
- *Other CI and release workflows*: job graphs without decisions passed between jobs.
- *Infrastructure scripts, observability configuration*: I/O and configuration of
  libraries.

## 8. Plan

Modelled, in order of importance: audit logger (most concurrency, an explicit
promise), review aggregation and pipeline (decisions that gate every change), HTTP
boundary, health, Constellation, deploy, Perplexity agent, feature flags, execute client,
audit dispatcher, spec loader, PII engine. What is left out (section 7) keeps no state, or
cannot run.

Every safety property of a passing run is proved. To do: the type invariants of
`PerplexityAudit` and `AuditDispatch`; abstract specifications of what the execute client
promises its caller (at most one execution of a key) and of what the spec loader promises
(a read of the file between two points in time), which the modules would then implement by
refinement as the audit logger, the pipeline and the audits do.
