# llama-swap: verification project

llama-swap is one HTTP endpoint in front of many inference servers. It starts
an upstream process when a request asks for its model, stops the ones that do
not fit beside it, and hands the request over. This directory holds TLA+
modules for the parts where that is decided and for the programs around it, TLC
configurations that check them on small instances, and proofs TLAPS checks for
instances of every size.

    tlc -workers 2 -config MCRouter_rivals.cfg MCRouter.tla
    tlapm RouterAccountsProofs.tla

`PROJECT.json` lists the components, the runs with their properties, a mutant
that breaks each property, the source lines every definition stands for, the
hazards, the findings and the theorems.

1. Inventory  2. Modules  3. Runs, bounds, fairness  4. Findings
5. Observations  6. Proofs  7. Not modelled  8. Plan

## 1. Inventory

| component | state | operations | talks to |
|---|---|---|---|
| **base router** `internal/router/base.go` | run loop, `shutdownCtx`, `procCtx`, start gate; per request: `Admit`, `Respond` channels | `ServeHTTP`, `Unload`, `Shutdown`, `SetStartGate`, `RunningModels` | scheduler (calls), processes (calls), callers (channels) |
| **FIFO scheduler** `scheduler/fifo.go` | `active`, `reserved`, `inFlight`, `queued`, `nextGeneration` | `OnRequest`, `OnCancel`, `OnSwapDone`, `OnServeDone`, `OnUnload`, `OnShutdown` | router through `Effects`; policy through `Swapper` |
| **policies** `group.go`, `capacity.go`, `matrix.go`, `internal/matrix` | configuration; solver cache | `EvictionFor`, `OnSwapStart` | called by the scheduler |
| **upstream process** `internal/process` | `state`, `cmd`, `readyWaiters`, `runResp`, `handler`, `inflight`, `lastUse` | `Run`, `EnsureReady`, `WaitReady`, `Stop`, `ServeHTTP` | run-loop channels; child process; TTL goroutine |
| **loading stream** `router/loading.go` | writer, `released`, update channel | `start`, `setUpdate`, `sendError`, `release` | shares the `ResponseWriter` with the granted handler |
| **peer router** `router/peer.go` | transports, in-flight `WaitGroup`, `shuttingDown` | `ServeHTTP`, `Shutdown` | remote servers |
| **pause** `server/pause.go` | `paused`, transition lock | pause, resume, `startGate` | router's gate and `Unload` |
| **in-flight tracker** `server/inflight.go` | requests, bounded `updates`, `needsSnapshot`, `publisherRunning` | `Add`, `Remove`, `AddResponseBytes`, publisher | event bus |
| **request chain** `server/server.go`, `selector.go`, `concurrency.go`, `profiles.go`, `contenttype.go`, `filters.go`, `swaputil/http.go` | semaphore, active profile, spillover reservations; per request: body, parsed forms, context | limit, pin, select, rewrite, dispatch | both routers |
| **activity log** `server/metrics.go`, `captures.go`, `internal/cache` | captures, books of bytes; per request: the recorder | record, prune, overlay | store, event bus |
| **event bus** `internal/event` | registry, per-type group, consumer queues | subscribe, publish, unsubscribe | everything that emits |
| **log streams** `internal/logmon`, `server/log.go` | circular buffer, subscribers | `Write`, `GetHistory`, stream | event bus |
| **perf monitor** `internal/perf/monitor.go`, `internal/ring` | rings, config, context of the samplers | `Start`, `Stop`, `UpdateConfig` | event bus |
| **capability cache** `internal/capcompat` | memory map, claims, store | `Lookup`, `Refresh`, `Forget` | store, upstreams |
| **configuration** `internal/config` | - | merge sources, expand macros, resolve names | everything |
| **main** `llama-swap.go`, `internal/watcher` | active server and store, `reloading` | reload, signals, shutdown | server, watchers |
| **tailcat** `internal/tailcat` | client, those that are retired, pending dials | dial, replace, drain, `Close` | peer router |
| **wol-proxy** `cmd/wol-proxy` | status, SSE body, wake | event stream, health check, wake | remote llama-swap |
| **kubeswap** `cmd/kubeswap` | nothing but the cluster's objects | serve, delete, gc, status, logs | Kubernetes API |
| store, MCP, hw, docagent, UI | - | pure, or the database's | - |

What is hard, and what makes the parts correct:

* **scheduler and router** - requests, cancellations, finished handlers, finished
  swaps, unloads and a shutdown reach one loop in any order, while the swap
  goroutines, the processes and the callers move on by themselves. Correct when:
  the reservations and in-flight counts are exact, so that no slot leaks and
  `release` never panics; models the policy keeps apart never live together;
  parallel swaps keep out of each other's way; no busy process is evicted; an
  unloaded model stays stopped; the queue keeps its order and never waits for an
  event that will not come; every caller ends and a shutdown ends.
* **process** - a start runs in another goroutine and can be overtaken by a stop,
  by the end of the parent context or by the exit of its child; callers park on
  channels that only one transition answers. Correct when: nobody is left parked
  (issue #946), nobody is answered twice, what an answer says is true, no child
  escapes the loop, the handler leads to the child that is running.
* **pause, reload, unload** - something is switched off while requests that were
  let through just before are still on their way to start a model; two servers,
  two stores and one pause overlap.
* **tracker, bus, logs, monitor** - bounded queues, publishers that stop when they
  are idle, subscribers that come and go: a lost wake-up, a lost last update, a
  gap between history and live data.
* **request chain, names** - one name is rewritten, cached and looked up by rules
  of several packages; they must agree. What a request takes on the way in (a
  slot, a reservation) it must give back on every way out.
* **activity** - inserting, pruning and capturing are steps of concurrent requests,
  and counts come spread over the events of a stream.
* **policies** - pruned searches that must still find the best plan.
* **peer router, loading stream, tailcat** - something is closed or taken back
  while others may still use it.
* **wol-proxy, kubeswap** - two observers of one remote thing write one status; a
  controller restarts over what its predecessor left, and shares a namespace.

## 2. Modules

| module | models | in run |
|---|---|---|
| `Router` | base router, FIFO scheduler, swap goroutines, processes reduced to their state | `rivals`, `parallel`, `liveness`, `departed` |
| `GroupPolicy` | `groupSwapper` (as `EvictionFor`) | the same |
| `ProcessLifecycle` | what the `Process` interface promises the router | `calls` (refined) |
| `ProcessCommand` | one upstream process | `calls`, `returns`, `ttl` |
| `EventGroup`, `InflightTracker`, `RequestStream` | subscribers of one event type; the tracker; the two composed, with `/api/events` and the interface's list | `stream`, `overflow` |
| `Reload` | main, watcher, servers, stores, pause | `parts`, `shutdown` |
| `LogStream` | circular buffer, broadcast goroutine, both stream handlers | `parts` |
| `PerfMonitor` | monitor, samplers, ring | `parts` |
| `Activity` | record, prune, capture cache, across reloads | `parts` |
| `UsageMetrics` | response recorder, token accounting | `parts` |
| `PeerRouter` | choice of a peer, shutdown | `parts` |
| `LoadingResponse` | one answer: caller, loading goroutine, recorders | `parts` |
| `CapabilityCache` | memo, single flight, row with expiry | `parts` |
| `RequestPipeline` | limit, profile, selectors, dispatch | `parts` |
| `RequestBody` | the rewriting of one request in four encodings | `parts`, `rewrites` |
| `ModelNames` | name spaces of a configuration and who resolves what | `parts` |
| `ConfigSources`, `Macros` | merging of files; macros and ports | `parts` |
| `CapacityPolicy`, `MatrixPolicy` | the two planners | `parts` |
| `TailcatClient` | outbound client and its replacement | `parts` |
| `WolProxy` | Wake-on-LAN proxy | `parts` |
| `Kubeswap`, `KubeFleet`, `KubeObjects` | one backend's serve and delete; a namespace of models and its commands; rendering and the `--strict` comparison | `parts` |
| `Parts` | `LogStream`, `PerfMonitor`, `PeerRouter`, `LoadingResponse`, `CapabilityCache`, `WolProxy`, `TailcatClient`, `Kubeswap`, `RequestPipeline`, `RequestBody`, `Activity`, `UsageMetrics` side by side, with their constants open | `parts` |
| `RouterProofs`, `RouterAccountsProofs`, `RouterLoopProofs` | theorems about `Router` | |
| `ProcessCommandProofs`, `ReloadProofs`, `RequestStreamProofs` | theorems about the module of that name | |
| `PartsProofs`, `RequestPartsProofs` | theorems about the parts of `Parts`: those a request goes through (`RequestPipeline`, `RequestBody`, `Activity`, `UsageMetrics`) and the others | |

How they fit together: `Router` promises what `Reload` assumes of a router (a swap
passes the gate once; an unload or a shutdown ends swaps and processes).
`ProcessCommand` refines `ProcessLifecycle`, whose steps are those of `Router`'s
processes. `CapacityPolicy` and `MatrixPolicy` return running models other than
the target, which is all `Router` asks of a policy. `RequestPipeline` hands over
to `Router` or `PeerRouter`. `RequestStream` extends `InflightTracker` and
`EventGroup` and adds the connections. The other modules share no state.

### Router

`active`, `reserved`, `inFlight`, `queued` are the fields of `FIFO`; `loop` is
where `baseRouter.run` is; `client[r]` is where request `r` is in `ServeHTTP`;
`swap[g]` is where a swap goroutine is; `proc[m]` is what `State()` of a process
says; `gone` and `down` are the cancelled request contexts and `shutdownCtx`.

* A handler of the run loop that does not block is one action: `OnRequest`,
  `OnCancel`, and the first part of `OnServeDone`, `OnSwapDone`, `OnUnload`. One
  that blocks is split exactly where it can: at each answer to a caller
  (`GrantHandler`, `GrantError`: an unbuffered channel, so callers and contexts
  move in between), at the join of a swap (`JoinSwap`), at each `p.Stop`
  (`StopReturns`). `drainQueue` is one action per request because its grants
  block; `loop.pending` is what it has still to look at.
* `Decision` is the decision tree that `OnRequest` and `drainQueue` both contain;
  `RunningSet`, `CollidesWith`, `ConflictsWithInFlight` and `Evict` are its parts.
* A grant lands (`GrantLands`) only while its caller is parked on `Respond`, and
  is lost (`GrantIsLost`) once the caller's context or the router is done - even
  if the caller is still parked: `select` may choose either.
* `sw.cancel()` cancels a swap's context (`CancelSwap`) and waits for the goroutine
  (`Joinable`, `JoinSwap`); `SwapCancelled` is every place where the goroutine
  looks at its context. `doSwap` looks at it after all stops only.
* Shutdown cancels `shutdownCtx` and takes the phases of an unload of every model:
  `OnShutdown` answers waiters and queue, then every process is stopped, then
  `procCtx` ends them. Two differences of the code leave nothing behind: it does
  not empty `active` and `queued`, which nothing reads any more.

Abstractions: a request is used once, and a swap is named by the request that
started it instead of by `nextGeneration`; the waiters of a swap are a set, so
they are answered in any order; the start gate refuses at will; a process may
leave `ready` at any time if it is `Volatile` (crash, TTL); a decision reads the
process states at one instant; the unknown-model branch of `drainQueue` is dead,
since the process map is fixed; the `shuttingDown` flag, tested before anything
else in `ServeHTTP`, is one of the ways out in `GiveUp`. Not in this module:
`PositionCh`, the loading stream (`LoadingResponse`), and the pause between the
buckets of `Unload`.

### ProcessCommand

`at` is where the run loop is: in its `select`, in the inner one of a start, in
the two ways to tear a start down, in `killProcess` of a stop or of the shutdown,
or gone. `state` is the published state, kept apart from `at`: other goroutines
read it. `start` is the `doStart` goroutine with its result channel, `child` the
processes of the operating system, `handler` the pointer `ServeHTTP` loads,
`answer[c]` the response channel of a caller (capacity one), `ttl` the goroutines
that survive a start. A start, its child and its TTL goroutine are named by the
caller that asked for it.

* One action per branch of the run loop; a branch that waits is an action before
  and one after the wait (`OnStop`/`StopEnd`, `AbortStart`/`AbortEnd`,
  `OnClose`/`CloseEnd`, `OnStart`/`StartServed`/`StartFailed`).
* `doStart` spawns before it first looks at its context (`Spawn`), its health check
  may still pass after a cancellation, and it may return a live child to a loop
  that no longer wants it: `StartOver` waits until that one is dead.
* `ServeHTTP` loads the handler (`Forward`) and counts the request (`Count`) in two
  steps. A TTL goroutine looks at state and count (`TtlExpires`) and then asks for
  a stop like any other caller.

Abstractions: times. A TTL may be over at any tick that sees nothing in flight; a
health check may pass, fail or go on; killing takes any time. `cmd.Wait` and
`cmdDone` are one event (`Exit`).

`ProcessLifecycle` is the abstract specification: the order of states, and that a
process that says it is stopped has no child. `up <- (Alive # {})` is the
refinement mapping.

### RequestStream

`updates`, `needsSnapshot`, `publisher` and `timer` are the tracker's; `mu` says who
holds its lock and where, because `enqueueLocked` has steps between its look at the
outbox and `needsSnapshot`, and the publisher does not take the lock to receive.
`queue`, `pending` and the waiters are the bus's: `Emit` blocks while one queue is
full (`EmitWaits`), `Listen` takes a whole queue at once. A connection subscribes,
reads the table, sends it and then what arrives (`Subscribe`, `ReadPayload`,
`SendPayload`, `HandleUpdate`, `Deliver`); its own buffer drops (`lossy`). `Apply`
is the interface's `applyInFlight`. A request is its version number.

### Reload

Servers are numbered in the order they are built; each has a configuration (the
number of the edit it was built from), a store, a life, and one model's process.
`main` is the signal handler, `reload` says where each of the two that ask for reloads
is, with what it has loaded, `prev` and `disk` are the watcher's last look and the file. A reload is one action per call:
load, open the store if its path changed, build (preloading goes on by itself),
swap `activeSrv`, shut the old server down, close its store. Pause and resume are
handlers on the shared pause state, with their transition lock, as are requests,
which pass the check and later the gate.

### The request chain

`RequestPipeline` has one step per middleware that keeps state, with the choice of
a spillover selector split where the code takes its lock: the states of processes
were read before. `RequestBody` follows one request, with `ParseForm` and
`ParseMultipartForm` modelled by what they cache: `form`, `postForm`, `multi` are
separate fields, as in `http.Request`. `ModelNames` has no concurrency: its steps
are building a configuration and activating a profile, and its properties compare
what five packages answer for each name of it. A name is a sequence of its path
segments, so prefixes and `/upstream/<name>/<rest>` can be told apart.

### Kubernetes

`Kubeswap` is one model: serve, its poller, delete and the pods, with a step for
each API call and calls that may fail. `KubeFleet` is a namespace: IDs are
sequences of characters because what `sanitizeModelID` makes of them decides who
shares a label; `start`, `delete`, `gc` interleave call by call: a start creates the Service behind
the Deployment, and then gets it in any case and creates it again if it is missing,
so a delete may come between. `KubeObjects` is
the flags: which are refused, what they render to, and `deploymentSpecMatches`.
What the cluster does by itself (cascading deletion, pods, users) is external.

### The others

`LogStream` numbers the bytes. `Activity` numbers servers and stores and keeps each
one's captures and rows. `PerfMonitor` numbers runs (Start to Stop) because a
sampler reads the monitor's context from its field on every turn and may so go from
one run to the next. `PeerRouter` counts who is in the WaitGroup and who is cut off.
`LoadingResponse` writes all frames on one `wire`. `CapabilityCache` numbers the
probes. `TailcatClient` numbers the clients behind one peer. `CapacityPolicy` and
`MatrixPolicy` translate the searches themselves (greedy seed, budget of nodes,
trimming; frontier of undominated states) and compare them with all choices. `ConfigSources`
merges YAML trees, `Macros` expands sequences of tokens. `UsageMetrics` reads
answers part by part.

## 3. Runs

| run | instance | shows |
|---|---|---|
| `rivals` | 2 models in one swapping group, requests m1, m2, m1, limit 2, all clients may disconnect, m1 may vanish, one unload of m1, gate may refuse | accounting (`RouterAccounts`), rivals, unload |
| `parallel` | 3 models: two exclusive persistent groups that evict the first, one request each and one for an unknown model, m3 has priority | parallel swaps, busy processes, queue |
| `liveness` | 2 models, 2 requests, everything may happen once: disconnects, vanishing, unload, shutdown | every caller ends, the loop comes back, shutdown ends |
| `departed` | 3 models, 4 requests, one disconnects | violation, finding 1 |
| `calls` | one `Run`, `EnsureReady`, `WaitReady` and `Stop`, one request, TTL, shutdown | callers, children, answers, refinement |
| `returns` | the same without the request | liveness of the callers and of the shutdown |
| `ttl` | one start, one request | violation, finding 2 |
| `stream` | outbox of one update, a browser that comes, is slow and goes | the list a browser ends with; the outbox drains |
| `overflow` | the same publisher, fair | violation, finding 4 |
| `rewrites` | form requests, pins, selectors | violation, finding 3 |
| `parts` | twenty parts, each in states of its own (below) | their invariants |
| `shutdown` | two servers, one reload, a signal | violation, finding 5 |

`parts` chooses one part in its initial state and takes only that part's steps, so
its states are the sum of theirs, not the product. `MCParts` extends `Reload` and
`Parts`, whose properties are the ones that are proved, and adds the parts that are
only checked. A part that does not run stays
in its initial state; where that has several, one is chosen.

| part | bounds | what they let happen |
|---|---|---|
| logs | a buffer of 2 bytes, 4 bytes in writes of up to 3 by 2 writers, channel, inbox and send buffer of one | wrap, drop, marker, gap |
| reload | 2 servers, 2 edits, 1 request, preload on the first, 2 store paths | watcher and SIGHUP at once, and a reload that overlaps edits, a pause and a signal |
| monitor | 2 runs, 3 samples, rings of 2 and 3 | a sampler that survives Stop and Start; a ring that wraps |
| activity | 3 records of sizes 1, 2, 4, cache of 3, 2 rows, 2 servers | eviction, replacement, a capture too big, a reload in between |
| peers | 3 peers, two sharing a client, three requests | a late request, a deadline, a client that is closed once |
| loading | 2 statuses, refusal, departure | each way to end before, during, after the stream |
| capabilities | 2 services, 1 lookup, 2 refreshes, 2 probes | an overlap on one row |
| pipeline | 3 requests, one an upgrade, limit 2, a spillover of three targets and a warm selector, a pin between them | the limit hit, ties, a stale reading, an ignored upgrade |
| capacity | 5 models, 2 pools, 3 tables of use and cost, budgets 2, 6, unlimited | a search cut short and trimmed; free models; ties |
| matrix | 5 models, 7 matrices: nested, referring, circular, malformed, with orphans | each operator, dominated states, refusals |
| wol | 2 requests, 2 streams | a stream that dies unseen, a wake at the same time |
| kube | 1 pod at a time, 1 failing call, 2 attempts | restart over leftovers, delete during serve, crash clean-up |
| objects | some 50 sets of flags, each followed by each, and edits by hand | drift and no drift of each field |
| fleet | 3 IDs of which 2 share a label, 7 more for names alone, 2 namespaces, 2 commands at once | siblings, shared and user claims, gc during a start |
| tailcat | 2 dials, 3 clients | replacement under a dial, Close at any point |
| names | 5 x 5 x 6 x 4 x 14 configurations, every name with three tails | every collision of name spaces |
| bodies | 4 content types against 3 bodies, names in body, query or both | stale parsed forms, filters that meet |
| sources | 9 directory entries, any that are there, 4 -config files | contradictions, nulls, lists, order |
| macros | 6 global lists, 48 models, alone and between two others, ports | self-reference, override, order of ports |
| usage | streams and bodies of 2 parts from 9 reports | corrections, zeros, timings against usage |

Why the bounds of the other runs are enough to meet the hard cases. In `rivals` two
requests share a model, so joining, a second waiter that leaves, a limit that is
reached and a slot that is given back all happen; the other model makes each of them
evict, and queue behind, the first. `parallel` is the smallest instance with two
swaps at once that could want the same victim, and a queue of two with different
priorities. `liveness` has two requests because its graph has to be searched for
cycles. In `calls` and `returns` two of the four callers start the process, so it
is started again after a stop, an exit, an abort or a failed start, with the TTL
goroutine of the first start still there. In `stream` the outbox holds one update
and a request comes, changes and goes, so it overflows and recovers.

Deadlock is not checked: requests, calls and commands are used up, so every run
really ends. What must not stop is stated by the liveness properties.

Each property is paired in `PROJECT.json` with a change of the code that breaks it
(a count left out, a slot kept, a generation not joined, a caller forgotten). Where
a property of `parts` is about several modules, each of its conjuncts has a change
of its own beside the definition it changes.

### Fairness

`Router!FairSpec`: weak fairness of every caller, of every swap goroutine, of the
run loop and of each event it selects on (Go's `select` picks among the ready
cases at random, so none is passed over for ever), and of every process step that
is under way - a start ends by its health check or its deadline, a stop by
`SIGKILL`, and a handler ends since upstreams answer. No client has to leave,
nothing has to crash, nobody has to call `Shutdown`.

`ProcessCommand!FairSpec`: weak fairness of the loop, of `doStart` apart from its
health check, of the health check once the start is cancelled, of receiving a
call and of returning from one, and of the death of a child that `killProcess` is
at work on. There is none for the health check of a start nobody cancels: each
new progress value pushes the deadline back, so a load may go on for ever
(`LoadsForEver`), and `CallsReturn` promises `EnsureReady` an answer only
otherwise. `Stop` is promised one always. `Run` returns only when something ends
the process, and `WaitReady` of a process nobody starts waits: both are the
interface's contract, and `BusyIsSettled` says what is owed to them.

`RequestStream!FairSpec`: goroutines that can run do: whoever holds the tracker's
lock, each publisher, and each subscriber's goroutine, which never blocks since the
connection's buffer drops. No client has to connect, to read or to leave, and no
request has to come, change or end.

The modules of `parts` are checked for safety only and state no fairness.

## 4. Findings

1. **`departed`** - `fifo.go:150-151` says `drainQueue` never starts a load for a
   caller that is no longer there. It does when the cancellation is still on its
   way while another event drains the queue.
2. **`ttl`** - `process_command_test.go:655-656`: requests in flight prevent the
   TTL from stopping the process. Not one that arrives between the goroutine's
   look at `inflight` and its `Stop`.
3. **`rewrites`** - `http.go:274-276`: a rewritten request is resolved by its new
   name. A urlencoded form is not: its `PostForm` is replaced (346-351), its `Form`
   is not, and that is what is read afterwards.
4. **`overflow`** - `inflight.go:180-182`: a later snapshot replaces what an
   overflow drops. Not if the publisher drains the outbox and goes idle between the
   overflow and `needsSnapshot`.
5. **`shutdown`** - `docs/kb/guides/tools/kubeswap.md:170-171`: a shutdown stops every
   model. A signal during a reload stops those of the new server only.

Each is quoted in full in `PROJECT.json`.

## 5. Observations

Behaviours met while modelling that no run states as a violation: either no
document denies them, or a model would only restate the line. They are modelled as
the code has them, and the properties are worded around them.

Process and router
* `process.go:80-82` promises 503 from `ServeHTTP` when the process is not ready.
  While it is stopping, requests are still forwarded to the child being killed.
* A priority given for an alias is accepted and ignored (`fifo.go:395`).
* A user's group called `(default)` is overwritten by `AddDefaultGroup`; a group
  member that is an alias gets a process of its own. `NamesResolve` sets the first
  apart.
* `matrix/doc.go:45`: the order among sets of equal cost is not always kept by
  `addToFrontier`. `SolveIsBest` asks for the least cost only.

Streams and records
* `loading.go`: chunks may follow the error frame, since `waitForCompletion` gives up
  after a second.
* `logging.go`: the marker for dropped bytes comes where the broadcaster notices, not
  at the gap. The plain log stream reads the history before it subscribes and may
  lose what is written in between; the API's stream does not.
* The recorders take an interim 1xx status for the final one (`log.go:137-142`);
  `EntryIsTrue` sets it apart. Usage that has rates and no token counts is ignored in
  a stream and read in a JSON body. `Stats` counts requests by `MAX(id)`.
* A Lookup that read before a Refresh may remember its old answer after it. A record
  whose store a reload has closed is lost.

Requests and names
* Multipart with `?model=` keeps the query's name after a rewrite. A body of another
  content type that is in fact a form is not looked into, and its rewrite drops the
  other fields. A GET with a JSON content type gets a body from the filters.
* `/upstream/` does not know selectors, and pins there match prefixes. A pin to
  nothing hides a model that is still listed; names may be listed twice.
* The documentation of profiles says that startup and reload select none;
  `hooks.on_startup.profile` does.
* `merge.go:239-241`: an explicit `null` is said to yield; `null` and `~` conflict, an
  empty value yields. An identity map that is empty in one source and a mapping in
  another is refused. A file that is one scalar counts as empty.
* A reload does not drain the server it replaces, but shuts it down.

Other programs
* wol-proxy: the health check may say "not ready" just after a new stream said
  "ready", and the mark stays while that stream lives.
* kubeswap serve: a SIGTERM after a crash does not stop the clean-up, though a comment
  says it wins; a delete while serve is still creating leaves the Deployment; delete
  returns at once if a crash has already cleaned up; adoption without `--strict`
  updates the Service to a port the old pod does not listen on.
* kubeswap delete, gc: `--delete-volumes` ends at a sibling's claim with the same
  sanitized label, though a comment says siblings are out of reach; a claim is listed
  and later deleted by name, and may be another model's by then; a claim another model
  mounts may go; `createMissing` adopts a claim that is being deleted; gc finds
  Deployments only, so an orphaned Service or claim stays.
* kubeswap status shows the first live pod, logs and serve prefer a ready one; a log
  stream that ends while its pod stays is not reopened (`serve.go:1092-1113`).
* kubeswap objects: `envsEqual` compares one way when a name is there twice
  (`objects.go:493-516`); volumes in another order are replaced under `--strict`, being
  named by their place; labels of the pod template are not compared; two service ports
  of one number and two names are refused only by the API, after the Deployment is made.

## 6. Proofs

Every theorem is about the specification with its constants open: any sets of models,
requests, callers, clients, any limits, priorities, sizes of buffers and numbers of
servers. Each rests on an inductive invariant, proved for the initial states and then
action by action; the invariants were checked by TLC as invariants of a run before
they were proved (the longest: `Reload` with 3 servers, 2 edits, one that does not
load; `RequestStream`; `TailcatClient` with 3 dials and 3 clients).

| module | theorem | states |
|---|---|---|
| `RouterProofs` | `ShapeInvariant`, `SwapSafetyInvariant`, `RivalsExcluded`, `SwapsCurrent`, `SwapsDisjoint` | types of the router, but for the sign of the counters; `RivalsNeverTogether`, `SwapsAreCurrent`, `SwapsDoNotInterfere` |
| `RouterAccountsProofs` | `AccountsInvariant`, `AccountsExact`, `RouterTypes` | `RouterAccounts`, `TypeOK` |
| `RouterLoopProofs` | `QueueSorted`, `QueueOrderKept`, `WakeUpNotLost`, `BusySpared`, `UnloadedStopped` | `QueueByPriority`, `OrderIsStable`, `NoStrandedQueue`, `NoBusyEviction`, `UnloadedStayStopped`; `GroupPolicyFits`: the group policy is one the theorems hold for |
| `ProcessCommandProofs` | `ProcessInvariant`, `ProcessTypes`, `CallersKept`, `ChildrenKept`, `HandlerKept`, `OneAnswerEach`, `TrueAnswers`, `ProcessImplementsLifecycle` | `TypeOK`, `NobodyForgotten`, `NoOrphan`, `HandlerCurrent`, `AnsweredOnce`, `AnswersAreTrue`, `ImplementsLifecycle` |
| `ReloadProofs` | `ReloadInvariant`, `PauseKept`, `StoresKept`, `WatcherKeepsUp` | `PauseHolds`, `StoresOutliveServers`, `WatcherCatchesUp` |
| `RequestStreamProofs` | `StreamInvariant`, `ClientsAgree` | `StreamAgrees` |
| `PartsProofs` | `LogsStayComplete`, `SamplingStaysSound`, `PeerShutdownStaysClean`, `ResponseStaysSound`, `StoreKeepsLastProbe`, `WakeStaysSound`, `ClientsStayRetired`, `BackendStaysOwn` | `StreamKeepsLogs`, `SamplingIsSound`, `PeerShutdownClean`, `ResponseIsSound`, `StoreHasLastProbe`, `WakeIsSound`, `ClientsAreRetired`, `BackendIsOwn` |
| `RequestPartsProofs` | `PipelineStaysSound`, `ActivityStaysConsistent` | `PipelineIsSound`, `ActivityConsistent` |

With these every safety property of the runs of `Router`, `ProcessCommand` and
`RequestStream` is a theorem, and thirteen of the fifteen of `parts`.

Assumptions on the constants, each evaluated by TLC on the runs' instances:

* `Router`: `RequestsAssumption`, `ConfigAssumption`; `PolicyAssumption`: the policy
  evicts running models only, and never the target; `RivalsAssumption`: rivals evict
  one another whatever else runs. `GroupPolicyFits` proves both of the group policy,
  for any configuration of groups, with `MutuallyExclusive` for the rivals.
* `Reload`: `ServersAssumption`, one server at least. `RequestStream`:
  `SendBufferAssumption`, the buffer of a connection has a size.
* `Parts`: `LogAssumption` (the log's buffer has room for a byte); `ConfigsAssumption` (any capacity may be asked for, also a negative one);
  `PeersAssumption` (peers are numbered); `StatusAssumption` (a frame of a stream is
  no status line); `DialsAssumption` (finitely many dial at once, and there is a
  client to start with); `PipeAssumption` (finitely many requests; limits and numbers
  of a spillover selector as `config.go` validates them; what a selector targets is
  the name of a model, and no selector has the empty name); `BodyAssumption` (no
  profile pins, and no selector is, the empty name or what stands for a failure; a
  filter's parameter is hard or soft); `ActivityAssumption` (finitely many
  metered requests; at least one row is kept, as `newMetricsMonitor` sees to);
  `UsageAssumption` (a count that an upstream reports is a natural number or absent).
  The last is about the upstreams and not about this code, which would hand on a
  negative count of a body and ignore one of a stream.

### Rivals

"Rivals are never live together" is not inductive: a swap that has
stopped its victims and is about to start its target depends on nobody starting a
rival meanwhile. Two facts carry it. A swap has every live rival of its target
among the models it still has to stop, and none is live once it is past the stops
(`RivalsCovered`); two rivals are never being swapped in at once
(`RivalsSwapApart`), which follows from `RunningSet` counting swap targets as
running and from the collision test, and which is why no process comes to life
behind a swap's back. Only a swap goroutine starts a process, and it is the one
`active` names (`SwapsAreCurrent`), because `cancel` joins it. With
`SwapsDoNotInterfere` these are inductive relative to `ShapeOK`; `SwapSafety` is
their conjunction, proved action by action in `NextSafety`.

### The books of the scheduler

A reservation follows the request from `enqueue` to the end of its handler, and moves
through places that no one field names: the queue, what a drain has still to look at,
the waiters of a swap, the answers the loop is about to give. `Books` says where a
request can be: what each phase of the loop leaves empty, that a request waits for
its own model's swap only, that the places are disjoint and nobody is in the queue
twice, and what the caller of a held request is doing. On top of it every step of
`Next` is one of five movements (`NextMovement`): nothing moves, a request is let in,
it leaves without a handler, it is granted, it is done. Each movement changes the
counters as it changes the sets they count, so `reserved` and `inFlight` are the
cardinalities of those sets (`CountsOK`). That they are never negative, which makes
`TypeOK` an invariant and the panic of `release` unreachable, falls out.

The queue keeps its order because every step leaves the line as it was, inserts one
request where `enqueue` does, or takes one out; a drain that puts back what it could
not serve is a walk along the same line. `NoStrandedQueue` needs to know why each
request is queued, for a swap or a handler in its way (`WaitsForSomething`), and that
every end of one of these drains the queue (`WakeUpComes`). `BusySpared` needs that a
grant goes only to a model no swap is going to stop; the rest is the collision test.
`UnloadedStopped` walks the phases of an unload: first no swap of a target is left,
then no queued request for one, then no process.

### The process

`ControlOK` ties the place of the run loop to the published state, to `cmd`, `req`,
`handler` and the pending stop. `ChildrenOK`: what is alive is in the loop's hands, and
a start that failed left nothing behind. `AnswersOK`: whoever is parked without an
answer is owed one by the loop, and nobody is owed one twice. Every step then maps to
a step of `ProcessLifecycle` or a stutter, since `state` changes only where
`ControlOK` says whether a child lives.

### Reload and pause

A reload is a sequence of calls, and the watcher, SIGHUP, a signal, a pause and
requests come between any two. `StagesOK` and `LivesOK` say which server each stage
holds and which may be up; `StoresOK`, that a store that is closed is nobody's who is
still up; `PauseOK`, that what a pause has cleared runs nothing; `WatchOK`, that what
is loaded, being built or active is the last edit unless one was turned away.

### The list of requests in the browser

What a client shows follows from the *last word* about each request on the way: in
its send buffer, its batch, its queue, the publisher's hands or the outbox, nearest to
the table first. If there is none, the client has been told already. This is excused
for a request whose removal a timer still has to announce, and after an overflow until
the snapshot that makes up for it (`Lost`). `FreshOK` says it of the tracker's half,
`StreamOK` of each connection.

### Parts

At any time one part runs, so each has an invariant and a theorem of its own
(`LogSound`, `PerfSound`, `PeerSound`, `LoadSound`, `CapSound`, `WolSound`, `TcSound`,
`KubeSound`; `PipeSound`, `BodySound`, `ActSound`, `UsageSound`), which `SideBySide` and
`RequestsSideBySide` carry over to `PartsSpec`.

* `LogInv`: before `head` the buffer holds the bytes of this turn and behind it those of
  the turn before, which needs no `%` to be said; bytes are lost with the write they
  came in, and no two writes share one, so each is counted once; a byte the client
  does not have is lost, refused, or in one of five places on its way.
* `PerfInv`: whoever still samples waits on the current run's context or on one that
  is cancelled. The ring: `Shows` says where the i-th oldest sample is; a push puts
  the next one in the first free place or that of the oldest, and `Remainder` is what
  `%` does below twice the capacity. `NewBuffer` makes one place of any capacity
  below one.
* `PeerInv`: the order of a shutdown, whom it spared, and that a client is closed when
  the transport of the least peer that names it is; that there is a least one is
  `LeastNumber`, by the well-founded order of strict subsets.
* `LoadInv`: the wire has one status line and it comes first; both recorders have seen
  a write if the wire has one, and then that status; what is on the wire says how far
  the caller is and how its wait ended. Beside it `OneTold`, kept by what each step may
  do to the wire (`StepsMoveWire`): one error frame at most, none before the caller
  frames it, and without a stream only a status and its body.
* `CapInv`: a Service that is probing is so for exactly one goroutine, and while it is
  known what the row should hold (`due`), the row holds it but for the time from the
  end of a probe to the write of its result.
* `WolInv`: no stream that is closed, or that the health check has taken to close, is
  the one that was opened last, and a call that goes on to wake is one the user
  asked for.
* `TcInv`: `pending` of a client is the number of dials in flight on it, and which
  steps of its retirement that number allows.
* `KubeInv`: the poll of the pods goes on only while `serve` serves, waits for a signal
  or is on its way out; with `--strict` the Deployment that `serve` found or made stays
  until somebody deletes it (`StrictIsKept`); how much a cleanup after a crash and a
  `delete` have done follows from how far they are, unless a call failed or `delete`
  came before the objects were made (`CleanupIsDone`, `DeleteIsDone`).
* `PipeInv`: slots, reservations and running requests are the cardinalities of the sets
  of requests that hold one, by the place each is in (`PipeCounts`); a request that
  leaves, whatever way, leaves exactly the sets it was in. That a choice of a spillover
  selector is fair is said of the states it read, which others have changed by then
  (`SpillChooses`); that the n-th free candidate exists is a least counterexample
  (`NthExists`).
* `BodyInv`: what the request tells at each middleware (its query, its form, its body)
  and what that must be by then: the name that was asked for, the selector's, the
  model's. Up to the filters the body differs from the one that came in the model only
  (`SameBesides`); after them it is what the filters make of it key by key
  (`Composes`), and preparing it twice is preparing it once.
* `ActInv`: an id belongs to one request per store, and a row and a capture are of the
  request whose id they have (`RecordsOwn`, `RowsOwn`, `CapturesOwn`). The ids of a store
  in memory are an interval that ends at the last one given, and it is longer than the
  limit by no more than the requests that have still to prune (`RowsNewest`). The books
  of a cache are a sum that the model writes as a recursive function; that there is such
  a function is shown up to each number in turn (`BytesIs`, by `UpTo`, which rests on
  `LeastNumber`), and `BytesAfter` says how the sum of a tail goes with the sum of what
  was evicted before it.
* `UsageInv`: before the header is written the recorder has its defaults and the client
  nothing (`HeaderPending`); afterwards both have the same status and, but for what
  follows an upgrade, the same body (`HeaderSent`). What a stream adds up is what it
  reports, because each accumulated field changes at some events only and then to what
  that event says: its last value is that of the last such event (`LastChange`,
  `ScannedReports`). `OnePart` says the same of a body that comes at once.

### Only model-checked

* Liveness (`EveryRequestEnds`, `RunLoopReturns`, `ShutdownEnds`, `CallsReturn`,
  `BusyIsSettled`, `CloseReaps`, `OutboxDrains`) and all that is about `ENABLED`: out
  of the prover's reach.
* What the recursive definitions of `CapacityPolicy`, `MatrixPolicy`, `ModelNames`,
  `ConfigSources` and `Macros` compute, and the sorting and comparing of `KubeObjects`
  and the names of `KubeFleet`: the proofs would be inductions over lists, documents and
  strings; so `PlansAreBest` and `NamesResolve`. (Where a proved module sums over a
  sequence it does so by a recursive function of a number, see `ActInv` and `UsageInv`;
  that does not carry over to the recursive operators of these modules.)
* The runs that expect a violation, and that a guard is needed at all, which the
  mutants show.

## 7. Not modelled

* The MCP endpoint and its configuration provider, hardware detection, the
  documentation agent: stateless readers, with no step of theirs that meets another's.
* SQL: pages, filters, statistics, migrations. `Activity` and `CapabilityCache` have
  the statements that change rows.
* The byte level of HTTP: reverse proxying, headers, compression, JSON of answers.
* The interface (but for its list of requests), images, charts, vLLM wrapper and the
  programs that only tests use.
* `Monitor.Clear` (`logging.go:184`), which drops a log's history: only tests call it.
* Signals and process groups of the operating system; GPU and system counters.
* kubeswap's proxy handler, its following of pod logs and the wording of reasons;
  the Tailcat listener and its identity file; flags and listeners of the main program.
* Time. A timeout is an event that may happen at any moment; no property measures one.
* Hazards without a run: that a steady stream of requests of higher priority keeps
  one of lower priority waiting is what the priority is for, and `EveryRequestEnds`
  is about finitely many requests.

## 8. Plan

1. That the plans of `CapacityPolicy` satisfy `PolicyAssumption`, as far as that needs
   no induction over data; until then the theorems about `Router` hold for it by the
   check of `PlansAreBest` only.
2. `Router` composed with `LoadingResponse`'s answers, if its states allow.
3. The MCP providers, if they come to keep state.
