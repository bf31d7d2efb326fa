# A specification of do-runtime

do-runtime runs Cloudflare Durable Objects outside of workerd: it is a port of
workerd's actor runtime to TypeScript, with an actor in a Web Worker (or in
Node), its database in SQLite, and a host that may lose the worker at any
moment. This directory has TLA+ modules of the parts in which order, failure and
restart decide whether the runtime is correct, configurations to check them with
TLC, and proofs for TLAPS.

`src/` is the root of the repository; below, a file is often named without its
directories. `PROJECT.json` maps every definition to the lines it translates and lists
components, runs, mutants, hazards and theorems.

Contents: [the system](#the-system) · [modules](#modules) ·
[correspondence](#how-the-modules-correspond-to-the-code) · [runs](#runs) ·
[fairness](#fairness) · [what the models showed](#what-the-models-showed) ·
[proofs](#proofs) · [not modelled](#not-modelled) · [plan](#plan)

## The system

An event (a request, an alarm, a message of a WebSocket, a call between actors)
reaches an actor through its `IoContext`. It waits for a lock of the **input
gate**, runs until it awaits something, and gives the lock back at the end of the
checkpoint, when the microtask queue is empty. What it writes goes to
**`ActorSqlite`**, which collects the writes of a checkpoint in an implicit
transaction and commits it at the checkpoint's end. What the actor sends to the
outside waits for the **output gate**, which is locked from a write until the
commit of that write is confirmed. An alarm is stored twice: in the actor's
database, and with the **alarm scheduler** of the namespace, which wakes the
actor; a protocol in `ActorSqlite` keeps the two together. In a browser the
scheduler lives in a worker that is evicted after seconds, so it keeps a second
copy of its next wake with a **coordinator**, which arms `chrome.alarms`. A
**supervisor** in the page or the offscreen document owns the workers, and the
transports of its clients outlast them.

```
 page --- port socket --- supervisor --- worker of an actor
                              |            |
 events --> IoContext --> InputGate ----> actor's code --> facets (child actors)
                |                             |  writes, alarms
                |                             v
 outputs <-- OutputGate <-- commits ----- ActorSqlite ---> SQLite ---> pool of OPFS files
 (WebSockets)                             |  ^
                          scheduleRun()   |  |  armAlarmHandler(), abandonAlarm()
                                          v  |
                                     AlarmScheduler ---> _cf_ALARM
                                          |  ^
                           projectWake()  v  |  deliver()
                                 BrowserAlarmCoordinator ---> chrome.alarms
```

### Components

For each: its state, its operations, what is hard, and what makes it correct.

**Output gate** (`src/src/io/io-gate.ts`, `OutputGate`). A chain of promises, one
link per `lockWhile()`, and whether the gate is broken. Locks settle in any order,
may be cancelled while they settle, and several may fail. A message leaves only after
the locks before it were confirmed, and fails with the earliest failure.

**Input gate** (same file, `InputGate`, `CriticalSection`, `Lock`). Lock counts, two
queues of waiters, the tree of critical sections, broken states. Sections end in any
order while they have waiters and locks, which their parent adopts; failure has to
reach the root. A section has its scope to itself and no waiter is forgotten.

**IoContext** (`src/src/io/io-context.ts`). The stack of input locks, the abort,
pending events, timers. `run`, `awaitIo`, `blockConcurrencyWhile`, `abort`,
`setTimeout`. The abort is checked before and after a wait; the deadline of a section
races its callback. An event's stretches are not interrupted by another one, its
writes are one transaction, and who queues gets in.

**Gate publication** (`src/src/gate.ts`). Which actor the code in a microtask belongs
to, in a realm that several actors share: the reserved publication, the continuation
marker, the lock kept while another actor owns the checkpoint. Code after an await
finds itself under its own actor.

**Storage engine** (`src/src/io/actor-sqlite.ts`, `src/src/util/sqlite-metadata.ts`).
The open transaction, commits under way, what is known of the scheduler, the deferred
deletion of a running alarm. Commits overlap and merge; requests to the scheduler and
to storage are awaited in between; either fails; the worker dies anywhere. Every write
is committed and confirmed before output, and the alarm in the file is covered by an
entry of the scheduler.

**SQL and key-value API** (`src/src/util/sqlite.ts`, `src/src/util/sqlite-kv.ts`,
`src/src/api/sql.ts`, `src/src/api/actor-state.ts`). Savepoints, the known tables, the
cached alarm, cursors and iterators. What is remembered has to follow a rollback to
any savepoint; a call that fails midway leaves nothing.

**SQLite backends** (`src/backends/sqlite-wasm.ts`). A pool of files in OPFS with the
names that they are bound to; hot journals, headroom, exports, restores, clones,
deletions, which go file by file. A call of the driver fails, or the worker is terminated,
between any two of them. What was acknowledged can be read back, and half a transaction is
never taken for a database.

**Alarm scheduler** (`src/src/server/alarm-scheduler.ts`). The table `_cf_ALARM`, a map
of entries, tasks, active deliveries. Deliveries outlive their entries, any write may
fail, the worker dies during a delivery. Every alarm is delivered or deleted, no
failure is charged twice, and the host is told to wake up for all that is left.

**Alarm coordinator and projector** (`src/src/browser/alarm-coordinator.ts`,
`src/src/browser/worker-protocol.ts`). A durable journal, the physical alarm, a queue
of mutations, the latest projection. The background worker stops between any two
writes; a physical alarm fires once. A wake that was accepted is in the journal, and is
lost only with the call that arms it.

**Facets** (`src/src/server/facet-deletion.ts`, `src/src/server/actor-container.ts`,
`src/src/browser/actor-tree.ts`). Deletion receipts with generations, attempts under
way, the queue of a subtree, epochs of references, placements. A crash comes between a
deletion and its receipt, a second deletion during the first. What is deleted goes, and
only that.

**Worker supervisor** (`src/src/browser/worker-supervisor.ts`,
`src/src/browser/worker-protocol.ts`). Workers with epochs, transports, held frames,
deletion barriers. Everything is compared again after an await; a worker gets work
while it is being hibernated. Frames arrive once and in order, stale references reach
nobody, and nobody waits for ever.

**WebSockets** (`src/src/api/web-socket.ts`, `src/src/server/hibernation-mirror.ts`).
The halves of a pair, their modes and pumps, tags and attachments, the mirror that
survives the container. Frames wait behind output locks; both ends close at once; the
actor is replaced while its sockets live on.

**Port transports of sockets** (`src/src/browser/message-port-websocket.ts`,
`src/src/browser/chrome-port-websocket.ts`, `src/src/browser.ts`). A socket of the page
over a MessageChannel to a bridge in the worker, or over a `chrome.runtime.Port`. Either
end closes while the other one connects; the document behind a port dies without a
word. Both transports are one connection.

The rest has no protocol of its own and is listed in `PROJECT.json` with the reason.

## Modules

| module | models | checked in run | proved in |
|---|---|---|---|
| `OutputBarrier` | what an output gate promises (abstract) | `gates` | |
| `OutputGate` | `OutputGate` of `io-gate.ts` | `gates` | `GatesProofs` |
| `InputGate` | `InputGate`, `CriticalSection`, `Lock` | `gates` | `GatesProofs` |
| `IoContext` | `IoContext`, `TimeoutManager`, the container's entries | `io_context` | `TurnsProofs` |
| `GatePublication` | `gate.ts` with the checkpoints of a shared realm | `publication` | `TurnsProofs` |
| `ActorSqlite` | `ActorSqlite` and the actor's view of its scheduler | `actor_alarm`, `actor_transactions` | `ActorSqliteProofs` |
| `TransactionalStore` | a store with transactions and no caches (abstract) | `storage` | |
| `SqliteStorage` | `SqliteDatabase`, `SqliteKv`, `SqliteMetadata`, `SqlStorage`, `transactionSync` | `storage` | |
| `SqlRegulator`, `ListRange` | which SQL is let through; the bounds of a `list()` | `storage` | |
| `SahPool` | the pool of OPFS files | `sah_pool` | `SahPoolProofs` |
| `AlarmScheduler` | `AlarmScheduler` for one actor | `alarm_scheduler` | `AlarmSchedulerProofs` |
| `BrowserAlarm` | coordinator, projector, background worker, host | `browser_alarm` | `BrowserAlarmProofs` |
| `Facets` | receipts, controller, subtree queue, epochs, placements | `facets` | `FacetsProofs` |
| `WorkerSupervisor` | `BrowserWorkerSupervisor` and `serveBrowserWorker` | `workers` | |
| `WebSockets` | one pair over an actor and its replacement | `websockets` | `WebSocketsProofs` |
| `Connection` | what a socket promises to its two ends (abstract) | `websockets` | |
| `PortSockets` | both port transports | `websockets` | |

A module named `MC...` instantiates one for TLC. `MCGates` and `MCWebSockets` hold two
systems that share no state: `side` says which of them a behaviour is about, and the
other one stays in a state in which nothing has to happen, so that the fairness of both
is assumed at once and costs neither its liveness. `MCTurns` holds `IoContext` and
`GatePublication`, each with a specification and a run of its own (`SlicesSpec`,
`ContinuationsSpec`) that leaves the variables of the other one alone.

A `TypeOK` says what the state of a module looks like. For the modules that have a module of
proofs it is proved (for `IoContext` and `GatePublication` the types are stated with the invariant
in `TurnsProofs`); in the others it documents the state, and the runs spend their properties on
other things.

## How the modules correspond to the code

Conventions: an action is a handler or the part of a coroutine between two awaits, with
every synchronous call it makes. A promise reaction, a microtask or a message is an action
of its own where something may come before it. What the application, a driver, the browser
or the clock does is an action without fairness unless the README says so. Operators
marked `seeded fault` are mistakes that the properties have to detect; they are used by no
specification.

### OutputGate, InputGate

`link[i]` is the promise joined by the i-th `lockWhile()`, `past[i]` the chain
`#pastLocksPromise` after it, `raced[i]` the caller's promise, `at[w]` the chain a `wait()`
is bound to. A rejection carries the number of the lock that failed. `OutputBarrier` knows
only locks that are held, confirmed or failed, and waits that depend on a set of them;
`ImplementsBarrier` says that the chain of promises behaves so.

A gate of `InputGate` is the root (0) or a critical section. Locks and waiters have names
that are used again. `scope[g]` is where `parentAsInputGate()` and the constructor of
`Lock` end up when they climb from `g`. The first wait of a section is never cancelled
(`IoContext` passes no signal), and `drop()` of a section that is not running changes
nothing.

### IoContext

A call is an event, a timer's callback or a critical section with its callback; a task is
one `run()` or `runImpl()`, which becomes a slice of a call. `ctx.frames` is
`#currentInputLocks`. A gate is locked while a task or a section has a lock on it (`Locked`): who
has one is what `lockCount` counts in `InputGate`, where that is proved (`Counting`).
`waitingChildren` and `waiters` are the two lines at each gate. `Code(t)`
is what the slice does next: await a storage operation (with its lock kept) or a promise of the
world, set a timer, start a section, call `waitUntil`, end. `written`, `confirmed` and `writers` stand for the
storage: the implicit transactions, each with an output lock, and whose writes the open one
holds.

A section that fails breaks its gates and the root at once, while its caller sees the rejection
later, and the abort of the context comes in between (`io-context.ts:806,1058-1069`). Such a
section is "failed" until the abort, and its caller does not go on before it. If it did, a caller
could start another slice while the broken section's one is in the checkpoint, which the property
about transactions does not survive once there are five calls.

### GatePublication

A piece of work is an event, a transformed `await`, a step of a `for await`, or a callback
that such code gave to `then()`. `continuation` and `publication` are the two variables of
`gate.ts`, shared by the actors of the realm. Microtasks (`Resumes`) come before tasks;
`CheckpointEnd` is a task. The section in which the actor is when an await settles is left
open, as is the order in which promises settle.

### ActorSqlite

A write is its transaction and whether it must be confirmed; only the alarm's value is kept
as data. `implicit` and `frames` are the open transactions, `file` what SQL COMMIT made
durable, `alarm` what the connection reads. A commit `k` is the coroutine of
`#startImplicitTxn`, `ExplicitTxn.commit` or `deleteAll`: `pc[k]` says whether it is queued
for the end of the checkpoint, awaits a request for an earlier alarm (`prealarm`), awaits
`commitCallback()` (`callback`), or awaits another commit (`merged`, `leader[k]`).
`noLaterThan`, `lastConfirmed`, `laterIsInFlight`, `pendingLater` and `deferredDelete` are
the fields of those names. The scheduler is the part one actor sees (`row`, `entry`,
`delivering`), and `handler` is where `#deliverAlarmImpl` stands.

- `PromptStorage`: `commitCallback()` answers before the event loop runs another task. In
  this port the callback is `async () => {}` (`actor-container.ts:1326`), so it is TRUE.
- `PromptScheduler`: the scheduler's answer arrives before the next task, as it does in
  Node; with FALSE it may come later, as when the wake is first projected to a browser.
  Both runs set TRUE; the theorems hold for both values.
- `SameInstant`: whether an alarm can be delivered, and set again, at the instant it is
  due. FALSE separates deliveries from the alarms they are for by a tick of the clock.
- A handler returns only when no `transaction()` is open on its behalf, because the
  transaction is a critical section of the input gate.
- A crash loses all but `file` and `row`. `CrashBeforeCommit` is the crash after the request
  to the scheduler and before COMMIT.

### SqliteStorage, TransactionalStore, SqlRegulator, ListRange

The connection is one record `conn`: the content, SQLite's stack of savepoints with what
each would restore, the caches (`kvCreated`, `metaCreated`, the alarm), the transactions of
the API and the iterators. Operations are functions from connections to connections,
composed of the statements the code runs; how a statement ends is chosen. `SqlRegulator`
says which statements the text-based filter lets through, `ListRange` which half-open range
`compileListOptions()` computes. `TransactionalStore` has one content, a stack of marks, at
most one reader, and no caches. The refinement reads `conn` through what is remembered of it:
a table that is not remembered is empty, a cached alarm is the alarm, and `missing` are the
tables that are remembered and not there, of which the store has none (every later `get()`
and `put()` would throw "no such table"). The reserved tables and the schema are content
(`reserved`), which the store never changes, so a statement of the application that the
regulator should have refused is no step of it. A `list()` that is being read is a reader; a
new one ends it, and so does `deleteAll()`. `ListsOutlast` is whether an iterator is used
after the rollback of the transaction it was opened in (FALSE, see below).

### SahPool

`pool` has the content and the journal of every file, and the capacity; a content is fresh,
written or torn, and a journal holds the content that undoes the transaction. `queue` is the
queue of `withHeadroom()`. A termination drops connections and queue and keeps the handles
until the browser releases them. `DeletionCutOff` unlinks any part of a prefix's databases
and journals before it throws or the worker dies, `ResetFails` leaves the file, none or an
empty one behind a connection that is "dead", and `OpenFails` may have created the file. An
empty database is no image: it can be neither exported nor imported.

`acked` is the last content that somebody was told is stored, or that a call left when it
failed. `lost` are the files that nobody vouches for: those of a replacement that died with
its worker or could not be undone, of which the caller is told or has to switch prefixes; a
half-written database whose journal a deletion took before it was cut off; and copies of
these, since a snapshot and a step carry the `lost` of their images. A commit does not end
it, a reset, a deletion and a replacement do. `MayExport` bounds how many sets of images are
out of the pool at once.

### AlarmScheduler, BrowserAlarm

`AlarmScheduler` has one actor's `row` and `entry`, and `orphans`: the deliveries and
abandonments whose entry left the map, which keep the wake projected. `entry.doing` is where
the task stands. A write that fails is an alternative of the step it is in; `AbandonHalfDone`
is the step with two writes of which the second fails. The delay of a retry doubles as in
the code, without jitter. `failures` counts what deliveries reported.

In `BrowserAlarm` the scheduler is `row` and `delivering`, its projector `sends` and
`latest`, the coordinator `journal`, `physical`, the queue `tail` and `attempts`. Each
mutation takes its steps with the store and the browser's alarms in their order, and the
background worker may be stopped between any two of them. A physical alarm is consumed when
it goes off. `unarmed` records that it is gone because a mutation that was to arm it failed or
was cut off; nothing reads it but `DueIsDelivered`, whose exemption it is.

### Facets

The tree of facets is a constant. `runs[f]` are the controller's attempts at the deletion of
`f`, `queue` the serialized removals, `ops[f]` the operations on a facet's id, `host` the
placement that the browser's tree has. The storage of a facet is what a deletion was asked
for ("doomed") and what was written since ("kept").

### WorkerSupervisor

The synchronous methods are operators on the record `sup`, what an await separates are
actions. A frame is a number, so order and loss show in `got`. The bootstrap of the worker
(`serveBrowserWorker`) is `Boots`, `Serves` and `Snapshot`. When an idle timer fires is a
choice. A snapshot is compared by the ids of the transports, each of which may connect again
under the id it had. `Overtakes` and `ProbesHeld` admit two behaviours that the properties do
not survive (see below); the run has both FALSE.

### WebSockets, PortSockets, Connection

`WebSockets` is one pair over at most two containers. Half `a` is the actor's, half `b` its
own or returned in a `Response`; `h` is the wrapper of the host. `meta.note` is the last
attachment that the metadata of half `a` has, `mirror` that of the mirror, and `meta.told` the
last one serialized since the half hibernates, in whichever container. A frame carries the number
of writes before it (`under`), and an output lock is the number that has to be confirmed.
`heard` is what the listeners of a wrapper heard, in that order; before it an event is in the
pump of the sender, in `pending` of a wrapper without listeners, or in `queue`, at the input gate
of the receiver's container. `HeardInOrder` is about that order. It is proved and not a property of
the run, which has its bounds for the others.

`PortSockets` is one socket of a page. `wire` is what is on its way to each end, `ready`,
`queued` and `flushing` the fields of `MessagePortWebSocket`. Over a channel, `actor` and
`pending` are the actor's socket behind the bridge; over a chrome port, `link` is the state
of the port: "silent" loses messages without an event, "invalid" throws. A ping behind one
that is not answered is left out. `Connection` is a duplex stream of frames: each end hears
a growing prefix of what the other sent until one is closed, and in the end all is heard or
both are closed.

## Runs

Every run finishes within five minutes with two workers.

| run | question | bounds | distinct states |
|---|---|---|---|
| `gates` | are messages held back for the locks before them and does the chain implement the barrier; do sections exclude, does a failure reach the root, does everybody get in | output: 3 locks, 2 waits; input: 3 sections, 4 locks, 2 queued waits, 1 extra reference | 241 919 |
| `io_context` | are stretches and transactions one event's, and do queued tasks get in | 5 tasks, 3 calls, 2 events, 3 operations, 1 fault | 254 905 |
| `publication` | does code run as its own actor when awaits of two actors settle in one checkpoint | 2 actors, 3 pieces of work, 6 awaits, 1 abort | 194 692 |
| `actor_alarm` | do file and scheduler stay together, and does the alarm fire after a crash, an eviction or a failed call | 2 times, 2 commits, deleteAll, 1 fault, 1 crash | 201 261 |
| `actor_transactions` | are transactions committed, merged commits led and the cache true, with nesting, rollback and failures | 2 levels of explicit transactions, 1 alarm time, 2 commits, deleteAll, 1 fault | 5 500 265 |
| `storage` | does the storage with its caches behave as a store without, and does a failing call leave nothing | 1 `transaction()`, 1 `transactionSync()`, 2 rollbacks of callbacks, 2 keys, 1 row, 2 iterators; bounds of `list()` up to 1 of 3 units | 228 236 |
| `sah_pool` | is what was acknowledged kept, is there room for journals, are exports whole | 2 prefixes, 1 name, 3 slots, 2 queued steps, 1 set of images out of the pool, 3 faults | 2 469 410 |
| `alarm_scheduler` | are failures charged once, is a newer alarm kept, is every alarm delivered or deleted | 2 times, clock to 4, 2 counted tries, 2 failing writes, 2 crashes | 83 431 |
| `browser_alarm` | is what was accepted journaled, does the watchdog outlive the work, is what is due delivered | clock to 2, 2 tries, 2 stops, deaths or failures | 514 282 |
| `facets` | does what is deleted stay on record, are starts serial, do deletions end | 2 nested facets, 2 placements, 2 deletions, 1 abort, 1 crash, 1 failure | 72 403 |
| `workers` | do frames arrive in order, are stale references refused, does nobody wait for ever | 2 transports of a nested key, 1 caller, 2 workers, 2 frames, 1 probe, 2 troubles | 1 123 945 |
| `websockets` | is only durable state heard, is the mirror true, do closes settle; do both port transports implement a connection | pair: 2 containers, 1 frame, 1 write, 2 attachments; port: 2 frames an end, 3 probes, 2 troubles | 1 099 674 |

Why the bounds are enough. Two alarm times make an alarm earlier, later and equal; the clock
goes beyond both. Two commits overlap and merge. Two output locks that settle out of order
with a third that is joined later are all that the chain distinguishes; three sections are
the first size in which one in the middle ends before its child and its parent. One counted
failure before the last one shows a double charge. Two containers are the actor and its
replacement; two workers the one that is evicted and its successor. Two frames of a port or
a worker show reordering, loss and duplication; a pump has the close and the ping as further
items, and the order of any number of frames in it is proved (`HeardInOrder`). A facet and its
child make an ancestor's deletion overlap with its own. Two troubles are a failure during the
recovery from another one; the third fault of the pool is a deletion cut off after both, whose
remains are then exported. One name is enough there, because a database and its journal are
already two files that are unlinked in either order; `SahPoolProofs` has any number. Two
attachments tell the last one from an older one. Counters that only grow are bounded by the
constants of that name.

Deadlock is checked in `actor_alarm`, `actor_transactions` and `alarm_scheduler`. The other
runs have `CHECK_DEADLOCK FALSE`, each with the reason in its configuration: bounded events
run out, and an idle system waits for new ones.

Each property has a mutant in `PROJECT.json`: a definition that is replaced by a plausible
mistake, which the property detects under the same configuration.

`actor_alarm` uses `RecoverySpec`: after the first failure or crash the application leaves its
alarm alone. Without it `AlarmFires` does not hold, since an earlier entry that survived in the
scheduler can be delivered after a restart and cancel against an alarm that is being set.
`NoLaterThanIsTrue` speaks of states before the first failure: a request that failed leaves
the scheduler as it was while the engine is shut down, and what is guaranteed after that is
`AlarmFires`. `browser_alarm` uses `Spec`, in which a stopped background worker is started by
the physical alarm and by messages of a host, and otherwise need not be started at all.

## Fairness

- *Output gate.* Promise reactions run. That the caller's promise settles is the hypothesis of
  `WaitersGetIn`.
- *Input gate.* Locks are released, since `IoContext` does so at the end of the checkpoint; the
  first wait of a section resumes; a running section ends, because `blockConcurrencyWhile`
  has a deadline (`io-context.ts:1491`).
- *IoContext.* Continuations run, a promise of the storage settles (one of the world need
  not), and deadlines pass.
- *Publication.* Microtasks run. The end of a checkpoint and a scheduled publication are
  strongly fair: each is a posted message, which is delivered whatever other tasks come
  first.
- *Actor.* Checkpoints end, the scheduler and storage answer, failed tasks are reported, a due
  alarm is delivered (strongly: the actor may be unusable again and again meanwhile), its
  handler ends, a broken or crashed actor is placed again, and the clock goes on. Of the
  application nothing is assumed.
- *Scheduler.* Timers fire, `abandonAlarm()` returns, the clock goes on, and a dead worker is
  started again, but only at the wake that it projected (`WokenUp`): a projection that
  forgets a delivery under way loses the alarm in the model too.
- *Browser.* The physical alarm goes off, mutations and calls proceed, a delivery that asks
  for the host has it created. A handler may run for ever.
- *Facets.* Placements and removals proceed and a dead root is started again.
- *Supervisor.* Continuations and removals proceed, and so does each worker that lives.
- *Sockets.* Pumps, events, checkpoints and confirmations proceed. Over a port: messages and
  microtasks are run, requests are served, `connect()` and `beforeConnect()` settle, and the
  heartbeat goes on.
- *Storage and pool.* Only safety is checked.

## What the models showed

Each of these was met as a counterexample while its module was written, or by reading the code
for an action. The bounds of the runs leave them out where a property would fail on them, and
this section says where.

### The alarm of an actor

The second, third and fourth of these break `AlarmCovered`, which is why `actor_alarm` has no
explicit transactions (`MaxDepth` 0), a prompt scheduler and separate instants
(`SameInstant` FALSE). The theorems hold without these limits.

- *An uncommitted alarm is announced.* A commit waits for the scheduler and then reads the
  alarm again (`actor-sqlite.ts:621`). An event that ran meanwhile may have moved it later, in
  a transaction that is not committed yet; the commit records that alarm as confirmed (`:633`)
  and announces it. Until the next commit the scheduler's alarm is later than the one in the
  file, against the comment at `:289-291`.
- *A deletion that is rolled back.* `transaction()` commits the implicit transaction with its
  alarm at once, but the request to the scheduler is made by the commit coroutine at the end of
  the checkpoint, which reads the alarm inside the new transaction (`:547`). Had that
  transaction deleted the alarm, nothing is requested, and when it is rolled back nobody asks
  for the alarm that is in the file.
- *A slow scheduler.* While a request is under way, `armAlarmHandler()` takes an alarm for clean
  that equals the last confirmed one (`:941`, comment at `:951-952`), although the file has
  another. The cancellation overtakes the commits that are merged into the one that waits, and
  an alarm set earlier meanwhile is not requested.
- *The same instant.* A handler that sets its alarm again to the time it is running for changes
  nothing in the database (`:811`), so there is no commit and no request; when the handler has
  ended, the scheduler deletes its row. `abandonAlarm()` argues that a new alarm is later than
  the one under delivery (`:1013-1014`), which holds only between different instants.
- *A failing COMMIT leaks a savepoint.* `maybeCommit()` gives up its handle before it commits
  (`actor-state.ts:831`); when that throws, `maybeRollback()` (`:836`) has nothing left to
  roll back and the savepoint stays open until the actor is replaced. `leaked` models it.
- *A deletion in another's transaction.* A deferred deletion that runs while another event's
  `transaction()` is open deletes inside that transaction, and is undone with it.

### The scheduler and the browser

- `deleteAlarm()` deletes the row (`alarm-scheduler.ts:434`) and with it the mark that a
  delivery is running; `setAlarm()` is careful to keep that mark (`:160-162`). An alarm set
  again while that delivery runs starts without it, and a death of the worker does not count
  as an interruption.
- An alarm that is set while another one waits for its retry is queued behind it, so it may
  fire later than asked.
- `deleteAlarm()` between two attempts promotes a queued alarm whose row it has just deleted.
- An uncounted failure after the last counted one gives up as well.
- The background worker may be stopped between the consumption of the one-shot alarm and
  `physical.create()` in `fire()` (`alarm-coordinator.ts:128`), or between the journal and
  `create()` in `#apply()`; either call may also fail. The journal then has a wake that nothing
  is armed for, until something starts the background worker and it reconciles, or a host
  projects again. The class comment claims that the next wake is not lost (`:46-48`).
  `DueIsDelivered` exempts an alarm from that moment (`unarmed`) until something arms one again;
  every other failure, stop or death leaves it owed.

### Facets, workers and IoContext

- A deletion is queued only when the operations it found under way in the subtree are over
  (`actor-container.ts:801`). A facet that is created again meanwhile asks `settled()`, which
  knows only queued deletions, and may start before the deletion that it should wait for
  (comment at `:334-335`); the removal then stops it.
- A second deletion of a facet is given the promise of the attempt under way
  (`facet-deletion.ts:223`) if that has its generation, including the attempt's failure.
- A frame that arrives while a worker is probed cancels the probe (`worker-supervisor.ts:314-315`,
  called from `#receive`), and one that was held while the worker started is flushed once it is
  ready. But `hibernate()` may be called before that: no frame comes during the probe, so the
  worker is evicted (`:586`) with the frame still held, until something else wakes its key,
  although frames are said to be held while a worker starts or hibernates (`:70`) and its ports
  to go to the replacement (`src/docs/browser-hosting.md:50-51`). `ProbesHeld` TRUE shows it as a
  violation of `NobodyIsStranded`; the run has FALSE, where such a probe does not begin.
- With `Overtakes` TRUE, a message on one port may overtake one on another, and a frame
  posted before the probe can be lost. The run has FALSE.
- An explicit `hibernate()` that throws after the idle timer fired leaves a worker that is
  idle and has no timer. Calls on a capability that was resolved earlier do not cancel a
  probe.
- `quiescence()` (`actor-container.ts:1618`) does not look at output locks, so a snapshot can
  be taken while an output waits; the pump that waits is in the mirror only as its socket.
- `setTimeout()` after an abort in the same slice arms a timer, which finds the actor aborted.

### WebSockets

- After a failed commit rejected the pump of a host's wrapper, what the replacement sends to
  that wrapper vanishes (`web-socket.ts:636`, `:491`).
- An aborted actor's own close is not sent but leaves `#ownClose` set.
- A close event that the old actor's gate refuses after its replacement was made removes the
  entry of the mirror, not the one in the new registry. `src/README.md:451-452` says that a
  closed socket is removed before its event; the code removes it while it handles the event.
- An attachment serialized before `acceptWebSocket()` is in the metadata of the raw socket, so
  it survives as long as that object does, and never in the mirror, whereas `src/README.md:447-449`
  has the mirror retain the attachment bytes. `ListedIsMirrored` says exactly what the mirror has.
- A message that is a `Blob` is read asynchronously and may be overtaken by the next one.
- Frames that arrive between `createActorContainer()` and `start()` of a rehydrated actor are
  dropped. A pair that is half closed with a pending pump and then coupled loses its close.
- Over a port: frames queued while the socket connects are dropped by a close (a test asks for
  it). A client whose request was posted to a broker that has stopped stays CONNECTING for
  ever, and the end of a worker or page behind a `MessagePort` is not noticed by the other
  side. With probes off, a chrome port that falls silent is never noticed either. Liveness
  in `Connection` is stated for the rest.

### Storage

- `deleteAll()`, or a rollback of the outer handle, inside `transactionSync()` ends the
  transaction under it. A write through an outer handle while a nested transaction is open
  goes to the nested savepoint.
- An iterator of `kv.list()` that was opened in a transaction yields rows of that transaction
  after its rollback, and while the table is absent a new `kv.list()` does not cancel it.
  `ListsOutlast` TRUE shows it; the run has FALSE.
- `exec()` of several statements that is refused midway keeps the earlier ones.
- A termination during the replacement of a prefix loses it. The code says so itself
  (`sqlite-wasm.ts:781-782`): the caller imports into a fresh prefix and switches. `lost`
  records these files, and the properties leave them out.
- `deleteAll()` unlinks in the order of the pool's names (`sqlite-wasm.ts:343`). Cut off after a hot
  journal and before its database, it leaves half a transaction that looks like any database:
  no sidecar is left that an export would refuse, and `open()` finds nothing to roll back. An
  export keeps every journal for this reason (comment at `:722-724`). These files are `lost` too, until
  the prefix is deleted again. Cut off the other way round, it leaves a journal without a
  database, which every export and clone of the prefix refuses; a database opened there again
  is empty, and its first read deletes the journal.
- An `unlink()` or `reset()` that throws may have removed the file, and a `reset()` or `open()` that
  throws may have created an empty one (`:772`, `:858-862`, `:874-888`). A connection whose reset
  failed is closed and still counted until its provider closes.
- A replacement that fails over an empty database cannot be undone: `importDb()` refuses images
  under 512 bytes, so the caller gets a `recoverySnapshot` that cannot be imported either.

## Proofs

TLAPS checks eight modules. They are about every value of the constants, where the runs have
small ones. Each rests on the named assumption of the module it is about, which gives the bounds
their types; what an assumption says beyond that is said here. An invariant is made of
named parts, most of which no property mentions: they are what makes the properties inductive,
and the paragraphs say which is needed for what. TLC checked each on the configuration of its
module before it was proved.

**`GatesProofs`, the output gate,** assumes `MaxLocksAssumption` (`MaxLocks \in Nat`) and nothing
of `Waiters`. The invariant `OutputInv` is `TypeOK` with four parts:

- `ChainInv`: a promise of the chain that is fulfilled has every lock before it confirmed, and
  one that is rejected carries the first failure before it. This is what makes the property
  inductive: `RejectedWithEarliestFailure` speaks of waiters, who only copy what the chain has.
- `LinkInv`: a link that fails carries its own exception.
- `BrokenStateInv`: the gate is broken from the moment of the first rejected link.
- `WaitInv`: a waiter that was let go has seen the promise it waited for.

From it follow `OutputTyping`, `ReleaseSafety`, `RejectionSafety` and `BrokenFirst`. `Refinement` shows
`Spec => ImplementsBarrier`, where the abstract barrier has no chain; it needs `FreshInv` as well
(nothing is settled before it is taken), so that taking a lock maps to a step of the barrier.

**`GatesProofs`, the input gate,** is about the instance `Input` of `MCGates`, whose
specification is the one that the run checks; the steps of the other gate leave this one alone.
It assumes `InputAssumption`. The invariant is `InputInv`.

- `LockInv` and `CountInv` say what `lockCount` counts: the locks on a gate and on the sections
  that were reparented to it. `ScopeInv` makes "reparented to" one step long, and only sections
  that are over are reparented. From these follows `Counting`, that `releaseLock()` never goes
  below zero.
- `ExclusiveInv` gives `Exclusive` (`SectionIsExclusive`): the lock that a section holds or was
  granted on its parent is the only one counted there. It is about locks that were granted and
  not yet used, too, as the section starts only in a later task.
- `ParentInv`, `BrokenInv`: every section knows the root it is below, also after sections
  between them were reparented, which is `FailureBreaksRoot` (`FailureReachesRoot`).
- `StageInv`, `QueueInv`: a section is in one stage of its life and queued at most once, where its
  parent now is. With `WaitersWaitForALock` this is `NobodyIsForgotten`; `NothingIsLeftBehind`
  says the same of a section that succeeded.

**`TurnsProofs`, the slices of an actor,** is about `IoContext`. It assumes `IoContextAssumption`:
the bounds are numbers, and there is room for one call. The theorems hold for any nesting of
sections, with timers, deadlines, failures and aborts at any time. The invariant `IInv` (`Turns`)
says of a context that is not aborted that it is `Good` and that the open transaction has only
writes of events with a slice in the checkpoint (`WritersInv`); an aborted one starts nothing and
has no open transaction (`Dead`). The parts of `Good`:

- `StageInv`, `CallsInv`: who has a lock follows from the stage of a task, and the frames are the
  slices of the checkpoint. Calls are made in order, and a section has its caller's event.
- `ScopeInv`: gates are a tree, and one that is over stands for one above it.
- `HomesInv`, `ChainInv`: the sections that were entered lie in one another, and all locks are on
  the innermost gate. A task is let in where its gate has no lock; with these parts, nobody has a
  lock anywhere then. Without them a waiter at the parent of a running section could not be told
  from one that may go.
- `QueueInv`, `OpenInv`, `DoneInv`: who waits in which line, that a section is entered before
  its code does anything, and that it ends in the checkpoint of its last slice.
- `TurnInv`: those who have a lock are of one event; of one call, except the last slices of
  sections that are over; and one that was let in from a line is alone.

`TransactionsAreOfOneEvent` (`OneTransactionPerEvent`) follows from `WritersInv` and `TurnInv`, and
`StretchesAreUninterrupted` (`StretchIsUninterrupted`) from `StageInv` and `TurnInv`: the kept lock of a
storage operation is a lock. The proof has a lemma for each operator of the context (taking a lock,
dropping it, joining a line, being reparented, ending a call), which says what it keeps of each
part, and shows of each action that it is made of them.

**`TurnsProofs`, the continuations of awaits,** is about the instance `Publication` of `MCTurns`, and
assumes `PublicationAssumption`. The invariant is `PublicationInv`. `JobsInv` says that the microtasks
of one checkpoint belong to one actor, and that what is not an await finds that actor current.
`MarkerInv` says that a marker is live, that a reservation is for an await that will go on, and
that there is one of the two while jobs are left: this is what `OwnCode` (`CodeRunsAsItself`)
needs. `LocksInv` counts: each lock of an actor is of a slice or of work that captured it, once
(`Locking`), and work that was admitted anew is alone, from which `WaitingOut`
(`WaitingOutKeepsTheActor`) follows.

**`ActorSqliteProofs`** assumes `ActorSqliteAssumption`, the types of the bounds. Its theorems
hold with a slow scheduler, slow storage, crashes and any nesting.

- `Typing`: needs `CancelWaits`, that a delivery which is cancelled waits for a request it made.
- `WritesWillCommit`, `MergingIsSafe`, `GateIsReleased`: from `CommitsInv`. A merged commit waits
  for a leader with work ahead only because a commit that others may join is still asking the
  scheduler (`PendingIsAsking`), and a commit waits for `commitCallback()` once
  (`PersistingOnce`). That the gate is locked on live commits is a part of it.
- `CacheIsTrue`: from `CacheInv`, whose `SavepointInv` says that the outermost savepoint restores
  what the file has, as no implicit transaction is open at the same time.

**`AlarmSchedulerProofs`** assumes `AlarmSchedulerAssumption` and `DelaysAreNumbers`: that the
powers of two in the delays are numbers, which is true and which the provers, without induction,
cannot derive. `RowIsMapped` and `RowIsNewest` say what the row and the entry in memory know of
each other: a row has an entry while the scheduler is up, and it is for the alarm that was set
last, the queued one if there is one. `TaskInv` ties the status of an entry to what its task
carries. `ChargeInv` is the core of `ChargedOnce` (`FailuresAreChargedOnce`): a counted failure
that a task still carries is in the history and not yet in the ladder, and the row of a newer
alarm starts without charges. `MarkInv`: a row that is marked as running has a delivery, or the
bookkeeping of one, ahead of it. `Redelivery` (`NoRedeliveryOffTheRecord`) and `NewerIsKept`
(`NewerAlarmIsKept`) are action properties from the same invariant.

**`BrowserAlarmProofs`** assumes `BrowserAlarmAssumption` and `DelaysAreNumbers`. `KnownInv`
collects every projection that anything still names (the journal, the host, messages under way,
queued mutations, answers) and says that a generation stands for one wake among all of them. With
`HostInv`, that the host's last settled projection has the last generation that was drawn, this
is `Accepted` (`AcceptedIsJournaled`). `TailInv` says that only the first mutation has begun and
that two ends of deliveries are of different deliveries. `AttemptInv` carries over an await that
the scheduler is done with what was due when a delivery began, which `Watchful`
(`WatchdogOutlivesWork`) needs.

**`SahPoolProofs`** assumes `SahPoolAssumption`: prefixes and names are finite sets, and the
bounds are numbers.

- `StepInv`: only the head of the queue runs. `ConnInv`: which connections go with which journals,
  and that one which can be used has its database.
- `KeptInv` gives `Acknowledged` (`AcknowledgedIsKept`). A file that nobody has given up is what was
  acknowledged; or half a transaction beside a journal that holds it; or an empty database
  beside the journal of a deleted one. The three have to be told apart, because a deletion that
  is cut off may take either of the two files. The content of the middle one is what `lost`
  gets when its journal goes, and nothing else is put there by a deletion.
- `ReplacementInv`: at each stage of a replacement, what the step still has in its hands restores
  everything it took, also when its first failure comes in the middle of an import; a rollback
  that meets a failure of its own is marked, and its files become `lost`.
- `Whole` (`ExportsAreWhole`) is inductive with these: what is read for a snapshot or a clone has no
  journal, so by `KeptInv` it is torn only if it is lost, and the image says so.
- `RoomInv` counts slots. It counts the union of the files that are there and those the first
  step may still add, with a journal for each connection that is open or about to be; a
  reservation therefore survives the await between `reserveMinimumCapacity()` and the write.
  `Room` is `RoomForJournals`; `Headroom` is `SlotWhenNeeded`, that no operation of the code that
  takes a slot meets an empty pool.

**`FacetsProofs`** assumes `FacetsAssumption`: finitely many facets, each with a parent. Nothing is
assumed against cycles, and nothing about what the recursive `Ancestors` computes: the receipt
that covers a facet is of whoever `Descendants` found it under, whatever that is.

- `SerialInv`: the operations on an id are under way one at a time, and a placement follows the
  teardown of the one before. This is `Serially` (`StartsAreSerial`).
- `RunsInv`, `QueueInv`: of the runs for a facet only the first is under way, later ones have
  newer receipts, and a removal in the subtree's queue belongs to a first run.
- `PendingInv`: while a removal waits for a start, that start is cancelled or over, and the next
  placement waits in turn.
- `RecordInv` is what `OnRecordAlways` (`DoomedIsOnRecord`) rests on. The property speaks of
  storage that is doomed; the invariant also of a placement under an old epoch, which could still
  write into it: for each of these there is a receipt, of the facet or of an ancestor, whose run
  has not passed the facet. `KnownInv` adds that what the index does not list has no storage, so
  that a walk of the index misses nothing.

**`WebSocketsProofs`** assumes `WebSocketsAssumption`: the bounds are numbers, and there is at least
one container. Its theorems hold for any number of containers, frames, writes and attachments, with
commits that fail and containers that are replaced at any time. The invariant `Good` has:

- `GenInv`, `EndInv`: every container before the last is aborted; half `a` stays at its end; half
  `b` is inert once the host has a wrapper in its place. These say which wrapper an event is for.
- `ModeInv`: only a wrapper without listeners keeps events, and it heard none; what waits at a
  gate is for a wrapper of that container or will be refused.
- `LockInv`, `DurableInv`: an item in a pump has a lock that covers every write it was sent under,
  or one that rejected; an event beyond the pump was sent under writes that are confirmed. The
  second is `DurableFrames` (`OnlyDurableIsHeard`), and needs the first at the moment of release.
- `MirrorInv` is `MirroredSockets` (`ListedIsMirrored`). Its part `NoteInv` says of every mirror,
  also of one whose container is gone, that it has the last attachment since the half
  hibernates (`meta.told`), which the metadata has too: a replacement starts from one of the
  two. It is inductive only with the part about closes: while half `a` is open there is no close in `pending` or at a gate, and no close event
  under way that would still remove the entry.
- `LineInv`, `PumpInv`, `SentInv` are `FramesAreHeardInOrder` (`HeardInOrder`). The frames of one
  end are in line in what was heard, what is kept or waits at a gate, and the pump of the sender, in
  this order (`Comes`, `Facing`); whoever sent a close sends nothing after it. A wrapper that was
  coupled to the host passes its line on, which is why `PumpInv` speaks of whichever wrapper faces
  it.

An action that sends and delivers nothing is `Quiet`, one that makes an event reach a wrapper
`Arrives`, one that takes an item out of a pump `Departs`; a lemma for each says what it keeps, and
the actions, which are long compositions of the operators of the code, are shown to be one of them
after another. `PairTyping` is the type of the state.

Only model-checked are:

- liveness (`WaitersGetIn`, `SettledGoesOn`, `AlarmFires`, `AlarmIsDelivered`, `DueIsDelivered`,
  `DeletionsFinish` and others) and refinements that promise it: `ENABLED` is out of reach of the
  prover;
- the agreement of file and scheduler (`AlarmCovered`, `NoLaterThanIsTrue`), which holds within
  the limits above;
- the properties of `WorkerSupervisor`, `PortSockets` and `SqliteStorage`, and of `IoContext` that
  queued tasks get in (`QueuedGetIn`), which is liveness;
- what a recursive definition computes for every input: `ListRange` is checked over bounded
  inputs, and `Ancestors` over the trees of the run.

## Not modelled

Left out of the models of this directory, because no property tells it apart: values, SQL text,
serialization and the wording of errors; operations that only read; jitter and the lengths of
delays; tracing.

Outside of what the modules say:

- *Foreign promises.* Code whose awaits the build did not transform
  (`src/docs/gating-coverage.md:64-70`). A callback given to `then()` in the synchronous body of a
  slice has no marker of its own, and the marker stays set for other tasks until the end of the
  checkpoint.
- *Sockets.* The assumption is that the actor does not touch half `b` once it returned it. An
  `accept()` that throws in the bridge is left out, and so are framing, codes and encodings.
- *Storage.* Keys are ordered by their units, so the difference between UTF-16 and UTF-8 order
  (`actor-state.ts:250-254`), lone surrogates, migrations and the position of a SQL cursor do not
  show. In the pool, an export of a prefix that is being replaced or cloned is not tried,
  `deleteAll()` runs with nothing queued for its prefix, a database has one connection, opening it
  includes its first read, a host has the images of `MaxExports` exports at most, and `MaxFaults`
  counts terminations and failing driver calls together. What the driver does to a pool whose own
  bookkeeping is damaged is external.
- *Facets.* `cloneFacet()`, `copySubtree()`, restoring from a snapshot, and the file format of
  the tree's index.
- *Namespace.* The scheduler's other actors: their rows share a table and the one projected wake,
  of which each actor's share is modelled.
- *Storage engine.* Bookmarks, and what `allowUnconfirmed` does beyond the output lock.

Components without a module: the offscreen document (one shared flight over calls of the browser),
actor ids and hashing (pure functions with reference vectors), the worker loader, exports and
platform API (argument checks and wiring), actor stubs, namespaces and channels (their epochs are
in `Facets` and `WorkerSupervisor`), the RPC transport (the order of messages is Cap'n Web's), the
async context and the build plugin. Most of the lines the map does not reach are these, the
shapes of the API, the drivers, and the examples and conformance hosts under `src/`, none of
which has state that a protocol is about.

## Plan

Next, in this order:

1. `WorkerSupervisor`: `FramesInOrder`.
2. `ActorSqlite`: `AlarmCovered` under the limits of its run.
3. A composition of `ActorSqlite` with `AlarmScheduler`, whose actor-side view (`row`, `entry`,
   `delivering`) is to be implemented by the scheduler.
4. The index of the facet tree and cloning.
