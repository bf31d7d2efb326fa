------------------------------ MODULE IoContext ------------------------------
(***************************************************************************)
(* The turns of an actor: IoContext and its TimeoutManager of              *)
(* src/src/io/io-context.ts, with the entries and the quiescence() of      *)
(* ActorContainerImpl, server/actor-container.ts.                          *)
(*                                                                         *)
(* A call is an event, a timer's callback or a critical section with its   *)
(* callback; a section is also a gate, Root is the actor's.  A task is one *)
(* call of run() or runImpl(), which becomes a slice of a call: its code   *)
(* runs until the microtasks are drained, and its lock leaves the stack    *)
(* and the gate at the end of that checkpoint.  InputGate has the gates in *)
(* full; here a gate is locked while somebody has a lock on it, which is   *)
(* what lockCount counts there, and locks are handed over in order.        *)
(***************************************************************************)
EXTENDS Integers, Sequences, FiniteSets, SequencesExt

CONSTANTS
  MaxTasks,   \* bound on the tasks at once
  MaxCalls,   \* bound on the calls ever made
  MaxEvents,  \* bound on those from outside
  MaxOps,     \* bound on what the code of the actor asks of its context
  MaxFaults   \* bound on what throws, hangs beyond a deadline or is aborted

ASSUME IoContextAssumption == {MaxTasks, MaxCalls, MaxEvents, MaxOps, MaxFaults} \subseteq Nat /\ MaxCalls > 0

Tasks == 1..MaxTasks
Calls == 1..MaxCalls
Root  == 0
Gates == {Root} \cup Calls
NoLock == -1

VARIABLES
  ctx,        \* the context, its gates and its tasks
  written,    \* the implicit transactions that were opened, each with an output lock
  confirmed,  \* those that are confirmed
  writers,    \* the events whose writes are in the open one
  events, ops, faults

counters == <<events, ops, faults>>
storage  == <<written, confirmed, writers>>
vars     == <<ctx, storage, counters>>

NoTask == [kind |-> "none", stage |-> "free", call |-> 1, gate |-> Root, lock |-> NoLock]
NoCall == [kind |-> "none", stage |-> "free", origin |-> 1, by |-> 1, parent |-> Root, above |-> {}, holds |-> FALSE, needs |-> 0]

Init ==
  /\ ctx = [tasks |-> [t \in Tasks |-> NoTask], calls |-> [c \in Calls |-> NoCall],
            waitingChildren |-> [g \in Gates |-> <<>>], waiters |-> [g \in Gates |-> <<>>],
            scope |-> [g \in Gates |-> g], broken |-> {}, frames |-> <<>>, timers |-> {},
            pendingEvents |-> 0, waitUntil |-> 0, breaking |-> FALSE, aborted |-> FALSE]
  /\ written = 0 /\ confirmed = 0 /\ writers = {}
  /\ events = 0 /\ ops = 0 /\ faults = 0

-----------------------------------------------------------------------------
(***************************************************************************)
(* Tasks and calls                                                         *)
(***************************************************************************)

Fresh(pool) == CHOOSE t \in DOMAIN pool : pool[t].stage = "free" /\ \A u \in 1..(t - 1) : pool[u].stage # "free"
HasFree(pool) == \E t \in DOMAIN pool : pool[t].stage = "free"

\* Bound: a task is kept for what follows each section.
HasRoom(s, n) ==
  Cardinality({t \in Tasks : s.tasks[t].stage = "free"})
    >= n + Cardinality({k \in Calls : s.calls[k].kind = "section" /\ s.calls[k].stage = "open"})

Free(s, t) == [s EXCEPT !.tasks[t] = NoTask]
Stage(s, t, stage) == [s EXCEPT !.tasks[t].stage = stage]

\* addTask() and addWaitUntil(): what counts for more than its run().
Tracked(kind) == kind \in {"timer", "canceled", "await", "held", "body", "resolve"}
Track(s, kind)   == [s EXCEPT !.waitUntil = IF Tracked(kind) THEN @ + 1 ELSE @]
Untrack(s, kind) == [s EXCEPT !.waitUntil = IF Tracked(kind) THEN @ - 1 ELSE @]

\* The tasks that run() counts; a critical section calls runImpl().
Counted(kind) == kind \in {"event", "timer", "canceled", "await", "held"}
Begun(s, kind) == [s EXCEPT !.pendingEvents = IF Counted(kind) THEN @ + 1 ELSE @]
Ended(s, kind) == [s EXCEPT !.pendingEvents = IF Counted(kind) THEN @ - 1 ELSE @]

\* The code of a call waits for these; a constructor is synchronous.  The abort
\* comes before the rejection that the caller of a failed section sees.
Live(s, c) == {t \in Tasks : s.tasks[t].call = c /\ s.tasks[t].stage \notin {"free", "left"}}
Inner(s, c) ==
  {k \in Calls : /\ s.calls[k].kind = "section" /\ s.calls[k].by = c
                 /\ s.calls[k].stage \in {"open", "stuck"} \/ (s.calls[k].stage = "failed" /\ ~s.aborted)}
Done(s, c) ==
  /\ s.calls[c].stage = "open" /\ Live(s, c) = {}
  /\ s.calls[c].kind # "start" => Inner(s, c) = {}

\* run() of these tasks rejects before their code ran: an event is over, a
\* section has failed, and what an await would return stays unsettled.
Refuse(s, refused) ==
  LET of(c) == {t \in refused : s.tasks[t].call = c}
      refusal(c) == IF s.calls[c].stage \notin {"open", "stuck"} THEN s.calls[c].stage
                    ELSE IF \A t \in of(c) : s.tasks[t].kind \in {"await", "held"} THEN "stuck"
                    ELSE IF s.calls[c].kind = "section" THEN "failed" ELSE "over"
  IN [s EXCEPT !.tasks = [t \in Tasks |-> IF t \in refused THEN NoTask ELSE @[t]],
               !.waitUntil = @ - Cardinality({t \in refused : Tracked(s.tasks[t].kind)}),
               !.pendingEvents = @ - Cardinality({t \in refused : Counted(s.tasks[t].kind)}),
               !.calls = [c \in Calls |-> IF of(c) = {} THEN @[c]
                                          ELSE [@[c] EXCEPT !.stage = refusal(c)]],
               !.timers = @ \ refused]

-----------------------------------------------------------------------------
(***************************************************************************)
(* The gates                                                               *)
(***************************************************************************)

\* Who has a lock on gate g: tasks, and sections, which hold one on their parent.
HasLock(s, t)  == s.tasks[t].lock # NoLock
Locked(s, g) ==
  \/ \E t \in Tasks : HasLock(s, t) /\ s.scope[s.tasks[t].lock] = g
  \/ \E k \in Calls : s.calls[k].holds /\ s.scope[s.calls[k].parent] = g

\* Locks for these tasks: the first one of a section comes with one on its parent.
Grant(s, granted) ==
  [s EXCEPT !.tasks = [t \in Tasks |-> IF t \in granted
                         THEN [@[t] EXCEPT !.stage = "granted", !.lock = s.scope[s.tasks[t].gate]] ELSE @[t]],
            !.calls = [c \in Calls |-> IF \E t \in granted : s.tasks[t].kind = "body" /\ s.tasks[t].call = c
                         THEN [@[c] EXCEPT !.holds = TRUE] ELSE @[c]]]

\* Lock.release() on these gates: the last lock goes to the first who waits, where
\* critical sections are ahead of others.
HandOver(s, gates) ==
  LET children == {g \in gates : s.waitingChildren[g] # <<>> /\ ~Locked(s, g)}
      others   == {g \in gates : s.waiters[g] # <<>> /\ s.waitingChildren[g] = <<>> /\ ~Locked(s, g)}
  IN Grant([s EXCEPT !.waitingChildren = [g \in Gates |-> IF g \in children THEN Tail(@[g]) ELSE @[g]],
                     !.waiters = [g \in Gates |-> IF g \in others THEN Tail(@[g]) ELSE @[g]]],
           {Head(s.waitingChildren[g]) : g \in children} \cup {Head(s.waiters[g]) : g \in others})
ReleaseLock(s, lock) == HandOver(s, {s.scope[lock]})

\* wait() of a task on its gate; one that is broken rejects.
Wait(s, t) ==
  LET g == s.scope[s.tasks[t].gate] IN
  CASE g \in s.broken -> Refuse(s, {t})
    [] g \notin s.broken /\ ~Locked(s, g) -> Grant(s, {t})
    [] OTHER -> [Stage(s, t, "queued") EXCEPT !.waiters[g] = Append(@, t)]

\* CriticalSection.failed(): every gate up to the root breaks.
Break(s, broken) ==
  LET waiting == UNION {ToSet(s.waitingChildren[g]) \cup ToSet(s.waiters[g]) : g \in broken}
      t == [s EXCEPT !.broken = @ \cup broken, !.breaking = TRUE,
                     !.waitingChildren = [g \in Gates |-> IF g \in broken THEN <<>> ELSE @[g]],
                     !.waiters = [g \in Gates |-> IF g \in broken THEN <<>> ELSE @[g]]]
  IN Refuse(t, waiting)

-----------------------------------------------------------------------------
(***************************************************************************)
(* Slices                                                                  *)
(***************************************************************************)

\* The next continuations of the microtask queue come first.
Drained ==
  /\ \A t \in Tasks : ctx.tasks[t].stage \notin {"granted", "running"}
  /\ \A c \in Calls : ~Done(ctx, c)
  /\ ~ctx.breaking

\* A critical section throws: the gates break, and the lock on the parent is
\* handed back.
Fail(s, k) ==
  LET t == Break(s, {k} \cup s.calls[k].above)
      u == Untrack([t EXCEPT !.calls[k] = [@ EXCEPT !.stage = "failed", !.holds = FALSE]], "body")
  IN IF s.calls[k].holds THEN ReleaseLock(u, s.calls[k].parent) ELSE u

\* runImpl(): an actor that was aborted meanwhile gives the lock back.
Push(s, t) ==
  [Stage(s, t, "running") EXCEPT !.frames = Append(@, t)]
RunImpl(s, t) ==
  LET lock == s.tasks[t].lock IN
  CASE ~s.aborted -> Push(s, t)
    [] s.aborted /\ s.tasks[t].kind = "body" -> Fail(ReleaseLock(Free(s, t), lock), s.tasks[t].call)
    [] OTHER -> ReleaseLock(Refuse(s, {t}), lock)

Starts(t) ==
  /\ ctx.tasks[t].stage = "granted"
  /\ ctx' = RunImpl(ctx, t)
  /\ UNCHANGED <<storage, counters>>

\* The lock on top of the stack is the current one: getCriticalSection() and
\* getInputLock().
Current == ctx.tasks[Last(ctx.frames)].lock

\* The code of a call runs under a lock, and asks its context for something.
Running(t) == ctx.tasks[t].stage = "running" /\ ctx.tasks[t].kind # "canceled" /\ ctx.calls[ctx.tasks[t].call].stage = "open"
Asks(t) == Running(t) /\ ops < MaxOps /\ ops' = ops + 1 /\ UNCHANGED <<events, faults>>
NewTask(s, kind, c, gate, lock) ==
  Track([s EXCEPT !.tasks[Fresh(s.tasks)] =
           [kind |-> kind, stage |-> "outside", call |-> c, gate |-> gate, lock |-> lock]], kind)
NewCall(kind, by) ==
  LET c == Fresh(ctx.calls) IN
  [ctx EXCEPT !.calls[c] =
     [kind |-> kind, stage |-> "open", by |-> by, parent |-> IF by = 0 THEN Root ELSE Current,
      above |-> IF by = 0 THEN {} ELSE {Current} \cup (IF Current = Root THEN {} ELSE ctx.calls[Current].above),
      origin |-> IF kind = "section" THEN ctx.calls[by].origin ELSE c,
      holds |-> FALSE, needs |-> 0]]

\* awaitIo(), from the call of it
AwaitIo(t) ==
  /\ Asks(t) /\ HasRoom(ctx, 1)
  /\ ctx' = NewTask(ctx, "await", ctx.tasks[t].call, Current, NoLock)
  /\ UNCHANGED storage

\* awaitIoWithInputLock(): a storage operation keeps the gate.
KeepsNothing(lock) == NoLock    \* seeded fault
AddRef(lock) == lock
AwaitIoWithInputLock(t) ==
  /\ Asks(t) /\ HasRoom(ctx, 1) /\ ~ctx.aborted
  /\ ctx' = NewTask(ctx, "held", ctx.tasks[t].call, Current, AddRef(Current))
  /\ UNCHANGED storage

\* A write opens the implicit transaction, and locks the output until it is confirmed.
Writes(t) ==
  /\ Asks(t) /\ ~ctx.aborted
  /\ written' = IF writers = {} THEN written + 1 ELSE written
  /\ writers' = writers \cup {ctx.calls[ctx.tasks[t].call].origin}
  /\ UNCHANGED <<ctx, confirmed>>

\* setTimeout(); an interval is a timeout that is set again.
SetTimeout(t) ==
  /\ Asks(t) /\ HasRoom(ctx, 1) /\ HasFree(ctx.calls)
  /\ LET u == Fresh(ctx.tasks)
         s == NewTask(NewCall("timer", ctx.tasks[t].call), "timer", Fresh(ctx.calls), Current, NoLock)
     IN ctx' = [s EXCEPT !.timers = @ \cup {u}]
  /\ UNCHANGED storage

\* TimeoutManager.#cancel() of these timers: one that fired already runs nothing.
Cancel(s, timers) ==
  LET asleep == {t \in timers : s.tasks[t].stage = "outside"} IN
  [s EXCEPT !.timers = @ \ timers,
            !.waitUntil = @ - Cardinality(asleep),
            !.tasks = [t \in Tasks |-> CASE t \in asleep -> NoTask
                                         [] t \in timers \ asleep -> [@[t] EXCEPT !.kind = "canceled"]
                                         [] OTHER -> @[t]],
            !.calls = [c \in Calls |-> IF \E t \in asleep : s.tasks[t].call = c
                                       THEN [@[c] EXCEPT !.stage = "over"] ELSE @[c]]]
ClearTimeout(t, u) ==
  /\ Asks(t) /\ u \in ctx.timers
  /\ ctx' = Cancel(ctx, {u})
  /\ UNCHANGED storage

\* blockConcurrencyWhile(): the section queues for the lock of its caller.
BlockConcurrencyWhile(t) ==
  /\ Asks(t) /\ HasRoom(ctx, 2) /\ HasFree(ctx.calls)
  /\ LET k == Fresh(ctx.calls)
         u == Fresh(ctx.tasks)
         g == ctx.scope[Current]
         s == Stage(NewTask(NewCall("section", ctx.tasks[t].call), "body", k, k, NoLock), u, "queued")
     IN ctx' = IF g \in ctx.broken THEN Refuse([s EXCEPT !.broken = @ \cup {k}], {u})
               ELSE [s EXCEPT !.waitingChildren[g] = Append(@, u)]
  /\ UNCHANGED storage

\* The microtasks of the slice are over.  run() of a resumption is over with
\* its synchronous code, a timeout is forgotten when it runs.
Returns(t) ==
  /\ ctx.tasks[t].stage = "running"
  /\ LET kind == ctx.tasks[t].kind
         u == [Stage(ctx, t, "left") EXCEPT !.timers = @ \ {t}]
     IN ctx' = IF kind \in {"event", "body"} THEN u ELSE Ended(Untrack(u, kind), kind)
  /\ UNCHANGED <<storage, counters>>

\* The end of the checkpoint: the transaction is committed, and the locks leave
\* the stack and the gate.
Exit(s, left) ==
  HandOver([s EXCEPT !.tasks = [t \in Tasks |-> IF t \in left THEN NoTask ELSE @[t]], !.frames = <<>>],
           {s.scope[s.tasks[t].lock] : t \in left})
CommitsLater == UNCHANGED writers    \* seeded fault
Commits == writers' = {}
CheckpointEnd ==
  /\ Drained /\ ctx.frames # <<>>
  /\ ctx' = Exit(ctx, ToSet(ctx.frames))
  /\ Commits
  /\ UNCHANGED <<written, confirmed, counters>>

-----------------------------------------------------------------------------
(***************************************************************************)
(* Calls                                                                   *)
(***************************************************************************)

\* An event arrives: the constructor is the first one.
Event(kind) ==
  /\ Drained /\ events < MaxEvents /\ HasFree(ctx.calls) /\ HasRoom(ctx, 1)
  /\ (kind = "start") = (events = 0)
  /\ events' = events + 1
  /\ IF ctx.aborted THEN UNCHANGED ctx
     ELSE ctx' = Wait(Begun(NewTask(NewCall(kind, 0), "event", Fresh(ctx.calls), Root, NoLock), "event"),
                      Fresh(ctx.tasks))
  /\ UNCHANGED <<storage, ops, faults>>

\* run() of a task whose promise settled, or whose time came.
Resumed(t) ==
  LET s == Begun(ctx, ctx.tasks[t].kind) IN
  CASE ctx.aborted /\ ~HasLock(ctx, t) -> Refuse(s, {t})
    [] ctx.aborted /\ HasLock(ctx, t) -> ReleaseLock(Refuse(s, {t}), ctx.tasks[t].lock)
    [] ~ctx.aborted /\ ~HasLock(ctx, t) -> Wait(s, t)
    [] OTHER -> Stage(s, t, "granted")
Settles(t) ==
  /\ ctx.tasks[t].stage = "outside" /\ ctx.tasks[t].kind \in {"await", "held", "timer"}
  /\ ctx.tasks[t].kind = "timer" => Drained
  /\ ctx' = Resumed(t)
  /\ UNCHANGED <<storage, counters>>

\* IoContext.abort()
Abort(s) ==
  IF s.aborted THEN [s EXCEPT !.breaking = FALSE]
  ELSE Cancel([s EXCEPT !.aborted = TRUE, !.breaking = FALSE], s.timers)
Aborts(s) == ctx' = Abort(s) /\ writers' = {} /\ UNCHANGED <<written, confirmed>>

\* blockConcurrencyWhile() goes on: the parent adopts what the section left, and
\* its caller is resumed under the lock on the parent.
Succeed(s, k) ==
  LET g == s.scope[s.calls[k].parent]
      t == [s EXCEPT !.scope = [h \in Gates |-> IF @[h] = k THEN g ELSE @[h]],
                     !.waitingChildren[g] = @ \o s.waitingChildren[k], !.waitingChildren[k] = <<>>,
                     !.waiters[g] = @ \o s.waiters[k], !.waiters[k] = <<>>,
                     !.calls[k] = [@ EXCEPT !.stage = "over", !.holds = FALSE]]
      u == Fresh(s.tasks)
  IN IF s.aborted THEN Untrack(Break(ReleaseLock(t, g), {k} \cup s.calls[k].above), "body")
     ELSE Push([t EXCEPT !.tasks[u] = [kind |-> "resolve", stage |-> "granted", call |-> s.calls[k].by,
                                       gate |-> s.calls[k].parent, lock |-> g]], u)

\* The code of a call is over: it returns, or throws.
Ends(c, throws) ==
  /\ Done(ctx, c)
  /\ throws => faults < MaxFaults
  /\ faults' = IF throws THEN faults + 1 ELSE faults
  /\ CASE ctx.calls[c].kind = "section" /\ throws -> ctx' = Fail(ctx, c) /\ UNCHANGED storage
       [] ctx.calls[c].kind = "section" /\ ~throws -> HasFree(ctx.tasks) /\ ctx' = Succeed(ctx, c) /\ UNCHANGED storage
       [] ctx.calls[c].kind = "start" /\ throws ->
            Aborts(Ended([ctx EXCEPT !.calls[c].stage = "over"], "event"))
       [] ctx.calls[c].kind = "entry" ->
            ctx' = [ctx EXCEPT !.calls[c].stage = "replying", !.calls[c].needs = written] /\ UNCHANGED storage
       [] ctx.calls[c].kind = "timer" -> ctx' = [ctx EXCEPT !.calls[c].stage = "over"] /\ UNCHANGED storage
       [] OTHER -> ctx' = Ended([ctx EXCEPT !.calls[c].stage = "over"], "event") /\ UNCHANGED storage
  /\ UNCHANGED <<events, ops>>

\* The reply of an entry leaves when its writes are confirmed, or the gate broke.
Replies(c) ==
  /\ ctx.calls[c].stage = "replying" /\ (confirmed >= ctx.calls[c].needs \/ ctx.aborted)
  /\ ctx' = Ended([ctx EXCEPT !.calls[c].stage = "over"], "event")
  /\ UNCHANGED <<storage, counters>>

DeadlineOfTheLiving(k) ==    \* seeded fault
  /\ Drained /\ ctx.calls[k].kind = "section" /\ ctx.calls[k].stage = "open" /\ ctx.calls[k].holds /\ ~ctx.aborted
  /\ ctx' = Fail(ctx, k)
  /\ UNCHANGED <<storage, counters>>
\* A section that ran for 30 seconds
Deadline(k) ==
  /\ Drained /\ ctx.calls[k].kind = "section" /\ ctx.calls[k].stage \in {"open", "stuck"} /\ ctx.calls[k].holds
  /\ ctx' = Fail(ctx, k)
  /\ UNCHANGED <<storage, counters>>

\* A gate broke.
Broke == ctx.breaking /\ Aborts(ctx) /\ UNCHANGED counters

\* The code, or the host, aborts the actor.
AbortedByCode(t) ==
  /\ Running(t) /\ ~ctx.aborted /\ faults < MaxFaults
  /\ faults' = faults + 1
  /\ Aborts(ctx)
  /\ UNCHANGED <<events, ops>>
AbortedByHost ==
  /\ Drained /\ ~ctx.aborted /\ faults < MaxFaults
  /\ faults' = faults + 1
  /\ Aborts(ctx)
  /\ UNCHANGED <<events, ops>>

\* Commits are confirmed in order; one that fails breaks the output gate.
Unconfirmed == written - confirmed - (IF writers = {} THEN 0 ELSE 1)
Confirmed ==
  /\ Drained /\ Unconfirmed > 0 /\ ~ctx.aborted
  /\ confirmed' = confirmed + 1
  /\ UNCHANGED <<ctx, written, writers, counters>>
CommitFails ==
  /\ Drained /\ Unconfirmed > 0 /\ ~ctx.aborted /\ faults < MaxFaults
  /\ faults' = faults + 1
  /\ ctx' = [ctx EXCEPT !.breaking = TRUE]
  /\ UNCHANGED <<storage, events, ops>>

-----------------------------------------------------------------------------

Code(t) ==
  \/ AwaitIo(t) \/ AwaitIoWithInputLock(t) \/ Writes(t) \/ SetTimeout(t)
  \/ BlockConcurrencyWhile(t) \/ AbortedByCode(t)
  \/ \E u \in Tasks : ClearTimeout(t, u)

Continuation ==
  \/ \E t \in Tasks : Starts(t) \/ Returns(t)
  \/ \E c \in Calls : Ends(c, FALSE) \/ Replies(c)
  \/ Broke \/ CheckpointEnd

Next ==
  \/ \E kind \in {"start", "entry", "run"} : Event(kind)
  \/ \E t \in Tasks : Code(t) \/ Settles(t)
  \/ \E c \in Calls : Ends(c, TRUE)
  \/ \E k \in Calls : Deadline(k)
  \/ Continuation \/ Confirmed \/ CommitFails \/ AbortedByHost

\* Promises of the world may stay pending; those of the storage do not.
Fairness ==
  /\ WF_vars(Continuation)
  /\ \A t \in Tasks : WF_vars(ctx.tasks[t].kind = "held" /\ Settles(t))
  /\ \A k \in Calls : WF_vars(Deadline(k))

Spec == Init /\ [][Next]_vars /\ Fairness

-----------------------------------------------------------------------------
(***************************************************************************)
(* Properties                                                              *)
(***************************************************************************)

\* The counters of the context stay counts, and slices run under current locks.
TypeOK ==
  /\ ctx.pendingEvents \in 0..(MaxTasks + MaxCalls) /\ ctx.waitUntil \in 0..MaxTasks
  /\ \A t \in Tasks : ctx.tasks[t].stage = "running" => ctx.frames # <<>>
  /\ confirmed <= written /\ ops <= MaxOps /\ events <= MaxEvents /\ faults <= MaxFaults

\* Between a storage operation and its continuation no slice of other work starts:
\* what the code reads and writes over such awaits is one uninterrupted stretch.
StretchIsUninterrupted ==
  [][\A t, u \in Tasks :
       /\ ctx.tasks[t].stage = "granted" /\ ctx'.tasks[t].stage = "running"
       /\ ctx.tasks[u].kind = "held" /\ ctx.tasks[u].stage = "outside" /\ u # t
       => /\ ctx.tasks[t].kind = "held" /\ ctx.tasks[t].call = ctx.tasks[u].call]_vars

\* An implicit transaction holds the writes of one event: it is committed before
\* another one gets the gate (atCheckpointEnd()).
OneTransactionPerEvent == Cardinality(writers) <= 1

\* Whoever queues at a gate gets in or is refused, whatever the code under the
\* lock waits for: a section is over after its deadline.
QueuedGetIn == []<>(\A t \in Tasks : ctx.tasks[t].stage # "queued")
=============================================================================
