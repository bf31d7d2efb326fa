---------------------------- MODULE GatePublication ----------------------------
(***************************************************************************)
(* How the code of an actor goes on after an await that the build          *)
(* transformed (src/src/gate.ts), in a realm that several actors share,    *)
(* with the slices, the continuation marker and the checkpoints of         *)
(* io/io-context.ts.                                                       *)
(*                                                                         *)
(* A piece of work is an event, an await() or a step of a for await, whose *)
(* code goes on in a microtask, or a callback that such code gave to       *)
(* then().  The microtasks are drained before the next task; the end of a  *)
(* checkpoint is such a task, and others may come before it.  The order in *)
(* which promises settle and slices start within a checkpoint is left      *)
(* open; what was resolved goes on in order.  So is the section in which   *)
(* the actor is when an await settles.                                     *)
(***************************************************************************)
EXTENDS Integers, Sequences, FiniteSets

CONSTANTS
  Actors,     \* the actors of the realm
  MaxWork,    \* bound on the pieces of work at once
  MaxOps,     \* bound on the events, and on what code ever awaits or passes to then()
  MaxFrames,  \* bound on the slices of one actor in one checkpoint
  MaxFaults,  \* bound on the actors that are aborted
  None        \* no actor

\* None is no actor, and the bounds are numbers.
GatePublicationAssumption ==
  None \notin Actors /\ {MaxWork, MaxOps, MaxFrames, MaxFaults} \subseteq Nat

Work == 1..MaxWork

VARIABLES
  work,          \* work[w]: whose code it is, the actor it captured, where it stands,
                 \* and whether it keeps an input lock
  gate,          \* gate[a]: the input lock of a, counted, and the work that waits for it
  frames,        \* frames[a]: the locks of #currentInputLocks
  continuation,  \* CURRENT_CONTINUATION: an actor
  publication,   \* CURRENT_PUBLICATION: the work that reserved it, or 0
  jobs,          \* the microtasks in which work goes on
  aborted,       \* the actors that are aborted
  ops, faults

vars == <<work, gate, frames, continuation, publication, jobs, aborted, ops, faults>>

NoWork == [kind |-> "none", stage |-> "free", owner |-> None, actor |-> None, held |-> FALSE]

Init ==
  /\ work = [w \in Work |-> NoWork]
  /\ gate = [a \in Actors |-> [locks |-> 0, queue |-> <<>>]]
  /\ frames = [a \in Actors |-> 0]
  /\ continuation = None /\ publication = 0 /\ jobs = <<>>
  /\ aborted = {} /\ ops = 0 /\ faults = 0

-----------------------------------------------------------------------------

In(w, stages) == work[w].stage \in stages

\* A task begins when no microtask is left.
Drained == jobs = <<>> /\ \A w \in Work : ~In(w, {"settled", "granted"})

HasCurrent(a) == frames[a] > 0

\* tryCurrentContinuation(): the marker counts while its actor has a lock.
LiveContinuation ==
  IF continuation # None /\ HasCurrent(continuation) THEN continuation ELSE None

Release(g, n) ==
  IF g.locks > n \/ g.queue = <<>> THEN [g EXCEPT !.locks = @ - n]
  ELSE [locks |-> 1, queue |-> Tail(g.queue)]

\* The work that gets the lock when n are released.
Heir(a, n) ==
  IF gate[a].locks > n \/ gate[a].queue = <<>> THEN {} ELSE {Head(gate[a].queue)}

\* w is over, and the lock it has goes on.
LetGo(w) ==
  LET a == work[w].actor IN
  /\ gate' = [gate EXCEPT ![a] = Release(@, 1)]
  /\ work' = [u \in Work |-> CASE u = w -> NoWork
                               [] u # w /\ u \in Heir(a, 1) -> [work[u] EXCEPT !.stage = "granted"]
                               [] OTHER -> work[u]]

\* run() without a lock: wait() on the gate.
Wait(w, item) ==
  LET a == item.actor IN
  IF gate[a].locks = 0
  THEN /\ gate' = [gate EXCEPT ![a].locks = 1]
       /\ work' = [work EXCEPT ![w] = [item EXCEPT !.stage = "granted"]]
  ELSE /\ gate' = [gate EXCEPT ![a].queue = Append(@, w)]
       /\ work' = [work EXCEPT ![w] = [item EXCEPT !.stage = "queued"]]

-----------------------------------------------------------------------------
(***************************************************************************)
(* Code                                                                    *)
(***************************************************************************)

\* Code of an owner runs as work w while `current` is tryCurrentIoContext(), before the
\* other microtasks: it is over, or awaits a promise that has settled or not, or passes
\* on a callback.
Code(w, owner, current, others) ==
  \/ /\ work' = [work EXCEPT ![w] = NoWork]
     /\ jobs' = others
     /\ UNCHANGED ops
  \/ /\ ops < MaxOps /\ ops' = ops + 1
     /\ \E kind \in {"await", "loop"}, stage \in {"waiting", "settled"} :
          work' = [work EXCEPT ![w] = [kind |-> kind, stage |-> stage, owner |-> owner,
                                       actor |-> current, held |-> FALSE]]
     /\ jobs' = others
  \/ /\ ops < MaxOps /\ ops' = ops + 1 /\ work[w].kind # "event"
     /\ work' = [work EXCEPT ![w] = [kind |-> "then", stage |-> "resuming", owner |-> owner,
                                     actor |-> current, held |-> FALSE]]
     /\ jobs' = Append(others, w)

\* An event, or a call from another actor, comes in (IoContext.run()).
Event(a) ==
  /\ a \notin aborted /\ ops < MaxOps /\ ops' = ops + 1
  /\ \E w \in Work :
       /\ In(w, {"free"}) /\ \A u \in 1..(w - 1) : ~In(u, {"free"})
       /\ Wait(w, [NoWork EXCEPT !.kind = "event", !.owner = a, !.actor = a])
  /\ UNCHANGED <<frames, continuation, publication, jobs, aborted, faults>>

PromiseSettles(w) ==
  /\ In(w, {"waiting"})
  /\ work' = [work EXCEPT ![w].stage = "settled"]
  /\ UNCHANGED <<gate, frames, continuation, publication, jobs, aborted, ops, faults>>

\* The work that has the microtask goes on: __resumeAwait() restores the actor, and
\* a step of a for await did so when it was published.
Resumes ==
  /\ jobs # <<>>
  /\ LET w == Head(jobs)
         a == work[w].actor
     IN /\ IF work[w].kind = "await"
           THEN /\ publication' = IF publication = w THEN 0 ELSE publication
                /\ continuation' = a
           ELSE UNCHANGED <<continuation, publication>>
        /\ Code(w, work[w].owner,
                IF continuation' # None /\ HasCurrent(continuation') THEN continuation' ELSE None,
                Tail(jobs))
  /\ UNCHANGED <<gate, frames, aborted, faults>>

-----------------------------------------------------------------------------
(***************************************************************************)
(* Publication                                                             *)
(***************************************************************************)

RefusedByContinuation(a) == LiveContinuation \notin {None, a}    \* seeded fault

\* reservePublication(): one actor's continuations own a checkpoint.
Refused(a) ==
  \/ LiveContinuation \notin {None, a}
  \/ publication # 0 /\ work[publication].actor # a

\* The outcome is published: resolve(finish(...)).
Published(w) ==
  /\ work' = [work EXCEPT ![w].stage = "resuming", ![w].held = FALSE]
  /\ jobs' = Append(jobs, w)
  /\ IF work[w].kind = "await" THEN publication' = w /\ UNCHANGED continuation
     ELSE publication' = 0 /\ continuation' = work[w].actor

KeepsNothing(w) == gate    \* seeded fault
\* getInputLock(): the current lock is kept until the later task.
Retains(w) == [gate EXCEPT ![work[w].actor].locks = @ + 1]

\* schedulePublication(): in a later task, with the lock or without one.
Retry(w) ==
  /\ work' = [work EXCEPT ![w].stage = "task", ![w].held = TRUE]
  /\ gate' = Retains(w)
Reenter(w) ==
  /\ work' = [work EXCEPT ![w].stage = "task", ![w].held = FALSE]
  /\ UNCHANGED gate

\* publishOutcome(): the promise of an await settled while the actor had a lock, or
\* had none, or one of another critical section.
Settles(w) ==
  /\ In(w, {"settled"})
  /\ LET a == work[w].actor IN
     \/ Reenter(w) /\ UNCHANGED <<jobs, continuation, publication>>
     \/ /\ HasCurrent(a) /\ a \in aborted
        /\ work' = [work EXCEPT ![w] = NoWork]
        /\ UNCHANGED <<gate, jobs, continuation, publication>>
     \/ /\ HasCurrent(a) /\ a \notin aborted /\ Refused(a)
        /\ Retry(w) /\ UNCHANGED <<jobs, continuation, publication>>
     \/ /\ HasCurrent(a) /\ a \notin aborted /\ ~Refused(a)
        /\ Published(w) /\ UNCHANGED gate
  /\ UNCHANGED <<frames, aborted, ops, faults>>

\* A slice begins: an aborted actor gives the lock back.  An await that is refused
\* still tries again, in its turn, or under the lock it kept.
Starts(w) ==
  /\ In(w, {"granted"})
  /\ LET a == work[w].actor IN
     IF a \in aborted THEN LetGo(w) /\ UNCHANGED <<frames, jobs, continuation, publication, ops>>
     ELSE
       /\ frames' = [frames EXCEPT ![a] = @ + 1]
       /\ \/ /\ work[w].kind = "event" /\ Code(w, a, a, jobs)
             /\ UNCHANGED <<gate, continuation, publication>>
          \/ /\ work[w].kind # "event" /\ Refused(a)
             /\ IF work[w].held THEN Retry(w) ELSE Reenter(w)
             /\ UNCHANGED <<jobs, continuation, publication, ops>>
          \/ /\ work[w].kind # "event" /\ ~Refused(a)
             /\ Published(w) /\ UNCHANGED <<gate, ops>>
  /\ UNCHANGED <<aborted, faults>>

KeepsIt(w) == work' = [work EXCEPT ![w] = NoWork] /\ UNCHANGED gate    \* seeded fault
\* run() of an aborted actor: the lock that came with the call is released.
Rejects(w) ==
  IF work[w].held THEN LetGo(w) ELSE work' = [work EXCEPT ![w] = NoWork] /\ UNCHANGED gate

\* The task of a publication: each asks for admission on its own.
Publishes(w) ==
  /\ Drained /\ In(w, {"task"}) /\ frames[work[w].actor] < MaxFrames
  /\ LET a == work[w].actor IN
     CASE a \in aborted -> Rejects(w)
       [] a \notin aborted /\ work[w].held -> work' = [work EXCEPT ![w].stage = "granted"] /\ UNCHANGED gate
       [] OTHER -> Wait(w, work[w])
  /\ UNCHANGED <<frames, continuation, publication, jobs, aborted, ops, faults>>

\* The batch of atCheckpointEnd(): the locks leave the stacks and the gates, and the
\* markers are cleared.
CheckpointEnd ==
  /\ Drained
  /\ continuation # None \/ publication # 0 \/ \E a \in Actors : HasCurrent(a)
  /\ frames' = [a \in Actors |-> 0]
  /\ gate' = [a \in Actors |-> IF HasCurrent(a) THEN Release(gate[a], frames[a]) ELSE gate[a]]
  /\ work' = [w \in Work |->
               IF \E a \in Actors : HasCurrent(a) /\ w \in Heir(a, frames[a])
               THEN [work[w] EXCEPT !.stage = "granted"] ELSE work[w]]
  /\ continuation' = None /\ publication' = 0
  /\ UNCHANGED <<jobs, aborted, ops, faults>>

\* IoContext.abort(), by code or by the host
Abort(a) ==
  /\ a \notin aborted /\ faults < MaxFaults
  /\ aborted' = aborted \cup {a} /\ faults' = faults + 1
  /\ UNCHANGED <<work, gate, frames, continuation, publication, jobs, ops>>

Next ==
  \/ \E a \in Actors : Event(a) \/ Abort(a)
  \/ \E w \in Work : PromiseSettles(w) \/ Settles(w) \/ Starts(w) \/ Publishes(w)
  \/ Resumes \/ CheckpointEnd

\* Microtasks run, and a message that was posted is delivered, whatever other tasks
\* come first.
Fairness ==
  /\ WF_vars(Resumes) /\ SF_vars(CheckpointEnd)
  /\ \A w \in Work : WF_vars(Settles(w)) /\ WF_vars(Starts(w)) /\ SF_vars(Publishes(w))

Spec == Init /\ [][Next]_vars /\ Fairness

-----------------------------------------------------------------------------
(***************************************************************************)
(* Properties                                                              *)
(***************************************************************************)

\* Code runs as the actor it belongs to: what goes on after an await finds its own
\* actor current, or no one, with a lock; callbacks that it passed on in the same
\* checkpoint find it too, and every await captures it.  Awaits of several actors
\* settle in one checkpoint, and each sets a marker of the whole realm
\* (reservePublication(), __resumeAwait()).
CodeRunsAsItself ==
  /\ \A i \in DOMAIN jobs :
       LET item == work[jobs[i]] IN
       /\ HasCurrent(item.owner)
       /\ LiveContinuation \in (IF item.kind = "await" THEN {None, item.owner} ELSE {item.owner})
  /\ \A w \in Work : work[w].actor = work[w].owner

\* An await that waits for the checkpoint of another actor keeps its own actor: no
\* event is admitted before it went on (settle() in publishOutcome()).
WaitingOutKeepsTheActor ==
  \A u, w \in Work :
    In(u, {"task"}) /\ work[u].held /\ In(w, {"granted"}) /\ ~work[w].held
      => work[u].actor # work[w].actor

\* Whatever settled goes on or is rejected: no actor holds up another for good
\* (schedulePublication()), and no lock of an aborted one is kept.
SettledGoesOn == []<>(\A w \in Work : In(w, {"free", "waiting"}))
=============================================================================
