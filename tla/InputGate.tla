------------------------------ MODULE InputGate ------------------------------
(***************************************************************************)
(* The input gate of an actor: the classes InputGate, Lock and             *)
(* CriticalSection of src/src/io/io-gate.ts.                               *)
(*                                                                         *)
(* A gate is the root gate of the actor or a critical section, which is a  *)
(* gate nested in another one.  The callers are what IoContext makes of    *)
(* events, timers, re-entry callbacks and blockConcurrencyWhile(): they    *)
(* wait on the root or on a section they captured, duplicate and release   *)
(* the locks they hold, and start, finish, fail and drop sections, in      *)
(* whatever order.                                                         *)
(***************************************************************************)
EXTENDS Integers, Sequences, FiniteSets

CONSTANTS
  MaxSections,  \* bound on the critical sections ever started
  MaxLocks,     \* bound on the locks that exist at once
  MaxWaits,     \* bound on the calls of wait() that are queued at once
  MaxRefs       \* bound on the duplicates ever made of locks

\* The bounds are numbers, and there is a lock to take.
InputGateAssumption ==
  /\ MaxSections \in Nat /\ MaxLocks \in Nat \ {0}
  /\ MaxWaits \in Nat /\ MaxRefs \in Nat

Root     == 0
Sections == 1..MaxSections
Gates    == {Root} \cup Sections
Locks    == 1..MaxLocks
Waits    == 1..MaxWaits
None     == 0     \* no lock
Free     == -1    \* the gate of a lock that does not exist

VARIABLES
  \* The sections.
  state,       \* as in the code, or "unused"
  parent,      \* the gate a section was started in
  ancestors,   \* the gates above it, the parent, its parent, and so on
  scope,       \* scope[g]: g, or what parentAsInputGate() finds above it when g is reparented
  parentLock,  \* #parentLock
  granted,     \* the lock that ended the initial wait, until wait() resumes
  rejected,    \* the sections whose initial wait was rejected, until it resumes
  \* The gates.
  lock,        \* lock[l]: the gate of lock l
  lockCount,
  waiters, waitingChildren,
  broken,
  refs         \* the duplicates made so far

sections == <<state, parent, ancestors, scope, parentLock, granted, rejected>>
queues   == <<waiters, waitingChildren>>
vars     == <<sections, lock, lockCount, queues, broken, refs>>

Init ==
  /\ state = [s \in Sections |-> "unused"]
  /\ parent = [s \in Sections |-> Root]
  /\ ancestors = [g \in Gates |-> {}]
  /\ scope = [g \in Gates |-> g]
  /\ parentLock = [s \in Sections |-> None]
  /\ granted = [s \in Sections |-> None]
  /\ rejected = {}
  /\ lock = [l \in Locks |-> Free]
  /\ lockCount = [g \in Gates |-> 0]
  /\ waiters = [g \in Gates |-> <<>>]
  /\ waitingChildren = [g \in Gates |-> <<>>]
  /\ broken = [g \in Gates |-> FALSE]
  /\ refs = 0

-----------------------------------------------------------------------------

Elements(queue) == {queue[i] : i \in 1..Len(queue)}

\* The locks that callers hold, as opposed to those inside a section.
Held == {l \in Locks : lock[l] # Free /\ \A s \in Sections : l \notin {parentLock[s], granted[s]}}

\* Locks are named in order; a section in its initial wait has one reserved.
FreeLocks  == {l \in Locks : lock[l] = Free}
Spare(n)   == Cardinality(FreeLocks) >= n + Cardinality({s \in Sections : state[s] = "INITIAL_WAIT"})
Fresh(l)   == lock[l] = Free /\ \A m \in 1..(l - 1) : lock[m] # Free
FreshWait(w) ==
  LET queued == UNION {Elements(waiters[g]) : g \in Gates}
  IN  w \notin queued /\ 1..(w - 1) \subseteq queued

\* new Lock(g): counted where g is reparented to.
TakeLock(l, g) ==
  /\ lock' = [lock EXCEPT ![l] = g]
  /\ lockCount' = [lockCount EXCEPT ![scope[g]] = @ + 1]

-----------------------------------------------------------------------------
(***************************************************************************)
(* Waiting                                                                 *)
(***************************************************************************)

\* wait() on the root, or on a section that began, by a task that captured it:
\* a reparented section passes the call on.  A broken gate rejects at once,
\* which changes nothing here.
WaitOwnGate(g) == g    \* seeded fault
WaitGate(g) == scope[g]

Wait(g) ==
  /\ g # Root => state[g] \in {"RUNNING", "REPARENTED"}
  /\ ~broken[WaitGate(g)]
  /\ \/ /\ lockCount[WaitGate(g)] = 0
        /\ Spare(1)
        /\ \E l \in Locks : Fresh(l) /\ TakeLock(l, WaitGate(g))
        /\ UNCHANGED queues
     \/ /\ lockCount[WaitGate(g)] > 0
        /\ \E w \in Waits :
             FreshWait(w) /\ waiters' = [waiters EXCEPT ![WaitGate(g)] = Append(@, w)]
        /\ UNCHANGED <<waitingChildren, lock, lockCount>>
  /\ UNCHANGED <<sections, broken, refs>>

\* The AbortSignal of a queued wait fires.
Cancel(w) ==
  /\ \E g \in Gates : \E i \in 1..Len(waiters[g]) :
       /\ waiters[g][i] = w
       /\ waiters' = [waiters EXCEPT ![g] = SubSeq(@, 1, i - 1) \o SubSeq(@, i + 1, Len(@))]
  /\ UNCHANGED <<sections, waitingChildren, lock, lockCount, broken, refs>>

\* Lock.addRef().
AddRef(l) ==
  /\ l \in Held /\ refs < MaxRefs /\ Spare(1)
  /\ \E m \in Locks : Fresh(m) /\ TakeLock(m, lock[l])
  /\ refs' = refs + 1
  /\ UNCHANGED <<sections, queues, broken>>

\* releaseLock() on gate g, which lock l was counted in, with the given queues:
\* the last lock is replaced by one for the first child or the first waiter.
HandOverNothing(l, g, children, others) ==    \* seeded fault
  /\ lock' = [lock EXCEPT ![l] = Free]
  /\ lockCount' = [lockCount EXCEPT ![g] = @ - 1]
  /\ waiters' = others /\ waitingChildren' = children
  /\ UNCHANGED granted
HandOver(l, g, children, others) ==
  \/ /\ lockCount[g] > 1 \/ (children[g] = <<>> /\ others[g] = <<>>)
     /\ lock' = [lock EXCEPT ![l] = Free]
     /\ lockCount' = [lockCount EXCEPT ![g] = @ - 1]
     /\ waiters' = others /\ waitingChildren' = children
     /\ UNCHANGED granted
  \/ /\ lockCount[g] = 1
     /\ lock' = [lock EXCEPT ![l] = g]
     /\ UNCHANGED lockCount
     /\ \/ /\ children[g] # <<>>
           /\ granted' = [granted EXCEPT ![Head(children[g])] = l]
           /\ waitingChildren' = [children EXCEPT ![g] = Tail(@)]
           /\ waiters' = others
        \/ /\ children[g] = <<>> /\ others[g] # <<>>
           /\ waiters' = [others EXCEPT ![g] = Tail(@)]
           /\ waitingChildren' = children
           /\ UNCHANGED granted

\* Lock.release().
Release(l) ==
  /\ l \in Held
  /\ HandOver(l, scope[lock[l]], waitingChildren, waiters)
  /\ UNCHANGED <<state, parent, ancestors, scope, parentLock, rejected, broken, refs>>

-----------------------------------------------------------------------------
(***************************************************************************)
(* Critical sections                                                       *)
(***************************************************************************)

\* Lock.startCriticalSection().
StartCriticalSection(l, s) ==
  /\ l \in Held
  /\ state[s] = "unused" /\ \A r \in 1..(s - 1) : state[r] # "unused"
  /\ state' = [state EXCEPT ![s] = "NOT_STARTED"]
  /\ parent' = [parent EXCEPT ![s] = lock[l]]
  /\ ancestors' = [ancestors EXCEPT ![s] = {lock[l]} \cup ancestors[lock[l]]]
  /\ UNCHANGED <<scope, parentLock, granted, rejected, lock, lockCount, queues, broken, refs>>

\* parentAsInputGate().
ParentGate(s) == scope[parent[s]]

\* The first wait() of section s: it takes a lock on the parent, or queues for
\* one ahead of other waiters, and then takes the first lock inside.
ParentIsIdle(s) == lockCount[ParentGate(s)] = 0

FirstWait(s) ==
  /\ state[s] = "NOT_STARTED"
  /\ \/ /\ broken[ParentGate(s)]
        /\ state' = [state EXCEPT ![s] = "INITIAL_WAIT"]
        /\ broken' = [broken EXCEPT ![s] = TRUE]
        /\ UNCHANGED <<parentLock, waitingChildren, lock, lockCount>>
     \/ /\ ~broken[ParentGate(s)] /\ ParentIsIdle(s) /\ Spare(2)
        /\ state' = [state EXCEPT ![s] = "RUNNING"]
        /\ \E l, m \in Locks :
             /\ Fresh(l) /\ m > l /\ lock[m] = Free /\ \A n \in (l + 1)..(m - 1) : lock[n] # Free
             /\ parentLock' = [parentLock EXCEPT ![s] = l]
             /\ lock' = [lock EXCEPT ![l] = ParentGate(s), ![m] = s]
        /\ lockCount' = [lockCount EXCEPT ![ParentGate(s)] = @ + 1, ![s] = @ + 1]
        /\ UNCHANGED <<waitingChildren, broken>>
     \/ /\ ~broken[ParentGate(s)] /\ ~ParentIsIdle(s) /\ Spare(1)
        /\ state' = [state EXCEPT ![s] = "INITIAL_WAIT"]
        /\ waitingChildren' = [waitingChildren EXCEPT ![ParentGate(s)] = Append(@, s)]
        /\ UNCHANGED <<parentLock, lock, lockCount, broken>>
  /\ UNCHANGED <<parent, ancestors, scope, granted, rejected, waiters, refs>>

\* wait() resumes with the lock on the parent, or with its exception.
InitialWaitGranted(s) ==
  /\ granted[s] # None
  /\ state' = [state EXCEPT ![s] = "RUNNING"]
  /\ parentLock' = [parentLock EXCEPT ![s] = granted[s]]
  /\ granted' = [granted EXCEPT ![s] = None]
  /\ \E l \in Locks : Fresh(l) /\ TakeLock(l, s)
  /\ UNCHANGED <<parent, ancestors, scope, rejected, queues, broken, refs>>

InitialWaitRejected(s) ==
  /\ s \in rejected
  /\ rejected' = rejected \ {s}
  /\ state' = [state EXCEPT ![s] = "RUNNING"]
  /\ broken' = [broken EXCEPT ![s] = TRUE]
  /\ UNCHANGED <<parent, ancestors, scope, parentLock, granted, lock, lockCount, queues, refs>>

\* succeeded(): the parent adopts the locks and the waiters that are left, and
\* the caller gets the lock on the parent.
Adopt(s, queue) ==
  [queue EXCEPT ![ParentGate(s)] = @ \o queue[s], ![s] = <<>>]

AdoptLocks(s) ==
  [lockCount EXCEPT ![ParentGate(s)] = @ + lockCount[s], ![s] = 0]

Reparent(s) ==
  [g \in Gates |-> IF scope[g] = s THEN ParentGate(s) ELSE scope[g]]

Succeeded(s) ==
  /\ state[s] = "RUNNING" /\ parentLock[s] # None
  /\ waitingChildren' = Adopt(s, waitingChildren)
  /\ waiters' = Adopt(s, waiters)
  /\ lockCount' = AdoptLocks(s)
  /\ state' = [state EXCEPT ![s] = "REPARENTED"]
  /\ scope' = Reparent(s)
  /\ parentLock' = [parentLock EXCEPT ![s] = None]
  /\ UNCHANGED <<parent, ancestors, granted, rejected, lock, broken, refs>>

\* The gates that failed() breaks: s and those above it, up to a section that
\* failed already; the root is broken again.
BrokenAlone(s) == {s}    \* seeded fault
BrokenBy(s) ==
  LET chain == {s} \cup ancestors[s]
  IN  {g \in chain : \A b \in chain : b >= g /\ b # Root => ~broken[b]}

\* setBroken() on each: what waits there is rejected.
BrokenOff(queue, gates) == [g \in Gates |-> IF g \in gates THEN <<>> ELSE queue[g]]

Break(gates) ==
  /\ broken' = [g \in Gates |-> broken[g] \/ g \in gates]
  /\ rejected' = rejected \cup UNION {Elements(waitingChildren[g]) : g \in gates}

\* failed(), also after succeeded().
Failed(s) ==
  /\ state[s] \in {"RUNNING", "REPARENTED"}
  /\ ~broken[s]
  /\ Break(BrokenBy(s))
  /\ waiters' = BrokenOff(waiters, BrokenBy(s))
  /\ waitingChildren' = BrokenOff(waitingChildren, BrokenBy(s))
  /\ UNCHANGED <<state, parent, ancestors, scope, parentLock, granted, lock, lockCount, refs>>

\* drop() of a running section fails it, and gives the lock on the parent back.
Drop(s) ==
  /\ state[s] = "RUNNING" /\ parentLock[s] # None
  /\ Break(BrokenBy(s))
  /\ parentLock' = [parentLock EXCEPT ![s] = None]
  /\ HandOver(parentLock[s], scope[lock[parentLock[s]]],
              BrokenOff(waitingChildren, BrokenBy(s)), BrokenOff(waiters, BrokenBy(s)))
  /\ UNCHANGED <<state, parent, ancestors, scope, refs>>

-----------------------------------------------------------------------------

Next ==
  \/ \E g \in Gates : Wait(g)
  \/ \E w \in Waits : Cancel(w)
  \/ \E l \in Locks : AddRef(l) \/ Release(l)
  \/ \E l \in Locks, s \in Sections : StartCriticalSection(l, s)
  \/ \E s \in Sections :
       \/ FirstWait(s) \/ InitialWaitGranted(s) \/ InitialWaitRejected(s)
       \/ Succeeded(s) \/ Failed(s) \/ Drop(s)

\* A lock is released at the end of a checkpoint or of a storage operation
\* (IoContext), an awaited promise resumes, and a section that runs is over
\* after 30 seconds at the latest (blockConcurrencyWhile).
Fairness ==
  /\ \A l \in Locks : WF_vars(Release(l))
  /\ \A s \in Sections :
       /\ WF_vars(InitialWaitGranted(s)) /\ WF_vars(InitialWaitRejected(s))
       /\ WF_vars(Succeeded(s) \/ Drop(s))

Spec == Init /\ [][Next]_vars /\ Fairness

-----------------------------------------------------------------------------
(***************************************************************************)
(* Properties                                                              *)
(***************************************************************************)

SectionStates == {"unused", "NOT_STARTED", "INITIAL_WAIT", "RUNNING", "REPARENTED"}

\* Every variable has its type.
TypeOK ==
  /\ state \in [Sections -> SectionStates]
  /\ parent \in [Sections -> Gates] /\ ancestors \in [Gates -> SUBSET Gates]
  /\ scope \in [Gates -> Gates]
  /\ parentLock \in [Sections -> Locks \cup {None}]
  /\ granted \in [Sections -> Locks \cup {None}]
  /\ rejected \subseteq Sections
  /\ lock \in [Locks -> Gates \cup {Free}]
  /\ lockCount \in [Gates -> 0..MaxLocks]
  /\ waiters \in [Gates -> Seq(Waits)] /\ waitingChildren \in [Gates -> Seq(Sections)]
  /\ broken \in [Gates -> BOOLEAN]
  /\ refs \in 0..MaxRefs

\* A gate counts the locks that exist on it and on the sections reparented to
\* it, so that releaseLock() never finds the count at zero ("releaseLock() with
\* no locks outstanding"), and a gate without locks is open.
LocksAreCounted ==
  \A g \in Gates :
    lockCount[g] = Cardinality({l \in Locks : lock[l] # Free /\ scope[lock[l]] = g})

\* A section that is over holds nothing that releaseLock() would find ("releasing
\* a lock on a reparented CriticalSection that still holds state").
ReparentedHoldsNothing ==
  \A s \in Sections : state[s] = "REPARENTED" =>
    lockCount[s] = 0 /\ waiters[s] = <<>> /\ waitingChildren[s] = <<>>

\* Whoever waits on a gate waits for a lock: the last one to be released hands
\* over, and no waiter is left behind by reparenting, failures or aborts.
WaitersWaitForALock ==
  \A g \in Gates :
    waiters[g] # <<>> \/ waitingChildren[g] # <<>> => lockCount[g] > 0

\* While a section runs, the lock it holds is the only one in the scope it was
\* started from: no other event, and no other section, runs there.
SectionIsExclusive ==
  \A s \in Sections :
    LET l == parentLock[s]
    IN  l # None /\ scope[lock[l]] = lock[l] => lockCount[lock[l]] = 1

\* A section that failed has broken the gate of the actor, from whatever depth
\* and however many sections between were over.
FailureReachesRoot == \A s \in Sections : broken[s] => broken[Root]

\* Every wait() settles: with a lock, with an exception or by being cancelled.
WaitsSettle ==
  \A w \in Waits :
    (\E g \in Gates : w \in Elements(waiters[g])) ~> (\A g \in Gates : w \notin Elements(waiters[g]))

=============================================================================
