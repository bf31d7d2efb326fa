------------------------------ MODULE OutputGate ------------------------------
(***************************************************************************)
(* The output gate of src/src/io/io-gate.ts: a chain of promises that      *)
(* holds back the messages of an actor until the writes they may depend on *)
(* are confirmed.  Every lockWhile(promise) joins one more link onto the   *)
(* chain, and a wait() is bound to the chain as it was when it was taken.  *)
(*                                                                         *)
(* A promise is Pending, Fulfilled, or rejected; a rejected promise is     *)
(* represented by the number of the lockWhile call whose exception it      *)
(* carries.  Promise reactions run in a later microtask, so they are       *)
(* actions of their own: between the settling of a promise and the         *)
(* reaction an abort signal may fire.                                      *)
(***************************************************************************)
EXTENDS Integers

CONSTANTS
  MaxLocks,   \* bound on the number of lockWhile calls
  Waiters     \* the calls of wait()

ASSUME MaxLocksAssumption == MaxLocks \in Nat

Pending   == -1
Fulfilled == 0

Locks    == 1..MaxLocks
Outcomes == {Pending, Fulfilled} \cup Locks

IsRejected(p) == p \notin {Pending, Fulfilled}

VARIABLES
  taken,        \* how many lockWhile calls were made
  raced,        \* raced[i]: the caller's promise raced with the timeout
  link,         \* link[i]: the fulfiller promise joined onto the chain
  past,         \* past[i]: #pastLocksPromise as of the i-th lockWhile
  at,           \* at[w]: the chain position wait() call w is bound to
  waitState,    \* what the caller of wait() sees
  brokenState,  \* #brokenState.kind
  observer,     \* the promise onBroken() returned
  lockHooks     \* outputGateLocked() calls minus outputGateReleased() calls

vars == <<taken, raced, link, past, at, waitState, brokenState, observer,
          lockHooks>>

chain == <<taken, raced, link, past>>
waits == <<at, waitState>>
broke == <<brokenState, observer>>

Init ==
  /\ taken = 0
  /\ raced = [i \in Locks |-> Pending]
  /\ link = [i \in Locks |-> Pending]
  /\ past = [i \in 0..MaxLocks |-> IF i = 0 THEN Fulfilled ELSE Pending]
  /\ at = [w \in Waiters |-> 0]
  /\ waitState = [w \in Waiters |-> "idle"]
  /\ brokenState = "none"
  /\ observer = "none"
  /\ lockHooks = 0

(***************************************************************************)
(* Locking                                                                 *)
(***************************************************************************)

\* lockWhile(promise): a new fulfiller is joined onto the chain, and only
\* then is the hook told.
LockWhile ==
  /\ taken < MaxLocks
  /\ taken' = taken + 1
  /\ lockHooks' = lockHooks + 1
  /\ UNCHANGED <<raced, link, past, waits, broke>>

\* The caller's promise, or the timeout it is raced with, settles.
RacedSettles(i) ==
  /\ i <= taken
  /\ raced[i] = Pending
  /\ \E outcome \in {Fulfilled, i} : raced' = [raced EXCEPT ![i] = outcome]
  /\ UNCHANGED <<taken, link, past, waits, broke, lockHooks>>

IsWaiting(i) == i <= taken /\ link[i] = Pending

\* #setBroken: tells the promise of onBroken(), if one was handed out.
SetBroken ==
  /\ observer' = IF brokenState = "fulfiller" THEN "rejected" ELSE observer
  /\ brokenState' = "exception"

\* The reaction to the raced promise.  A lock an abort already settled has
\* nothing left to settle.
Release(i) ==
  /\ IsWaiting(i)
  /\ raced[i] # Pending
  /\ link' = [link EXCEPT ![i] = raced[i]]
  /\ lockHooks' = lockHooks - 1
  /\ IF IsRejected(raced[i]) THEN SetBroken ELSE UNCHANGED broke
  /\ UNCHANGED <<taken, raced, past, waits>>

\* The abort signal fires while the lock is still held: the gate breaks,
\* whatever the caller's promise does.
CancelLock(i) ==
  /\ IsWaiting(i)
  /\ link' = [link EXCEPT ![i] = i]
  /\ lockHooks' = lockHooks - 1
  /\ SetBroken
  /\ UNCHANGED <<taken, raced, past, waits>>

\* Seeded fault: only the newest link decides.
LastRejection(p, q) == q

\* allSettled([past, promise]): waits for both, and rethrows the first
\* rejection in the order of the list.
FirstRejection(p, q) == IF IsRejected(p) THEN p ELSE q

\* Seeded fault: Promise.all, which rejects as soon as one branch does.
JoinFailFast(i) ==
  /\ i <= taken
  /\ past[i] = Pending
  /\ \/ past[i - 1] # Pending /\ link[i] # Pending
     \/ IsRejected(past[i - 1]) \/ IsRejected(link[i])
  /\ past' = [past EXCEPT ![i] = FirstRejection(past[i - 1], link[i])]
  /\ UNCHANGED <<taken, raced, link, waits, broke, lockHooks>>

Join(i) ==
  /\ i <= taken
  /\ past[i] = Pending
  /\ past[i - 1] # Pending
  /\ link[i] # Pending
  /\ past' = [past EXCEPT ![i] = FirstRejection(past[i - 1], link[i])]
  /\ UNCHANGED <<taken, raced, link, waits, broke, lockHooks>>

(***************************************************************************)
(* Waiting                                                                 *)
(***************************************************************************)

Wait(w) ==
  /\ waitState[w] = "idle"
  /\ waitState' = [waitState EXCEPT ![w] = "waiting"]
  /\ at' = [at EXCEPT ![w] = taken]
  /\ UNCHANGED <<chain, broke, lockHooks>>

\* Seeded fault: the wait follows the newest chain instead of its own.
WaitSettlesOnLatest(w) ==
  /\ waitState[w] = "waiting"
  /\ past[taken] # Pending
  /\ waitState' = [waitState EXCEPT ![w] =
                     IF IsRejected(past[taken]) THEN "rejected" ELSE "released"]
  /\ UNCHANGED <<chain, at, broke, lockHooks>>

WaitSettles(w) ==
  /\ waitState[w] = "waiting"
  /\ past[at[w]] # Pending
  /\ waitState' = [waitState EXCEPT ![w] =
                     IF IsRejected(past[at[w]]) THEN "rejected" ELSE "released"]
  /\ UNCHANGED <<chain, at, broke, lockHooks>>

\* onBroken(): a rejected promise on a broken gate, one shared promise before.
OnBroken ==
  /\ observer = "none"
  /\ IF brokenState = "exception"
       THEN observer' = "rejected" /\ UNCHANGED brokenState
       ELSE observer' = "waiting" /\ brokenState' = "fulfiller"
  /\ UNCHANGED <<chain, waits, lockHooks>>

-----------------------------------------------------------------------------

Next ==
  \/ LockWhile
  \/ \E i \in Locks : RacedSettles(i) \/ Release(i) \/ CancelLock(i) \/ Join(i)
  \/ \E w \in Waiters : Wait(w) \/ WaitSettles(w)
  \/ OnBroken

\* A promise reaction is run by the JavaScript engine once its promise is
\* settled.  Whether the caller's promise ever settles is not assumed.
Fairness ==
  /\ \A i \in Locks : WF_vars(Release(i)) /\ WF_vars(Join(i))
  /\ \A w \in Waiters : WF_vars(WaitSettles(w))

Spec == Init /\ [][Next]_vars /\ Fairness

-----------------------------------------------------------------------------
(***************************************************************************)
(* Properties                                                              *)
(***************************************************************************)

\* Types of the gate's fields (io-gate.ts, class OutputGate).
TypeOK ==
  /\ taken \in 0..MaxLocks
  /\ raced \in [Locks -> Outcomes]
  /\ link \in [Locks -> Outcomes]
  /\ past \in [0..MaxLocks -> Outcomes]
  /\ at \in [Waiters -> 0..MaxLocks]
  /\ waitState \in [Waiters -> {"idle", "waiting", "released", "rejected"}]
  /\ brokenState \in {"none", "fulfiller", "exception"}
  /\ observer \in {"none", "waiting", "rejected"}
  /\ lockHooks \in Int

\* "wait until all preceding locks are released" (OutputGate.wait): a message
\* leaves only when every lock taken before its wait() was confirmed.
ReleasedMeansConfirmed ==
  \A w \in Waiters : waitState[w] = "released" =>
    \A i \in 1..at[w] : link[i] = Fulfilled

\* A failing lock neither releases nor fails a wait() early, and a later lock
\* never fails an earlier wait(): a rejected wait() has only settled locks
\* before it, and carries the exception of the first of them that failed
\* (the reason #lock uses allSettled and not Promise.all).
RejectedWithEarliestFailure ==
  \A w \in Waiters : waitState[w] = "rejected" =>
    /\ \A i \in 1..at[w] : link[i] # Pending
    /\ past[at[w]] \in 1..at[w]
    /\ link[past[at[w]]] = past[at[w]]
    /\ \A i \in 1..(past[at[w]] - 1) : link[i] = Fulfilled

\* #setBroken runs before the fulfiller is rejected: nobody sees a failed
\* chain on a gate that does not yet say isBroken(), and whoever asked
\* onBroken() is told.
BrokenBeforeVisible ==
  /\ (\E i \in 0..MaxLocks : IsRejected(past[i])) => brokenState = "exception"
  /\ brokenState = "exception" => observer # "waiting"

\* The gate implements the barrier: the chain of joined promises answers each
\* wait() as if it depended on exactly the locks taken before it.
LockOf(i) == IF i > taken THEN "free"
             ELSE IF link[i] = Pending THEN "held"
             ELSE IF link[i] = Fulfilled THEN "confirmed" ELSE "failed"

Barrier == INSTANCE OutputBarrier WITH
  lock <- [i \in Locks |-> LockOf(i)],
  deps <- [w \in Waiters |-> 1..at[w]],
  answer <- waitState

ImplementsBarrier == Barrier!Spec

\* A wait() whose preceding promises have all settled is answered: later
\* locks that stay pending cannot hold it.
WaitsSettle ==
  \A w \in Waiters :
    (waitState[w] = "waiting" /\ \A i \in 1..at[w] : raced[i] # Pending)
      ~> (waitState[w] \in {"released", "rejected"})

=============================================================================
