------------------------------ MODULE GatesProofs ------------------------------
(***************************************************************************)
(* Proofs about the gates of an actor.  OutputGate, for every number of    *)
(* locks and every set of waiters; then the input gate, the instance Input *)
(* of MCGates, for every number of sections, locks, waits and duplicates.  *)
(* The steps of one gate leave the other one alone.                        *)
(***************************************************************************)
EXTENDS MCGates, FiniteSetTheorems, SequenceTheorems, TLAPS

-----------------------------------------------------------------------------
(***************************************************************************)
(* The output gate.  The invariants of the model say what a settled chain  *)
(* promise tells its waiter; they become inductive once the same is said   *)
(* of every promise of the chain, observed or not (ChainInv).              *)
(***************************************************************************)

\* What a settled chain promise summarises: the links up to its position.
Confirmed(i) == \A j \in 1..i : link[j] = Fulfilled

FailedFirstAt(i, k) ==
  /\ k \in 1..i
  /\ link[k] = k
  /\ \A j \in 1..i : link[j] # Pending
  /\ \A j \in 1..(k - 1) : link[j] = Fulfilled

ChainInv ==
  /\ \A i \in 0..MaxLocks : past[i] = Fulfilled => Confirmed(i)
  /\ \A i \in 0..MaxLocks : IsRejected(past[i]) => FailedFirstAt(i, past[i])

\* A link carries its own exception, and so does the promise it settles from.
LinkInv ==
  /\ \A i \in Locks : IsRejected(raced[i]) => raced[i] = i
  /\ \A i \in Locks : IsRejected(link[i]) => link[i] = i

BrokenStateInv ==
  /\ (\E i \in Locks : IsRejected(link[i])) => brokenState = "exception"
  /\ brokenState = "exception" => observer # "waiting"
  /\ brokenState = "none" => observer = "none"

WaitInv ==
  \A w \in Waiters :
    /\ waitState[w] = "released" => past[at[w]] = Fulfilled
    /\ waitState[w] = "rejected" => IsRejected(past[at[w]])

OutputInv == TypeOK /\ ChainInv /\ LinkInv /\ BrokenStateInv /\ WaitInv

-----------------------------------------------------------------------------

LEMMA OutputInitInv == Init => OutputInv
  BY MaxLocksAssumption
     DEF Init, OutputInv, TypeOK, ChainInv, LinkInv, BrokenStateInv, WaitInv, Confirmed,
         FailedFirstAt, Locks, Outcomes, Pending, Fulfilled, IsRejected

\* The type of every field is kept by every step.
LEMMA OutputTypeStep == TypeOK /\ [Next]_vars => TypeOK'
<1> SUFFICES ASSUME TypeOK, [Next]_vars PROVE TypeOK'
  OBVIOUS
<1> USE MaxLocksAssumption DEF TypeOK, Locks, Outcomes, Pending, Fulfilled, chain, waits, broke
<1>1. CASE LockWhile
  BY <1>1 DEF LockWhile
<1>2. ASSUME NEW i \in Locks, RacedSettles(i) PROVE TypeOK'
  BY <1>2 DEF RacedSettles
<1>3. ASSUME NEW i \in Locks, Release(i) PROVE TypeOK'
  BY <1>3 DEF Release, IsWaiting, SetBroken, IsRejected
<1>4. ASSUME NEW i \in Locks, CancelLock(i) PROVE TypeOK'
  BY <1>4 DEF CancelLock, IsWaiting, SetBroken
<1>5. ASSUME NEW i \in Locks, Join(i) PROVE TypeOK'
  BY <1>5 DEF Join, FirstRejection
<1>6. ASSUME NEW w \in Waiters, Wait(w) PROVE TypeOK'
  BY <1>6 DEF Wait
<1>7. ASSUME NEW w \in Waiters, WaitSettles(w) PROVE TypeOK'
  BY <1>7 DEF WaitSettles
<1>8. CASE OnBroken
  BY <1>8 DEF OnBroken
<1>9. CASE UNCHANGED vars
  BY <1>9 DEF vars
<1> QED
  BY <1>1, <1>2, <1>3, <1>4, <1>5, <1>6, <1>7, <1>8, <1>9 DEF Next

\* Settling a link that was still pending disturbs no summary: no settled
\* chain promise covers a pending link.
LEMMA SettleLink ==
  ASSUME OutputInv, NEW i \in Locks, NEW r \in Outcomes, link[i] = Pending,
         r # Pending, IsRejected(r) => r = i,
         link' = [link EXCEPT ![i] = r], UNCHANGED <<raced, past>>
  PROVE  ChainInv' /\ LinkInv'
<1> USE MaxLocksAssumption DEF OutputInv, TypeOK, ChainInv, LinkInv, Locks, Outcomes
<1>1. ASSUME NEW k \in 0..MaxLocks, past[k] # Pending PROVE i \notin 1..k
  BY <1>1 DEF Confirmed, FailedFirstAt, IsRejected, Pending, Fulfilled
<1>2. \A k \in 0..MaxLocks : past'[k] = Fulfilled => Confirmed(k)'
  BY <1>1 DEF Confirmed, Pending, Fulfilled
<1>3. ASSUME NEW k \in 0..MaxLocks, IsRejected(past'[k])
      PROVE  FailedFirstAt(k, past[k])'
  <2>1. FailedFirstAt(k, past[k]) /\ i \notin 1..k
    BY <1>1, <1>3 DEF IsRejected
  <2>2. \A j \in 1..k : link'[j] = link[j]
    BY <2>1
  <2> QED
    BY <2>1, <2>2 DEF FailedFirstAt
<1>4. LinkInv'
  BY DEF IsRejected
<1> QED
  BY <1>2, <1>3, <1>4

\* A new chain promise summarises its predecessor and its own link.
LEMMA JoinKeepsChain ==
  ASSUME OutputInv, NEW i \in Locks, Join(i) PROVE ChainInv'
<1>1. /\ i \in 0..MaxLocks /\ i - 1 \in 0..MaxLocks
      /\ \A j \in 1..i : j = i \/ j \in 1..(i - 1)
      /\ \A j \in 1..(i - 1) : j \in 1..i
      /\ i \in 1..i
  BY MaxLocksAssumption DEF Locks
<1>2. /\ past'[i] = FirstRejection(past[i - 1], link[i])
      /\ \A k \in 0..MaxLocks : k # i => past'[k] = past[k]
      /\ link' = link
      /\ past[i - 1] # Pending
      /\ link[i] # Pending
  BY <1>1 DEF OutputInv, TypeOK, Join
<1>3. /\ past[i - 1] = Fulfilled => Confirmed(i - 1)
      /\ IsRejected(past[i - 1]) => FailedFirstAt(i - 1, past[i - 1])
      /\ IsRejected(link[i]) => link[i] = i
  BY <1>1 DEF OutputInv, ChainInv, LinkInv
<1>4. past'[i] = Fulfilled => Confirmed(i)'
  <2>1. past'[i] = Fulfilled => past[i - 1] = Fulfilled /\ link[i] = Fulfilled
    BY <1>2 DEF FirstRejection, IsRejected
  <2> QED
    BY <2>1, <1>1, <1>2, <1>3 DEF Confirmed
<1>5. ASSUME IsRejected(past'[i]) PROVE FailedFirstAt(i, past[i])'
  <2>1. CASE IsRejected(past[i - 1])
    <3>1. past'[i] = past[i - 1]
      BY <1>2, <2>1 DEF FirstRejection
    <3> QED
      BY <1>1, <1>2, <1>3, <2>1, <3>1 DEF FailedFirstAt
  <2>2. CASE ~IsRejected(past[i - 1])
    <3>1. past'[i] = link[i] /\ Confirmed(i - 1) /\ IsRejected(link[i])
      BY <1>2, <1>3, <1>5, <2>2 DEF FirstRejection, IsRejected
    <3>2. link[i] = i
      BY <1>3, <3>1
    <3>3. \A j \in 1..(i - 1) : link[j] = Fulfilled
      BY <3>1 DEF Confirmed
    <3>4. \A j \in 1..i : link[j] # Pending
      BY <1>1, <1>2, <3>3 DEF Pending, Fulfilled
    <3> QED
      BY <1>1, <1>2, <3>1, <3>2, <3>3, <3>4 DEF FailedFirstAt
  <2> QED
    BY <2>1, <2>2
<1>6. ASSUME NEW k \in 0..MaxLocks, k # i
      PROVE  /\ past'[k] = Fulfilled => Confirmed(k)'
             /\ IsRejected(past'[k]) => FailedFirstAt(k, past[k])'
  <2>1. past'[k] = past[k] /\ link' = link
    BY <1>2, <1>6
  <2> QED
    BY <2>1 DEF OutputInv, ChainInv, Confirmed, FailedFirstAt
<1>7. \A k \in 0..MaxLocks : past'[k] = Fulfilled => Confirmed(k)'
  BY <1>4, <1>6
<1>8. \A k \in 0..MaxLocks : IsRejected(past'[k]) => FailedFirstAt(k, past[k])'
  BY <1>5, <1>6
<1> QED
  BY <1>7, <1>8 DEF ChainInv, IsRejected

LEMMA OutputInvStep == OutputInv /\ [Next]_vars => OutputInv'
<1> SUFFICES ASSUME OutputInv, [Next]_vars PROVE OutputInv'
  OBVIOUS
<1>0. TypeOK'
  BY OutputTypeStep DEF OutputInv
<1>1. CASE LockWhile
  BY <1>0, <1>1 DEF OutputInv, LockWhile, ChainInv, LinkInv, BrokenStateInv, WaitInv, Confirmed,
                    FailedFirstAt, IsRejected, waits, broke
<1>2. ASSUME NEW i \in Locks, RacedSettles(i) PROVE OutputInv'
  BY <1>0, <1>2 DEF OutputInv, TypeOK, RacedSettles, ChainInv, LinkInv, BrokenStateInv, WaitInv,
                    Confirmed, FailedFirstAt, IsRejected, waits, broke
<1>3. ASSUME NEW i \in Locks, Release(i) PROVE OutputInv'
  <2>1. raced[i] \in Outcomes /\ IsRejected(raced[i]) => raced[i] = i
    BY DEF OutputInv, TypeOK, LinkInv
  <2>2. ChainInv' /\ LinkInv'
    BY <1>3, <2>1, SettleLink DEF OutputInv, TypeOK, LinkInv, Release, IsWaiting
  <2>3. BrokenStateInv'
    BY <1>3 DEF OutputInv, TypeOK, BrokenStateInv, Release, SetBroken, IsRejected, broke
  <2>4. WaitInv'
    BY <1>3 DEF OutputInv, WaitInv, Release, waits
  <2> QED
    BY <1>0, <2>2, <2>3, <2>4 DEF OutputInv
<1>4. ASSUME NEW i \in Locks, CancelLock(i) PROVE OutputInv'
  <2>1. i \in Outcomes /\ i # Pending
    BY MaxLocksAssumption DEF Locks, Outcomes, Pending
  <2>2. ChainInv' /\ LinkInv'
    BY <1>4, <2>1, SettleLink DEF CancelLock, IsWaiting
  <2>3. BrokenStateInv' /\ WaitInv'
    BY <1>4 DEF OutputInv, TypeOK, BrokenStateInv, WaitInv, CancelLock, SetBroken, IsRejected, waits
  <2> QED
    BY <1>0, <2>2, <2>3 DEF OutputInv
<1>5. ASSUME NEW i \in Locks, Join(i) PROVE OutputInv'
  <2>1. ChainInv'
    BY <1>5, JoinKeepsChain
  <2>2. LinkInv' /\ BrokenStateInv'
    BY <1>5 DEF OutputInv, LinkInv, BrokenStateInv, Join, IsRejected, broke
  <2>3. \A k \in 0..MaxLocks : past[k] # Pending => past'[k] = past[k]
    BY <1>5 DEF OutputInv, TypeOK, Join
  <2>4. WaitInv'
    BY <1>5, <2>3 DEF OutputInv, TypeOK, WaitInv, Join, IsRejected, waits, Pending, Fulfilled
  <2> QED
    BY <1>0, <2>1, <2>2, <2>4 DEF OutputInv
<1>6. ASSUME NEW w \in Waiters, Wait(w) PROVE OutputInv'
  BY <1>0, <1>6 DEF OutputInv, TypeOK, Wait, ChainInv, LinkInv, BrokenStateInv, WaitInv, Confirmed,
                    FailedFirstAt, IsRejected, chain, broke
<1>7. ASSUME NEW w \in Waiters, WaitSettles(w) PROVE OutputInv'
  BY <1>0, <1>7 DEF OutputInv, TypeOK, WaitSettles, ChainInv, LinkInv, BrokenStateInv, WaitInv,
                    Confirmed, FailedFirstAt, IsRejected, chain, broke
<1>8. CASE OnBroken
  BY <1>0, <1>8 DEF OutputInv, TypeOK, OnBroken, ChainInv, LinkInv, BrokenStateInv, WaitInv,
                    Confirmed, FailedFirstAt, IsRejected, chain, waits
<1>9. CASE UNCHANGED vars
  BY <1>0, <1>9 DEF OutputInv, vars, ChainInv, LinkInv, BrokenStateInv, WaitInv, Confirmed,
                    FailedFirstAt, IsRejected
<1> QED
  BY <1>1, <1>2, <1>3, <1>4, <1>5, <1>6, <1>7, <1>8, <1>9 DEF Next

THEOREM OutputInvariance == Spec => []OutputInv
  BY OutputInitInv, OutputInvStep, PTL DEF Spec

-----------------------------------------------------------------------------
(***************************************************************************)
(* The properties of the model, for every instance.                        *)
(***************************************************************************)

\* Every field of the gate keeps its type.
THEOREM OutputTyping == Spec => []TypeOK
  BY OutputInvariance, PTL DEF OutputInv

LEMMA InvGivesSafety ==
  OutputInv => ReleasedMeansConfirmed /\ RejectedWithEarliestFailure /\ BrokenBeforeVisible
<1> SUFFICES ASSUME OutputInv
    PROVE  ReleasedMeansConfirmed /\ RejectedWithEarliestFailure /\ BrokenBeforeVisible
  OBVIOUS
<1>1. \A w \in Waiters : at[w] \in 0..MaxLocks
  BY DEF OutputInv, TypeOK
<1>2. ReleasedMeansConfirmed
  BY <1>1 DEF OutputInv, ChainInv, WaitInv, Confirmed, ReleasedMeansConfirmed
<1>3. RejectedWithEarliestFailure
  BY <1>1 DEF OutputInv, ChainInv, WaitInv, FailedFirstAt, RejectedWithEarliestFailure
<1>4. ASSUME NEW i \in 0..MaxLocks, IsRejected(past[i]) PROVE brokenState = "exception"
  <2>1. past[i] \in 1..i /\ link[past[i]] = past[i]
    BY <1>4 DEF OutputInv, ChainInv, FailedFirstAt
  <2>2. past[i] \in Locks
    BY <2>1, MaxLocksAssumption DEF Locks
  <2> QED
    BY <1>4, <2>1, <2>2 DEF OutputInv, BrokenStateInv
<1> QED
  BY <1>2, <1>3, <1>4 DEF BrokenBeforeVisible, OutputInv, BrokenStateInv

\* OutputGate.wait: a message leaves only when every lock taken before it was
\* confirmed.
THEOREM ReleaseSafety == Spec => []ReleasedMeansConfirmed
  BY OutputInvariance, InvGivesSafety, PTL

\* OutputGate.#lock: a message fails with the exception of the earliest lock
\* that failed, and only after all its locks are settled.
THEOREM RejectionSafety == Spec => []RejectedWithEarliestFailure
  BY OutputInvariance, InvGivesSafety, PTL

\* OutputGate.#setBroken comes before the rejection it announces.
THEOREM BrokenFirst == Spec => []BrokenBeforeVisible
  BY OutputInvariance, InvGivesSafety, PTL

-----------------------------------------------------------------------------
(***************************************************************************)
(* The gate implements the barrier.                                        *)
(***************************************************************************)

\* No lock is settled before it is taken.
FreshInv == \A i \in Locks : i > taken => link[i] = Pending /\ past[i] = Pending

LEMMA FreshStep == TypeOK /\ FreshInv /\ [Next]_vars => FreshInv'
<1> SUFFICES ASSUME TypeOK, FreshInv, [Next]_vars PROVE FreshInv'
  OBVIOUS
<1> USE DEF TypeOK, FreshInv, Locks
<1>1. CASE LockWhile
  BY <1>1 DEF LockWhile
<1>2. ASSUME NEW i \in Locks, Release(i) \/ CancelLock(i) PROVE FreshInv'
  <2>1. i =< taken /\ UNCHANGED <<taken, past>>
    BY <1>2 DEF Release, CancelLock, IsWaiting
  <2>2. \A j \in Locks : j # i => link'[j] = link[j]
    BY <1>2 DEF Release, CancelLock
  <2> QED
    BY <2>1, <2>2
<1>3. ASSUME NEW i \in Locks, Join(i) PROVE FreshInv'
  BY <1>3, MaxLocksAssumption DEF Join
<1>4. CASE UNCHANGED <<taken, link, past>>
  BY <1>4
<1>5. ASSUME NEW i \in Locks, RacedSettles(i) PROVE UNCHANGED <<taken, link, past>>
  BY <1>5 DEF RacedSettles
<1>6. ASSUME NEW w \in Waiters, Wait(w) \/ WaitSettles(w)
      PROVE  UNCHANGED <<taken, link, past>>
  BY <1>6 DEF Wait, WaitSettles, chain
<1>7. OnBroken \/ UNCHANGED vars => UNCHANGED <<taken, link, past>>
  BY DEF OnBroken, vars, chain
<1> QED
  BY <1>1, <1>2, <1>3, <1>4, <1>5, <1>6, <1>7 DEF Next

LEMMA BarrierInit == Init => Barrier!Init
  BY MaxLocksAssumption DEF Init, Barrier!Init, LockOf, Locks

LEMMA BarrierStep ==
  OutputInv /\ FreshInv /\ [Next]_vars => [Barrier!Next]_(Barrier!vars)
<1> SUFFICES ASSUME OutputInv, FreshInv, [Next]_vars
    PROVE  Barrier!Next \/ UNCHANGED Barrier!vars
  BY DEF Barrier!vars
<1> DEFINE locks == [i \in Locks |-> LockOf(i)]
           deps  == [w \in Waiters |-> 1..at[w]]
<1>1. CASE LockWhile
  <2>1. PICK n \in Locks : n = taken + 1
    BY <1>1, MaxLocksAssumption DEF LockWhile, Locks, OutputInv, TypeOK
  <2>2. LockOf(n) = "free" /\ LockOf(n)' = "held"
    BY <1>1, <2>1 DEF LockWhile, LockOf, OutputInv, TypeOK, FreshInv, Locks
  <2>3. \A i \in Locks : i # n => LockOf(i)' = LockOf(i)
    BY <1>1, <2>1 DEF LockWhile, LockOf, OutputInv, TypeOK, Locks
  <2>4. locks' = [locks EXCEPT ![n] = "held"]
    BY <2>1, <2>2, <2>3
  <2>5. deps' = deps /\ waitState' = waitState
    BY <1>1 DEF LockWhile, waits
  <2>6. Barrier!Take(n)
    BY <2>1, <2>2, <2>4, <2>5 DEF Barrier!Take
  <2> QED
    BY <2>6 DEF Barrier!Next
<1>2. ASSUME NEW i \in Locks, RacedSettles(i) PROVE UNCHANGED Barrier!vars
  BY <1>2 DEF RacedSettles, Barrier!vars, LockOf, waits
<1>3. ASSUME NEW i \in Locks, Release(i) \/ CancelLock(i) PROVE Barrier!Next
  <2>1. LockOf(i) = "held" /\ taken' = taken /\ IsWaiting(i)
    BY <1>3 DEF Release, CancelLock, IsWaiting, LockOf, OutputInv, TypeOK, Locks
  <2>2. PICK r \in Outcomes : r # Pending /\ link' = [link EXCEPT ![i] = r]
    <3>1. raced[i] \in Outcomes /\ i \in Outcomes /\ i # Pending
      BY MaxLocksAssumption DEF OutputInv, TypeOK, Outcomes, Locks, Pending
    <3> QED
      BY <1>3, <3>1 DEF Release, CancelLock
  <2>3. LockOf(i)' = IF r = Fulfilled THEN "confirmed" ELSE "failed"
    BY <2>1, <2>2 DEF LockOf, IsWaiting, OutputInv, TypeOK, Locks
  <2>4. \A j \in Locks : j # i => LockOf(j)' = LockOf(j)
    BY <2>1, <2>2 DEF LockOf, OutputInv, TypeOK
  <2>5. PICK verdict \in {"confirmed", "failed"} : locks' = [locks EXCEPT ![i] = verdict]
    BY <2>3, <2>4
  <2>6. deps' = deps /\ waitState' = waitState
    BY <1>3 DEF Release, CancelLock, waits
  <2>7. Barrier!Decide(i)
    BY <2>1, <2>5, <2>6 DEF Barrier!Decide
  <2> QED
    BY <2>7 DEF Barrier!Next
<1>4. ASSUME NEW i \in Locks, Join(i) PROVE UNCHANGED Barrier!vars
  BY <1>4 DEF Join, Barrier!vars, LockOf, waits
<1>5. ASSUME NEW w \in Waiters, Wait(w) PROVE Barrier!Next
  <2>1. {i \in Locks : locks[i] # "free"} = 1..taken
    BY MaxLocksAssumption DEF LockOf, Locks, OutputInv, TypeOK
  <2>2. deps' = [deps EXCEPT ![w] = 1..taken] /\ locks' = locks
    BY <1>5 DEF Wait, OutputInv, TypeOK, LockOf, chain
  <2>3. Barrier!Wait(w)
    BY <1>5, <2>1, <2>2 DEF Barrier!Wait, Wait
  <2> QED
    BY <2>3 DEF Barrier!Next
<1>6. ASSUME NEW w \in Waiters, WaitSettles(w) PROVE Barrier!Next
  <2>1. deps' = deps /\ locks' = locks
    BY <1>6 DEF WaitSettles, LockOf, chain
  <2>2. at[w] \in 0..MaxLocks /\ 1..at[w] \subseteq Locks /\ deps[w] = 1..at[w]
    <3>1. at[w] \in 0..MaxLocks
      BY DEF OutputInv, TypeOK
    <3> QED
      BY <3>1, MaxLocksAssumption DEF Locks
  <2>3. \A i \in 1..at[w] : i =< taken
    <3>1. past[at[w]] # Pending
      BY <1>6 DEF WaitSettles
    <3>2. at[w] = 0 \/ at[w] =< taken
      BY <2>2, <3>1 DEF FreshInv, Locks, OutputInv, TypeOK
    <3> QED
      BY <2>2, <3>2 DEF OutputInv, TypeOK
  <2>4. \A i \in 1..at[w] : link[i] # Pending
    BY <1>6, <2>2 DEF WaitSettles, OutputInv, ChainInv, Confirmed, FailedFirstAt, IsRejected,
                      Pending, Fulfilled
  <2>5. \A i \in 1..at[w] : locks[i] = IF link[i] = Fulfilled THEN "confirmed" ELSE "failed"
    BY <2>2, <2>3, <2>4 DEF LockOf, OutputInv, TypeOK, Locks
  <2>6. (\E i \in deps[w] : locks[i] = "failed") <=> IsRejected(past[at[w]])
    <3>1. CASE IsRejected(past[at[w]])
      <4>1. past[at[w]] \in 1..at[w] /\ link[past[at[w]]] = past[at[w]]
        BY <2>2, <3>1 DEF OutputInv, ChainInv, FailedFirstAt
      <4>2. link[past[at[w]]] # Fulfilled
        BY <3>1, <4>1 DEF IsRejected
      <4> QED
        BY <2>5, <3>1, <4>1, <4>2
    <3>2. CASE ~IsRejected(past[at[w]])
      <4>1. Confirmed(at[w])
        BY <1>6, <2>2, <3>2 DEF WaitSettles, OutputInv, ChainInv, IsRejected
      <4>2. \A i \in 1..at[w] : locks[i] = "confirmed"
        BY <2>5, <4>1 DEF Confirmed
      <4> QED
        BY <2>2, <3>2, <4>2
    <3> QED
      BY <3>1, <3>2
  <2>7. Barrier!Answer(w)
    BY <1>6, <2>1, <2>5, <2>6 DEF Barrier!Answer, WaitSettles
  <2> QED
    BY <2>7 DEF Barrier!Next
<1>7. CASE OnBroken
  BY <1>7 DEF OnBroken, Barrier!vars, LockOf, chain, waits
<1>8. CASE UNCHANGED vars
  BY <1>8 DEF vars, Barrier!vars, LockOf
<1> QED
  BY <1>1, <1>2, <1>3, <1>4, <1>5, <1>6, <1>7, <1>8 DEF Next

\* Every behaviour of the promise chain is a behaviour of the barrier: a
\* message is answered once, from exactly the locks taken before it.
THEOREM Refinement == Spec => ImplementsBarrier
<1>1. Init => FreshInv
  BY DEF Init, FreshInv, Locks
<1>2. Spec => []FreshInv
  BY <1>1, FreshStep, OutputTyping, PTL DEF Spec
<1> QED
  BY <1>2, OutputInvariance, BarrierInit, BarrierStep, PTL
     DEF Spec, ImplementsBarrier, Barrier!Spec

-----------------------------------------------------------------------------
(***************************************************************************)
(* The input gate: its inductive invariant.                               *)
(***************************************************************************)

\* A gate that locks are taken on: the root, or a section that began.
Begun(g) == g = Input!Root \/ state[g] \in {"RUNNING", "REPARENTED"}

\* Sections are used in order, and started in gates that began before.
ParentInv ==
  /\ \A s \in Input!Sections : parent[s] < s /\ Begun(parent[s])
  /\ \A r, s \in Input!Sections : r < s /\ state[r] = "unused" => state[s] = "unused"

\* What a gate is reparented to is a gate above it that is not reparented itself, and
\* only sections that are over are reparented.
ScopeInv ==
  /\ \A g \in Input!Gates : scope[scope[g]] = scope[g] /\ scope[g] <= g
  /\ \A s \in Input!Sections : state[s] = "REPARENTED" <=> scope[s] # s
  /\ \A s \in Input!Sections, g \in Input!Gates : ~Begun(s) /\ scope[g] = s => g = s

\* A section is in one stage of its life.
StageInv ==
  \A s \in Input!Sections :
    /\ parentLock[s] # Input!None => state[s] = "RUNNING"
    /\ granted[s] # Input!None => state[s] = "INITIAL_WAIT" /\ s \notin rejected
    /\ s \in rejected => state[s] = "INITIAL_WAIT"

\* A section that is queued waits once, where its parent is reparented to.
InLine(s, g) ==
  /\ state[s] = "INITIAL_WAIT" /\ granted[s] = Input!None /\ s \notin rejected
  /\ scope[parent[s]] = g

QueueInv ==
  \A g \in Input!Gates :
    /\ \A i, j \in 1..Len(waitingChildren[g]) :
         waitingChildren[g][i] = waitingChildren[g][j] => i = j
    /\ \A i \in 1..Len(waitingChildren[g]) : InLine(waitingChildren[g][i], g)

\* The lock on the parent that section s holds or was granted.
Own(s, l) == l # Input!None /\ l \in {parentLock[s], granted[s]}

\* Locks are on gates that began; the one of a section is its own, on its parent.
LockInv ==
  /\ \A l \in Input!Locks : lock[l] # Input!Free => Begun(lock[l])
  /\ \A s \in Input!Sections, l \in Input!Locks : Own(s, l) =>
       /\ lock[l] # Input!Free /\ scope[lock[l]] = scope[parent[s]]
       /\ \A t \in Input!Sections : Own(t, l) => t = s

\* The locks that are counted at gate g.
Counted(g) == {l \in Input!Locks : lock[l] # Input!Free /\ scope[lock[l]] = g}
CountInv   == \A g \in Input!Gates : lockCount[g] = Cardinality(Counted(g))

\* The lock that a section holds or was granted on its parent is the only one there,
\* as long as that gate is not reparented.
ExclusiveInv ==
  \A s \in Input!Sections, l \in Input!Locks :
    Own(s, l) /\ scope[lock[l]] = lock[l] => \A m \in Counted(lock[l]) : m = l

\* A section knows the root above it, and what is broken broke the root.
BrokenInv ==
  /\ \A s \in Input!Sections : state[s] # "unused" => Input!Root \in ancestors[s]
  /\ \A g \in Input!Gates : broken[g] => broken[Input!Root]
  /\ rejected # {} => broken[Input!Root]

InputInv ==
  /\ ParentInv /\ ScopeInv /\ StageInv /\ QueueInv /\ LockInv /\ CountInv /\ ExclusiveInv
  /\ BrokenInv

-----------------------------------------------------------------------------

LEMMA Bounds ==
  /\ Input!Root = 0 /\ Input!None = 0 /\ Input!Free = -1 /\ Input!Free \notin Input!Gates
  /\ Input!None \notin Input!Locks /\ Input!Root \in Input!Gates /\ Input!Root \notin Input!Sections
  /\ Input!Sections \subseteq Input!Gates /\ Input!Gates \subseteq Nat /\ Input!Locks \subseteq Nat
  /\ Input!Gates = Input!Sections \cup {Input!Root}
  BY InputAssumption
     DEF Input!InputGateAssumption, Input!Root, Input!None, Input!Free, Input!Gates, Input!Sections,
         Input!Locks

\* The instance has the definitions of FiniteSets under names of its own.
LEMMA SameCardinality == \A S : Input!Cardinality(S) = Cardinality(S)
  BY Zenon DEF Input!Cardinality, Cardinality

LEMMA SetOfLocks ==
  ASSUME NEW S \in SUBSET Input!Locks
  PROVE  IsFiniteSet(S) /\ Cardinality(S) \in 0..MaxInputLocks
<1>1. /\ IsFiniteSet(Input!Locks) /\ Cardinality(Input!Locks) = MaxInputLocks
      /\ MaxInputLocks \in Nat
  BY InputAssumption, FS_Interval DEF Input!InputGateAssumption, Input!Locks
<1>2. IsFiniteSet(S) /\ Cardinality(S) <= MaxInputLocks /\ Cardinality(S) \in Nat
  BY <1>1, FS_Subset, FS_CardinalityType
<1> QED
  BY <1>1, <1>2

LEMMA InputInitInv == Input!Init => InputInv /\ Input!TypeOK
<1> SUFFICES ASSUME Input!Init PROVE InputInv /\ Input!TypeOK
  OBVIOUS
<1>1. Input!TypeOK
  BY Bounds, InputAssumption, EmptySeq
     DEF Input!Init, Input!TypeOK, Input!SectionStates, Input!InputGateAssumption
<1>2. ParentInv /\ ScopeInv /\ StageInv
  BY Bounds DEF Input!Init, ParentInv, ScopeInv, StageInv, Begun, Input!Sections
<1>3. QueueInv
  BY EmptySeq DEF Input!Init, QueueInv, InLine
<1>4. LockInv /\ ExclusiveInv
  BY DEF Input!Init, LockInv, ExclusiveInv, Own
<1>5. CountInv
  <2>1. \A g \in Input!Gates : Counted(g) = {}
    BY DEF Input!Init, Counted
  <2> QED
    BY <2>1, FS_EmptySet DEF Input!Init, CountInv
<1>6. BrokenInv
  BY DEF Input!Init, BrokenInv
<1> QED
  BY <1>1, <1>2, <1>3, <1>4, <1>5, <1>6 DEF InputInv

-----------------------------------------------------------------------------
(***************************************************************************)
(* Locks that are taken.                                                   *)
(***************************************************************************)

LEMMA CountType ==
  ASSUME CountInv, lockCount \in [Input!Gates -> Int]
  PROVE  lockCount \in [Input!Gates -> 0..MaxInputLocks]
  BY SetOfLocks DEF CountInv, Counted

\* A gate that counts no lock has none, and one that counts one lock has no other.
LEMMA CountOfNone ==
  ASSUME InputInv, NEW g \in Input!Gates, lockCount[g] = 0 PROVE Counted(g) = {}
<1>1. Counted(g) \in SUBSET Input!Locks /\ Cardinality(Counted(g)) = 0
  BY DEF InputInv, CountInv, Counted
<1> QED
  BY <1>1, SetOfLocks, FS_EmptySet

LEMMA CountOfOne ==
  ASSUME InputInv, NEW g \in Input!Gates, lockCount[g] = 1, NEW l \in Counted(g)
  PROVE  Counted(g) = {l}
<1>1. Counted(g) \in SUBSET Input!Locks /\ Cardinality(Counted(g)) = 1
  BY DEF InputInv, CountInv, Counted
<1>2. \E x : Counted(g) = {x}
  BY <1>1, SetOfLocks, FS_Singleton
<1> QED
  BY <1>2

\* TakeLock() with a lock that is free.
LEMMA LockTaken ==
  ASSUME Input!TypeOK, InputInv, NEW l \in Input!Locks, NEW g \in Input!Gates,
         lock[l] = Input!Free, Input!TakeLock(l, g), scope' = scope
  PROVE  /\ \A x \in Input!Gates :
              Counted(x)' = IF x = scope[g] THEN Counted(x) \cup {l} ELSE Counted(x)
         /\ CountInv'
         /\ lock' \in [Input!Locks -> Input!Gates \cup {Input!Free}]
         /\ lockCount' \in [Input!Gates -> 0..MaxInputLocks]
<1>1. /\ lock' = [lock EXCEPT ![l] = g] /\ lockCount' = [lockCount EXCEPT ![scope[g]] = @ + 1]
      /\ lock \in [Input!Locks -> Input!Gates \cup {Input!Free}]
      /\ lockCount \in [Input!Gates -> 0..MaxInputLocks] /\ scope \in [Input!Gates -> Input!Gates]
  BY DEF Input!TakeLock, Input!TypeOK
<1>2. ASSUME NEW x \in Input!Gates
      PROVE  Counted(x)' = IF x = scope[g] THEN Counted(x) \cup {l} ELSE Counted(x)
  BY <1>1, Bounds DEF Counted
<1>3. ASSUME NEW x \in Input!Gates PROVE lockCount'[x] = Cardinality(Counted(x)')
  <2>1. /\ Counted(x) \in SUBSET Input!Locks /\ l \notin Counted(x)
        /\ lockCount[x] = Cardinality(Counted(x))
    BY DEF Counted, InputInv, CountInv
  <2>2. Cardinality(Counted(x) \cup {l}) = Cardinality(Counted(x)) + 1
    BY <2>1, SetOfLocks, FS_AddElement
  <2> QED
    BY <1>1, <1>2, <2>1, <2>2
<1>4. CountInv'
  BY <1>3 DEF CountInv
<1>5. lockCount' \in [Input!Gates -> Int]
  BY <1>1, InputAssumption DEF Input!InputGateAssumption
<1>6. \A x \in Input!Gates : lockCount'[x] \in 0..MaxInputLocks
  BY <1>3, SetOfLocks DEF Counted
<1> QED
  BY <1>1, <1>2, <1>4, <1>5, <1>6

\* Where no section has its own lock, anyone may have one.
LEMMA TakenInv ==
  ASSUME Input!TypeOK, InputInv, NEW l \in Input!Locks, NEW g \in Input!Gates,
         lock[l] = Input!Free, Input!TakeLock(l, g), Begun(g),
         \A s \in Input!Sections, m \in Input!Locks : Own(s, m) => lock[m] # scope[g],
         UNCHANGED <<Input!sections, waitingChildren, broken>>
  PROVE  InputInv'
<1> USE DEF Input!sections
<1>1. /\ \A x \in Input!Gates :
           Counted(x)' = IF x = scope[g] THEN Counted(x) \cup {l} ELSE Counted(x)
      /\ CountInv'
  BY LockTaken
<1>2. lock' = [lock EXCEPT ![l] = g]
  BY DEF Input!TakeLock
<1>3. ParentInv' /\ ScopeInv' /\ StageInv' /\ QueueInv' /\ BrokenInv'
  BY DEF InputInv, ParentInv, ScopeInv, StageInv, QueueInv, InLine, BrokenInv, Begun
<1>4. \A s \in Input!Sections : ~Own(s, l)
  BY DEF InputInv, LockInv
<1>5. ASSUME NEW m \in Input!Locks PROVE lock'[m] = IF m = l THEN g ELSE lock[m]
  BY <1>2 DEF Input!TypeOK
<1>6. LockInv'
  BY <1>4, <1>5 DEF InputInv, LockInv, Own, Begun
<1>7. ASSUME NEW s \in Input!Sections, NEW m \in Input!Locks, NEW x \in Input!Gates,
             Own(s, m), lock[m] = x, scope[x] = x
      PROVE  \A k \in Counted(x)' : k = m
  <2>1. Counted(x)' = Counted(x)
    BY <1>1, <1>7
  <2> QED
    BY <1>7, <2>1 DEF InputInv, ExclusiveInv
<1>8. ExclusiveInv'
  <2>1. \A s \in Input!Sections, m \in Input!Locks : Own(s, m)' => Own(s, m) /\ m # l
    BY <1>4 DEF Own
  <2>2. \A s \in Input!Sections, m \in Input!Locks : Own(s, m) => lock[m] \in Input!Gates
    BY DEF InputInv, LockInv, Input!TypeOK
  <2> QED
    BY <1>5, <1>7, <2>1, <2>2 DEF ExclusiveInv
<1> QED
  BY <1>1, <1>3, <1>6, <1>8 DEF InputInv

LEMMA ScopeOfBegun ==
  ASSUME Input!TypeOK, InputInv, NEW g \in Input!Gates, Begun(g)
  PROVE  /\ scope[g] \in Input!Gates /\ Begun(scope[g]) /\ scope[scope[g]] = scope[g]
         /\ scope[g] <= g
<1>1. scope[g] \in Input!Gates
  BY DEF Input!TypeOK
<1>2. Begun(scope[g])
  <2>1. CASE scope[g] = Input!Root
    BY <2>1 DEF Begun
  <2>2. CASE scope[g] \in Input!Sections
    BY <2>2 DEF InputInv, ScopeInv
  <2> QED
    BY <1>1, <2>1, <2>2, Bounds
<1> QED
  BY <1>1, <1>2 DEF InputInv, ScopeInv

\* A queue that one leaves.
LEMMA OneLeaves ==
  ASSUME NEW S, NEW queue \in Seq(S), NEW i \in 1..Len(queue)
  PROVE  SubSeq(queue, 1, i - 1) \o SubSeq(queue, i + 1, Len(queue)) \in Seq(S)
<1>1. Len(queue) \in Nat /\ i \in Nat /\ 1 <= i /\ i <= Len(queue)
  BY LenProperties
<1>2. \A j \in 1..Len(queue) : queue[j] \in S
  BY ElementOfSeq
<1>3. SubSeq(queue, 1, i - 1) \in Seq(S)
  <2>1. \A j \in 1..(i - 1) : queue[j] \in S
    BY <1>1, <1>2
  <2> QED
    BY <1>1, <2>1, SubSeqProperties
<1>4. SubSeq(queue, i + 1, Len(queue)) \in Seq(S)
  <2>1. \A j \in (i + 1)..Len(queue) : queue[j] \in S
    BY <1>1, <1>2
  <2> QED
    BY <1>1, <2>1, SubSeqProperties
<1> QED
  BY <1>3, <1>4, ConcatProperties

LEMMA WaitStep ==
  ASSUME Input!TypeOK, InputInv, NEW g \in Input!Gates, Input!Wait(g)
  PROVE  Input!TypeOK' /\ InputInv'
<1> DEFINE h == scope[g]
<1>1. /\ h \in Input!Gates /\ Begun(h) /\ scope[h] = h
      /\ UNCHANGED <<Input!sections, broken, refs>>
  <2>1. Begun(g)
    BY DEF Input!Wait, Begun
  <2> QED
    BY <2>1, ScopeOfBegun DEF Input!Wait
<1>2. ASSUME lockCount[h] = 0, NEW l \in Input!Locks, Input!Fresh(l), Input!TakeLock(l, h),
             UNCHANGED Input!queues
      PROVE  Input!TypeOK' /\ InputInv'
  <2>1. \A s \in Input!Sections, m \in Input!Locks : Own(s, m) => lock[m] # h
    <3>1. Counted(h) = {}
      BY <1>1, <1>2, CountOfNone
    <3> QED
      BY <1>1, <3>1, Bounds DEF Counted, InputInv, LockInv
  <2>2. lock[l] = Input!Free
    BY <1>2 DEF Input!Fresh
  <2>3. InputInv'
    BY <1>1, <1>2, <2>1, <2>2, TakenInv DEF Input!queues
  <2>4. /\ lock' \in [Input!Locks -> Input!Gates \cup {Input!Free}]
        /\ lockCount' \in [Input!Gates -> 0..MaxInputLocks]
    BY <1>1, <1>2, <2>2, LockTaken DEF Input!sections
  <2> QED
    BY <1>1, <1>2, <2>3, <2>4 DEF Input!TypeOK, Input!queues, Input!sections
<1>3. ASSUME NEW w \in Input!Waits, waiters' = [waiters EXCEPT ![h] = Append(@, w)],
             UNCHANGED <<waitingChildren, lock, lockCount>>
      PROVE  Input!TypeOK' /\ InputInv'
  <2>1. waiters' \in [Input!Gates -> Seq(Input!Waits)]
    BY <1>3, AppendProperties DEF Input!TypeOK
  <2>2. InputInv'
    BY <1>1, <1>3
       DEF Input!sections, InputInv, ParentInv, ScopeInv, StageInv, QueueInv, InLine,
            LockInv, CountInv, Counted, ExclusiveInv, BrokenInv, Own, Begun
  <2> QED
    BY <1>1, <1>3, <2>1, <2>2 DEF Input!TypeOK, Input!sections
<1> QED
  BY <1>2, <1>3 DEF Input!Wait, Input!WaitGate

LEMMA CancelStep ==
  ASSUME Input!TypeOK, InputInv, NEW w \in Input!Waits, Input!Cancel(w)
  PROVE  Input!TypeOK' /\ InputInv'
<1>1. UNCHANGED <<Input!sections, waitingChildren, lock, lockCount, broken, refs>>
  BY DEF Input!Cancel
<1>2. waiters' \in [Input!Gates -> Seq(Input!Waits)]
  BY OneLeaves DEF Input!Cancel, Input!TypeOK
<1>3. InputInv'
  BY <1>1
     DEF Input!sections, InputInv, ParentInv, ScopeInv, StageInv, QueueInv, InLine, LockInv,
         CountInv, Counted, ExclusiveInv, BrokenInv, Own, Begun
<1> QED
  BY <1>1, <1>2, <1>3 DEF Input!TypeOK, Input!sections

\* A lock that someone holds is no section's own.
LEMMA HeldLock ==
  ASSUME Input!TypeOK, InputInv, NEW l \in Input!Held
  PROVE  /\ l \in Input!Locks /\ lock[l] # Input!Free /\ lock[l] \in Input!Gates /\ Begun(lock[l])
         /\ \A s \in Input!Sections : ~Own(s, l)
  BY DEF Input!Held, Input!TypeOK, InputInv, LockInv, Own

LEMMA AddRefStep ==
  ASSUME Input!TypeOK, InputInv, NEW l \in Input!Locks, Input!AddRef(l)
  PROVE  Input!TypeOK' /\ InputInv'
<1>1. /\ l \in Input!Held /\ refs' = refs + 1 /\ refs < MaxRefs
      /\ UNCHANGED <<Input!sections, Input!queues, broken>>
  BY DEF Input!AddRef
<1>2. PICK m \in Input!Locks : lock[m] = Input!Free /\ Input!TakeLock(m, lock[l])
  BY DEF Input!AddRef, Input!Fresh
<1> DEFINE g == lock[l]
<1>3. g \in Input!Gates /\ Begun(g) /\ lock[l] # Input!Free
  BY <1>1, HeldLock
<1>4. \A s \in Input!Sections, k \in Input!Locks : Own(s, k) => lock[k] # scope[g]
  <2> SUFFICES ASSUME NEW s \in Input!Sections, NEW k \in Input!Locks, Own(s, k), lock[k] = scope[g]
               PROVE  FALSE
    OBVIOUS
  <2>1. scope[lock[k]] = lock[k] /\ l \in Counted(lock[k])
    BY <1>3, ScopeOfBegun DEF Counted
  <2>2. k = l
    BY <2>1 DEF InputInv, ExclusiveInv
  <2> QED
    BY <1>1, <2>2, HeldLock
<1>5. InputInv'
  BY <1>1, <1>2, <1>3, <1>4, TakenInv DEF Input!queues
<1>6. /\ lock' \in [Input!Locks -> Input!Gates \cup {Input!Free}]
      /\ lockCount' \in [Input!Gates -> 0..MaxInputLocks]
  BY <1>1, <1>2, <1>3, LockTaken DEF Input!sections
<1>7. refs' \in 0..MaxRefs
  BY <1>1, InputAssumption DEF Input!TypeOK, Input!InputGateAssumption
<1> QED
  BY <1>1, <1>5, <1>6, <1>7 DEF Input!TypeOK, Input!queues, Input!sections

LEMMA StartCriticalSectionStep ==
  ASSUME Input!TypeOK, InputInv, NEW l \in Input!Locks, NEW s \in Input!Sections,
         Input!StartCriticalSection(l, s)
  PROVE  Input!TypeOK' /\ InputInv'
<1> DEFINE g == lock[l]
<1>1. /\ g \in Input!Gates /\ Begun(g) /\ lock[l] # Input!Free
      /\ state[s] = "unused" /\ \A r \in 1..(s - 1) : state[r] # "unused"
      /\ state' = [state EXCEPT ![s] = "NOT_STARTED"]
      /\ parent' = [parent EXCEPT ![s] = g]
      /\ ancestors' = [ancestors EXCEPT ![s] = {g} \cup ancestors[g]]
      /\ UNCHANGED <<scope, parentLock, granted, rejected, lock, lockCount, Input!queues, broken,
                     refs>>
  BY HeldLock DEF Input!StartCriticalSection
<1> HIDE DEF g
<1>2. Input!TypeOK'
  <2>1. state' \in [Input!Sections -> Input!SectionStates]
    BY <1>1 DEF Input!TypeOK, Input!SectionStates
  <2>2. /\ parent' \in [Input!Sections -> Input!Gates]
        /\ ancestors' \in [Input!Gates -> SUBSET Input!Gates]
    BY <1>1, Bounds DEF Input!TypeOK
  <2> QED
    BY <1>1, <2>1, <2>2 DEF Input!TypeOK, Input!queues
<1>3. \A x : Begun(x)' <=> Begun(x)
  BY <1>1 DEF Begun, Input!TypeOK
<1>4. \A r \in Input!Sections : r # s => state'[r] = state[r] /\ parent'[r] = parent[r]
  BY <1>1 DEF Input!TypeOK
<1>5. state'[s] = "NOT_STARTED" /\ parent'[s] = g /\ g < s
  <2>1. state'[s] = "NOT_STARTED" /\ parent'[s] = g
    BY <1>1 DEF Input!TypeOK
  <2>2. g = Input!Root \/ (g \in Input!Sections /\ state[g] # "unused")
    BY <1>1, Bounds DEF Begun
  <2>3. g < s
    BY <1>1, <2>2, Bounds, InputAssumption
       DEF InputInv, ParentInv, Input!Sections, Input!InputGateAssumption
  <2> QED
    BY <2>1, <2>3
<1>6. ParentInv'
  <2>1. \A r \in Input!Sections : parent'[r] < r /\ Begun(parent[r])'
    BY <1>1, <1>3, <1>4, <1>5 DEF InputInv, ParentInv, Begun
  <2>2. ASSUME NEW r \in Input!Sections, NEW t \in Input!Sections, r < t, state'[r] = "unused"
        PROVE  state'[t] = "unused"
    <3>1. r # s /\ state[r] = "unused"
      BY <1>4, <1>5, <2>2
    <3>2. t # s
      BY <1>1, <2>2, <3>1, InputAssumption DEF Input!Sections, Input!InputGateAssumption
    <3> QED
      BY <1>4, <2>2, <3>1, <3>2 DEF InputInv, ParentInv
  <2> QED
    BY <2>1, <2>2 DEF ParentInv
<1>7. ScopeInv'
  BY <1>1, <1>3, <1>4, <1>5 DEF InputInv, ScopeInv
<1>8. StageInv'
  BY <1>1, <1>4 DEF InputInv, StageInv
<1>9. QueueInv'
  <2>1. \A x \in Input!Gates : \A i \in 1..Len(waitingChildren[x]) :
          waitingChildren[x][i] # s /\ waitingChildren[x][i] \in Input!Sections
    BY <1>1, ElementOfSeq DEF InputInv, QueueInv, InLine, Input!TypeOK
  <2> QED
    BY <1>1, <1>4, <2>1 DEF InputInv, QueueInv, InLine, Input!queues
<1>10. LockInv' /\ CountInv' /\ ExclusiveInv'
  <2>1. \A m \in Input!Locks : ~Own(s, m)
    BY <1>1 DEF InputInv, StageInv, Own
  <2> QED
    BY <1>1, <1>3, <1>4, <2>1
       DEF InputInv, LockInv, CountInv, ExclusiveInv, Counted, Own, Begun
<1>11. BrokenInv'
  <2>1. Input!Root \in ancestors'[s]
    BY <1>1, <1>5, Bounds DEF InputInv, BrokenInv, Begun, Input!TypeOK
  <2>2. \A r \in Input!Sections : r # s => ancestors'[r] = ancestors[r]
    BY <1>1, Bounds DEF Input!TypeOK
  <2> QED
    BY <1>1, <1>4, <2>1, <2>2 DEF InputInv, BrokenInv
<1> QED
  BY <1>2, <1>6, <1>7, <1>8, <1>9, <1>10, <1>11 DEF InputInv

-----------------------------------------------------------------------------
(***************************************************************************)
(* Locks that are released.                                                *)
(***************************************************************************)

\* What releaseLock() keeps, whoever releases lock l on gate g: nobody owns it, queues were
\* emptied at most, and a section that is queued was not rejected.
Releasing(l, g, children) ==
  /\ l \in Counted(g)
  /\ \A t \in Input!Sections :
       parentLock'[t] \in {parentLock[t], Input!None} /\ parentLock'[t] # l /\ granted[t] # l
  /\ \A x \in Input!Gates : children[x] \in {waitingChildren[x], <<>>}
  /\ \A t \in Input!Sections :
       t \in rejected' /\ t \notin rejected =>
         state[t] = "INITIAL_WAIT" /\ \E x \in Input!Gates : \E i \in 1..Len(waitingChildren[x]) :
           waitingChildren[x][i] = t
  /\ \A x \in Input!Gates : \A i \in 1..Len(children[x]) : children[x][i] \notin rejected'
  /\ UNCHANGED <<state, parent, ancestors, scope>>

LEMMA GrantedIsNotRejected ==
  ASSUME InputInv, NEW l, NEW g, NEW children, Releasing(l, g, children)
  PROVE  \A s \in Input!Sections : granted[s] # Input!None => s \notin rejected'
<1> SUFFICES ASSUME NEW s \in Input!Sections, granted[s] # Input!None PROVE s \notin rejected'
  OBVIOUS
<1>1. s \notin rejected
  BY DEF InputInv, StageInv
<1>2. \A x \in Input!Gates : \A i \in 1..Len(waitingChildren[x]) : waitingChildren[x][i] # s
  BY DEF InputInv, QueueInv, InLine
<1> QED
  BY <1>1, <1>2 DEF Releasing

\* The last lock is replaced by one for nobody, so the lock is gone.
LEMMA Gone ==
  ASSUME Input!TypeOK, InputInv, NEW g \in Input!Gates, NEW l, NEW children,
         Releasing(l, g, children), lock' = [lock EXCEPT ![l] = Input!Free],
         lockCount' = [lockCount EXCEPT ![g] = @ - 1],
         waitingChildren' = children, UNCHANGED granted
  PROVE  /\ ParentInv' /\ ScopeInv' /\ StageInv' /\ QueueInv' /\ LockInv' /\ CountInv'
         /\ ExclusiveInv'
         /\ lock' \in [Input!Locks -> Input!Gates \cup {Input!Free}]
         /\ lockCount' \in [Input!Gates -> 0..MaxInputLocks]
<1>1. /\ l \in Input!Locks /\ l \in Counted(g)
      /\ lock' \in [Input!Locks -> Input!Gates \cup {Input!Free}]
      /\ \A m \in Input!Locks : lock'[m] = IF m = l THEN Input!Free ELSE lock[m]
      /\ UNCHANGED <<state, parent, ancestors, scope>>
  BY DEF Releasing, Counted, Input!TypeOK
<1>2. \A x \in Input!Gates : Counted(x)' = IF x = g THEN Counted(x) \ {l} ELSE Counted(x)
  BY <1>1 DEF Counted
<1>3. \A x \in Input!Gates : lockCount'[x] = Cardinality(Counted(x)')
  <2>1. \A x \in Input!Gates : /\ Counted(x) \in SUBSET Input!Locks
                                  /\ lockCount[x] = Cardinality(Counted(x))
    BY DEF InputInv, CountInv, Counted
  <2>2. Cardinality(Counted(g) \ {l}) = Cardinality(Counted(g)) - 1
    BY <1>1, <2>1, SetOfLocks, FS_RemoveElement
  <2> QED
    BY <1>2, <2>1, <2>2 DEF Input!TypeOK
<1>4. lockCount' \in [Input!Gates -> Int]
  BY InputAssumption DEF Input!TypeOK, Input!InputGateAssumption
<1>5. lockCount' \in [Input!Gates -> 0..MaxInputLocks]
  <2>1. \A x \in Input!Gates : lockCount'[x] \in 0..MaxInputLocks
    BY <1>3, SetOfLocks DEF Counted
  <2> QED
    BY <1>4, <2>1
<1>6. ParentInv' /\ ScopeInv'
  BY <1>1 DEF InputInv, ParentInv, ScopeInv, Begun
<1>7. \A s \in Input!Sections, m \in Input!Locks : Own(s, m)' => Own(s, m) /\ m # l
  BY Bounds DEF Releasing, Own
<1>8. StageInv'
  <2>1. \A s \in Input!Sections : granted[s] # Input!None => s \notin rejected'
    BY GrantedIsNotRejected
  <2> QED
    BY <1>1, <2>1 DEF InputInv, StageInv, Releasing
<1>9. QueueInv'
  <2>1. \A x \in Input!Gates : \A i \in 1..Len(children[x]) :
          children[x] = waitingChildren[x] /\ i \in 1..Len(waitingChildren[x])
    BY EmptySeq DEF Releasing
  <2> QED
    BY <1>1, <2>1 DEF InputInv, QueueInv, InLine, Releasing
<1>10. LockInv'
  BY <1>1, <1>7 DEF InputInv, LockInv, Begun
<1>11. ExclusiveInv'
  <2>1. ASSUME NEW s \in Input!Sections, NEW m \in Input!Locks, NEW x \in Input!Gates,
               Own(s, m), lock[m] = x, scope[x] = x
        PROVE  \A k \in Counted(x)' : k = m
    BY <1>2, <2>1 DEF InputInv, ExclusiveInv
  <2>2. \A s \in Input!Sections, m \in Input!Locks : Own(s, m) => lock[m] \in Input!Gates
    BY DEF InputInv, LockInv, Input!TypeOK
  <2> QED
    BY <1>1, <1>7, <2>1, <2>2 DEF ExclusiveInv
<1> QED
  BY <1>1, <1>3, <1>5, <1>6, <1>8, <1>9, <1>10, <1>11 DEF CountInv

\* The last lock is replaced by one for whoever comes next: a waiter, ...
LEMMA Replaced ==
  ASSUME Input!TypeOK, InputInv, NEW g \in Input!Gates, NEW l, NEW children,
         Releasing(l, g, children), lockCount[g] = 1,
         lock' = [lock EXCEPT ![l] = g], UNCHANGED lockCount
  PROVE  /\ l \in Input!Locks /\ scope[g] = g /\ Begun(g)
         /\ lock' \in [Input!Locks -> Input!Gates \cup {Input!Free}]
         /\ \A m \in Input!Locks : lock'[m] = IF m = l THEN g ELSE lock[m]
         /\ \A x \in Input!Gates : Counted(x)' = Counted(x)
         /\ CountInv' /\ Counted(g) = {l}
<1>1. /\ l \in Input!Locks /\ lock[l] # Input!Free /\ scope[lock[l]] = g /\ scope' = scope
      /\ l \in Counted(g) /\ lock[l] \in Input!Gates /\ Begun(lock[l])
  BY DEF Releasing, Counted, Input!TypeOK, InputInv, LockInv
<1>2. scope[g] = g /\ Begun(g) /\ g # Input!Free
  BY <1>1, ScopeOfBegun, Bounds
<1>3. \A m \in Input!Locks : lock'[m] = IF m = l THEN g ELSE lock[m]
  BY <1>1 DEF Input!TypeOK
<1>4. \A x \in Input!Gates : Counted(x)' = Counted(x)
  BY <1>1, <1>2, <1>3 DEF Counted
<1>5. CountInv'
  BY <1>4 DEF InputInv, CountInv
<1>6. lock' \in [Input!Locks -> Input!Gates \cup {Input!Free}]
  BY <1>1 DEF Input!TypeOK
<1> QED
  BY <1>1, <1>2, <1>3, <1>4, <1>5, <1>6, CountOfOne

LEMMA ReplacedForWaiter ==
  ASSUME Input!TypeOK, InputInv, NEW g \in Input!Gates, NEW l, NEW children,
         Releasing(l, g, children), lockCount[g] = 1,
         lock' = [lock EXCEPT ![l] = g], UNCHANGED <<lockCount, granted>>,
         waitingChildren' = children
  PROVE  ParentInv' /\ ScopeInv' /\ StageInv' /\ QueueInv' /\ LockInv' /\ ExclusiveInv'
<1>1. UNCHANGED <<state, parent, ancestors, scope>>
  BY DEF Releasing
<1>2. ParentInv' /\ ScopeInv'
  BY <1>1 DEF InputInv, ParentInv, ScopeInv, Begun
<1>3. \A s \in Input!Sections, m \in Input!Locks : Own(s, m)' => Own(s, m) /\ m # l
  BY Bounds DEF Releasing, Own
<1>4. StageInv'
  <2>1. \A s \in Input!Sections : granted[s] # Input!None => s \notin rejected'
    BY GrantedIsNotRejected
  <2> QED
    BY <1>1, <2>1 DEF InputInv, StageInv, Releasing
<1>5. QueueInv'
  <2>1. \A x \in Input!Gates : \A i \in 1..Len(children[x]) :
          children[x] = waitingChildren[x] /\ i \in 1..Len(waitingChildren[x])
    BY EmptySeq DEF Releasing
  <2> QED
    BY <1>1, <2>1 DEF InputInv, QueueInv, InLine, Releasing
<1>6. /\ l \in Input!Locks /\ scope[g] = g /\ Begun(g)
      /\ \A m \in Input!Locks : lock'[m] = IF m = l THEN g ELSE lock[m]
      /\ \A x \in Input!Gates : Counted(x)' = Counted(x)
  BY Replaced
<1>7. LockInv'
  BY <1>1, <1>3, <1>6 DEF InputInv, LockInv, Begun
<1>8. ExclusiveInv'
  <2>1. ASSUME NEW s \in Input!Sections, NEW m \in Input!Locks, NEW x \in Input!Gates,
               Own(s, m), lock[m] = x, scope[x] = x
        PROVE  \A k \in Counted(x)' : k = m
    BY <1>6, <2>1 DEF InputInv, ExclusiveInv
  <2>2. \A s \in Input!Sections, m \in Input!Locks : Own(s, m) => lock[m] \in Input!Gates
    BY DEF InputInv, LockInv, Input!TypeOK
  <2> QED
    BY <1>1, <1>3, <1>6, <2>1, <2>2 DEF ExclusiveInv
<1> QED
  BY <1>2, <1>4, <1>5, <1>7, <1>8

\* ... or the first section that is queued.
LEMMA ReplacedForChild ==
  ASSUME Input!TypeOK, InputInv, NEW g \in Input!Gates, NEW l,
         NEW children \in [Input!Gates -> Seq(Input!Sections)], Releasing(l, g, children),
         lockCount[g] = 1, lock' = [lock EXCEPT ![l] = g], UNCHANGED lockCount, children[g] # <<>>,
         granted' = [granted EXCEPT ![Head(children[g])] = l],
         waitingChildren' = [children EXCEPT ![g] = Tail(@)]
  PROVE  /\ ParentInv' /\ ScopeInv' /\ StageInv' /\ QueueInv' /\ LockInv' /\ ExclusiveInv'
         /\ granted' \in [Input!Sections -> Input!Locks \cup {Input!None}]
         /\ waitingChildren' \in [Input!Gates -> Seq(Input!Sections)]
<1> DEFINE c == Head(children[g])
<1>1. /\ l \in Input!Locks /\ scope[g] = g /\ Begun(g)
      /\ \A m \in Input!Locks : lock'[m] = IF m = l THEN g ELSE lock[m]
      /\ \A x \in Input!Gates : Counted(x)' = Counted(x)
      /\ Counted(g) = {l}
  BY Replaced
<1>2. UNCHANGED <<state, parent, ancestors, scope>>
  BY DEF Releasing
<1>3. /\ children[g] \in Seq(Input!Sections) /\ children[g] = waitingChildren[g]
      /\ Len(children[g]) \in Nat /\ Len(children[g]) >= 1
      /\ c \in Input!Sections /\ c = children[g][1]
      /\ Tail(children[g]) \in Seq(Input!Sections) /\ Len(Tail(children[g])) = Len(children[g]) - 1
      /\ \A i \in 1..Len(Tail(children[g])) : Tail(children[g])[i] = children[g][i + 1]
  BY LenProperties, EmptySeq, HeadTailProperties DEF Releasing
<1>4. /\ state[c] = "INITIAL_WAIT" /\ granted[c] = Input!None /\ c \notin rejected'
      /\ scope[parent[c]] = g
  <2>1. 1 \in 1..Len(children[g])
    BY <1>3
  <2> QED
    BY <1>3, <2>1 DEF InputInv, QueueInv, InLine, Releasing
<1>5. /\ granted' \in [Input!Sections -> Input!Locks \cup {Input!None}]
      /\ \A t \in Input!Sections : granted'[t] = IF t = c THEN l ELSE granted[t]
  BY <1>1, <1>2, <1>3 DEF Input!TypeOK
<1>6. /\ waitingChildren' \in [Input!Gates -> Seq(Input!Sections)]
      /\ \A x \in Input!Gates :
           waitingChildren'[x] = IF x = g THEN Tail(children[g]) ELSE children[x]
  BY <1>3
<1> HIDE DEF c
<1>7. ParentInv' /\ ScopeInv'
  BY <1>1, <1>2 DEF InputInv, ParentInv, ScopeInv, Begun
<1>8. \A s \in Input!Sections, m \in Input!Locks :
        Own(s, m)' => (Own(s, m) /\ m # l) \/ (s = c /\ m = l)
  BY <1>1, <1>2, <1>5, Bounds DEF Releasing, Own
<1>9. StageInv'
  <2>1. \A s \in Input!Sections : granted[s] # Input!None => s \notin rejected'
    BY GrantedIsNotRejected
  <2> QED
    BY <1>1, <1>2, <1>4, <1>5, <2>1 DEF InputInv, StageInv, Releasing
<1>10. QueueInv'
  <2>1. ASSUME NEW x \in Input!Gates, NEW i \in 1..Len(waitingChildren'[x])
        PROVE  \E j \in 1..Len(waitingChildren[x]) :
                 /\ waitingChildren'[x][i] = waitingChildren[x][j]
                 /\ waitingChildren[x][j] = children[x][j] /\ j \in 1..Len(children[x])
                 /\ j = (IF x = g THEN i + 1 ELSE i)
    <3>1. CASE x = g
      BY <1>3, <1>6, <2>1, <3>1
    <3>2. CASE x # g
      BY <1>6, <2>1, <3>2, EmptySeq DEF Releasing
    <3> QED
      BY <3>1, <3>2
  <2>2. ASSUME NEW x \in Input!Gates, NEW i \in 1..Len(waitingChildren'[x]),
               NEW j \in 1..Len(waitingChildren'[x]), 
               waitingChildren'[x][i] = waitingChildren'[x][j]
        PROVE  i = j
    <3>1. PICK k \in 1..Len(waitingChildren[x]) :
            waitingChildren'[x][i] = waitingChildren[x][k] /\ k = (IF x = g THEN i + 1 ELSE i)
      BY <2>1
    <3>2. PICK n \in 1..Len(waitingChildren[x]) :
            waitingChildren'[x][j] = waitingChildren[x][n] /\ n = (IF x = g THEN j + 1 ELSE j)
      BY <2>1
    <3>3. k = n
      BY <2>2, <3>1, <3>2 DEF InputInv, QueueInv, InLine
    <3> QED
      BY <3>1, <3>2, <3>3
  <2>3. ASSUME NEW x \in Input!Gates, NEW i \in 1..Len(waitingChildren'[x])
        PROVE  InLine(waitingChildren[x][i], x)'
    <3>1. PICK j \in 1..Len(waitingChildren[x]) :
            /\ waitingChildren'[x][i] = waitingChildren[x][j]
            /\ waitingChildren[x][j] = children[x][j] /\ j \in 1..Len(children[x])
            /\ j = (IF x = g THEN i + 1 ELSE i)
      BY <2>1
    <3>2. PICK s : s = waitingChildren[x][j]
      OBVIOUS
    <3>3. /\ state[s] = "INITIAL_WAIT" /\ granted[s] = Input!None /\ scope[parent[s]] = x
      BY <3>1, <3>2 DEF InputInv, QueueInv, InLine
    <3>4. s \notin rejected'
      BY <3>1, <3>2 DEF Releasing
    <3>5. s \in Input!Sections
      BY <3>2, ElementOfSeq DEF Input!TypeOK
    <3>6. s # c
      <4>1. CASE x = g
        <5>1. j # 1 /\ 1 \in 1..Len(waitingChildren[x])
          BY <1>3, <3>1, <4>1
        <5> QED
          BY <1>3, <3>2, <4>1, <5>1 DEF InputInv, QueueInv, InLine
      <4>2. CASE x # g
        BY <1>4, <3>3, <4>2
      <4> QED
        BY <4>1, <4>2
    <3> QED
      BY <1>2, <1>5, <3>1, <3>2, <3>3, <3>4, <3>5, <3>6 DEF InLine
  <2> QED
    BY <2>2, <2>3 DEF QueueInv
<1>11. LockInv'
  <2>1. \A m \in Input!Locks : lock'[m] # Input!Free => Begun(lock[m])'
    BY <1>1, <1>2 DEF InputInv, LockInv, Begun
  <2>2. ASSUME NEW s \in Input!Sections, NEW m \in Input!Locks, Own(s, m)'
        PROVE  /\ lock'[m] # Input!Free /\ scope'[lock'[m]] = scope'[parent'[s]]
               /\ \A t \in Input!Sections : Own(t, m)' => t = s
    <3>1. CASE Own(s, m) /\ m # l
      BY <1>1, <1>2, <1>8, <2>2, <3>1 DEF InputInv, LockInv
    <3>2. CASE s = c /\ m = l
      BY <1>1, <1>2, <1>3, <1>4, <1>8, <2>2, <3>2, Bounds
    <3> QED
      BY <1>8, <2>2, <3>1, <3>2
  <2> QED
    BY <2>1, <2>2 DEF LockInv
<1>12. ExclusiveInv'
  <2>1. ASSUME NEW s \in Input!Sections, NEW m \in Input!Locks, NEW x \in Input!Gates,
               Own(s, m), lock[m] = x, scope[x] = x
        PROVE  \A k \in Counted(x)' : k = m
    BY <1>1, <1>2, <2>1 DEF InputInv, ExclusiveInv
  <2>2. \A s \in Input!Sections, m \in Input!Locks : Own(s, m) => lock[m] \in Input!Gates
    BY DEF InputInv, LockInv, Input!TypeOK
  <2>3. \A k \in Counted(g)' : k = l
    BY <1>1, <1>2
  <2> QED
    BY <1>1, <1>2, <1>8, <2>1, <2>2, <2>3 DEF ExclusiveInv
<1> QED
  BY <1>5, <1>6, <1>7, <1>9, <1>10, <1>11, <1>12

LEMMA HandedOver ==
  ASSUME Input!TypeOK, InputInv, NEW g \in Input!Gates, NEW l,
         NEW children \in [Input!Gates -> Seq(Input!Sections)],
         NEW others \in [Input!Gates -> Seq(Input!Waits)],
         Releasing(l, g, children), Input!HandOver(l, g, children, others)
  PROVE  /\ ParentInv' /\ ScopeInv' /\ StageInv' /\ QueueInv' /\ LockInv' /\ CountInv'
         /\ ExclusiveInv'
         /\ lock' \in [Input!Locks -> Input!Gates \cup {Input!Free}]
         /\ lockCount' \in [Input!Gates -> 0..MaxInputLocks]
         /\ granted' \in [Input!Sections -> Input!Locks \cup {Input!None}]
         /\ waiters' \in [Input!Gates -> Seq(Input!Waits)]
         /\ waitingChildren' \in [Input!Gates -> Seq(Input!Sections)]
<1>1. CASE /\ lock' = [lock EXCEPT ![l] = Input!Free]
           /\ lockCount' = [lockCount EXCEPT ![g] = @ - 1]
           /\ waiters' = others /\ waitingChildren' = children /\ UNCHANGED granted
  BY <1>1, Gone DEF Input!TypeOK
<1>2. CASE /\ lockCount[g] = 1 /\ lock' = [lock EXCEPT ![l] = g] /\ UNCHANGED lockCount
           /\ children[g] # <<>> /\ granted' = [granted EXCEPT ![Head(children[g])] = l]
           /\ waitingChildren' = [children EXCEPT ![g] = Tail(@)] /\ waiters' = others
  BY <1>2, Replaced, ReplacedForChild DEF Input!TypeOK
<1>3. CASE /\ lockCount[g] = 1 /\ lock' = [lock EXCEPT ![l] = g] /\ UNCHANGED lockCount
           /\ others[g] # <<>> /\ waiters' = [others EXCEPT ![g] = Tail(@)]
           /\ waitingChildren' = children /\ UNCHANGED granted
  <2>1. waiters' \in [Input!Gates -> Seq(Input!Waits)]
    BY <1>3, HeadTailProperties
  <2> QED
    BY <1>3, <2>1, Replaced, ReplacedForWaiter DEF Input!TypeOK
<1> QED
  BY <1>1, <1>2, <1>3 DEF Input!HandOver

LEMMA ReleaseStep ==
  ASSUME Input!TypeOK, InputInv, NEW l \in Input!Locks, Input!Release(l)
  PROVE  Input!TypeOK' /\ InputInv'
<1> DEFINE g == scope[lock[l]]
<1>1. /\ l \in Input!Held /\ g \in Input!Gates /\ l \in Counted(g)
      /\ UNCHANGED <<state, parent, ancestors, scope, parentLock, rejected, broken, refs>>
  BY HeldLock DEF Input!Release, Counted, Input!TypeOK
<1>2. Releasing(l, g, waitingChildren)
  BY <1>1, HeldLock, Bounds DEF Releasing, Own, InputInv, QueueInv, InLine
<1>3. /\ ParentInv' /\ ScopeInv' /\ StageInv' /\ QueueInv' /\ LockInv' /\ CountInv'
      /\ ExclusiveInv'
      /\ lock' \in [Input!Locks -> Input!Gates \cup {Input!Free}]
      /\ lockCount' \in [Input!Gates -> 0..MaxInputLocks]
      /\ granted' \in [Input!Sections -> Input!Locks \cup {Input!None}]
      /\ waiters' \in [Input!Gates -> Seq(Input!Waits)]
      /\ waitingChildren' \in [Input!Gates -> Seq(Input!Sections)]
  BY <1>1, <1>2, HandedOver DEF Input!Release, Input!TypeOK
<1>4. BrokenInv'
  BY <1>1 DEF InputInv, BrokenInv
<1> QED
  BY <1>1, <1>3, <1>4 DEF InputInv, Input!TypeOK

-----------------------------------------------------------------------------
(***************************************************************************)
(* Critical sections.                                                      *)
(***************************************************************************)

LEMMA ParentOf ==
  ASSUME Input!TypeOK, InputInv, NEW s \in Input!Sections
  PROVE  /\ Input!ParentGate(s) \in Input!Gates /\ Input!ParentGate(s) # s
         /\ Input!ParentGate(s) = scope[parent[s]]
         /\ Begun(Input!ParentGate(s)) /\ scope[Input!ParentGate(s)] = Input!ParentGate(s)
<1>1. parent[s] \in Input!Gates /\ parent[s] < s /\ Begun(parent[s])
  BY DEF Input!TypeOK, InputInv, ParentInv
<1>2. scope[parent[s]] <= parent[s] /\ scope[parent[s]] \in Input!Gates
  BY <1>1, ScopeOfBegun
<1>3. s \in Nat /\ parent[s] \in Nat /\ scope[parent[s]] \in Nat
  BY <1>1, <1>2, Bounds
<1>4. scope[parent[s]] # s
  BY <1>1, <1>2, <1>3
<1> QED
  BY <1>1, <1>2, <1>4, ScopeOfBegun DEF Input!ParentGate

LEMMA NotBegun ==
  ASSUME Input!TypeOK, InputInv, NEW s \in Input!Sections, ~Begun(s)
  PROVE  /\ scope[s] = s /\ Counted(s) = {} /\ lockCount[s] = 0
         /\ \A l \in Input!Locks : lock[l] # s
<1>1. scope[s] = s
  BY DEF InputInv, ScopeInv, Begun
<1>2. \A l \in Input!Locks : lock[l] # s
  BY Bounds DEF InputInv, LockInv
<1>3. Counted(s) = {}
  BY <1>2 DEF Counted, InputInv, ScopeInv, Input!TypeOK
<1> QED
  BY <1>1, <1>2, <1>3, Bounds, FS_EmptySet DEF InputInv, CountInv

\* A section that waits for the first time, and one that begins.
LEMMA StageStep ==
  ASSUME Input!TypeOK, InputInv, NEW s \in Input!Sections, state[s] \in {"NOT_STARTED",
         "INITIAL_WAIT"},
         NEW stage \in {"INITIAL_WAIT", "RUNNING"}, state' = [state EXCEPT ![s] = stage],
         UNCHANGED <<parent, scope>>
  PROVE  /\ ParentInv' /\ ScopeInv' /\ state' \in [Input!Sections -> Input!SectionStates]
         /\ state'[s] = stage /\ \A t \in Input!Sections : t # s => state'[t] = state[t]
         /\ \A g \in Input!Gates : Begun(g) => Begun(g)'
         /\ \A l \in Input!Locks : lock[l] # Input!Free => Begun(lock[l]) /\ lock[l] # s
<1>1. /\ state'[s] = stage /\ \A t \in Input!Sections : t # s => state'[t] = state[t]
      /\ state' \in [Input!Sections -> Input!SectionStates]
  BY DEF Input!TypeOK, Input!SectionStates
<1>2. \A g \in Input!Gates : Begun(g) => Begun(g)'
  BY DEF Begun, Input!TypeOK
<1>3. ParentInv'
  <2>1. \A t \in Input!Sections : parent'[t] < t /\ Begun(parent[t])'
    BY <1>2 DEF InputInv, ParentInv, Begun, Input!TypeOK
  <2>2. \A t \in Input!Sections : state'[t] = "unused" <=> state[t] = "unused"
    BY <1>1
  <2> QED
    BY <2>1, <2>2 DEF InputInv, ParentInv
<1>4. ScopeInv'
  BY <1>1, <1>2, Bounds DEF InputInv, ScopeInv
<1>5. ~Begun(s)
  BY Bounds DEF Begun
<1> QED
  BY <1>1, <1>2, <1>3, <1>4, <1>5 DEF InputInv, LockInv

LEMMA FirstWaitRejectedInv ==
  ASSUME Input!TypeOK, InputInv, NEW s \in Input!Sections, state[s] = "NOT_STARTED",
         broken[Input!ParentGate(s)], state' = [state EXCEPT ![s] = "INITIAL_WAIT"],
         broken' = [broken EXCEPT ![s] = TRUE],
         UNCHANGED <<parent, ancestors, scope, parentLock, granted, rejected, lock, lockCount,
                     waitingChildren>>
  PROVE  InputInv'
<1>1. /\ ParentInv' /\ ScopeInv' /\ state'[s] = "INITIAL_WAIT"
      /\ \A t \in Input!Sections : t # s => state'[t] = state[t]
      /\ \A g \in Input!Gates : Begun(g) => Begun(g)'
  BY StageStep
<1>2. StageInv'
  BY <1>1 DEF InputInv, StageInv
<1>3. QueueInv'
  <2>1. \A g \in Input!Gates : \A i \in 1..Len(waitingChildren[g]) :
          waitingChildren[g][i] \in Input!Sections
    BY ElementOfSeq DEF Input!TypeOK
  <2> QED
    BY <1>1, <2>1 DEF InputInv, QueueInv, InLine
<1>4. LockInv' /\ CountInv' /\ ExclusiveInv'
  BY <1>1 DEF InputInv, LockInv, CountInv, ExclusiveInv, Counted, Own, Begun
<1>5. BrokenInv'
  <2>1. broken'[Input!Root]
    BY ParentOf, Bounds DEF InputInv, BrokenInv, Input!TypeOK
  <2> QED
    BY <1>1, <2>1 DEF InputInv, BrokenInv
<1> QED
  BY <1>1, <1>2, <1>3, <1>4, <1>5 DEF InputInv

LEMMA FirstWaitQueuedInv ==
  ASSUME Input!TypeOK, InputInv, NEW s \in Input!Sections, state[s] = "NOT_STARTED",
         state' = [state EXCEPT ![s] = "INITIAL_WAIT"],
         waitingChildren' = [waitingChildren EXCEPT ![Input!ParentGate(s)] = Append(@, s)],
         UNCHANGED <<parent, ancestors, scope, parentLock, granted, rejected, lock, lockCount,
                     broken>>
  PROVE  InputInv' /\ waitingChildren' \in [Input!Gates -> Seq(Input!Sections)]
<1>1. /\ ParentInv' /\ ScopeInv' /\ state'[s] = "INITIAL_WAIT"
      /\ \A t \in Input!Sections : t # s => state'[t] = state[t]
      /\ \A g \in Input!Gates : Begun(g) => Begun(g)'
  BY StageStep
<1>2. PICK p \in Input!Gates : p = Input!ParentGate(s) /\ p = scope[parent[s]]
  BY ParentOf
<1>3. StageInv'
  BY <1>1 DEF InputInv, StageInv
<1>4. /\ waitingChildren[p] \in Seq(Input!Sections) /\ Len(waitingChildren[p]) \in Nat
      /\ waitingChildren' \in [Input!Gates -> Seq(Input!Sections)]
      /\ \A x \in Input!Gates : x # p => waitingChildren'[x] = waitingChildren[x]
      /\ waitingChildren'[p] = Append(waitingChildren[p], s)
      /\ Len(waitingChildren'[p]) = Len(waitingChildren[p]) + 1
      /\ \A i \in 1..Len(waitingChildren[p]) : waitingChildren'[p][i] = waitingChildren[p][i]
      /\ waitingChildren'[p][Len(waitingChildren[p]) + 1] = s
  BY <1>2, AppendProperties, LenProperties DEF Input!TypeOK
<1>5. \A x \in Input!Gates : \A i \in 1..Len(waitingChildren[x]) :
        waitingChildren[x][i] \in Input!Sections /\ waitingChildren[x][i] # s
  BY ElementOfSeq DEF Input!TypeOK, InputInv, QueueInv, InLine
<1>6. QueueInv'
  <2>1. ASSUME NEW x \in Input!Gates, x # p
        PROVE  /\ \A i, j \in 1..Len(waitingChildren'[x]) :
                    waitingChildren'[x][i] = waitingChildren'[x][j] => i = j
               /\ \A i \in 1..Len(waitingChildren'[x]) : InLine(waitingChildren[x][i], x)'
    <3>1. waitingChildren'[x] = waitingChildren[x]
      BY <1>4, <2>1
    <3>2. ASSUME NEW i \in 1..Len(waitingChildren'[x]) PROVE InLine(waitingChildren[x][i], x)'
      <4>1. /\ InLine(waitingChildren[x][i], x)
            /\ waitingChildren'[x][i] = waitingChildren[x][i]
        BY <3>1, <3>2 DEF InputInv, QueueInv
      <4>2. waitingChildren[x][i] \in Input!Sections /\ waitingChildren[x][i] # s
        BY <1>5, <3>1, <3>2
      <4> QED
        BY <1>1, <4>1, <4>2 DEF InLine
    <3>3. \A i, j \in 1..Len(waitingChildren'[x]) :
            waitingChildren'[x][i] = waitingChildren'[x][j] => i = j
      <4>1. \A i, j \in 1..Len(waitingChildren[x]) :
              waitingChildren[x][i] = waitingChildren[x][j] => i = j
        BY DEF InputInv, QueueInv
      <4> QED
        BY <3>1, <4>1, Zenon
    <3> QED
      BY <3>2, <3>3
  <2>2. ASSUME NEW i \in 1..Len(waitingChildren'[p]), NEW j \in 1..Len(waitingChildren'[p]),
               waitingChildren'[p][i] = waitingChildren'[p][j]
        PROVE  i = j
    <3>1. \A k \in 1..Len(waitingChildren'[p]) :
            k \in 1..Len(waitingChildren[p]) \/ k = Len(waitingChildren[p]) + 1
      BY <1>4
    <3> QED
      BY <1>2, <1>4, <1>5, <2>2, <3>1 DEF InputInv, QueueInv
  <2>3. ASSUME NEW i \in 1..Len(waitingChildren'[p]) PROVE InLine(waitingChildren[p][i], p)'
    <3>1. CASE i \in 1..Len(waitingChildren[p])
      <4>1. InLine(waitingChildren[p][i], p) /\ waitingChildren'[p][i] = waitingChildren[p][i]
        BY <1>4, <3>1 DEF InputInv, QueueInv
      <4>2. waitingChildren[p][i] \in Input!Sections /\ waitingChildren[p][i] # s
        BY <1>5, <3>1
      <4> QED
        BY <1>1, <4>1, <4>2 DEF InLine
    <3>2. CASE i = Len(waitingChildren[p]) + 1
      BY <1>1, <1>2, <1>4, <3>2 DEF InputInv, StageInv, InLine
    <3> QED
      BY <1>4, <2>3, <3>1, <3>2
  <2> QED
    BY <2>1, <2>2, <2>3 DEF QueueInv
<1>7. LockInv' /\ CountInv' /\ ExclusiveInv'
  BY <1>1 DEF InputInv, LockInv, CountInv, ExclusiveInv, Counted, Own, Begun
<1>8. BrokenInv'
  BY <1>1 DEF InputInv, BrokenInv
<1> QED
  BY <1>1, <1>3, <1>4, <1>6, <1>7, <1>8 DEF InputInv

LEMMA FirstWaitBeginsInv ==
  ASSUME Input!TypeOK, InputInv, NEW s \in Input!Sections, state[s] = "NOT_STARTED",
         NEW p \in Input!Gates, p = Input!ParentGate(s), lockCount[p] = 0,
         NEW l \in Input!Locks, NEW m \in Input!Locks, l # m,
         lock[l] = Input!Free, lock[m] = Input!Free,
         state' = [state EXCEPT ![s] = "RUNNING"],
         parentLock' = [parentLock EXCEPT ![s] = l],
         lock' = [lock EXCEPT ![l] = p, ![m] = s],
         lockCount' = [lockCount EXCEPT ![p] = @ + 1, ![s] = @ + 1],
         UNCHANGED <<parent, ancestors, scope, granted, rejected, waitingChildren, broken>>
  PROVE  /\ InputInv'
         /\ state' \in [Input!Sections -> Input!SectionStates]
         /\ parentLock' \in [Input!Sections -> Input!Locks \cup {Input!None}]
         /\ lock' \in [Input!Locks -> Input!Gates \cup {Input!Free}]
         /\ lockCount' \in [Input!Gates -> 0..MaxInputLocks]
<1>1. /\ ParentInv' /\ ScopeInv' /\ state' \in [Input!Sections -> Input!SectionStates]
      /\ state'[s] = "RUNNING"
      /\ \A t \in Input!Sections : t # s => state'[t] = state[t]
      /\ \A g \in Input!Gates : Begun(g) => Begun(g)'
      /\ \A k \in Input!Locks : lock[k] # Input!Free => Begun(lock[k]) /\ lock[k] # s
  BY StageStep
<1>2. p = scope[parent[s]] /\ scope[p] = p /\ p # s /\ Begun(p) /\ s \in Input!Gates
  BY ParentOf, Bounds
<1>3. scope[s] = s /\ Counted(s) = {} /\ Counted(p) = {} /\ lockCount[s] = 0
  <2>1. ~Begun(s)
    BY Bounds DEF Begun
  <2> QED
    BY <2>1, NotBegun, CountOfNone
<1>4. \A k \in Input!Locks : lock'[k] = IF k = m THEN s ELSE IF k = l THEN p ELSE lock[k]
  BY DEF Input!TypeOK
<1>5. /\ parentLock'[s] = l /\ \A t \in Input!Sections : t # s => parentLock'[t] = parentLock[t]
      /\ parentLock' \in [Input!Sections -> Input!Locks \cup {Input!None}]
      /\ lock' \in [Input!Locks -> Input!Gates \cup {Input!Free}]
  BY <1>2 DEF Input!TypeOK
<1>6. /\ Counted(p)' = {l} /\ Counted(s)' = {m}
      /\ \A x \in Input!Gates : x # p /\ x # s => Counted(x)' = Counted(x)
  <2>1. /\ lock'[l] = p /\ lock'[m] = s /\ p # Input!Free /\ s # Input!Free
        /\ \A k \in Input!Locks : k # l /\ k # m => lock'[k] = lock[k]
    BY <1>2, <1>4, Bounds
  <2>2. \A x \in Input!Gates : Counted(x)' \subseteq Input!Locks /\ Counted(x) \subseteq Input!Locks
    BY DEF Counted
  <2>3. ASSUME NEW x \in Input!Gates, NEW k \in Input!Locks
        PROVE  k \in Counted(x)' <=> k \in Counted(x) \/ (k = l /\ x = p) \/ (k = m /\ x = s)
    <3>1. k \in Counted(x)' <=> lock'[k] # Input!Free /\ scope[lock'[k]] = x
      BY DEF Counted
    <3>2. k \in Counted(x) <=> lock[k] # Input!Free /\ scope[lock[k]] = x
      BY DEF Counted
    <3> QED
      BY <1>2, <1>3, <2>1, <3>1, <3>2
  <2>4. \A k \in Input!Locks : (k \in Counted(p)' <=> k = l) /\ (k \in Counted(s)' <=> k = m)
    BY <1>2, <1>3, <2>3
  <2>5. \A x \in Input!Gates : x # p /\ x # s => Counted(x)' = Counted(x)
    BY <2>2, <2>3
  <2> QED
    BY <1>2, <2>2, <2>4, <2>5
<1>7. /\ lockCount'[p] = 1 /\ lockCount'[s] = 1
      /\ \A x \in Input!Gates : x # p /\ x # s => lockCount'[x] = lockCount[x]
  BY <1>2, <1>3 DEF Input!TypeOK
<1>8. CountInv'
  <2>1. Cardinality({l}) = 1 /\ Cardinality({m}) = 1
    BY FS_Singleton
  <2>2. \A x \in Input!Gates : lockCount'[x] = Cardinality(Counted(x)')
    BY <1>6, <1>7, <2>1 DEF InputInv, CountInv
  <2> QED
    BY <2>2 DEF CountInv
<1>9. lockCount' \in [Input!Gates -> 0..MaxInputLocks]
  <2>1. \A x \in Input!Gates : lockCount'[x] \in 0..MaxInputLocks
    BY <1>8, SetOfLocks DEF CountInv, Counted
  <2> QED
    BY <2>1 DEF Input!TypeOK
<1>10. \A t \in Input!Sections, k \in Input!Locks :
         Own(t, k)' => (Own(t, k) /\ t # s /\ k # l /\ k # m) \/ (t = s /\ k = l)
  <2>1. granted[s] = Input!None
    BY DEF InputInv, StageInv
  <2>2. \A t \in Input!Sections : ~Own(t, l) /\ ~Own(t, m)
    BY DEF InputInv, LockInv
  <2> QED
    BY <1>5, <2>1, <2>2, Bounds DEF Own
<1>11. StageInv'
  BY <1>1, <1>5 DEF InputInv, StageInv
<1>12. QueueInv'
  <2>1. \A g \in Input!Gates : \A i \in 1..Len(waitingChildren[g]) :
          waitingChildren[g][i] \in Input!Sections
    BY ElementOfSeq DEF Input!TypeOK
  <2> QED
    BY <1>1, <2>1 DEF InputInv, QueueInv, InLine
<1>13. LockInv'
  <2>1. \A k \in Input!Locks : lock'[k] # Input!Free => Begun(lock[k])'
    <3> SUFFICES ASSUME NEW k \in Input!Locks, lock'[k] # Input!Free
                 PROVE  lock'[k] = Input!Root \/ state'[lock'[k]] \in {"RUNNING", "REPARENTED"}
      BY DEF Begun
    <3>1. CASE k = m
      BY <1>1, <1>4, <3>1
    <3>2. CASE k # m /\ k = l
      BY <1>1, <1>2, <1>4, <3>2 DEF Begun
    <3>3. CASE k # m /\ k # l
      <4>1. lock'[k] = lock[k] /\ Begun(lock[k]) /\ lock[k] \in Input!Gates
        BY <1>1, <1>4, <3>3 DEF Input!TypeOK
      <4>2. PICK x : x = lock[k] /\ Begun(x)'
        BY <1>1, <4>1
      <4> QED
        BY <4>1, <4>2 DEF Begun
    <3> QED
      BY <3>1, <3>2, <3>3
  <2>2. ASSUME NEW t \in Input!Sections, NEW k \in Input!Locks, Own(t, k)'
        PROVE  /\ lock'[k] # Input!Free /\ scope'[lock'[k]] = scope'[parent'[t]]
               /\ \A r \in Input!Sections : Own(r, k)' => r = t
    <3>1. CASE Own(t, k) /\ t # s /\ k # l /\ k # m
      <4>1. lock[k] # Input!Free /\ scope[lock[k]] = scope[parent[t]] /\ lock'[k] = lock[k]
        BY <1>4, <3>1 DEF InputInv, LockInv
      <4>2. \A r \in Input!Sections : Own(r, k)' => r = t
        BY <1>10, <3>1 DEF InputInv, LockInv
      <4> QED
        BY <4>1, <4>2
    <3>2. CASE t = s /\ k = l
      BY <1>2, <1>4, <1>10, <3>2, Bounds
    <3> QED
      BY <1>10, <2>2, <3>1, <3>2
  <2> QED
    BY <2>1, <2>2 DEF LockInv
<1>14. ExclusiveInv'
  <2>1. ASSUME NEW t \in Input!Sections, NEW k \in Input!Locks, NEW x \in Input!Gates,
               Own(t, k), lock[k] = x, scope[x] = x
        PROVE  \A n \in Counted(x)' : n = k
    <3>1. k \in Counted(x) /\ lock[k] # Input!Free
      BY <2>1, Bounds DEF Counted
    <3>2. x # p /\ x # s
      BY <1>1, <1>3, <2>1, <3>1
    <3> QED
      BY <1>6, <2>1, <3>2 DEF InputInv, ExclusiveInv
  <2>2. \A t \in Input!Sections, k \in Input!Locks : Own(t, k) => lock[k] \in Input!Gates
    BY DEF InputInv, LockInv, Input!TypeOK
  <2>3. \A n \in Counted(p)' : n = l
    BY <1>6
  <2> QED
    BY <1>4, <1>10, <2>1, <2>2, <2>3 DEF ExclusiveInv
<1>15. BrokenInv'
  BY <1>1 DEF InputInv, BrokenInv
<1> QED
  BY <1>1, <1>5, <1>8, <1>9, <1>11, <1>12, <1>13, <1>14, <1>15 DEF InputInv

LEMMA FirstWaitStep ==
  ASSUME Input!TypeOK, InputInv, NEW s \in Input!Sections, Input!FirstWait(s)
  PROVE  Input!TypeOK' /\ InputInv'
<1>1. /\ state[s] = "NOT_STARTED"
      /\ UNCHANGED <<parent, ancestors, scope, granted, rejected, waiters, refs>>
  BY DEF Input!FirstWait
<1>2. CASE /\ broken[Input!ParentGate(s)] /\ state' = [state EXCEPT ![s] = "INITIAL_WAIT"]
           /\ broken' = [broken EXCEPT ![s] = TRUE]
           /\ UNCHANGED <<parentLock, waitingChildren, lock, lockCount>>
  <2>1. InputInv'
    BY <1>1, <1>2, FirstWaitRejectedInv
  <2>2. state' \in [Input!Sections -> Input!SectionStates] /\ broken' \in [Input!Gates -> BOOLEAN]
    BY <1>2 DEF Input!TypeOK, Input!SectionStates
  <2> QED
    BY <1>1, <1>2, <2>1, <2>2 DEF Input!TypeOK
<1>3. CASE /\ Input!ParentIsIdle(s) /\ state' = [state EXCEPT ![s] = "RUNNING"]
           /\ \E l, m \in Input!Locks :
                /\ Input!Fresh(l) /\ m > l /\ lock[m] = Input!Free
                /\ parentLock' = [parentLock EXCEPT ![s] = l]
                /\ lock' = [lock EXCEPT ![l] = Input!ParentGate(s), ![m] = s]
           /\ lockCount' = [lockCount EXCEPT ![Input!ParentGate(s)] = @ + 1, ![s] = @ + 1]
           /\ UNCHANGED <<waitingChildren, broken>>
  <2>1. PICK p \in Input!Gates : p = Input!ParentGate(s)
    BY ParentOf
  <2>2. PICK l \in Input!Locks, m \in Input!Locks :
                /\ lock[l] = Input!Free /\ m > l /\ lock[m] = Input!Free
                /\ parentLock' = [parentLock EXCEPT ![s] = l]
                /\ lock' = [lock EXCEPT ![l] = p, ![m] = s]
    BY <1>3, <2>1 DEF Input!Fresh
  <2>3. l # m
    BY <2>2, Bounds
  <2>4. lockCount[p] = 0 /\ lockCount' = [lockCount EXCEPT ![p] = @ + 1, ![s] = @ + 1]
    BY <1>3, <2>1 DEF Input!ParentIsIdle
  <2>5. /\ InputInv' /\ state' \in [Input!Sections -> Input!SectionStates]
        /\ parentLock' \in [Input!Sections -> Input!Locks \cup {Input!None}]
        /\ lock' \in [Input!Locks -> Input!Gates \cup {Input!Free}]
        /\ lockCount' \in [Input!Gates -> 0..MaxInputLocks]
    <3>1. /\ state' = [state EXCEPT ![s] = "RUNNING"]
          /\ UNCHANGED <<parent, ancestors, scope, granted, rejected, waitingChildren, broken>>
      BY <1>1, <1>3
    <3>2. Input!TypeOK /\ InputInv
      OBVIOUS
    <3> QED
      BY <1>1, <2>1, <2>2, <2>3, <2>4, <3>1, <3>2, FirstWaitBeginsInv
  <2> QED
    BY <1>1, <1>3, <2>5 DEF Input!TypeOK
<1>4. CASE /\ state' = [state EXCEPT ![s] = "INITIAL_WAIT"]
           /\ waitingChildren' = [waitingChildren EXCEPT ![Input!ParentGate(s)] = Append(@, s)]
           /\ UNCHANGED <<parentLock, lock, lockCount, broken>>
  <2>1. InputInv' /\ waitingChildren' \in [Input!Gates -> Seq(Input!Sections)]
    BY <1>1, <1>4, FirstWaitQueuedInv
  <2>2. state' \in [Input!Sections -> Input!SectionStates]
    BY <1>4 DEF Input!TypeOK, Input!SectionStates
  <2> QED
    BY <1>1, <1>4, <2>1, <2>2 DEF Input!TypeOK
<1> QED
  BY <1>2, <1>3, <1>4 DEF Input!FirstWait

LEMMA InitialWaitGrantedStep ==
  ASSUME Input!TypeOK, InputInv, NEW s \in Input!Sections, Input!InitialWaitGranted(s)
  PROVE  Input!TypeOK' /\ InputInv'
<1>1. /\ granted[s] # Input!None /\ granted[s] \in Input!Locks
      /\ state' = [state EXCEPT ![s] = "RUNNING"]
      /\ parentLock' = [parentLock EXCEPT ![s] = granted[s]]
      /\ granted' = [granted EXCEPT ![s] = Input!None]
      /\ UNCHANGED <<parent, ancestors, scope, rejected, Input!queues, broken, refs>>
      /\ state[s] = "INITIAL_WAIT" /\ s \notin rejected
  BY DEF Input!InitialWaitGranted, Input!TypeOK, InputInv, StageInv
<1>2. PICK l \in Input!Locks : lock[l] = Input!Free /\ Input!TakeLock(l, s)
  BY DEF Input!InitialWaitGranted, Input!Fresh
<1>3. /\ ParentInv' /\ ScopeInv' /\ state' \in [Input!Sections -> Input!SectionStates]
      /\ state'[s] = "RUNNING"
      /\ \A t \in Input!Sections : t # s => state'[t] = state[t]
      /\ \A g \in Input!Gates : Begun(g) => Begun(g)'
      /\ \A k \in Input!Locks : lock[k] # Input!Free => Begun(lock[k]) /\ lock[k] # s
  BY <1>1, StageStep
<1>4. /\ s \in Input!Gates /\ scope[s] = s
  BY <1>1, Bounds DEF InputInv, ScopeInv
<1>5. /\ \A x \in Input!Gates : x # s => Counted(x)' = Counted(x)
      /\ CountInv'
      /\ lock' \in [Input!Locks -> Input!Gates \cup {Input!Free}]
      /\ lockCount' \in [Input!Gates -> 0..MaxInputLocks]
  BY <1>1, <1>2, <1>4, LockTaken
<1>6. \A k \in Input!Locks : lock'[k] = IF k = l THEN s ELSE lock[k]
  BY <1>2 DEF Input!TakeLock, Input!TypeOK
<1>7. /\ parentLock' \in [Input!Sections -> Input!Locks \cup {Input!None}]
      /\ granted' \in [Input!Sections -> Input!Locks \cup {Input!None}]
      /\ \A t \in Input!Sections : t # s =>
           parentLock'[t] = parentLock[t] /\ granted'[t] = granted[t]
      /\ parentLock'[s] = granted[s] /\ granted'[s] = Input!None
  BY <1>1 DEF Input!TypeOK
<1>8. \A t \in Input!Sections, k \in Input!Locks : Own(t, k)' => Own(t, k) /\ k # l
  <2>1. \A t \in Input!Sections : ~Own(t, l)
    BY <1>2 DEF InputInv, LockInv
  <2>2. ASSUME NEW t \in Input!Sections, NEW k \in Input!Locks, Own(t, k)' PROVE Own(t, k)
    BY <1>7, <2>2 DEF Own
  <2> QED
    BY <2>1, <2>2
<1>9. StageInv'
  BY <1>1, <1>3, <1>7 DEF InputInv, StageInv
<1>10. QueueInv'
  <2>1. \A g \in Input!Gates : \A i \in 1..Len(waitingChildren[g]) :
          waitingChildren[g][i] \in Input!Sections /\ waitingChildren[g][i] # s
    BY <1>1, ElementOfSeq DEF Input!TypeOK, InputInv, QueueInv, InLine
  <2> QED
    BY <1>1, <1>3, <1>7, <2>1 DEF InputInv, QueueInv, InLine, Input!queues
<1>11. LockInv'
  <2>1. ASSUME NEW k \in Input!Locks, lock'[k] # Input!Free PROVE Begun(lock[k])'
    <3>1. CASE k = l
      BY <1>3, <1>6, <3>1 DEF Begun
    <3>2. CASE k # l
      <4>1. PICK x : x = lock[k] /\ lock'[k] = x /\ Begun(x)'
        BY <1>3, <1>6, <2>1, <3>2 DEF Input!TypeOK
      <4> QED
        BY <4>1 DEF Begun
    <3> QED
      BY <3>1, <3>2
  <2>2. ASSUME NEW t \in Input!Sections, NEW k \in Input!Locks, Own(t, k)'
        PROVE  /\ lock'[k] # Input!Free /\ scope'[lock'[k]] = scope'[parent'[t]]
               /\ \A r \in Input!Sections : Own(r, k)' => r = t
    <3>1. Own(t, k) /\ lock'[k] = lock[k]
      BY <1>6, <1>8, <2>2
    <3>2. lock[k] # Input!Free /\ scope[lock[k]] = scope[parent[t]]
      BY <3>1 DEF InputInv, LockInv
    <3>3. \A r \in Input!Sections : Own(r, k)' => r = t
      BY <1>8, <3>1 DEF InputInv, LockInv
    <3> QED
      BY <1>1, <3>1, <3>2, <3>3
  <2> QED
    BY <2>1, <2>2 DEF LockInv
<1>12. ExclusiveInv'
  <2>1. ASSUME NEW t \in Input!Sections, NEW k \in Input!Locks, NEW x \in Input!Gates,
               Own(t, k), lock[k] = x, scope[x] = x
        PROVE  \A n \in Counted(x)' : n = k
    <3>1. x # s
      BY <1>3, <2>1, Bounds
    <3> QED
      BY <1>5, <2>1, <3>1 DEF InputInv, ExclusiveInv
  <2>2. \A t \in Input!Sections, k \in Input!Locks : Own(t, k) => lock[k] \in Input!Gates
    BY DEF InputInv, LockInv, Input!TypeOK
  <2> QED
    BY <1>1, <1>6, <1>8, <2>1, <2>2 DEF ExclusiveInv
<1>13. BrokenInv'
  BY <1>1, <1>3 DEF InputInv, BrokenInv
<1> QED
  BY <1>1, <1>3, <1>5, <1>7, <1>9, <1>10, <1>11, <1>12, <1>13
     DEF InputInv, Input!TypeOK, Input!queues

LEMMA InitialWaitRejectedStep ==
  ASSUME Input!TypeOK, InputInv, NEW s \in Input!Sections, Input!InitialWaitRejected(s)
  PROVE  Input!TypeOK' /\ InputInv'
<1>1. /\ s \in rejected /\ rejected' = rejected \ {s} /\ state[s] = "INITIAL_WAIT"
      /\ state' = [state EXCEPT ![s] = "RUNNING"] /\ broken' = [broken EXCEPT ![s] = TRUE]
      /\ UNCHANGED <<parent, ancestors, scope, parentLock, granted, lock, lockCount, Input!queues,
                     refs>>
  BY DEF Input!InitialWaitRejected, InputInv, StageInv
<1>2. /\ ParentInv' /\ ScopeInv' /\ state' \in [Input!Sections -> Input!SectionStates]
      /\ state'[s] = "RUNNING"
      /\ \A t \in Input!Sections : t # s => state'[t] = state[t]
      /\ \A g \in Input!Gates : Begun(g) => Begun(g)'
  BY <1>1, StageStep
<1>3. StageInv'
  BY <1>1, <1>2 DEF InputInv, StageInv
<1>4. QueueInv'
  <2>1. \A g \in Input!Gates : \A i \in 1..Len(waitingChildren[g]) :
          waitingChildren[g][i] \in Input!Sections /\ waitingChildren[g][i] # s
    BY <1>1, ElementOfSeq DEF Input!TypeOK, InputInv, QueueInv, InLine
  <2> QED
    BY <1>1, <1>2, <2>1 DEF InputInv, QueueInv, InLine, Input!queues
<1>5. LockInv' /\ CountInv' /\ ExclusiveInv'
  BY <1>1, <1>2 DEF InputInv, LockInv, CountInv, ExclusiveInv, Counted, Own, Begun
<1>6. BrokenInv'
  <2>1. broken[Input!Root] /\ broken'[Input!Root]
    BY <1>1, Bounds DEF InputInv, BrokenInv, Input!TypeOK
  <2> QED
    BY <1>1, <1>2, <2>1 DEF InputInv, BrokenInv
<1>7. broken' \in [Input!Gates -> BOOLEAN]
  BY <1>1 DEF Input!TypeOK
<1> QED
  BY <1>1, <1>2, <1>3, <1>4, <1>5, <1>6, <1>7 DEF InputInv, Input!TypeOK, Input!queues

\* What succeeded() makes of the scopes: s is nobody's any more.
LEMMA ReparentedScope ==
  ASSUME Input!TypeOK, InputInv, NEW s \in Input!Sections, Input!Succeeded(s),
         NEW p \in Input!Gates, p = Input!ParentGate(s)
  PROVE  /\ p = scope[parent[s]] /\ p # s /\ scope[p] = p /\ scope[s] = s /\ s \in Input!Gates
         /\ state[s] = "RUNNING" /\ state'[s] = "REPARENTED"
         /\ \A t \in Input!Sections : t # s => state'[t] = state[t]
         /\ state' \in [Input!Sections -> Input!SectionStates]
         /\ \A g \in Input!Gates : Begun(g)' <=> Begun(g)
         /\ scope' \in [Input!Gates -> Input!Gates]
         /\ \A g \in Input!Gates : scope'[g] = IF scope[g] = s THEN p ELSE scope[g]
         /\ ParentInv' /\ ScopeInv'
<1>1. /\ p = scope[parent[s]] /\ p # s /\ scope[p] = p /\ s \in Input!Gates /\ parent[s] < s
      /\ parent[s] \in Input!Gates /\ Begun(p)
  BY ParentOf, Bounds DEF InputInv, ParentInv, Input!TypeOK
<1>2. /\ state[s] = "RUNNING" /\ state' = [state EXCEPT ![s] = "REPARENTED"] /\ parent' = parent
      /\ scope' = [g \in Input!Gates |-> IF scope[g] = s THEN p ELSE scope[g]]
  BY DEF Input!Succeeded, Input!Reparent
<1>3. scope[s] = s
  BY <1>1, <1>2 DEF InputInv, ScopeInv
<1>4. /\ state'[s] = "REPARENTED" /\ \A t \in Input!Sections : t # s => state'[t] = state[t]
      /\ state' \in [Input!Sections -> Input!SectionStates]
  BY <1>2 DEF Input!TypeOK, Input!SectionStates
<1>5. \A g \in Input!Gates : Begun(g)' <=> Begun(g)
  BY <1>2, Bounds DEF Begun, Input!TypeOK
<1>6. /\ scope' \in [Input!Gates -> Input!Gates]
      /\ \A g \in Input!Gates : scope'[g] = IF scope[g] = s THEN p ELSE scope[g]
  BY <1>2 DEF Input!TypeOK
<1>7. ParentInv'
  BY <1>2, <1>4, <1>5 DEF InputInv, ParentInv, Begun
<1>8. p < s
  <2>1. p <= parent[s]
    BY <1>1 DEF InputInv, ScopeInv
  <2>2. p \in Nat /\ parent[s] \in Nat /\ s \in Nat
    BY <1>1, Bounds
  <2> QED
    BY <1>1, <2>1, <2>2
<1>9. ScopeInv'
  <2>1. ASSUME NEW g \in Input!Gates PROVE scope'[scope'[g]] = scope'[g] /\ scope'[g] <= g
    <3>1. scope[g] \in Input!Gates /\ scope[scope[g]] = scope[g] /\ scope[g] <= g
      BY DEF InputInv, ScopeInv, Input!TypeOK
    <3>2. CASE scope[g] = s
      BY <1>1, <1>6, <1>8, <3>1, <3>2, Bounds
    <3>3. CASE scope[g] # s
      BY <1>6, <3>1, <3>3
    <3> QED
      BY <3>2, <3>3
  <2>2. ASSUME NEW t \in Input!Sections PROVE state'[t] = "REPARENTED" <=> scope'[t] # t
    <3>1. CASE t = s
      BY <1>1, <1>3, <1>4, <1>6, <3>1
    <3>2. CASE t # s /\ scope[t] # s
      BY <1>4, <1>6, <3>2, Bounds DEF InputInv, ScopeInv
    <3>3. CASE t # s /\ scope[t] = s
      <4>1. scope[t] # t /\ s <= t /\ t \in Input!Gates
        BY <3>3, Bounds DEF InputInv, ScopeInv
      <4>2. scope'[t] = p /\ p # t
        BY <1>1, <1>6, <1>8, <3>3, <4>1, Bounds
      <4> QED
        BY <1>4, <3>3, <4>1, <4>2 DEF InputInv, ScopeInv
    <3> QED
      BY <3>1, <3>2, <3>3
  <2>3. ASSUME NEW t \in Input!Sections, NEW g \in Input!Gates, ~Begun(t)', scope'[g] = t
        PROVE  g = t
    BY <1>1, <1>5, <1>6, <2>3 DEF InputInv, ScopeInv
  <2> QED
    BY <2>1, <2>2, <2>3 DEF ScopeInv
<1> QED
  BY <1>1, <1>2, <1>3, <1>4, <1>5, <1>6, <1>7, <1>9

\* Locks: those of s are counted at its parent.
LEMMA ReparentedLocks ==
  ASSUME Input!TypeOK, InputInv, NEW s \in Input!Sections, Input!Succeeded(s)
  PROVE  /\ StageInv' /\ LockInv' /\ CountInv' /\ ExclusiveInv'
         /\ parentLock' \in [Input!Sections -> Input!Locks \cup {Input!None}]
         /\ lockCount' \in [Input!Gates -> 0..MaxInputLocks]
<1>1. PICK p \in Input!Gates : p = Input!ParentGate(s)
  BY ParentOf
<1>2. /\ p = scope[parent[s]] /\ p # s /\ scope[p] = p /\ scope[s] = s /\ s \in Input!Gates
      /\ state[s] = "RUNNING" /\ state'[s] = "REPARENTED"
      /\ \A t \in Input!Sections : t # s => state'[t] = state[t]
      /\ \A g \in Input!Gates : Begun(g)' <=> Begun(g)
      /\ \A g \in Input!Gates : scope'[g] = IF scope[g] = s THEN p ELSE scope[g]
  BY <1>1, ReparentedScope
<1>3. /\ parentLock[s] # Input!None /\ parentLock' = [parentLock EXCEPT ![s] = Input!None]
      /\ lockCount' = [lockCount EXCEPT ![p] = @ + lockCount[s], ![s] = 0]
      /\ UNCHANGED <<parent, granted, rejected, lock>>
  BY <1>1 DEF Input!Succeeded, Input!AdoptLocks
<1>4. /\ parentLock'[s] = Input!None
      /\ \A t \in Input!Sections : t # s => parentLock'[t] = parentLock[t]
      /\ parentLock' \in [Input!Sections -> Input!Locks \cup {Input!None}]
  BY <1>3 DEF Input!TypeOK
<1>5. granted[s] = Input!None
  BY <1>2 DEF InputInv, StageInv
<1>6. \A t \in Input!Sections, k \in Input!Locks : Own(t, k)' => Own(t, k) /\ t # s
  BY <1>3, <1>4, <1>5 DEF Own
<1>7. StageInv'
  BY <1>2, <1>3, <1>4, <1>5 DEF InputInv, StageInv
<1>8. LockInv'
  <2>1. \A k \in Input!Locks : lock'[k] # Input!Free => Begun(lock[k])'
    BY <1>2, <1>3 DEF InputInv, LockInv, Begun, Input!TypeOK
  <2>2. ASSUME NEW t \in Input!Sections, NEW k \in Input!Locks, Own(t, k)'
        PROVE  /\ lock'[k] # Input!Free /\ scope'[lock'[k]] = scope'[parent'[t]]
               /\ \A r \in Input!Sections : Own(r, k)' => r = t
    <3>1. Own(t, k) /\ lock'[k] = lock[k] /\ parent'[t] = parent[t]
      BY <1>3, <1>6, <2>2
    <3>2. /\ lock[k] # Input!Free /\ scope[lock[k]] = scope[parent[t]]
          /\ lock[k] \in Input!Gates /\ parent[t] \in Input!Gates
      BY <3>1 DEF InputInv, LockInv, Input!TypeOK
    <3>3. \A r \in Input!Sections : Own(r, k)' => r = t
      BY <1>6, <3>1 DEF InputInv, LockInv
    <3> QED
      BY <1>2, <3>1, <3>2, <3>3
  <2> QED
    BY <2>1, <2>2 DEF LockInv
<1>9. /\ Counted(p)' = Counted(p) \cup Counted(s) /\ Counted(s)' = {}
      /\ \A x \in Input!Gates : x # p /\ x # s => Counted(x)' = Counted(x)
  <2>1. \A k \in Input!Locks : lock[k] # Input!Free => lock[k] \in Input!Gates
    BY DEF Input!TypeOK
  <2>2. \A x \in Input!Gates : Counted(x)' \subseteq Input!Locks /\ Counted(x) \subseteq Input!Locks
    BY DEF Counted
  <2>3. ASSUME NEW x \in Input!Gates, NEW k \in Input!Locks
        PROVE  k \in Counted(x)' <=>
                 /\ lock[k] # Input!Free
                 /\ (scope[lock[k]] = s /\ x = p) \/ (scope[lock[k]] # s /\ scope[lock[k]] = x)
    <3>1. k \in Counted(x)' <=> lock[k] # Input!Free /\ scope'[lock[k]] = x
      BY <1>3 DEF Counted
    <3> QED
      BY <1>2, <2>1, <3>1
  <2>4. \A x \in Input!Gates, k \in Input!Locks :
          k \in Counted(x) <=> lock[k] # Input!Free /\ scope[lock[k]] = x
    BY DEF Counted
  <2>5. \A k \in Input!Locks : k \in Counted(p)' <=> k \in Counted(p) \/ k \in Counted(s)
    BY <1>2, <2>3, <2>4
  <2>6. \A k \in Input!Locks : k \notin Counted(s)'
    BY <1>2, <2>3, <2>4
  <2>7. \A x \in Input!Gates : x # p /\ x # s =>
          \A k \in Input!Locks : k \in Counted(x)' <=> k \in Counted(x)
    BY <1>2, <2>3, <2>4
  <2>8. Counted(p)' = Counted(p) \cup Counted(s)
    BY <1>2, <2>2, <2>5
  <2>9. Counted(s)' = {}
    BY <1>2, <2>2, <2>6
  <2>10. \A x \in Input!Gates : x # p /\ x # s => Counted(x)' = Counted(x)
    BY <2>2, <2>7
  <2> QED
    BY <2>8, <2>9, <2>10
<1>10. CountInv'
  <2>1. Counted(p) \cap Counted(s) = {}
    BY <1>2 DEF Counted
  <2>2. /\ IsFiniteSet(Counted(p)) /\ IsFiniteSet(Counted(s))
        /\ Cardinality(Counted(p)) \in Nat /\ Cardinality(Counted(s)) \in Nat
        /\ lockCount[p] = Cardinality(Counted(p)) /\ lockCount[s] = Cardinality(Counted(s))
    <3>1. Counted(p) \in SUBSET Input!Locks /\ Counted(s) \in SUBSET Input!Locks
      BY DEF Counted
    <3> QED
      BY <1>2, <3>1, SetOfLocks, FS_CardinalityType DEF InputInv, CountInv
  <2>3. Cardinality(Counted(p) \cup Counted(s)) = lockCount[p] + lockCount[s]
    <3>1. Cardinality(Counted(p) \cap Counted(s)) = 0
      BY <2>1, FS_EmptySet
    <3>2. Cardinality(Counted(p) \cup Counted(s)) =
            Cardinality(Counted(p)) + Cardinality(Counted(s))
              - Cardinality(Counted(p) \cap Counted(s))
      BY <2>2, FS_Union
    <3> QED
      BY <2>2, <3>1, <3>2
  <2>4. /\ lockCount'[p] = lockCount[p] + lockCount[s] /\ lockCount'[s] = 0
        /\ \A x \in Input!Gates : x # p /\ x # s => lockCount'[x] = lockCount[x]
    BY <1>2, <1>3 DEF Input!TypeOK
  <2>5. \A x \in Input!Gates : lockCount'[x] = Cardinality(Counted(x)')
    BY <1>9, <2>3, <2>4, FS_EmptySet DEF InputInv, CountInv
  <2> QED
    BY <2>5 DEF CountInv
<1>11. lockCount' \in [Input!Gates -> 0..MaxInputLocks]
  <2>1. \A x \in Input!Gates : lockCount'[x] \in 0..MaxInputLocks
    BY <1>10, SetOfLocks DEF CountInv, Counted
  <2> QED
    BY <1>3, <2>1 DEF Input!TypeOK
<1>12. ExclusiveInv'
  <2>1. ASSUME NEW t \in Input!Sections, NEW k \in Input!Locks, NEW x \in Input!Gates,
               Own(t, k), t # s, lock[k] = x, scope'[x] = x
        PROVE  \A n \in Counted(x)' : n = k
    <3>1. x # s /\ scope[x] = x
      BY <1>2, <2>1
    <3>2. \A n \in Counted(x) : n = k
      BY <2>1, <3>1 DEF InputInv, ExclusiveInv
    <3>3. x # p
      <4> SUFFICES ASSUME x = p PROVE FALSE
        OBVIOUS
      <4>1. Own(s, parentLock[s]) /\ parentLock[s] \in Input!Locks
        BY <1>3 DEF Own, Input!TypeOK
      <4>2. parentLock[s] \in Counted(p)
        BY <1>2, <4>1 DEF InputInv, LockInv, Counted
      <4>3. parentLock[s] = k
        BY <3>2, <4>2
      <4> QED
        BY <2>1, <4>1, <4>3 DEF InputInv, LockInv
    <3> QED
      BY <1>9, <3>1, <3>2, <3>3
  <2>2. \A t \in Input!Sections, k \in Input!Locks : Own(t, k) => lock[k] \in Input!Gates
    BY DEF InputInv, LockInv, Input!TypeOK
  <2> QED
    BY <1>3, <1>6, <2>1, <2>2 DEF ExclusiveInv
<1> QED
  BY <1>4, <1>7, <1>8, <1>10, <1>11, <1>12

\* Queues: those who wait for s wait for its parent.
LEMMA ReparentedQueues ==
  ASSUME Input!TypeOK, InputInv, NEW s \in Input!Sections, Input!Succeeded(s)
  PROVE  /\ QueueInv'
         /\ waitingChildren' \in [Input!Gates -> Seq(Input!Sections)]
         /\ waiters' \in [Input!Gates -> Seq(Input!Waits)]
<1>1. PICK p \in Input!Gates : p = Input!ParentGate(s)
  BY ParentOf
<1>2. /\ p # s /\ s \in Input!Gates /\ state[s] = "RUNNING"
      /\ \A t \in Input!Sections : t # s => state'[t] = state[t]
      /\ \A g \in Input!Gates : scope'[g] = IF scope[g] = s THEN p ELSE scope[g]
  BY <1>1, ReparentedScope
<1>3. /\ waitingChildren' = [waitingChildren EXCEPT ![p] = @ \o waitingChildren[s], ![s] = <<>>]
      /\ waiters' = [waiters EXCEPT ![p] = @ \o waiters[s], ![s] = <<>>]
      /\ UNCHANGED <<parent, granted, rejected>>
  BY <1>1 DEF Input!Succeeded, Input!Adopt
<1>4. waiters' \in [Input!Gates -> Seq(Input!Waits)]
  <2>1. waiters[p] \o waiters[s] \in Seq(Input!Waits) /\ <<>> \in Seq(Input!Waits)
    BY <1>2, ConcatProperties, EmptySeq DEF Input!TypeOK
  <2> QED
    BY <1>3, <2>1 DEF Input!TypeOK
<1>5. PICK a \in Seq(Input!Sections), b \in Seq(Input!Sections) :
        a = waitingChildren[p] /\ b = waitingChildren[s]
  BY <1>2 DEF Input!TypeOK
<1>6. /\ a \o b \in Seq(Input!Sections) /\ Len(a) \in Nat /\ Len(b) \in Nat
      /\ Len(a \o b) = Len(a) + Len(b)
      /\ \A i \in 1..(Len(a) + Len(b)) :
           (a \o b)[i] = IF i <= Len(a) THEN a[i] ELSE b[i - Len(a)]
  BY ConcatProperties, LenProperties
<1>7. /\ waitingChildren'[p] = a \o b /\ waitingChildren'[s] = <<>>
      /\ \A x \in Input!Gates : x # p /\ x # s => waitingChildren'[x] = waitingChildren[x]
      /\ waitingChildren' \in [Input!Gates -> Seq(Input!Sections)]
  BY <1>2, <1>3, <1>5, <1>6, EmptySeq DEF Input!TypeOK
<1>8. ASSUME NEW x \in Input!Gates, NEW t \in Input!Sections, InLine(t, x),
             NEW y \in Input!Gates, y = IF x = s THEN p ELSE x
      PROVE  InLine(t, y)'
  <2>1. /\ state[t] = "INITIAL_WAIT" /\ granted[t] = Input!None /\ t \notin rejected
        /\ scope[parent[t]] = x /\ parent[t] \in Input!Gates
    BY <1>8 DEF InLine, Input!TypeOK
  <2>2. t # s /\ state'[t] = state[t] /\ scope'[parent[t]] = y
    BY <1>2, <1>8, <2>1
  <2> QED
    BY <1>3, <2>1, <2>2 DEF InLine
<1>9. /\ \A i, j \in 1..Len(a) : a[i] = a[j] => i = j
      /\ \A i, j \in 1..Len(b) : b[i] = b[j] => i = j
      /\ \A i \in 1..Len(a) : a[i] \in Input!Sections /\ InLine(a[i], p)
      /\ \A i \in 1..Len(b) : b[i] \in Input!Sections /\ InLine(b[i], s)
      /\ \A i \in 1..Len(a), j \in 1..Len(b) : a[i] # b[j]
  <2>1. /\ \A i, j \in 1..Len(a) : a[i] = a[j] => i = j
        /\ \A i, j \in 1..Len(b) : b[i] = b[j] => i = j
        /\ \A i \in 1..Len(a) : a[i] \in Input!Sections /\ InLine(a[i], p)
        /\ \A i \in 1..Len(b) : b[i] \in Input!Sections /\ InLine(b[i], s)
    BY <1>2, <1>5, ElementOfSeq DEF InputInv, QueueInv
  <2>2. \A t : ~(InLine(t, p) /\ InLine(t, s))
    BY <1>2 DEF InLine
  <2> QED
    BY <2>1, <2>2, Zenon
<1>10. ASSUME NEW i \in 1..Len(a \o b), NEW j \in 1..Len(a \o b), (a \o b)[i] = (a \o b)[j]
       PROVE  i = j
  <2>1. CASE i <= Len(a) /\ j <= Len(a)
    BY <1>6, <1>9, <1>10, <2>1
  <2>2. CASE i <= Len(a) /\ j > Len(a)
    <3>1. i \in 1..Len(a) /\ j - Len(a) \in 1..Len(b) /\ a[i] = b[j - Len(a)]
      BY <1>6, <1>10, <2>2
    <3> QED
      BY <1>9, <3>1
  <2>3. CASE i > Len(a) /\ j <= Len(a)
    <3>1. j \in 1..Len(a) /\ i - Len(a) \in 1..Len(b) /\ a[j] = b[i - Len(a)]
      BY <1>6, <1>10, <2>3
    <3> QED
      BY <1>9, <3>1
  <2>4. CASE i > Len(a) /\ j > Len(a)
    <3>1. /\ i - Len(a) \in 1..Len(b) /\ j - Len(a) \in 1..Len(b)
          /\ b[i - Len(a)] = b[j - Len(a)]
      BY <1>6, <1>10, <2>4
    <3>2. i - Len(a) = j - Len(a)
      BY <1>9, <3>1
    <3> QED
      BY <1>6, <3>2
  <2> QED
    BY <1>6, <2>1, <2>2, <2>3, <2>4
<1>11. ASSUME NEW i \in 1..Len(a \o b) PROVE InLine((a \o b)[i], p)'
  <2>1. PICK t \in Input!Sections : t = (a \o b)[i] /\ (InLine(t, p) \/ InLine(t, s))
    <3>1. CASE i <= Len(a)
      BY <1>6, <1>9, <3>1
    <3>2. CASE i > Len(a)
      <4>1. i - Len(a) \in 1..Len(b) /\ (a \o b)[i] = b[i - Len(a)]
        BY <1>6, <3>2
      <4> QED
        BY <1>9, <4>1
    <3> QED
      BY <1>6, <3>1, <3>2
  <2>2. InLine(t, p)'
    BY <1>2, <1>8, <2>1
  <2> QED
    BY <2>1, <2>2
<1>12. ASSUME NEW x \in Input!Gates
       PROVE  /\ \A i, j \in 1..Len(waitingChildren'[x]) :
                   waitingChildren'[x][i] = waitingChildren'[x][j] => i = j
              /\ \A i \in 1..Len(waitingChildren'[x]) : InLine(waitingChildren[x][i], x)'
  <2>1. CASE x = p
    <3>1. \A i \in 1..Len(a \o b) : InLine(waitingChildren[p][i], p)'
      BY <1>7, <1>11 DEF InLine
    <3> QED
      BY <1>7, <1>10, <2>1, <3>1
  <2>2. CASE x = s
    BY <1>7, <2>2, EmptySeq
  <2>3. CASE x # p /\ x # s
    <3>1. waitingChildren'[x] = waitingChildren[x]
      BY <1>7, <2>3
    <3>2. \A i, j \in 1..Len(waitingChildren[x]) :
            waitingChildren[x][i] = waitingChildren[x][j] => i = j
      BY DEF InputInv, QueueInv
    <3>3. ASSUME NEW i \in 1..Len(waitingChildren'[x]) PROVE InLine(waitingChildren[x][i], x)'
      <4>1. PICK t \in Input!Sections : t = waitingChildren[x][i] /\ InLine(t, x)
        BY <3>1, <3>3, ElementOfSeq DEF InputInv, QueueInv, Input!TypeOK
      <4>2. InLine(t, x)'
        BY <1>8, <2>3, <4>1
      <4> QED
        BY <3>1, <4>1, <4>2 DEF InLine
    <3> QED
      BY <3>1, <3>2, <3>3, Zenon
  <2> QED
    BY <2>1, <2>2, <2>3
<1> QED
  BY <1>4, <1>7, <1>12 DEF QueueInv

LEMMA SucceededStep ==
  ASSUME Input!TypeOK, InputInv, NEW s \in Input!Sections, Input!Succeeded(s)
  PROVE  Input!TypeOK' /\ InputInv'
<1>1. UNCHANGED <<parent, ancestors, granted, rejected, lock, broken, refs>>
  BY DEF Input!Succeeded
<1>2. PICK p \in Input!Gates : p = Input!ParentGate(s)
  BY ParentOf
<1>3. /\ state[s] = "RUNNING" /\ \A t \in Input!Sections : t # s => state'[t] = state[t]
      /\ state' \in [Input!Sections -> Input!SectionStates]
      /\ scope' \in [Input!Gates -> Input!Gates] /\ ParentInv' /\ ScopeInv'
  BY <1>2, ReparentedScope
<1>4. BrokenInv'
  BY <1>1, <1>3 DEF InputInv, BrokenInv
<1>5. /\ StageInv' /\ LockInv' /\ CountInv' /\ ExclusiveInv'
      /\ parentLock' \in [Input!Sections -> Input!Locks \cup {Input!None}]
      /\ lockCount' \in [Input!Gates -> 0..MaxInputLocks]
  BY ReparentedLocks
<1> QED
  BY <1>1, <1>3, <1>4, <1>5, ReparentedQueues DEF InputInv, Input!TypeOK

-----------------------------------------------------------------------------
(***************************************************************************)
(* Sections that fail.                                                     *)
(***************************************************************************)

\* However much of the chain above is broken already, the root is broken afterwards; those
\* who are rejected were queued at a gate of the chain, and nobody else loses a place.
LEMMA ChainBroken ==
  ASSUME Input!TypeOK, InputInv, NEW s \in Input!Sections, state[s] # "unused",
         NEW gates, gates = Input!BrokenBy(s), Input!Break(gates),
         NEW children, children = Input!BrokenOff(waitingChildren, gates),
         UNCHANGED <<state, ancestors>>
  PROVE  /\ BrokenInv' /\ broken' \in [Input!Gates -> BOOLEAN] /\ rejected' \subseteq Input!Sections
         /\ children \in [Input!Gates -> Seq(Input!Sections)]
         /\ \A x \in Input!Gates : children[x] \in {waitingChildren[x], <<>>}
         /\ \A t \in rejected' : t \notin rejected =>
              /\ state[t] = "INITIAL_WAIT" /\ granted[t] = Input!None
              /\ \E x \in Input!Gates : \E i \in 1..Len(waitingChildren[x]) :
                   waitingChildren[x][i] = t
         /\ \A x \in Input!Gates : \A i \in 1..Len(children[x]) : children[x][i] \notin rejected'
<1> DEFINE line == {s} \cup ancestors[s]
<1>1. /\ line \subseteq Input!Gates /\ Input!Root \in line
      /\ gates = {g \in line : \A b \in line : b >= g /\ b # Input!Root => ~broken[b]}
      /\ gates \subseteq Input!Gates
  BY Bounds DEF Input!BrokenBy, Input!TypeOK, InputInv, BrokenInv
<1>2. /\ broken' = [g \in Input!Gates |-> broken[g] \/ g \in gates]
      /\ rejected' = rejected \cup UNION {Input!Elements(waitingChildren[g]) : g \in gates}
  BY DEF Input!Break
<1>3. broken' \in [Input!Gates -> BOOLEAN]
  BY <1>2 DEF Input!TypeOK
<1>4. broken'[Input!Root]
  <2>1. CASE Input!Root \in gates
    BY <1>2, <2>1, Bounds
  <2>2. CASE Input!Root \notin gates
    <3>1. PICK b \in line : broken[b]
      BY <1>1, <2>2
    <3>2. broken[Input!Root]
      BY <1>1, <3>1 DEF InputInv, BrokenInv
    <3> QED
      BY <1>2, <3>2, Bounds
  <2> QED
    BY <2>1, <2>2
<1>5. BrokenInv'
  BY <1>4 DEF InputInv, BrokenInv
<1>6. ASSUME NEW t \in rejected', t \notin rejected
      PROVE  \E x \in gates : \E i \in 1..Len(waitingChildren[x]) : waitingChildren[x][i] = t
  BY <1>2, <1>6 DEF Input!Elements
<1>7. \A x \in Input!Gates : \A i \in 1..Len(waitingChildren[x]) :
        waitingChildren[x][i] \in Input!Sections /\ InLine(waitingChildren[x][i], x)
  BY ElementOfSeq DEF InputInv, QueueInv, Input!TypeOK
<1>8. rejected' \subseteq Input!Sections
  <2>1. \A t \in rejected' : t \in rejected \/ t \in Input!Sections
    BY <1>1, <1>6, <1>7
  <2> QED
    BY <2>1 DEF Input!TypeOK
<1>9. /\ children \in [Input!Gates -> Seq(Input!Sections)]
      /\ \A x \in Input!Gates : children[x] = IF x \in gates THEN <<>> ELSE waitingChildren[x]
  BY EmptySeq DEF Input!BrokenOff, Input!TypeOK
<1>10. ASSUME NEW x \in Input!Gates, NEW i \in 1..Len(children[x])
       PROVE  children[x][i] \notin rejected'
  <2>1. /\ x \notin gates /\ children[x] = waitingChildren[x]
        /\ InLine(children[x][i], x)
    BY <1>7, <1>9, <1>10, EmptySeq
  <2>2. \A y \in gates : \A j \in 1..Len(waitingChildren[y]) :
          waitingChildren[y][j] # children[x][i]
    BY <1>1, <1>7, <2>1 DEF InLine
  <2> QED
    BY <1>6, <2>1, <2>2 DEF InLine
<1>11. \A t \in rejected' : t \notin rejected =>
         /\ state[t] = "INITIAL_WAIT" /\ granted[t] = Input!None
         /\ \E x \in Input!Gates : \E i \in 1..Len(waitingChildren[x]) :
              waitingChildren[x][i] = t
  BY <1>1, <1>6, <1>7 DEF InLine
<1> QED
  BY <1>3, <1>5, <1>8, <1>9, <1>10, <1>11

LEMMA FailedStep ==
  ASSUME Input!TypeOK, InputInv, NEW s \in Input!Sections, Input!Failed(s)
  PROVE  Input!TypeOK' /\ InputInv'
<1>1. PICK gates, children :
        gates = Input!BrokenBy(s) /\ children = Input!BrokenOff(waitingChildren, gates)
  OBVIOUS
<1>2. /\ state[s] # "unused" /\ Input!Break(gates) /\ waitingChildren' = children
      /\ waiters' = Input!BrokenOff(waiters, gates)
      /\ UNCHANGED <<state, parent, ancestors, scope, parentLock, granted, lock, lockCount, refs>>
  BY <1>1 DEF Input!Failed
<1>3. /\ BrokenInv' /\ broken' \in [Input!Gates -> BOOLEAN] /\ rejected' \subseteq Input!Sections
      /\ children \in [Input!Gates -> Seq(Input!Sections)]
      /\ \A x \in Input!Gates : children[x] \in {waitingChildren[x], <<>>}
      /\ \A t \in rejected' : t \notin rejected =>
           state[t] = "INITIAL_WAIT" /\ granted[t] = Input!None
      /\ \A x \in Input!Gates : \A i \in 1..Len(children[x]) : children[x][i] \notin rejected'
  BY <1>1, <1>2, ChainBroken
<1>4. waiters' \in [Input!Gates -> Seq(Input!Waits)]
  BY <1>2, EmptySeq DEF Input!BrokenOff, Input!TypeOK
<1>5. ParentInv' /\ ScopeInv' /\ LockInv' /\ CountInv' /\ ExclusiveInv'
  BY <1>2 DEF InputInv, ParentInv, ScopeInv, LockInv, CountInv, ExclusiveInv, Counted, Own, Begun
<1>6. StageInv'
  BY <1>2, <1>3 DEF InputInv, StageInv
<1>7. QueueInv'
  <2>1. \A x \in Input!Gates : \A i \in 1..Len(children[x]) :
          children[x] = waitingChildren[x] /\ i \in 1..Len(waitingChildren[x])
    BY <1>3, EmptySeq
  <2> QED
    BY <1>2, <1>3, <2>1 DEF InputInv, QueueInv, InLine
<1> QED
  BY <1>2, <1>3, <1>4, <1>5, <1>6, <1>7 DEF InputInv, Input!TypeOK

LEMMA DropStep ==
  ASSUME Input!TypeOK, InputInv, NEW s \in Input!Sections, Input!Drop(s)
  PROVE  Input!TypeOK' /\ InputInv'
<1>1. PICK gates, children, others, l, g :
        /\ gates = Input!BrokenBy(s) /\ children = Input!BrokenOff(waitingChildren, gates)
        /\ others = Input!BrokenOff(waiters, gates)
        /\ l = parentLock[s] /\ g = scope[lock[l]]
  OBVIOUS
<1>2. /\ state[s] = "RUNNING" /\ l # Input!None /\ Input!Break(gates)
      /\ parentLock' = [parentLock EXCEPT ![s] = Input!None]
      /\ Input!HandOver(l, g, children, others)
      /\ UNCHANGED <<state, parent, ancestors, scope, refs>>
  BY <1>1 DEF Input!Drop
<1>3. /\ BrokenInv' /\ broken' \in [Input!Gates -> BOOLEAN] /\ rejected' \subseteq Input!Sections
      /\ children \in [Input!Gates -> Seq(Input!Sections)]
      /\ \A x \in Input!Gates : children[x] \in {waitingChildren[x], <<>>}
      /\ \A t \in rejected' : t \notin rejected =>
           state[t] = "INITIAL_WAIT" /\ \E x \in Input!Gates : \E i \in 1..Len(waitingChildren[x]) :
             waitingChildren[x][i] = t
      /\ \A x \in Input!Gates : \A i \in 1..Len(children[x]) : children[x][i] \notin rejected'
  BY <1>1, <1>2, ChainBroken
<1>4. others \in [Input!Gates -> Seq(Input!Waits)]
  BY <1>1, EmptySeq DEF Input!BrokenOff, Input!TypeOK
<1>5. /\ l \in Input!Locks /\ Own(s, l) /\ lock[l] # Input!Free /\ g \in Input!Gates
      /\ l \in Counted(g) /\ \A t \in Input!Sections : Own(t, l) => t = s
  BY <1>1, <1>2 DEF Own, InputInv, LockInv, Counted, Input!TypeOK
<1>6. /\ parentLock' \in [Input!Sections -> Input!Locks \cup {Input!None}]
      /\ parentLock'[s] = Input!None
      /\ \A t \in Input!Sections : t # s => parentLock'[t] = parentLock[t]
  BY <1>2 DEF Input!TypeOK
<1>7. granted[s] = Input!None
  BY <1>2 DEF InputInv, StageInv
<1>8. \A t \in Input!Sections :
        parentLock'[t] \in {parentLock[t], Input!None} /\ parentLock'[t] # l /\ granted[t] # l
  BY <1>2, <1>5, <1>6, <1>7 DEF Own
<1>9. Releasing(l, g, children)
  BY <1>2, <1>3, <1>5, <1>8 DEF Releasing
<1>10. /\ ParentInv' /\ ScopeInv' /\ StageInv' /\ QueueInv' /\ LockInv' /\ CountInv'
       /\ ExclusiveInv'
       /\ lock' \in [Input!Locks -> Input!Gates \cup {Input!Free}]
       /\ lockCount' \in [Input!Gates -> 0..MaxInputLocks]
       /\ granted' \in [Input!Sections -> Input!Locks \cup {Input!None}]
       /\ waiters' \in [Input!Gates -> Seq(Input!Waits)]
       /\ waitingChildren' \in [Input!Gates -> Seq(Input!Sections)]
  BY <1>2, <1>3, <1>4, <1>5, <1>9, HandedOver
<1> QED
  BY <1>2, <1>3, <1>6, <1>10 DEF InputInv, Input!TypeOK

-----------------------------------------------------------------------------
(***************************************************************************)
(* The theorems.                                                           *)
(***************************************************************************)

LEMMA InputStep == Input!TypeOK /\ InputInv /\ Input!Next => Input!TypeOK' /\ InputInv'
<1> SUFFICES ASSUME Input!TypeOK, InputInv, Input!Next PROVE Input!TypeOK' /\ InputInv'
  OBVIOUS
<1>1. CASE \E g \in Input!Gates : Input!Wait(g)
  BY <1>1, WaitStep
<1>2. CASE \E w \in Input!Waits : Input!Cancel(w)
  BY <1>2, CancelStep
<1>3. CASE \E l \in Input!Locks : Input!AddRef(l) \/ Input!Release(l)
  BY <1>3, AddRefStep, ReleaseStep
<1>4. CASE \E l \in Input!Locks, s \in Input!Sections : Input!StartCriticalSection(l, s)
  BY <1>4, StartCriticalSectionStep
<1>5. CASE \E s \in Input!Sections : Input!FirstWait(s) \/ Input!InitialWaitGranted(s)
                                     \/ Input!InitialWaitRejected(s)
  BY <1>5, FirstWaitStep, InitialWaitGrantedStep, InitialWaitRejectedStep
<1>6. CASE \E s \in Input!Sections : Input!Succeeded(s) \/ Input!Failed(s) \/ Input!Drop(s)
  BY <1>6, SucceededStep, FailedStep, DropStep
<1> QED
  BY <1>1, <1>2, <1>3, <1>4, <1>5, <1>6 DEF Input!Next

LEMMA InputUnchanged == Input!TypeOK /\ InputInv /\ UNCHANGED input => Input!TypeOK' /\ InputInv'
  BY DEF input, Input!TypeOK, InputInv, ParentInv, ScopeInv, StageInv, QueueInv, InLine, LockInv,
         CountInv, Counted, ExclusiveInv, BrokenInv, Own, Begun

LEMMA InputInvariance == GatesSpec => [](Input!TypeOK /\ InputInv)
<1>1. GatesInit => Input!TypeOK /\ InputInv
  BY InputInitInv DEF GatesInit
<1>2. Input!TypeOK /\ InputInv /\ [GatesNext]_<<side, vars, input>> => (Input!TypeOK /\ InputInv)'
  BY InputStep, InputUnchanged DEF GatesNext
<1> QED
  BY <1>1, <1>2, PTL DEF GatesSpec

\* The variables of the input gate have their types, whatever callers do with locks and sections.
THEOREM InputTyping == GatesSpec => []Input!TypeOK
  BY InputInvariance, PTL

\* releaseLock() finds a count that is the number of locks of the gate and of the sections
\* that succeeded() reparented to it, so it never fires "no locks outstanding".
THEOREM Counting == GatesSpec => []Input!LocksAreCounted
<1>1. InputInv => Input!LocksAreCounted
  BY SameCardinality DEF InputInv, CountInv, Counted, Input!LocksAreCounted
<1> QED
  BY <1>1, InputInvariance, PTL

\* While a critical section runs, wait() admits nobody in the scope that it was started from:
\* the lock that the section holds there is the only one.
THEOREM Exclusive == GatesSpec => []SectionIsExclusive
<1>1. ASSUME Input!TypeOK, InputInv PROVE SectionIsExclusive
  <2> SUFFICES ASSUME NEW s \in Input!Sections, NEW l, l = parentLock[s], l # Input!None,
                      scope[lock[l]] = lock[l]
               PROVE  lockCount[lock[l]] = 1
    BY DEF SectionIsExclusive, Input!SectionIsExclusive
  <2>1. l \in Input!Locks /\ Own(s, l) /\ lock[l] \in Input!Gates /\ l \in Counted(lock[l])
    BY <1>1 DEF Input!TypeOK, InputInv, LockInv, Own, Counted
  <2>2. Counted(lock[l]) = {l}
    BY <1>1, <2>1 DEF InputInv, ExclusiveInv
  <2> QED
    BY <1>1, <2>1, <2>2, FS_Singleton DEF InputInv, CountInv
<1> QED
  BY <1>1, InputInvariance, PTL

\* failed() breaks the gates up to the root, also when some of them were reparented or broken
\* before: a section that is broken has broken the actor.
THEOREM FailureBreaksRoot == GatesSpec => []FailureReachesRoot
<1>1. InputInv => FailureReachesRoot
  BY Bounds DEF InputInv, BrokenInv, FailureReachesRoot, Input!FailureReachesRoot
<1> QED
  BY <1>1, InputInvariance, PTL

-----------------------------------------------------------------------------
(***************************************************************************)
(* Nobody is left waiting in front of an open gate.                        *)
(***************************************************************************)

LEMMA HandedOverToThem ==
  ASSUME Input!TypeOK, Input!WaitersWaitForALock, NEW g \in Input!Gates, NEW l,
         NEW children \in [Input!Gates -> Seq(Input!Sections)],
         NEW others \in [Input!Gates -> Seq(Input!Waits)],
         \A x \in Input!Gates : /\ children[x] \in {waitingChildren[x], <<>>}
                                /\ others[x] \in {waiters[x], <<>>},
         Input!HandOver(l, g, children, others)
  PROVE  Input!WaitersWaitForALock'
<1> USE DEF Input!WaitersWaitForALock, Input!TypeOK
<1>1. CASE /\ lockCount[g] > 1 \/ (children[g] = <<>> /\ others[g] = <<>>)
           /\ lockCount' = [lockCount EXCEPT ![g] = @ - 1]
           /\ waiters' = others /\ waitingChildren' = children
  BY <1>1
<1>2. CASE /\ lockCount[g] = 1 /\ UNCHANGED lockCount
           /\ waitingChildren' = [children EXCEPT ![g] = Tail(@)] /\ waiters' = others
  BY <1>2
<1>3. CASE /\ lockCount[g] = 1 /\ UNCHANGED lockCount
           /\ waiters' = [others EXCEPT ![g] = Tail(@)] /\ waitingChildren' = children
  BY <1>3
<1> QED
  BY <1>1, <1>2, <1>3 DEF Input!HandOver

LEMMA TakenForThem ==
  ASSUME Input!TypeOK, Input!WaitersWaitForALock, NEW l \in Input!Locks, NEW g \in Input!Gates,
         Input!TakeLock(l, g), UNCHANGED Input!queues
  PROVE  Input!WaitersWaitForALock'
  BY DEF Input!WaitersWaitForALock, Input!TypeOK, Input!TakeLock, Input!queues

\* Those who wait for a section that is over wait for what its parent counts from then on.
LEMMA AdoptedWithTheLocks ==
  ASSUME Input!TypeOK, InputInv, Input!WaitersWaitForALock, NEW s \in Input!Sections,
         Input!Succeeded(s)
  PROVE  Input!WaitersWaitForALock'
<1>1. PICK p \in Input!Gates : p = Input!ParentGate(s) /\ p # s
  BY ParentOf
<1>2. /\ waitingChildren' = [waitingChildren EXCEPT ![p] = @ \o waitingChildren[s], ![s] = <<>>]
      /\ waiters' = [waiters EXCEPT ![p] = @ \o waiters[s], ![s] = <<>>]
      /\ lockCount' = [lockCount EXCEPT ![p] = @ + lockCount[s], ![s] = 0]
  BY <1>1 DEF Input!Succeeded, Input!Adopt, Input!AdoptLocks
<1>3. /\ waiters'[p] = waiters[p] \o waiters[s] /\ waiters'[s] = <<>>
      /\ waitingChildren'[p] = waitingChildren[p] \o waitingChildren[s]
      /\ waitingChildren'[s] = <<>>
      /\ lockCount'[p] = lockCount[p] + lockCount[s]
      /\ \A x \in Input!Gates : x # p /\ x # s =>
           /\ waiters'[x] = waiters[x] /\ waitingChildren'[x] = waitingChildren[x]
           /\ lockCount'[x] = lockCount[x]
  BY <1>1, <1>2, Bounds DEF Input!TypeOK
<1>4. ASSUME waiters'[p] # <<>> \/ waitingChildren'[p] # <<>> PROVE lockCount'[p] > 0
  <2>1. \/ waiters[p] # <<>> \/ waitingChildren[p] # <<>>
        \/ waiters[s] # <<>> \/ waitingChildren[s] # <<>>
    <3>1. <<>> \o <<>> = <<>>
      OBVIOUS
    <3> QED
      BY <1>3, <1>4, <3>1
  <2>2. lockCount[p] > 0 \/ lockCount[s] > 0
    BY <2>1, Bounds DEF Input!WaitersWaitForALock
  <2>3. lockCount[p] \in Nat /\ lockCount[s] \in Nat
    BY Bounds, InputAssumption DEF Input!TypeOK, Input!InputGateAssumption
  <2> QED
    BY <1>3, <2>2, <2>3
<1> QED
  BY <1>3, <1>4 DEF Input!WaitersWaitForALock

LEMMA WaitersStep ==
  ASSUME Input!TypeOK, InputInv, Input!WaitersWaitForALock, Input!Next
  PROVE  Input!WaitersWaitForALock'
<1>1. ASSUME NEW g \in Input!Gates, Input!Wait(g) PROVE Input!WaitersWaitForALock'
  <2>1. scope[g] \in Input!Gates
    BY DEF Input!TypeOK
  <2>2. CASE /\ lockCount[scope[g]] > 0 /\ UNCHANGED <<waitingChildren, lockCount>>
             /\ \E w \in Input!Waits : waiters' = [waiters EXCEPT ![scope[g]] = Append(@, w)]
    BY <2>1, <2>2 DEF Input!WaitersWaitForALock, Input!TypeOK
  <2>3. CASE /\ \E l \in Input!Locks : Input!TakeLock(l, scope[g])
             /\ UNCHANGED Input!queues
    BY <2>1, <2>3, TakenForThem
  <2> QED
    BY <1>1, <2>2, <2>3 DEF Input!Wait, Input!WaitGate
<1>2. ASSUME NEW w \in Input!Waits, Input!Cancel(w) PROVE Input!WaitersWaitForALock'
  <2>1. /\ UNCHANGED <<waitingChildren, lockCount>>
        /\ \A x \in Input!Gates : waiters'[x] # <<>> => waiters[x] # <<>>
    BY <1>2, EmptySeq DEF Input!Cancel, Input!TypeOK
  <2> QED
    BY <2>1 DEF Input!WaitersWaitForALock
<1>3. ASSUME NEW l \in Input!Locks, Input!AddRef(l) PROVE Input!WaitersWaitForALock'
  <2>1. lock[l] \in Input!Gates
    BY <1>3, HeldLock DEF Input!AddRef
  <2> QED
    BY <1>3, <2>1, TakenForThem DEF Input!AddRef
<1>4. ASSUME NEW l \in Input!Locks, Input!Release(l) PROVE Input!WaitersWaitForALock'
  <2>1. scope[lock[l]] \in Input!Gates
    BY <1>4, HeldLock DEF Input!Release, Input!TypeOK
  <2> QED
    BY <1>4, <2>1, HandedOverToThem DEF Input!Release, Input!TypeOK
<1>5. ASSUME NEW l \in Input!Locks, NEW s \in Input!Sections, Input!StartCriticalSection(l, s)
      PROVE  Input!WaitersWaitForALock'
  BY <1>5 DEF Input!StartCriticalSection, Input!queues, Input!WaitersWaitForALock
<1>6. ASSUME NEW s \in Input!Sections, Input!FirstWait(s) PROVE Input!WaitersWaitForALock'
  <2>1. PICK p \in Input!Gates : p = Input!ParentGate(s) /\ p # s
    BY ParentOf
  <2>2. CASE UNCHANGED <<waitingChildren, waiters, lockCount>>
    BY <2>2 DEF Input!WaitersWaitForALock
  <2>3. CASE /\ UNCHANGED <<waitingChildren, waiters>>
             /\ lockCount' = [lockCount EXCEPT ![p] = @ + 1, ![s] = @ + 1]
    <3>1. lockCount'[p] = lockCount[p] + 1 /\ lockCount'[s] = lockCount[s] + 1
      BY <2>1, <2>3, Bounds DEF Input!TypeOK
    <3>2. \A x \in Input!Gates : x # p /\ x # s => lockCount'[x] = lockCount[x]
      BY <2>3 DEF Input!TypeOK
    <3>3. \A x \in Input!Gates : lockCount[x] > 0 => lockCount'[x] > 0
      <4>1. lockCount[p] \in 0..MaxInputLocks /\ lockCount[s] \in 0..MaxInputLocks
        BY <2>1, Bounds DEF Input!TypeOK
      <4> QED
        BY <3>1, <3>2, <4>1
    <3> QED
      BY <2>3, <3>3 DEF Input!WaitersWaitForALock
  <2>4. CASE /\ lockCount[p] # 0 /\ UNCHANGED <<waiters, lockCount>>
             /\ waitingChildren' = [waitingChildren EXCEPT ![p] = Append(@, s)]
    BY <2>1, <2>4 DEF Input!WaitersWaitForALock, Input!TypeOK
  <2> QED
    BY <1>6, <2>1, <2>2, <2>3, <2>4 DEF Input!FirstWait, Input!ParentIsIdle
<1>7. ASSUME NEW s \in Input!Sections, Input!InitialWaitGranted(s)
      PROVE  Input!WaitersWaitForALock'
  BY <1>7, Bounds, TakenForThem DEF Input!InitialWaitGranted
<1>8. ASSUME NEW s \in Input!Sections, Input!InitialWaitRejected(s)
      PROVE  Input!WaitersWaitForALock'
  BY <1>8 DEF Input!InitialWaitRejected, Input!queues, Input!WaitersWaitForALock
<1>9. ASSUME NEW gates
      PROVE  /\ Input!BrokenOff(waitingChildren, gates) \in [Input!Gates -> Seq(Input!Sections)]
             /\ Input!BrokenOff(waiters, gates) \in [Input!Gates -> Seq(Input!Waits)]
             /\ \A x \in Input!Gates :
                  /\ Input!BrokenOff(waitingChildren, gates)[x] \in {waitingChildren[x], <<>>}
                  /\ Input!BrokenOff(waiters, gates)[x] \in {waiters[x], <<>>}
  BY EmptySeq DEF Input!BrokenOff, Input!TypeOK
<1>10. ASSUME NEW s \in Input!Sections, Input!Failed(s) PROVE Input!WaitersWaitForALock'
  BY <1>9, <1>10 DEF Input!Failed, Input!WaitersWaitForALock
<1>11. ASSUME NEW s \in Input!Sections, Input!Drop(s) PROVE Input!WaitersWaitForALock'
  <2>1. scope[lock[parentLock[s]]] \in Input!Gates
    BY <1>11 DEF Input!Drop, Input!TypeOK, InputInv, LockInv, Own
  <2> QED
    BY <1>9, <1>11, <2>1, HandedOverToThem DEF Input!Drop
<1>12. ASSUME NEW s \in Input!Sections, Input!Succeeded(s) PROVE Input!WaitersWaitForALock'
  BY <1>12, AdoptedWithTheLocks
<1> QED
  BY <1>1, <1>2, <1>3, <1>4, <1>5, <1>6, <1>7, <1>8, <1>10, <1>11, <1>12 DEF Input!Next

\* Whoever is queued at a gate has a lock to wait for, whatever is reparented, broken or
\* cancelled meanwhile: releaseLock() always finds the waiters that its last lock has kept.
THEOREM NobodyIsForgotten == GatesSpec => []Input!WaitersWaitForALock
<1>1. GatesInit => Input!WaitersWaitForALock
  BY DEF GatesInit, Input!Init, Input!WaitersWaitForALock
<1>2. /\ Input!TypeOK /\ InputInv /\ Input!WaitersWaitForALock
      /\ [GatesNext]_<<side, vars, input>>
      => Input!WaitersWaitForALock'
  <2>1. ASSUME Input!WaitersWaitForALock, UNCHANGED input PROVE Input!WaitersWaitForALock'
    BY <2>1 DEF input, Input!WaitersWaitForALock
  <2> QED
    BY <2>1, WaitersStep DEF GatesNext
<1> QED
  BY <1>1, <1>2, InputInvariance, PTL DEF GatesSpec

\* succeeded() leaves nothing at a section that is over, so a lock on it that is released
\* later finds no state there ("releasing a lock on a reparented CriticalSection that still
\* holds state").
THEOREM NothingIsLeftBehind == GatesSpec => []Input!ReparentedHoldsNothing
<1>1. Input!TypeOK /\ InputInv /\ Input!WaitersWaitForALock => Input!ReparentedHoldsNothing
  <2> SUFFICES ASSUME Input!TypeOK, InputInv, Input!WaitersWaitForALock, NEW s \in Input!Sections,
                      state[s] = "REPARENTED"
               PROVE  lockCount[s] = 0 /\ waiters[s] = <<>> /\ waitingChildren[s] = <<>>
    BY DEF Input!ReparentedHoldsNothing
  <2>1. Counted(s) = {}
    BY Bounds DEF Counted, InputInv, ScopeInv, Input!TypeOK
  <2>2. lockCount[s] = 0
    BY <2>1, Bounds, FS_EmptySet DEF InputInv, CountInv
  <2> QED
    BY <2>2, Bounds DEF Input!WaitersWaitForALock
<1> QED
  BY <1>1, InputInvariance, NobodyIsForgotten, PTL

=============================================================================
