------------------------------ MODULE MCGates ------------------------------
(***************************************************************************)
(* Both gates of an actor for TLC.  They share no state, so a behaviour is *)
(* about one of them, and the other one is left alone.                     *)
(***************************************************************************)
EXTENDS OutputGate

CONSTANTS MaxSections, MaxInputLocks, MaxWaits, MaxRefs

VARIABLES
  side,   \* the gate that this behaviour is about
  state, parent, ancestors, scope, parentLock, granted, rejected,
  lock, lockCount, waiters, waitingChildren, broken, refs

input == <<state, parent, ancestors, scope, parentLock, granted, rejected,
           lock, lockCount, waiters, waitingChildren, broken, refs>>

Input == INSTANCE InputGate WITH MaxLocks <- MaxInputLocks

ASSUME InputAssumption == Input!InputGateAssumption

GatesInit == Init /\ Input!Init /\ side \in {"output", "input"}

GatesNext ==
  \/ side = "output" /\ Next /\ UNCHANGED <<side, input>>
  \/ side = "input" /\ Input!Next /\ UNCHANGED <<side, vars>>

\* Nothing that has to happen is enabled on the gate that is left alone.
GatesSpec ==
  GatesInit /\ [][GatesNext]_<<side, vars, input>> /\ Fairness /\ Input!Fairness

-----------------------------------------------------------------------------
\* The properties of InputGate.
SectionIsExclusive == Input!SectionIsExclusive
FailureReachesRoot == Input!FailureReachesRoot

\* Every wait() is answered: on the input gate whatever sections and locks come
\* and go, on the output gate once the locks that it joined are settled.
WaitersGetIn == WaitsSettle /\ Input!WaitsSettle
=============================================================================
