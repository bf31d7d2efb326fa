------------------------------ MODULE MCTurns ------------------------------
(***************************************************************************)
(* The turns of actors for TLC: the slices of one actor, and how the code  *)
(* of several actors goes on after its awaits.  The models share no state: *)
(* a behaviour of SlicesSpec is about the first one, a behaviour of        *)
(* ContinuationsSpec about the second one, and the other is left alone.    *)
(***************************************************************************)
EXTENDS IoContext

CONSTANTS Actors, MaxWork, MaxAwaits, MaxFrames, MaxAborts, None

VARIABLES work, gate, frames, continuation, publication, jobs, aborted, awaits, aborts

realm == <<work, gate, frames, continuation, publication, jobs, aborted, awaits, aborts>>

Publication == INSTANCE GatePublication WITH
  MaxOps <- MaxAwaits, MaxFaults <- MaxAborts, ops <- awaits, faults <- aborts

ASSUME PublicationAssumption == Publication!GatePublicationAssumption

TurnsInit         == Init /\ Publication!Init
SlicesNext        == Next /\ UNCHANGED realm
ContinuationsNext == Publication!Next /\ UNCHANGED vars

SlicesSpec ==
  TurnsInit /\ [][SlicesNext]_<<vars, realm>> /\ Fairness
ContinuationsSpec ==
  TurnsInit /\ [][ContinuationsNext]_<<vars, realm>> /\ Publication!Fairness

-----------------------------------------------------------------------------
\* The properties of GatePublication.
CodeRunsAsItself        == Publication!CodeRunsAsItself
WaitingOutKeepsTheActor == Publication!WaitingOutKeepsTheActor
SettledGoesOn           == Publication!SettledGoesOn
=============================================================================
