------------------------ MODULE MCWorkerSupervisor ------------------------
(* The supervisor for TLC: a key below another one.                        *)
EXTENDS WorkerSupervisor, TLC

CONSTANTS agent, thread

Nested == (agent :> {thread}) @@ (thread :> {})
OfThread == [c \in Conns |-> thread]
ToThread == [x \in Callers |-> thread]
=============================================================================
