---------------------------- MODULE OutputBarrier ----------------------------
(***************************************************************************)
(* What the output gate promises, without promises or chains: a message    *)
(* depends on the locks that were taken before it and on no others.  It is *)
(* answered once, after every one of them is decided: it leaves if all     *)
(* were confirmed and fails if one failed.                                 *)
(***************************************************************************)
CONSTANTS Locks, Waiters

VARIABLES
  lock,     \* lock[i] \in {"free", "held", "confirmed", "failed"}
  deps,     \* deps[w]: the locks message w depends on
  answer    \* answer[w] \in {"idle", "waiting", "released", "rejected"}

vars == <<lock, deps, answer>>

Init ==
  /\ lock = [i \in Locks |-> "free"]
  /\ deps = [w \in Waiters |-> {}]
  /\ answer = [w \in Waiters |-> "idle"]

Take(i) ==
  /\ lock[i] = "free"
  /\ lock' = [lock EXCEPT ![i] = "held"]
  /\ UNCHANGED <<deps, answer>>

Decide(i) ==
  /\ lock[i] = "held"
  /\ \E verdict \in {"confirmed", "failed"} : lock' = [lock EXCEPT ![i] = verdict]
  /\ UNCHANGED <<deps, answer>>

Wait(w) ==
  /\ answer[w] = "idle"
  /\ answer' = [answer EXCEPT ![w] = "waiting"]
  /\ deps' = [deps EXCEPT ![w] = {i \in Locks : lock[i] # "free"}]
  /\ UNCHANGED lock

Answer(w) ==
  /\ answer[w] = "waiting"
  /\ \A i \in deps[w] : lock[i] \in {"confirmed", "failed"}
  /\ answer' = [answer EXCEPT ![w] =
                  IF \E i \in deps[w] : lock[i] = "failed"
                    THEN "rejected" ELSE "released"]
  /\ UNCHANGED <<lock, deps>>

Next ==
  \/ \E i \in Locks : Take(i) \/ Decide(i)
  \/ \E w \in Waiters : Wait(w) \/ Answer(w)

Spec == Init /\ [][Next]_vars
=============================================================================
