------------------------------ MODULE Connection ------------------------------
(***************************************************************************)
(* What a socket promises to the two programs at its ends, whatever is in  *)
(* between: each hears what the other one sent, in order and from the      *)
(* first frame on, until one of them is closed, which closes both.         *)
(***************************************************************************)
EXTENDS Naturals, Sequences

CONSTANTS
  Ends,
  MaxSent   \* the number of frames that an end sends, after which it is silent

VARIABLES
  sent,     \* sent[e]: the number of frames that e sent; its n-th frame is n
  heard,    \* heard[e]: the frames that e heard
  closed    \* closed[e]: e neither sends nor hears any more

vars == <<sent, heard, closed>>

Others(e) == Ends \ {e}

Init ==
  /\ sent = [e \in Ends |-> 0]
  /\ heard = [e \in Ends |-> <<>>]
  /\ closed = [e \in Ends |-> FALSE]

Send(e) ==
  /\ ~closed[e] /\ sent[e] < MaxSent
  /\ sent' = [sent EXCEPT ![e] = @ + 1]
  /\ UNCHANGED <<heard, closed>>

\* The handler of a frame may close the socket.
Hear(e) ==
  /\ ~closed[e]
  /\ \E f \in Others(e), n \in 1..MaxSent :
       /\ Len(heard[e]) < n /\ n <= sent[f]
       /\ heard' = [heard EXCEPT ![e] = [i \in 1..n |-> i]]
  /\ closed' \in {closed, [closed EXCEPT ![e] = TRUE]}
  /\ UNCHANGED sent

\* One end, or both where no connection comes about.
Close ==
  /\ closed' \in [Ends -> BOOLEAN]
  /\ \A e \in Ends : closed[e] => closed'[e]
  /\ UNCHANGED <<sent, heard>>

Next == Close \/ \E e \in Ends : Send(e) \/ Hear(e)

\* Nothing is on its way: both ends are closed, or all that was sent is heard.
Settled ==
  \/ \A e \in Ends : closed[e]
  \/ \A e \in Ends : ~closed[e] /\ \A f \in Others(e) : Len(heard[e]) = sent[f]

Spec == Init /\ [][Next]_vars /\ []<>Settled
===============================================================================
