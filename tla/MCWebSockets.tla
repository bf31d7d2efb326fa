---------------------------- MODULE MCWebSockets ----------------------------
(***************************************************************************)
(* The two halves of a socket's way for TLC: the pair in the actor, and    *)
(* the port between a page and the host.  They share no state, so a        *)
(* behaviour is about one of them, and the other one is left alone.        *)
(***************************************************************************)
EXTENDS WebSockets

CONSTANTS MaxSent, MaxQuiet, MaxTroubles

VARIABLES
  side,            \* what this behaviour is about: "pair" or "port"
  conn, troubles

Port == INSTANCE PortSockets

ASSUME PortAssumption == Port!PortSocketsAssumption

SocketsInit ==
  /\ Init /\ troubles = 0
  /\ \/ side = "pair" /\ conn = Port!Fresh("none")
     \/ side = "port" /\ Port!Init

SocketsNext ==
  \/ side = "pair" /\ Next /\ UNCHANGED <<side, conn, troubles>>
  \/ side = "port" /\ Port!Next /\ UNCHANGED <<side, vars>>

\* Nothing that has to happen is enabled on the side that is left alone.
SocketsSpec ==
  SocketsInit /\ [][SocketsNext]_<<side, vars, conn, troubles>> /\ WF_vars(Continuation) /\ Port!Fairness

-----------------------------------------------------------------------------
\* The property of PortSockets.
ImplementsConnection == Port!ImplementsConnection
=============================================================================
