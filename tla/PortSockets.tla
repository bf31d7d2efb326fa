----------------------------- MODULE PortSockets -----------------------------
(***************************************************************************)
(* One socket between a page and an actor over a port of the browser: over *)
(* a MessageChannel to a bridge in the actor's worker (MessagePortWebSocket*)
(* and bridgeWebSocket() of src/src/browser/message-port-websocket.ts,     *)
(* connectMessagePortWebSocket() of src/src/browser.ts), or over a         *)
(* chrome.runtime.Port to the document that hosts the actors               *)
(* (src/src/browser/chrome-port-websocket.ts).                             *)
(*                                                                         *)
(* "host" is the bridge with the actor's socket behind it, or the bound    *)
(* port with the application behind it.  A frame is its number; what else  *)
(* a port carries is below 1.  Frames of a port arrive in order.           *)
(***************************************************************************)
EXTENDS Integers, Sequences

CONSTANTS
  MaxSent,     \* bound on the frames that each end sends
  MaxQuiet,    \* PROBE_TIMEOUT_MS / PROBE_INTERVAL_MS
  MaxTroubles  \* bound on malformed messages, deferred or failing dials and deaths of the host

PortSocketsAssumption == {MaxSent, MaxQuiet, MaxTroubles} \subseteq Nat

VARIABLES
  conn,        \* the connection, see Fresh
  troubles

vars == <<conn, troubles>>

Ends  == {"page", "host"}
Other == [page |-> "host", host |-> "page"]

Bye    == 0      \* a close
Opened == -1     \* the broker's "open"
Ping   == -2
Pong   == -3
Gone   == -4     \* onDisconnect, which comes behind the messages

Both(x) == [e \in Ends |-> x]

\* "brokered": the page's socket waits for the broker to say that it is open.
\* "eager": it opens itself (autoOpen), and the host has the bridge already.
Fresh(kind) ==
  [kind     |-> kind,
   stage    |-> IF kind = "eager" THEN "connecting" ELSE "asked",
   ready    |-> Both("connecting"),  \* readyState of both ends; CLOSING lasts for no step
   queued   |-> Both(<<>>),          \* #queuedWireMessages
   flushing |-> Both(FALSE),         \* #queuedWireFlushPending
   wire     |-> Both(<<>>),          \* what is on its way to each end
   actor    |-> "none",              \* the actor's socket: "none", "open" or "closed"
   pending  |-> <<>>,                \* what the actor sent and the bridge did not see
   told     |-> kind # "brokered",   \* the broker has announced the connection
   link     |-> "up",                \* the chrome port: "silent" loses messages, "invalid" throws
   lost     |-> FALSE,               \* lost
   quiet    |-> 0,                   \* probes since lastFrameAt
   sent     |-> Both(0),
   heard    |-> Both(<<>>)]

Kinds == {"brokered", "eager", "chrome"}

Init == conn \in {Fresh(kind) : kind \in Kinds} /\ troubles = 0

Trouble == troubles < MaxTroubles /\ troubles' = troubles + 1
Calm == UNCHANGED troubles

-----------------------------------------------------------------------------
(***************************************************************************)
(* The class MessagePortWebSocket and the bound chrome port                *)
(***************************************************************************)

Post(c, e, m) ==
  IF c.link = "up" /\ "closed" \notin {c.ready[d] : d \in Ends}
    THEN [c EXCEPT !.wire[e] = Append(@, m)] ELSE c

\* detach(): a bound chrome port is disconnected, behind what was posted.
Detach(c, e) == IF c.kind = "chrome" THEN Post(c, Other[e], Gone) ELSE c

\* closeFromTransport(): the actor's socket ends, with what waits in it.
EndSocket(c) == [c EXCEPT !.actor = "closed", !.pending = <<>>]

\* The close event of a bridge, or of the host's bound port, ends what is behind it.
FinishClose(c, e) ==
  LET d == [Detach(c, e) EXCEPT !.ready[e] = "closed", !.queued[e] = <<>>,
                                !.flushing[e] = FALSE, !.wire[e] = <<>>]
  IN IF e = "host" /\ c.stage = "bridged" THEN EndSocket(d) ELSE d

Close(c, e) == IF c.ready[e] = "closed" THEN c ELSE FinishClose(Post(c, Other[e], Bye), e)

Open(c, e) ==
  IF c.ready[e] # "connecting" THEN c
  ELSE [c EXCEPT !.ready[e] = "open", !.flushing[e] = TRUE]

\* A frame that is dispatched to the page, or sent to the actor's socket.
Hear(c, e, frames) ==
  IF c.ready[e] = "open" /\ (e = "host" => c.actor = "open")
    THEN [c EXCEPT !.heard[e] = @ \o frames] ELSE c

Waits(c, e) == c.ready[e] = "connecting" \/ c.flushing[e]

HandleWireMessage(c, e, m) ==
  CASE m = Opened -> Open(c, e)
    [] m \in {Bye, Gone} -> FinishClose(c, e)
    [] m = Ping -> Post(c, Other[e], Pong)
    [] m = Pong -> c
    [] OTHER -> IF Waits(c, e) THEN [c EXCEPT !.queued[e] = Append(@, m)] ELSE Hear(c, e, <<m>>)

\* Nobody listens at the host's end of the port yet.
Listens(e) == e = "host" => conn.stage \in {"connecting", "bridged", "refused"}

Receives(e) ==
  /\ conn.wire[e] # <<>> /\ Listens(e)
  /\ conn' = HandleWireMessage([conn EXCEPT !.wire[e] = Tail(@), !.quiet = IF e = "page" THEN 0 ELSE @],
                               e, Head(conn.wire[e]))
  /\ Calm

\* A message that the parser refuses closes with 1002.
Malformed(e) ==
  /\ conn.wire[e] # <<>> /\ Head(conn.wire[e]) > 0 /\ Listens(e)
  /\ conn' = Close(conn, e)
  /\ Trouble

\* The microtask of open(). A handler of the page may close the socket, and the
\* frames behind that one are dropped.
Flush(e) ==
  /\ conn.flushing[e]
  /\ \E n \in 0..Len(conn.queued[e]) :
       LET all == n = Len(conn.queued[e])
           c == Hear([conn EXCEPT !.queued[e] = <<>>, !.flushing[e] = FALSE], e, SubSeq(conn.queued[e], 1, n))
       IN /\ all \/ (e = "page" /\ n > 0)
          /\ conn' = IF all THEN c ELSE Close(c, e)
  /\ Calm

-----------------------------------------------------------------------------
(***************************************************************************)
(* The page                                                                *)
(***************************************************************************)

\* send() of the bound port notes a failure, and drops what comes behind it.
PeerSend(c, m) ==
  IF c.link = "invalid" THEN [c EXCEPT !.lost = TRUE]
  ELSE IF c.lost THEN c ELSE Post(c, "host", m)

PageSends ==
  /\ conn.ready["page"] = "open" /\ conn.sent["page"] < MaxSent
  /\ LET c == [conn EXCEPT !.sent["page"] = @ + 1] IN conn' = PeerSend(c, c.sent["page"])
  /\ Calm

PageCloses ==
  /\ conn.ready["page"] # "closed"
  /\ conn' = Close(conn, "page")
  /\ Calm

\* The microtask of a constructor with autoOpen.
OpensItself ==
  /\ conn.kind = "eager" /\ conn.ready["page"] = "connecting"
  /\ conn' = Open(conn, "page")
  /\ Calm

-----------------------------------------------------------------------------
(***************************************************************************)
(* The bridge in the actor's worker                                        *)
(***************************************************************************)

\* The listener of serveMessagePortWebSockets().
Serves ==
  /\ conn.kind = "brokered" /\ conn.stage = "asked"
  /\ conn' = [conn EXCEPT !.stage = "connecting"]
  /\ Calm

\* The actor makes the pair while fetch() runs, and keeps one half.
Answers ==
  /\ conn.stage = "connecting" /\ conn.actor = "none"
  /\ conn' = [conn EXCEPT !.actor = "open"]
  /\ Calm

\* No route, an answer other than 101, or a fetch() that throws.
Refuses ==
  /\ conn.stage = "connecting" /\ conn.actor = "none"
  /\ conn' = [Close(conn, "host") EXCEPT !.stage = "refused"]
  /\ Calm

\* seeded fault: a socket that comes after the bridge was closed is left alone.
BridgeForgetsLateSocket(c) ==
  LET b == [c EXCEPT !.stage = "bridged"] IN IF c.ready["host"] = "closed" THEN b ELSE Open(b, "host")

BridgeWebSocket(c) ==
  LET b == [c EXCEPT !.stage = "bridged"] IN
  IF c.ready["host"] = "closed" THEN EndSocket(b) ELSE Open(b, "host")

Connects ==
  /\ conn.stage = "connecting" /\ conn.actor # "none"
  /\ conn' = BridgeWebSocket(conn)
  /\ Calm

\* The reaction to connect() in serveMessagePortWebSockets().
Announces ==
  /\ conn.stage = "bridged" /\ ~conn.told
  /\ conn' = [Post(conn, "page", Opened) EXCEPT !.told = TRUE]
  /\ Calm

\* A message or the close of the actor's socket, as its events come.
Relays ==
  /\ conn.kind # "chrome" /\ conn.stage = "bridged" /\ conn.ready["host"] = "open"
  /\ conn.pending # <<>>
  /\ LET c == [conn EXCEPT !.pending = Tail(@)]
         m == Head(conn.pending)
     IN conn' = IF m = Bye THEN Close(c, "host") ELSE Post(c, "page", m)
  /\ Calm

\* An error event of the actor's socket, or a message that the wire cannot carry.
SocketFails ==
  /\ conn.kind # "chrome" /\ conn.stage = "bridged" /\ conn.ready["host"] = "open"
  /\ conn' = Close(conn, "host")
  /\ Trouble

\* The function that serveMessagePortWebSockets() returns. A request that it did
\* not receive before is never answered.
Stops ==
  /\ conn.kind = "brokered" /\ conn.stage # "asked" /\ conn.ready["host"] # "closed"
  /\ conn' = Close(conn, "host")
  /\ Calm

ActorSends ==
  /\ conn.actor = "open" /\ conn.sent["host"] < MaxSent
  /\ LET c == [conn EXCEPT !.sent["host"] = @ + 1] IN
     conn' = IF c.kind = "chrome" THEN Post(c, "page", c.sent["host"])
             ELSE [c EXCEPT !.pending = Append(@, c.sent["host"])]
  /\ Calm

ActorCloses ==
  /\ conn.actor = "open"
  /\ conn' = IF conn.kind = "chrome" THEN Close(conn, "host")
             ELSE [conn EXCEPT !.actor = "closed", !.pending = Append(@, Bye)]
  /\ Calm

-----------------------------------------------------------------------------
(***************************************************************************)
(* The chrome port                                                         *)
(***************************************************************************)

Refused(c) == [c EXCEPT !.stage = "refused", !.ready["host"] = "closed", !.wire["host"] = <<>>]

\* beforeConnect() returns a deadline; the wait for it is over.
Defers ==
  /\ conn.kind = "chrome" /\ conn.stage = "asked"
  /\ conn' = [conn EXCEPT !.stage = "backoff"]
  /\ Trouble

Retries ==
  /\ conn.stage = "backoff"
  /\ conn' = IF conn.ready["page"] = "connecting" THEN [conn EXCEPT !.stage = "asked"] ELSE Refused(conn)
  /\ Calm

\* beforeConnect() returns nothing: the port is connected and bound, and the
\* socket open.
Dials ==
  /\ conn.kind = "chrome" /\ conn.stage = "asked"
  /\ conn' = IF conn.ready["page"] = "connecting" THEN Open([conn EXCEPT !.stage = "dialled"], "page")
             ELSE Refused(conn)
  /\ Calm

DialFails ==
  /\ conn.kind = "chrome" /\ conn.stage = "asked"
  /\ conn' = Refused(IF conn.ready["page"] = "closed" THEN conn ELSE FinishClose(conn, "page"))
  /\ Trouble

\* The host binds its end of the port, or there is no host that listens.
HostBinds ==
  /\ conn.stage = "dialled"
  /\ conn' = [conn EXCEPT !.stage = "bridged", !.actor = "open", !.ready["host"] = "open"]
  /\ Calm

NobodyListens ==
  /\ conn.stage = "dialled"
  /\ conn' = Refused(Post(conn, "page", Gone))
  /\ Trouble

\* The document of the host dies. The page is told, or another context that
\* listens keeps the port apparently connected, or the extension is reloaded,
\* after which the page's calls of the port throw.
HostDies ==
  /\ conn.kind = "chrome" /\ conn.stage = "bridged" /\ conn.ready["host"] # "closed"
  /\ \E told \in BOOLEAN, link \in {"silent", "invalid"} :
       LET c == IF told THEN Post(conn, "page", Gone) ELSE [conn EXCEPT !.link = link] IN
       conn' = [c EXCEPT !.ready["host"] = "closed", !.wire["host"] = <<>>, !.actor = "closed"]
  /\ Trouble

OnTheWay(m, e) == \E i \in DOMAIN conn.wire[e] : conn.wire[e][i] = m

\* The heartbeat of the page's end. A ping behind one that was not answered asks
\* for nothing else and is left out, which bounds the pings.
Beats ==
  /\ conn.kind = "chrome" /\ conn.ready["page"] = "open"
  /\ conn' = IF conn.quiet > MaxQuiet \/ conn.link = "invalid" THEN FinishClose(conn, "page")
             ELSE LET c == [conn EXCEPT !.quiet = @ + 1] IN
                  IF OnTheWay(Ping, "host") \/ OnTheWay(Pong, "page") THEN c ELSE Post(c, "host", Ping)
  /\ Calm

\* The microtask after a send() that threw.
Loses ==
  /\ conn.lost /\ conn.ready["page"] = "open"
  /\ conn' = FinishClose(conn, "page")
  /\ Calm

-----------------------------------------------------------------------------

Page == PageSends \/ PageCloses \/ OpensItself \/ Beats \/ Loses
Bridge == Serves \/ Answers \/ Refuses \/ Connects \/ Announces \/ Relays \/ SocketFails \/ Stops
Dialling == Defers \/ Retries \/ Dials \/ DialFails \/ HostBinds \/ NobodyListens \/ HostDies

Next ==
  \/ \E e \in Ends : Receives(e) \/ Malformed(e) \/ Flush(e)
  \/ ActorSends \/ ActorCloses
  \/ Page \/ Bridge \/ Dialling

\* Microtasks and messages are run, requests are served, connect() and
\* beforeConnect() settle, and the heartbeat goes on.
Fairness ==
  /\ \A e \in Ends : WF_vars(Receives(e)) /\ WF_vars(Flush(e))
  /\ WF_vars(OpensItself) /\ WF_vars(Beats) /\ WF_vars(Loses)
  /\ WF_vars(Serves) /\ WF_vars(Answers \/ Refuses) /\ WF_vars(Connects)
  /\ WF_vars(Announces) /\ WF_vars(Relays)
  /\ WF_vars(Dials) /\ WF_vars(Retries) /\ WF_vars(HostBinds)

Spec == Init /\ [][Next]_vars /\ Fairness

-----------------------------------------------------------------------------
(***************************************************************************)
(* Properties                                                              *)
(***************************************************************************)

Connected == INSTANCE Connection WITH
  sent <- conn.sent,
  heard <- conn.heard,
  closed <- [e \in Ends |->
               IF e = "page" THEN conn.ready["page"] = "closed"
               ELSE conn.actor = "closed" \/ conn.stage = "refused"]

\* A socket over either port is a connection: the page and the actor hear each
\* other's frames in order, also those sent while the other end was connecting,
\* none after a close, and a close, a refusal or a dead host reaches the other end.
ImplementsConnection == Connected!Spec
==============================================================================
