------------------------------ MODULE WebSockets ------------------------------
(***************************************************************************)
(* One WebSocketPair of an actor, over the containers that follow each     *)
(* other: AcceptedWebSocket and HibernatableWebSocketRegistry of           *)
(* src/src/api/web-socket.ts, and the HibernationMirror of                 *)
(* server/hibernation-mirror.ts that hands open sockets on.                *)
(*                                                                         *)
(* The actor keeps half a, with listeners or hibernation.  Half b is       *)
(* accepted by the actor as well, or leaves in a Response: then h is the   *)
(* wrapper of the host around its endpoint.                                *)
(***************************************************************************)
EXTENDS Integers, Sequences, FiniteSets, SequencesExt

CONSTANTS
  MaxGens,    \* bound on the containers
  MaxFrames,  \* bound on the frames that the actor, or the host, sends
  MaxWrites,  \* bound on the writes of a container
  MaxNotes    \* bound on the attachments

ASSUME WebSocketsAssumption == {MaxGens, MaxFrames, MaxWrites, MaxNotes} \subseteq Nat /\ MaxGens > 0

Gens == 1..MaxGens
Host == 0           \* the context of a wrapper that has none
Wrappers == {"a", "b", "h"}
Ends == {"a", "b"}
Other == [a |-> "b", b |-> "a"]
EndOf == [a |-> "a", b |-> "b", h |-> "b"]

VARIABLES
  net,       \* the wrappers of the pair (sock), its endpoints (receiver, sentClose, used), the
             \* metadata, list and mirror of half a, the containers, their events and slices;
             \* meta.note is the last attachment, meta.told the last one since half a hibernates,
             \* mirror the one in the mirror: 0 is none, -1 that the half is not there
  written,   \* the writes that lock the output, counted
  confirmed, \* those that are confirmed
  sent, notes   \* counters of the bounds

storage  == <<written, confirmed>>
counters == <<sent, notes>>
vars     == <<net, storage, counters>>

Rejected == MaxWrites * MaxGens + 1    \* an output lock that rejected

NewSocket(ctx) == [mode |-> "pending", ctx |-> ctx, released |-> FALSE, ready |-> "open", own |-> FALSE,
                   peer |-> FALSE, pending |-> <<>>, pump |-> <<>>, muted |-> FALSE]

Init ==
  /\ net = [sock |-> [w \in Wrappers |-> NewSocket(IF w = "h" THEN Host ELSE 1)],
            receiver |-> [a |-> "a", b |-> "b"], sentClose |-> [e \in Ends |-> FALSE], used |-> FALSE,
            meta |-> [accepted |-> 0, note |-> 0, told |-> 0, dispatched |-> FALSE, completion |-> FALSE,
                      released |-> FALSE],
            listed |-> [g \in Gens |-> FALSE], mirror |-> -1, gen |-> 1, aborted |-> [g \in Gens |-> FALSE],
            broken |-> [g \in Gens |-> FALSE], started |-> [g \in Gens |-> FALSE], queue |-> [g \in Gens |-> <<>>],
            slice |-> 0, ends |-> {}, reply |-> -1, heard |-> [w \in Wrappers |-> <<>>]]
  /\ written = 0 /\ confirmed = 0
  /\ sent = 0 /\ notes = 0

-----------------------------------------------------------------------------
(***************************************************************************)
(* The registry of hibernatable sockets, and its mirror                    *)
(***************************************************************************)

Hibernates(s, w) == w = "a" /\ s.sock[w].mode = "hibernatable"

\* #remove(): the host forgets the socket, whichever registry says so.
Unlist(s, g) == IF s.listed[g] THEN [s EXCEPT !.listed[g] = FALSE, !.mirror = -1] ELSE s

\* completeOwnClose()
CompleteOwnClose(s) ==
  [s EXCEPT !.meta.completion = FALSE, !.meta.released = @ \/ s.meta.dispatched]

\* ownCloseWritten(): a pair half learns of it with its next event.
OwnCloseWritten(s) ==
  IF s.receiver["b"] # "h" /\ ~s.meta.dispatched THEN [s EXCEPT !.meta.completion = TRUE]
  ELSE [s EXCEPT !.ends = @ \cup {[kind |-> "complete", gen |-> 0]}]

\* settle() of #schedule(), a turn after the handler's synchronous part
Settle(s, isClose, g) ==
  LET t == IF isClose THEN Unlist(s, g) ELSE s IN
  IF t.meta.completion THEN CompleteOwnClose(t) ELSE t

\* A write waits for the output locks of its time, in the order of the writes.
NoLock(s, g) == 0    \* seeded fault
LockOf(s, g) == IF s.broken[g] THEN Rejected ELSE written
Item(s, w, kind, n, lock) ==
  [kind |-> kind, n |-> n, lock |-> lock, gen |-> s.sock[w].ctx,
   under |-> IF kind = "auto" \/ s.sock[w].ctx = Host THEN 0 ELSE written]
Enqueue(s, w, kind, n, lock) ==
  [s EXCEPT !.sock[w].pump = Append(@, Item(s, w, kind, n, lock))]

\* sendAutoResponse() shares the pump, without a lock.
AutoResponds(s, w) ==
  IF s.sock[w].released \/ s.sock[w].ready # "open" THEN s ELSE Enqueue(s, w, "auto", 0, 0)

\* receive() of the registry; an aborted context refuses at once.
RegistryReceive(s, w, event) ==
  LET g == s.meta.accepted IN
  CASE ~s.listed[g] -> s
    [] s.listed[g] /\ event.kind = "ping" -> AutoResponds(s, w)
    [] s.listed[g] /\ event.kind # "ping" /\ s.aborted[g] -> IF event.kind = "message" THEN s ELSE Settle(s, TRUE, g)
    [] OTHER -> [s EXCEPT !.queue[g] = Append(@, event)]

-----------------------------------------------------------------------------
(***************************************************************************)
(* A wrapper and its endpoint                                              *)
(***************************************************************************)

IsClose(event) == event.kind \in {"close", "dropped"}

\* The listeners of a wrapper hear of an event.
Hear(s, w, event) == [s EXCEPT !.heard[w] = Append(@, event)]

\* #deliverClassic(): a listener runs in its context, the host's at once.
DeliverClassic(s, w, event) ==
  LET g == s.sock[w].ctx IN
  CASE g = Host -> Hear(s, w, event)
    [] g # Host /\ s.aborted[g] -> s
    [] OTHER -> [s EXCEPT !.queue[g] = Append(@, event)]

\* #receive()
Receive(s, w, event) ==
  CASE s.sock[w].mode = "pending" -> [s EXCEPT !.sock[w].pending = Append(@, event)]
    [] s.sock[w].mode = "classic" -> DeliverClassic(s, w, event)
    [] OTHER -> RegistryReceive(s, w, event)

\* #receiveClose()
ReceiveClose(s, w, event) ==
  Receive(IF s.sock[w].own THEN [s EXCEPT !.sock[w].ready = "closed"]
          ELSE [s EXCEPT !.sock[w].peer = TRUE, !.sock[w].ready = "closing"], w, event)

Event(s, e, kind, n, under) == [kind |-> kind, at |-> s.receiver[e], n |-> n, under |-> under]
CanClose(s, w) == ~s.sock[w].released /\ s.sock[w].ready # "closed" /\ ~s.sock[w].own
Closing(s, w) ==
  [s EXCEPT !.used = TRUE, !.sock[w].own = TRUE, !.sock[w].ready = IF s.sock[w].peer THEN "closed" ELSE "closing"]

\* The host answers a close at once: the other half wrote its own before.  Nothing is
\* sent over a connection that was dropped.
HostAnswers(s) ==
  LET t == Closing(s, "h") IN
  CASE ~CanClose(s, "h") -> s
    [] CanClose(s, "h") /\ s.sentClose["b"] -> t
    [] OTHER -> ReceiveClose([t EXCEPT !.sentClose["b"] = TRUE], "a", Event(t, "a", "close", 0, 0))

\* #answerPeerClose(): nobody answers a dropped connection.
AnswerPeerClose(s, w, event) ==
  CASE s.sock[w].mode # "classic" \/ s.sock[w].own -> s
    [] s.sock[w].mode = "classic" /\ ~s.sock[w].own /\ event.kind = "dropped" -> [s EXCEPT !.sock[w].ready = "closed"]
    [] OTHER -> IF w = "h" THEN HostAnswers(s)
                ELSE IF CanClose(s, w) THEN Enqueue(Closing(s, w), w, "close", 0, LockOf(s, s.sock[w].ctx)) ELSE s

\* MemoryWebSocketEndpoint.send() and close()
Put(s, e, item) ==
  CASE s.sentClose[e] -> s
    [] ~s.sentClose[e] /\ item.kind # "close" ->
         LET event == Event(s, Other[e], IF item.kind = "auto" THEN "message" ELSE item.kind, item.n, item.under)
         IN Receive(s, event.at, event)
    [] OTHER ->
         LET event == Event(s, Other[e], "close", item.n, item.under)
             t == [s EXCEPT !.sentClose[e] = TRUE]
         IN AnswerPeerClose(ReceiveClose(t, event.at, event), event.at, event)

\* MemoryWebSocketEndpoint.abort(): each end that heard no close hears this one.
Drop(s) ==
  LET hears(t, e) ==
        IF s.sentClose[Other[e]] THEN t
        ELSE LET event == Event(t, e, "dropped", 0, 0)
             IN AnswerPeerClose(ReceiveClose(t, event.at, event), event.at, event)
  IN hears(hears([s EXCEPT !.sentClose = [e \in Ends |-> TRUE]], "a"), "b")

\* close(), by the owner of a wrapper
Close(s, w) ==
  CASE ~CanClose(s, w) -> s
    [] CanClose(s, w) /\ s.sock[w].ctx = Host -> Put(Closing(s, w), EndOf[w], Item(s, w, "close", 0, 0))
    [] OTHER -> Enqueue(Closing(s, w), w, "close", 0, LockOf(s, s.sock[w].ctx))

-----------------------------------------------------------------------------
(***************************************************************************)
(* What the code of the actor does in a slice                              *)
(***************************************************************************)

Ready(w) ==
  LET pump == net.sock[w].pump IN
  pump # <<>> /\ ~net.sock[w].muted /\ (pump[1].lock = Rejected \/ pump[1].lock <= confirmed)
Drained == \A w \in Wrappers : ~Ready(w)

\* The next write leaves when its lock is released; the chain ends with one
\* that rejected.
Pump(w) ==
  /\ Ready(w)
  /\ LET item == Head(net.sock[w].pump)
         t == [net EXCEPT !.sock[w].pump = Tail(@)]
         u == Put(t, EndOf[w], item)
     IN net' = CASE item.lock = Rejected -> [net EXCEPT !.sock[w].muted = TRUE]
                 [] item.lock # Rejected /\ (t.sock[w].released \/ t.aborted[item.gen]) -> t
                 [] OTHER -> IF item.kind = "close" /\ Hibernates(u, w) THEN OwnCloseWritten(u) ELSE u
  /\ UNCHANGED <<storage, counters>>

\* Code of the actor has a wrapper of its own context at hand, and does not
\* touch the half that it returned.
Code(w) == net.slice # 0 /\ net.sock[w].ctx = net.slice /\ (w = "b" => net.reply = -1)

Writes ==
  /\ net.slice # 0 /\ ~net.aborted[net.slice] /\ written < MaxWrites
  /\ written' = written + 1
  /\ UNCHANGED <<net, confirmed, counters>>

Send(w) ==
  /\ Code(w) /\ sent < MaxFrames /\ ~net.sock[w].released
  /\ net.sock[w].ready # "closed" /\ ~net.sock[w].peer /\ ~(Hibernates(net, w) /\ net.sock[w].own)
  /\ sent' = sent + 1
  /\ net' = Enqueue([net EXCEPT !.used = TRUE], w, "message", sent + 1, LockOf(net, net.slice))
  /\ UNCHANGED <<storage, notes>>

CloseByCode(w) ==
  /\ Code(w) /\ CanClose(net, w)
  /\ net' = Close(net, w)
  /\ UNCHANGED <<storage, counters>>

\* attachmentChanged() of the registry tells the host of a socket that it lists.
NobodyIsTold(s, note) == s    \* seeded fault
AttachmentChanged(s, note) ==
  IF s.listed[s.meta.accepted] /\ s.mirror # -1 THEN [s EXCEPT !.mirror = note] ELSE s

\* serializeAttachment(): before the half hibernates, its metadata alone has it.
SerializeAttachment ==
  /\ Code("a") /\ notes < MaxNotes
  /\ notes' = notes + 1
  /\ LET hib  == Hibernates(net, "a")
         meta == [net.meta EXCEPT !.note = notes + 1, !.told = IF hib THEN notes + 1 ELSE @]
         t    == [net EXCEPT !.meta = meta]
     IN net' = IF hib THEN AttachmentChanged(t, notes + 1) ELSE t
  /\ UNCHANGED <<storage, sent>>

\* acceptWebSocket() of the registry
AcceptWebSocket ==
  /\ Code("a") /\ net.sock["a"].mode = "pending" /\ ~net.used
  /\ net' = [net EXCEPT !.used = TRUE, !.sock["a"].mode = "hibernatable", !.sock["a"].pending = <<>>,
                        !.meta.accepted = net.slice, !.listed[net.slice] = TRUE, !.mirror = 0]
  /\ UNCHANGED <<storage, counters>>

\* #dropWith(): the connection of a classic socket goes with its context.
DropWith(s, w) ==
  IF s.sock[w].mode = "classic" /\ ~s.sock[w].released /\ s.sock[w].ready # "closed"
  THEN Drop([s EXCEPT !.sock[w].ready = "closed", !.sock[w].own = TRUE]) ELSE s

\* The listeners hear of what arrived before them.
DeliverPending(s, w) ==
  LET pending == s.sock[w].pending
      g == s.sock[w].ctx
      t == [s EXCEPT !.used = TRUE, !.sock[w].mode = "classic", !.sock[w].pending = <<>>]
  IN CASE g = Host -> [t EXCEPT !.heard[w] = @ \o pending]
       [] g # Host /\ s.aborted[g] -> t
       [] OTHER -> [t EXCEPT !.queue[g] = @ \o pending]

EnableSilently(s, w) == DeliverPending(s, w)    \* seeded fault
\* accept(): what arrived before is delivered, and a close, which comes last, is answered.
EnableClassic(s, w) ==
  LET pending == s.sock[w].pending
      t == DeliverPending(s, w)
      u == IF pending # <<>> /\ IsClose(Last(pending)) THEN AnswerPeerClose(t, w, Last(pending)) ELSE t
  IN IF s.sock[w].ctx # Host /\ s.aborted[s.sock[w].ctx] THEN DropWith(u, w) ELSE u
Accept(w) ==
  /\ Code(w) \/ (w = "h" /\ net.receiver["b"] = "h")
  /\ net.sock[w].mode = "pending" /\ ~net.sock[w].released
  /\ net' = EnableClassic(net, w)
  /\ UNCHANGED <<storage, counters>>

\* A Response with half b is returned; it waits for the writes before it.
Respond ==
  /\ Code("b") /\ net.sock["b"].mode = "pending" /\ ~net.aborted[net.slice]
  /\ net' = [net EXCEPT !.used = TRUE, !.reply = LockOf(net, net.slice)]
  /\ UNCHANGED <<storage, counters>>

\* IoContext.abort()
Abort(s) ==
  IF s.aborted[s.gen] THEN s
  ELSE LET drop(t, w) == IF t.sock[w].ctx = s.gen THEN DropWith(t, w) ELSE t
       IN drop(drop([s EXCEPT !.aborted[s.gen] = TRUE], "a"), "b")
Aborts ==
  /\ ~net.aborted[net.gen]
  /\ net' = Abort(net)
  /\ UNCHANGED <<storage, counters>>

-----------------------------------------------------------------------------
(***************************************************************************)
(* Events                                                                  *)
(***************************************************************************)

\* An event gets the gate.  A handler runs when the constructor is done.
Dispatched(s, g, event) ==
  LET hib == Hibernates(s, event.at)
      r == [s EXCEPT !.slice = g, !.meta.dispatched = @ \/ (hib /\ IsClose(event))]
      t == IF hib /\ ~s.started[g] THEN r ELSE Hear(r, event.at, event)
  IN IF hib /\ (IsClose(event) \/ s.meta.completion)
     THEN [t EXCEPT !.ends = @ \cup {[kind |-> IF IsClose(event) THEN "close" ELSE "message", gen |-> g]}] ELSE t
RunEvent(g) ==
  /\ Drained /\ net.slice = 0 /\ ~net.aborted[g] /\ net.queue[g] # <<>>
  /\ net' = Dispatched([net EXCEPT !.queue[g] = Tail(@)], g, Head(net.queue[g]))
  /\ UNCHANGED <<storage, counters>>

\* start(): the constructor
Starts ==
  /\ Drained /\ net.slice = 0 /\ ~net.started[net.gen] /\ ~net.aborted[net.gen]
  /\ net' = [net EXCEPT !.slice = net.gen, !.started[net.gen] = TRUE]
  /\ UNCHANGED <<storage, counters>>

\* An event that waited at the gate of an aborted actor: a close still leaves
\* the list.
Refused(g) ==
  /\ net.aborted[g] /\ net.queue[g] # <<>>
  /\ LET event == Head(net.queue[g])
         t == [net EXCEPT !.queue[g] = Tail(@)]
     IN net' = IF Hibernates(t, event.at) /\ IsClose(event) THEN Settle(t, TRUE, g) ELSE t
  /\ UNCHANGED <<storage, counters>>

\* atCheckpointEnd(): closed sockets leave the lists, and a close that was written is
\* complete.
CheckpointEnd ==
  /\ Drained /\ (net.slice # 0 \/ net.ends # {})
  /\ LET closed == {end.gen : end \in {e \in net.ends : e.kind = "close"}}
         completes == \E end \in net.ends : net.meta.completion \/ end.kind = "complete"
         t == [net EXCEPT !.slice = 0, !.ends = {},
                          !.listed = [g \in Gens |-> @[g] /\ g \notin closed],
                          !.mirror = IF \E g \in closed : net.listed[g] THEN -1 ELSE @]
     IN net' = IF completes THEN CompleteOwnClose(t) ELSE t
  /\ UNCHANGED <<storage, counters>>

Confirms ==
  /\ confirmed < written
  /\ confirmed' = confirmed + 1
  /\ UNCHANGED <<net, written, counters>>

\* A commit fails: the output gate breaks, and with it the actor.
CommitFails ==
  /\ confirmed < written
  /\ LET reject(item) == [item EXCEPT !.lock = IF @ > confirmed THEN Rejected ELSE @]
         rejects(pump) == [i \in DOMAIN pump |-> reject(pump[i])]
         t == [net EXCEPT !.broken[net.gen] = TRUE,
                          !.sock = [w \in Wrappers |-> [net.sock[w] EXCEPT !.pump = rejects(@)]]]
     IN net' = Abort(t)
  /\ written' = confirmed
  /\ UNCHANGED <<confirmed, counters>>

\* A container replaces the one that broke, with the sockets of the mirror.
Rehydrate(s) ==
  [s EXCEPT !.sock["a"].ctx = s.gen, !.sock["a"].mode = "hibernatable", !.sock["a"].pending = <<>>,
            !.meta = [accepted |-> s.gen, note |-> IF s.mirror > 0 THEN s.mirror ELSE s.meta.note,
                      told |-> s.meta.told, dispatched |-> FALSE, completion |-> FALSE, released |-> FALSE],
            !.listed[s.gen] = TRUE]
Replace ==
  /\ Drained /\ net.slice = 0 /\ net.ends = {} /\ net.gen < MaxGens /\ net.aborted[net.gen] /\ written = confirmed
  /\ LET t == [net EXCEPT !.gen = @ + 1] IN net' = IF t.mirror # -1 THEN Rehydrate(t) ELSE t
  /\ UNCHANGED <<storage, counters>>

-----------------------------------------------------------------------------
(***************************************************************************)
(* The host                                                                *)
(***************************************************************************)

\* coupleToHost(): what the actor kept of half b is inert.
CoupleToHost ==
  /\ net.slice = 0 /\ Drained /\ net.sock["b"].mode = "pending" /\ ~net.sock["b"].released
  /\ net.reply \in 0..confirmed /\ ~net.aborted[net.sock["b"].ctx]
  /\ LET b == net.sock["b"]
         t == [net EXCEPT !.sock["h"] = [b EXCEPT !.ctx = Host, !.pump = <<>>], !.receiver["b"] = "h", !.used = TRUE,
                          !.sock["b"] = [b EXCEPT !.released = TRUE, !.ctx = Host, !.pending = <<>>, !.ready = "closed"]]
     IN net' = IF t.meta.completion THEN CompleteOwnClose(t) ELSE t
  /\ UNCHANGED <<storage, counters>>

Coupled == net.slice = 0 /\ Drained /\ net.receiver["b"] = "h"
Hosted == Coupled /\ net.sock["h"].mode = "classic"
HostSends(kind) ==
  /\ Hosted /\ sent < MaxFrames /\ ~net.sock["h"].peer /\ net.sock["h"].ready # "closed"
  /\ sent' = sent + 1
  /\ net' = Put([net EXCEPT !.used = TRUE], "b", Item(net, "h", kind, sent + 1, 0))
  /\ UNCHANGED <<storage, notes>>

HostCloses ==
  /\ Coupled /\ CanClose(net, "h")
  /\ net' = Close(net, "h")
  /\ UNCHANGED <<storage, counters>>

\* The transport under the host's socket is gone.
TransportClosed ==
  /\ Hosted /\ (\E e \in Ends : ~net.sentClose[e])
  /\ net' = Drop(net)
  /\ UNCHANGED <<storage, counters>>

-----------------------------------------------------------------------------

Continuation ==
  \/ \E w \in Wrappers : Pump(w)
  \/ \E g \in Gens : RunEvent(g) \/ Refused(g)
  \/ CheckpointEnd \/ Confirms

Next ==
  \/ Continuation \/ CommitFails \/ Starts \/ Replace
  \/ \E w \in {"a", "b"} : Send(w) \/ CloseByCode(w)
  \/ \E w \in Wrappers : Accept(w)
  \/ Writes \/ SerializeAttachment \/ AcceptWebSocket \/ Respond \/ Aborts
  \/ CoupleToHost \/ HostCloses \/ TransportClosed
  \/ \E kind \in {"message", "ping"} : HostSends(kind)

Spec == Init /\ [][Next]_vars /\ WF_vars(Continuation)

-----------------------------------------------------------------------------
(***************************************************************************)
(* Properties                                                              *)
(***************************************************************************)

\* What a listener hears was sent after writes that are confirmed: no reader
\* of the other half learns of a write that can still be lost.
OnlyDurableIsHeard ==
  \A w \in Wrappers : \A i \in 1..Len(net.heard[w]) : net.heard[w][i].under <= confirmed

\* What the listeners of a half hear is in the order in which it was sent, each frame once,
\* and nothing comes after the close.
HeardInOrder ==
  \A w \in Wrappers : \A i, j \in 1..Len(net.heard[w]) :
    i < j =>
      /\ ~IsClose(net.heard[w][i])
      /\ net.heard[w][i].n > 0 /\ net.heard[w][j].n > 0 => net.heard[w][i].n < net.heard[w][j].n

\* An open socket that a live actor lists is in the mirror, with the last
\* attachment that was serialized since it hibernates, in whichever container that
\* was, and the actor reads the same one; without any, the mirror has none.  A
\* host may rebuild the socket from the mirror alone (attachmentChanged(),
\* #rehydrate()).
ListedIsMirrored ==
  ~net.aborted[net.gen] /\ net.listed[net.gen] /\ net.sock["a"].ready = "open" =>
    net.mirror = net.meta.told /\ (net.mirror > 0 => net.meta.note = net.mirror)

\* A close of one half closes both, while the other half is read and the code
\* of both has its first container.
Lives(w) == net.sock[w].ctx = Host \/ (net.gen = 1 /\ ~net.aborted[1])
CloseSettles ==
  []<>(\A w \in {"a", net.receiver["b"]} :
         LET v == IF w = "a" THEN net.receiver["b"] ELSE "a" IN
         net.sock[w].own /\ net.sock[v].mode = "classic" /\ Lives(w) /\ Lives(v) =>
           net.sock[w].ready = "closed" /\ net.sock[v].ready = "closed")

=============================================================================
