-------------------------- MODULE WorkerSupervisor --------------------------
(***************************************************************************)
(* BrowserWorkerSupervisor of src/src/browser/worker-supervisor.ts and the *)
(* bootstrap of its workers, serveBrowserWorker() of worker-protocol.ts.   *)
(* The supervisor owns one worker per key, and the client transports that  *)
(* outlast it: an idle worker is probed, evicted and started again, and a  *)
(* deletion bars its keys until their storage is gone.                     *)
(*                                                                         *)
(* The synchronous methods of the class are operators on its state, the    *)
(* record sup; what an await separates are actions.  A worker is its place *)
(* in sup.workers, 0 is none.  A frame is a number, Bye is a close frame.  *)
(***************************************************************************)
EXTENDS Integers, Sequences, FiniteSets, FiniteSetsExt, SequencesExt

CONSTANTS
  Keys,        \* the keys of the configurations
  Within,      \* the keys that the deletion of a key includes
  Conns,       \* the client transports
  KeyOf,       \* the key that each transport connects to
  Ids,         \* the ids under which they connect
  Callers,     \* the holders of references
  CallerKey,   \* the key that each of them refers to
  Overtakes,   \* whether a message may overtake one on another port
  ProbesHeld,  \* whether a probe may begin while frames are held for the worker's start
  MaxWorkers,  \* bound on the workers
  MaxFrames,   \* bound on the frames that the transports send
  MaxProbes,   \* bound on the hibernation probes
  MaxTroubles  \* bound on what is stopped, disposed of or woken from outside, and on what fails

ASSUME SupervisorAssumption ==
  /\ Within \in [Keys -> SUBSET Keys] /\ KeyOf \in [Conns -> Keys] /\ CallerKey \in [Callers -> Keys]
  /\ Overtakes \in BOOLEAN /\ ProbesHeld \in BOOLEAN
  /\ {MaxWorkers, MaxFrames, MaxProbes, MaxTroubles} \subseteq Nat

VARIABLES
  sup,        \* the supervisor's workers, snapshots and sockets, and what the workers do
  epochs,     \* #identities: the epoch of each key that was seen
  deletions,  \* #deletions and #deletionTail: the pending ones, the first one under way
  settled,    \* the number of deletions that are over
  callers,    \* the calls of resolve()
  disposed,
  sent, got,  \* the frames that each transport sent, and those that its actor saw
  probes, troubles

counters == <<probes, troubles>>
vars     == <<sup, epochs, deletions, settled, callers, disposed, sent, got, counters>>

Bye    == 0
Unseen == -1
NoSocket == [stage |-> "new", id |-> CHOOSE i \in Ids : TRUE, closing |-> FALSE, port |-> 0, pending |-> <<>>]
NoCall   == [stage |-> "none", epoch |-> Unseen, waits |-> {}, worker |-> 0]

Init ==
  /\ sup = [placed |-> [k \in Keys |-> 0], asleep |-> [k \in Keys |-> {}],
            sockets |-> [c \in Conns |-> NoSocket], workers |-> <<>>]
  /\ epochs = [k \in Keys |-> Unseen]
  /\ deletions = <<>> /\ settled = 0
  /\ callers = [x \in Callers |-> NoCall]
  /\ disposed = FALSE
  /\ sent = [c \in Conns |-> 0] /\ got = [c \in Conns |-> <<>>]
  /\ probes = 0 /\ troubles = 0

-----------------------------------------------------------------------------
(***************************************************************************)
(* The synchronous methods                                                 *)
(***************************************************************************)

IsCurrent(s, w) == s.placed[s.workers[w].key] = w
Open(s, c) == s.sockets[c].stage = "open"

\* #socketsFor()
SocketsFor(s, k) == {c \in Conns : Open(s, c) /\ KeyOf[c] = k}

\* #ensure() throws.
Barred(k) == disposed \/ \E i \in DOMAIN deletions : k \in deletions[i].includes

\* A message to a worker, on one of its ports.
Send(s, w, type, c, frame) ==
  [s EXCEPT !.workers[w].inbox = Append(@, [type |-> type, conn |-> c, frame |-> frame])]

Finish(s, c) == [s EXCEPT !.sockets[c] = [NoSocket EXCEPT !.stage = "closed", !.id = s.sockets[c].id]]

\* #end() of each socket of a key
EndSockets(s, k) ==
  FoldSet(LAMBDA c, t :
            Finish(IF t.sockets[c].port = 0 THEN t ELSE Send(t, t.sockets[c].port, "frame", c, Bye), c),
          s, SocketsFor(s, k))

Attach(s, c, w) == [s EXCEPT !.sockets[c].port = w]

\* A snapshot names exactly the ids of the live transports, each once.
DescribesLiveSockets(s, k, snapshot) ==
  LET ids(conns) == {s.sockets[c].id : c \in conns}
  IN \E conns \in snapshot :
       Cardinality(ids(conns)) = Cardinality(conns) /\ ids(conns) = ids(SocketsFor(s, k))

\* #spawn(): the transports that the snapshot names get ports into the new worker.
Spawn(s, k) ==
  LET w     == Len(s.workers) + 1
      live  == SocketsFor(s, k)
      wakes == DescribesLiveSockets(s, k, s.asleep[k])
      t     == IF s.asleep[k] # {} /\ ~wakes THEN EndSockets(s, k) ELSE s
      fresh == [key |-> k, phase |-> "booting", open |-> IF wakes THEN live ELSE {},
                inbox |-> <<>>, outbox |-> <<>>,
                ready |-> FALSE, probe |-> "none"]
      u     == [t EXCEPT !.placed[k] = w, !.asleep[k] = {}, !.workers = Append(@, fresh)]
  IN FoldSet(LAMBDA c, v : Attach(v, c, w), u, fresh.open)

\* seeded fault: new work leaves a hibernation probe as it is.
Undisturbed(probe) == probe
\* New work cancels a hibernation probe.
Cancel(probe) == IF probe = "none" THEN probe ELSE "canceled"
Ensure(s, k) ==
  IF s.placed[k] = 0 THEN Spawn(s, k) ELSE [s EXCEPT !.workers[s.placed[k]].probe = Cancel(@)]
CanEnsure(k) == ~Barred(k) /\ (sup.placed[k] # 0 \/ Len(sup.workers) < MaxWorkers)

\* #connect()
ConnectTo(s, c, w) == Send(Attach(s, c, w), w, "connect", c, Bye)

Hold(s, c, frame) == [s EXCEPT !.sockets[c].pending = Append(@, frame)]
Post(s, c, frame) ==
  LET t == Send(s, s.sockets[c].port, "frame", c, frame)
  IN IF frame = Bye THEN Finish(t, c) ELSE t

\* #receive()
Takes(s, c, frame) == Open(s, c) /\ (s.sockets[c].closing => frame = Bye)
Listening(worker) == worker.ready /\ worker.probe = "none"
Receive(s, c, frame) ==
  LET t == Ensure(s, KeyOf[c])
      w == t.placed[KeyOf[c]]
      u == IF t.sockets[c].port = 0 THEN ConnectTo(t, c, w) ELSE t
  IN CASE ~Takes(s, c, frame) -> s
       [] Takes(s, c, frame) /\ ~Open(t, c) -> t
       [] OTHER -> IF Listening(u.workers[w]) THEN Post(u, c, frame) ELSE Hold(u, c, frame)

\* #close()
CloseSocket(s, c) ==
  IF ~Open(s, c) \/ s.sockets[c].closing THEN s
  ELSE Receive([s EXCEPT !.sockets[c].closing = TRUE], c, Bye)

\* seeded fault: the frames that are posted stay pending.
ReleaseAgain(s, c) == FoldLeft(LAMBDA t, frame : Post(t, c, frame), s, s.sockets[c].pending)
\* #flush()
Release(s, c) ==
  FoldLeft(LAMBDA t, frame : Post(t, c, frame), [s EXCEPT !.sockets[c].pending = <<>>], s.sockets[c].pending)
Flush(s, w) ==
  IF ~Listening(s.workers[w]) THEN s
  ELSE FoldSet(LAMBDA c, t : Release(t, c), s,
               {c \in SocketsFor(s, s.workers[w].key) : s.sockets[c].port # 0})

\* #discard(): the worker is terminated; what it still reports is ignored.
Discard(s, w, keepSockets) ==
  LET k == s.workers[w].key
      t == [s EXCEPT !.placed[k] = 0, !.asleep[k] = IF keepSockets THEN @ ELSE {},
                     !.workers[w] = [@ EXCEPT !.phase = "dead", !.inbox = <<>>, !.open = {},
                                              !.outbox = <<>>, !.probe = "none"],
                     !.sockets = [c \in Conns |-> IF c \in SocketsFor(s, k) THEN [@[c] EXCEPT !.port = 0] ELSE @[c]]]
  IN CASE ~IsCurrent(s, w) -> s
       [] IsCurrent(s, w) /\ keepSockets -> t
       [] OTHER -> EndSockets(t, k)

CloseSockets(s, k) == EndSockets([s EXCEPT !.asleep[k] = {}], k)
Stop(s, k) == IF s.placed[k] = 0 THEN CloseSockets(s, k) ELSE Discard(s, s.placed[k], FALSE)

\* #resume()
Resume(s, w) == Flush([s EXCEPT !.workers[w].probe = "none"], w)

\* A call of resolve() goes on: its deletions are over, or its worker's readiness
\* is decided.
Waited(x) == callers[x].stage = "waiting" /\ callers[x].waits = {}
Reached(x) == callers[x].stage = "starting" /\ sup.workers[callers[x].worker].ready
Rejected(x) ==
  LET w == callers[x].worker IN
  callers[x].stage = "starting" /\ ~sup.workers[w].ready /\ ~IsCurrent(sup, w)

\* A continuation runs before the next event of the platform.
SettledDeletion == deletions # <<>> /\ deletions[1].left = {}
Drained == ~SettledDeletion /\ \A x \in Callers : ~(Waited(x) \/ Reached(x) \/ Rejected(x))

-----------------------------------------------------------------------------
(***************************************************************************)
(* The clients                                                             *)
(***************************************************************************)

See(K) == [k \in Keys |-> IF k \in K /\ epochs[k] = Unseen THEN 0 ELSE epochs[k]]

\* ensure()
Wake(k) ==
  /\ Drained /\ CanEnsure(k) /\ troubles < MaxTroubles
  /\ troubles' = troubles + 1
  /\ sup' = Ensure(sup, k) /\ epochs' = See({k})
  /\ UNCHANGED <<deletions, settled, callers, disposed, sent, got, probes>>

\* connect(): a reused id retires the previous transport and refuses the new one.
Connect(c, id) ==
  LET k == KeyOf[c]
      previous == {d \in SocketsFor(sup, k) : sup.sockets[d].id = id}
      woken == Ensure(sup, k)
      joined == [woken EXCEPT !.sockets[c] = [NoSocket EXCEPT !.stage = "open", !.id = id]]
      again == \E d \in Conns : sup.sockets[d].stage # "new"
  IN /\ Drained /\ sup.sockets[c].stage = "new"
     /\ again => troubles < MaxTroubles
     /\ troubles' = IF again THEN troubles + 1 ELSE troubles
     /\ IF previous # {}
        THEN /\ CanEnsure(k)
             /\ sup' = Finish(FoldSet(LAMBDA d, s : CloseSocket(s, d), sup, previous), c)
             /\ UNCHANGED epochs
        ELSE IF Barred(k)
        THEN sup' = Finish(sup, c) /\ UNCHANGED epochs
        ELSE /\ CanEnsure(k)
             /\ sup' = ConnectTo(joined, c, joined.placed[k]) /\ epochs' = See({k})
     /\ UNCHANGED <<deletions, settled, callers, disposed, sent, got, probes>>

\* The client sends a frame, or closes the transport.
ClientSends(c) ==
  /\ Drained /\ Takes(sup, c, sent[c] + 1) /\ MapThenSumSet(LAMBDA d : sent[d], Conns) < MaxFrames /\ CanEnsure(KeyOf[c])
  /\ sent' = [sent EXCEPT ![c] = @ + 1]
  /\ sup' = Receive(sup, c, sent'[c])
  /\ UNCHANGED <<epochs, deletions, settled, callers, disposed, got, counters>>

ClientCloses(c) ==
  /\ Drained /\ Open(sup, c) /\ ~sup.sockets[c].closing /\ CanEnsure(KeyOf[c])
  /\ sup' = CloseSocket(sup, c)
  /\ UNCHANGED <<epochs, deletions, settled, callers, disposed, sent, got, counters>>

\* closeSockets(), stop()
SocketsClosed(k) ==
  /\ troubles < MaxTroubles
  /\ troubles' = troubles + 1
  /\ sup' = CloseSockets(sup, k)
  /\ UNCHANGED <<epochs, deletions, settled, callers, disposed, sent, got, probes>>

Stopped(k) ==
  /\ troubles < MaxTroubles
  /\ troubles' = troubles + 1
  /\ sup' = Stop(sup, k)
  /\ UNCHANGED <<epochs, deletions, settled, callers, disposed, sent, got, probes>>

\* delete(): the barrier is up before anything is torn down.
Delete(k) ==
  LET seen == See({k})
      includes == Within[k] \cup {k}
      targets == {t \in includes : seen[t] # Unseen}
  IN /\ troubles < MaxTroubles
     /\ troubles' = troubles + 1
     /\ deletions' = Append(deletions, [includes |-> includes, left |-> targets, failed |-> FALSE])
     /\ epochs' = [t \in Keys |-> IF t \in targets THEN seen[t] + 1 ELSE seen[t]]
     /\ sup' = FoldSet(LAMBDA t, s : Stop(CloseSockets(s, t), t), sup, targets)
     /\ UNCHANGED <<settled, callers, disposed, sent, got, probes>>

\* [Symbol.dispose]()
Dispose ==
  /\ ~disposed /\ troubles < MaxTroubles
  /\ disposed' = TRUE
  /\ troubles' = troubles + 1
  /\ LET placed == {k \in Keys : sup.placed[k] # 0}
         asleep == {k \in Keys : sup.asleep[k] # {}}
         stopped == FoldSet(LAMBDA k, s : Discard(s, s.placed[k], FALSE), sup, placed)
     IN sup' = FoldSet(LAMBDA k, s : CloseSockets(s, k), stopped, asleep)
  /\ UNCHANGED <<epochs, deletions, settled, callers, sent, got, probes>>

-----------------------------------------------------------------------------
(***************************************************************************)
(* References: reference() and resolve()                                   *)
(***************************************************************************)

Pending(k) == {settled + i : i \in {j \in DOMAIN deletions : k \in deletions[j].includes}}

\* seeded fault: a reference is never stale.
AlwaysFresh(k, epoch) == TRUE
\* assertCurrent()
Fresh(k, epoch) == epochs[k] = epoch

Reference(x) ==
  /\ callers[x].stage = "none"
  /\ epochs' = See({CallerKey[x]})
  /\ callers' = [callers EXCEPT ![x] = [@ EXCEPT !.stage = "holds", !.epoch = epochs'[CallerKey[x]]]]
  /\ UNCHANGED <<sup, deletions, settled, disposed, sent, got, counters>>

Call(x) == callers[x]
Ends(x, stage) == callers' = [callers EXCEPT ![x] = [NoCall EXCEPT !.stage = stage]]

Resolve(x) ==
  /\ Call(x).stage = "holds"
  /\ IF Fresh(CallerKey[x], Call(x).epoch)
     THEN callers' = [callers EXCEPT ![x] = [@ EXCEPT !.stage = "waiting", !.waits = Pending(CallerKey[x])]]
     ELSE Ends(x, "refused")
  /\ UNCHANGED <<sup, epochs, deletions, settled, disposed, sent, got, counters>>

\* waitForDeletion() looks again; then the worker is ensured.
WaitAgain(x) ==
  /\ Waited(x) /\ Pending(CallerKey[x]) # {}
  /\ callers' = [callers EXCEPT ![x].waits = Pending(CallerKey[x])]
  /\ UNCHANGED <<sup, epochs, deletions, settled, disposed, sent, got, counters>>

EnsureFor(x) ==
  /\ Waited(x) /\ Pending(CallerKey[x]) = {}
  /\ IF Fresh(CallerKey[x], Call(x).epoch) /\ ~disposed
     THEN /\ CanEnsure(CallerKey[x])
          /\ sup' = Ensure(sup, CallerKey[x])
          /\ callers' = [callers EXCEPT ![x].stage = "starting", ![x].worker = sup'.placed[CallerKey[x]]]
     ELSE Ends(x, "refused") /\ UNCHANGED sup
  /\ UNCHANGED <<epochs, deletions, settled, disposed, sent, got, counters>>

Resolved(x) ==
  /\ Reached(x)
  /\ Ends(x, IF Fresh(CallerKey[x], Call(x).epoch) THEN "got" ELSE "refused")
  /\ UNCHANGED <<sup, epochs, deletions, settled, disposed, sent, got, counters>>

ResolveFails(x) ==
  /\ Rejected(x)
  /\ Ends(x, "refused")
  /\ UNCHANGED <<sup, epochs, deletions, settled, disposed, sent, got, counters>>

-----------------------------------------------------------------------------
(***************************************************************************)
(* A deletion is carried out                                               *)
(***************************************************************************)

\* removeStorage() of one target returns or throws.
StorageRemoved(k, fails) ==
  /\ Drained /\ deletions # <<>> /\ k \in deletions[1].left
  /\ deletions' = [deletions EXCEPT ![1].left = @ \ {k}, ![1].failed = @ \/ fails]
  /\ UNCHANGED <<sup, epochs, settled, callers, disposed, sent, got, counters>>

\* The callers that wait for a deletion that failed are rejected.
DeletionSettles ==
  /\ SettledDeletion
  /\ settled' = settled + 1
  /\ deletions' = Tail(deletions)
  /\ callers' = [x \in Callers |->
       IF settled' \notin Call(x).waits THEN Call(x)
       ELSE IF deletions[1].failed THEN [NoCall EXCEPT !.stage = "refused"]
       ELSE [Call(x) EXCEPT !.waits = @ \ {settled'}]]
  /\ UNCHANGED <<sup, epochs, disposed, sent, got, counters>>

-----------------------------------------------------------------------------
(***************************************************************************)
(* The workers                                                             *)
(***************************************************************************)

Worker(w) == sup.workers[w]
Tell(worker, type, conns) == [worker EXCEPT !.outbox = Append(@, [type |-> type, conns |-> conns])]
Becomes(w, worker) == sup' = [sup EXCEPT !.workers[w] = worker]

\* initialize() of the bootstrap
Boots(w) ==
  /\ Drained /\ Worker(w).phase = "booting"
  /\ Becomes(w, Tell([Worker(w) EXCEPT !.phase = "serving"], "ready", {}))
  /\ UNCHANGED <<epochs, deletions, settled, callers, disposed, sent, got, counters>>

BootFails(w) ==
  /\ Drained /\ Worker(w).phase = "booting" /\ troubles < MaxTroubles
  /\ troubles' = troubles + 1
  /\ Becomes(w, Tell([Worker(w) EXCEPT !.phase = "failed"], "failed", {}))
  /\ UNCHANGED <<epochs, deletions, settled, callers, disposed, sent, got, probes>>

\* The message at place i is the next one: connections and probes have a port
\* each, and so does each transport, which is read once the actor accepted it.
Port(message) == <<message.type, IF message.type = "frame" THEN {message.conn} ELSE {}>>
FirstOnPort(w, i) ==
  LET inbox == Worker(w).inbox IN
  /\ \A j \in 1..(i - 1) : Overtakes /\ Port(inbox[j]) # Port(inbox[i])
  /\ inbox[i].type = "frame" =>
       \A j \in DOMAIN inbox : ~(inbox[j].type = "connect" /\ inbox[j].conn = inbox[i].conn)

\* prepareHibernation(): the transports of an idle worker, nothing while it is busy.
Snapshot(worker, busy) == IF busy THEN {} ELSE {worker.open}

\* Work may change an idle worker into a busy one, which reports it.
Works(worker, busy) == IF busy THEN Tell(worker, "active", {}) ELSE worker

Serves(w) ==
  /\ Drained /\ Worker(w).phase = "serving"
  /\ \E i \in DOMAIN Worker(w).inbox, busy \in BOOLEAN :
       LET message == Worker(w).inbox[i]
           taken   == [Worker(w) EXCEPT !.inbox = RemoveAt(@, i)]
       IN /\ FirstOnPort(w, i)
          /\ Becomes(w,
               CASE message.type = "connect" -> Works([taken EXCEPT !.open = @ \cup {message.conn}], busy)
                 [] message.type = "prepare" -> Tell(taken, "snapshot", Snapshot(taken, busy))
                 [] message.frame = Bye -> Works([taken EXCEPT !.open = @ \ {message.conn}], busy)
                 [] OTHER -> Works(taken, busy))
          /\ got' = IF message.type = "frame" /\ message.frame # Bye /\ message.conn \in taken.open
                    THEN [got EXCEPT ![message.conn] = Append(@, message.frame)] ELSE got
  /\ UNCHANGED <<epochs, deletions, settled, callers, disposed, sent, counters>>

\* The actor closes a transport.
ActorCloses(w, c) ==
  /\ Drained /\ Worker(w).phase = "serving" /\ c \in Worker(w).open /\ troubles < MaxTroubles
  /\ troubles' = troubles + 1
  /\ Becomes(w, Tell([Worker(w) EXCEPT !.open = @ \ {c}], "close", {{c}}))
  /\ UNCHANGED <<epochs, deletions, settled, callers, disposed, sent, got, probes>>

-----------------------------------------------------------------------------
(***************************************************************************)
(* The events of the supervisor                                            *)
(***************************************************************************)

\* #hibernate(): from hibernate(), or when a worker was idle for a while.
Probe(w) ==
  /\ Drained /\ IsCurrent(sup, w) /\ Worker(w).probe = "none" /\ probes < MaxProbes
  /\ \/ ProbesHeld \/ Worker(w).ready
     \/ \A c \in SocketsFor(sup, Worker(w).key) : sup.sockets[c].pending = <<>>
  /\ probes' = probes + 1
  /\ sup' = Send([sup EXCEPT !.workers[w].probe = "probing"], w, "prepare", CHOOSE c \in Conns : TRUE, Bye)
  /\ UNCHANGED <<epochs, deletions, settled, callers, disposed, sent, got, troubles>>

\* The snapshot arrived: the worker is evicted if nothing happened meanwhile.
Evictable(s, w, snapshot) ==
  s.workers[w].probe = "probing" /\ DescribesLiveSockets(s, s.workers[w].key, snapshot)
Prepared(s, w, snapshot) ==
  IF Evictable(s, w, snapshot)
  THEN Discard([s EXCEPT !.asleep[s.workers[w].key] = snapshot], w, TRUE)
  ELSE Resume(s, w)

\* #reportLifecycle()
Reported(s, w, state) ==
  IF state = "active" THEN [s EXCEPT !.workers[w].probe = Cancel(@)] ELSE s

\* A message of the worker.
Heard(s, w, message) ==
  CASE ~IsCurrent(s, w) -> s
    [] message.type = "ready" -> Flush([s EXCEPT !.workers[w].ready = TRUE], w)
    [] message.type = "failed" -> Discard(s, w, FALSE)
    [] message.type = "snapshot" -> Prepared(s, w, message.conns)
    [] message.type = "close" -> FoldSet(LAMBDA c, t : IF t.sockets[c].port = w THEN Finish(t, c) ELSE t,
                                         s, UNION message.conns)
    [] OTHER -> Reported(s, w, message.type)

\* Events, calls, reports and each transport have a port of their own.
Channel(message) ==
  <<IF message.type \in {"ready", "failed"} THEN "events"
    ELSE message.type,
    IF message.type = "close" THEN message.conns ELSE {}>>
Hear(w) ==
  /\ Drained
  /\ \E i \in DOMAIN Worker(w).outbox :
       /\ \A j \in 1..(i - 1) : Overtakes /\ Channel(Worker(w).outbox[j]) # Channel(Worker(w).outbox[i])
       /\ sup' = Heard([sup EXCEPT !.workers[w].outbox = RemoveAt(@, i)], w, Worker(w).outbox[i])
  /\ UNCHANGED <<epochs, deletions, settled, callers, disposed, sent, got, counters>>

\* prepareHibernation() throws.
ProbeFails(w) ==
  /\ Drained /\ IsCurrent(sup, w) /\ Worker(w).probe # "none" /\ troubles < MaxTroubles
  /\ \E i \in DOMAIN Worker(w).inbox :
       /\ Worker(w).inbox[i].type = "prepare"
       /\ LET lost == [sup EXCEPT !.workers[w].inbox = RemoveAt(@, i)]
          IN sup' = Resume(lost, w)
  /\ troubles' = troubles + 1
  /\ UNCHANGED <<epochs, deletions, settled, callers, disposed, sent, got, probes>>

\* The worker reports an error.
WorkerFails(w) ==
  /\ Drained /\ IsCurrent(sup, w) /\ troubles < MaxTroubles
  /\ troubles' = troubles + 1
  /\ sup' = Discard(sup, w, FALSE)
  /\ UNCHANGED <<epochs, deletions, settled, callers, disposed, sent, got, probes>>

-----------------------------------------------------------------------------

Client ==
  \/ \E k \in Keys : Wake(k) \/ SocketsClosed(k) \/ Stopped(k) \/ Delete(k)
  \/ \E c \in Conns : ClientSends(c) \/ ClientCloses(c) \/ \E id \in Ids : Connect(c, id)
  \/ \E x \in Callers : Reference(x) \/ Resolve(x)
  \/ Dispose

Continuation ==
  \/ DeletionSettles
  \/ \E x \in Callers : WaitAgain(x) \/ EnsureFor(x) \/ Resolved(x) \/ ResolveFails(x)

Removal == \E k \in Keys : StorageRemoved(k, FALSE)

Work(w) == Boots(w) \/ Serves(w) \/ Hear(w)

Failure ==
  \/ \E w \in DOMAIN sup.workers : BootFails(w) \/ ProbeFails(w) \/ WorkerFails(w)
  \/ \E k \in Keys : StorageRemoved(k, TRUE)

Platform ==
  \E w \in DOMAIN sup.workers : Probe(w) \/ \E c \in Conns : ActorCloses(w, c)

Next ==
  \/ Client \/ Continuation \/ Removal \/ Failure \/ Platform
  \/ \E w \in DOMAIN sup.workers : Work(w)

Fairness ==
  /\ WF_vars(Continuation) /\ WF_vars(Removal)
  /\ \A w \in 1..MaxWorkers : WF_vars(w \in DOMAIN sup.workers /\ Work(w))

Spec == Init /\ [][Next]_vars /\ Fairness

-----------------------------------------------------------------------------
(***************************************************************************)
(* Properties                                                              *)
(***************************************************************************)

\* The variables keep their types, and ports lead into the key's current worker.
TypeOK ==
  /\ sup.placed \in [Keys -> 0..MaxWorkers]
  /\ epochs \in [Keys -> {Unseen} \cup 0..MaxTroubles]
  /\ settled + Len(deletions) <= MaxTroubles
  /\ \A k \in Keys : sup.placed[k] # 0 => sup.workers[sup.placed[k]].key = k
  /\ \A c \in Conns : LET s == sup.sockets[c] IN
       /\ s.port # 0 => Open(sup, c) /\ s.port = sup.placed[KeyOf[c]]
       /\ s.pending \in Seq(0..MaxFrames)

\* The actor sees the frames of a transport in order and without gaps, through
\* the start, the probes and the evictions of its workers (#receive(), #flush()).
FramesInOrder ==
  \A c \in Conns : \A i \in DOMAIN got[c] : got[c][i] = i

\* A reference that was captured before a deletion gives nobody a worker.
StaleIsRefused ==
  [][\A x \in Callers : callers'[x].stage = "got" /\ callers[x].stage # "got"
       => epochs[CallerKey[x]] = callers[x].epoch /\ Pending(CallerKey[x]) = {}]_vars

\* Nobody is left waiting when the bounded events of the outside are over: frames
\* reach the actor unless their transport closes, so no worker is evicted with
\* frames that nobody will ask for, and calls of resolve() end unless the bound on
\* the workers keeps one from them, whatever probe was abandoned meanwhile
\* (#receive(), #hibernate(), #resume()).
Delivered(c) == Len(got[c]) = sent[c] \/ ~Open(sup, c)
Answered(x)  == callers[x].stage \notin {"waiting", "starting"} \/ Len(sup.workers) = MaxWorkers
NobodyIsStranded == []<>(/\ \A c \in Conns : Delivered(c)
                         /\ \A x \in Callers : Answered(x))

=============================================================================
