--------------------------- MODULE WebSocketsProofs ---------------------------
(***************************************************************************)
(* Proofs about one pair of sockets, for every number of containers, of    *)
(* frames, of writes and of attachments.                                   *)
(***************************************************************************)
EXTENDS WebSockets, SequenceTheorems, TLAPS

-----------------------------------------------------------------------------
(***************************************************************************)
(* The inductive invariant, of a state s of the pair: c is what was        *)
(* confirmed, n what was sent.                                             *)
(***************************************************************************)

Contexts == Gens \cup {Host}
Events == [kind : {"message", "ping", "close", "dropped"}, at : Wrappers, n : Nat, under : Nat]
Items == [kind : {"message", "ping", "auto", "close"}, n : Nat, lock : Nat, gen : Contexts,
          under : Nat]
Sockets ==
  [mode : {"pending", "classic", "hibernatable"}, ctx : Contexts, released : BOOLEAN,
   ready : {"open", "closing", "closed"}, own : BOOLEAN, peer : BOOLEAN,
   pending : Seq(Events), pump : Seq(Items), muted : BOOLEAN]
Metadata == [accepted : Contexts, note : Nat, told : Nat, dispatched : BOOLEAN,
             completion : BOOLEAN, released : BOOLEAN]
States ==
  [sock : [Wrappers -> Sockets], receiver : [Ends -> Wrappers], sentClose : [Ends -> BOOLEAN],
   used : BOOLEAN, meta : Metadata, listed : [Gens -> BOOLEAN], mirror : Nat \cup {-1},
   gen : Gens, aborted : [Gens -> BOOLEAN], broken : [Gens -> BOOLEAN],
   started : [Gens -> BOOLEAN], queue : [Gens -> Seq(Events)], slice : Contexts,
   ends : SUBSET [kind : {"close", "message", "complete"}, gen : Contexts],
   reply : Nat \cup {-1}, heard : [Wrappers -> Seq(Events)]]

\* The containers: those that were replaced are aborted, later ones did not begin.
GenInv(s) ==
  /\ s.slice \in {0, s.gen}
  /\ \A g \in Gens : g < s.gen => s.aborted[g]
  /\ \A g \in Gens : g > s.gen => ~s.aborted[g] /\ ~s.listed[g] /\ s.queue[g] = <<>>
  /\ \A w \in Wrappers : s.sock[w].ctx <= s.gen

\* The wrappers: half a stays at its end, half b is inert once the host has its end.
EndInv(s) ==
  /\ s.receiver["a"] = "a" /\ s.receiver["b"] \in {"b", "h"}
  /\ s.sock["h"].ctx = Host /\ s.sock["h"].pump = <<>>
  /\ s.sock["a"].ctx # Host /\ ~s.sock["a"].released /\ ~s.sock["h"].released
  /\ s.receiver["b"] = "b" =>
       /\ s.sock["b"].ctx # Host /\ ~s.sock["b"].released
       /\ s.sock["h"].mode = "pending" /\ s.sock["h"].pending = <<>>
  /\ s.receiver["b"] = "h" =>
       /\ s.sock["b"].ctx = Host /\ s.sock["b"].released
       /\ s.sock["b"].mode = "pending" /\ s.sock["b"].pending = <<>>

\* Where an event is: kept by a wrapper that has no listeners yet, or at the gate of the
\* container of its wrapper.
ModeInv(s) ==
  /\ \A w \in Wrappers :
       /\ s.sock[w].mode = "hibernatable" => w = "a" /\ s.sock[w].ctx = s.meta.accepted
       /\ s.sock[w].mode # "pending" => s.sock[w].pending = <<>>
       /\ s.sock[w].mode = "pending" => s.heard[w] = <<>>
       /\ s.sock[w].ctx # Host =>
            \A i \in 1..Len(s.sock[w].pending) : s.sock[w].pending[i].at = w
  /\ \A g \in Gens : \A i \in 1..Len(s.queue[g]) :
       /\ s.sock[s.queue[g][i].at].mode # "pending"
       /\ s.sock[s.queue[g][i].at].ctx = g \/ s.aborted[g]

\* A frame that left was sent under writes that are confirmed; one that is in the pump
\* waits for those it was sent under.
DurableInv(s, c) ==
  /\ \A w \in Wrappers :
       /\ \A i \in 1..Len(s.heard[w]) : s.heard[w][i].under <= c
       /\ \A i \in 1..Len(s.sock[w].pending) : s.sock[w].pending[i].under <= c
  /\ \A g \in Gens : \A i \in 1..Len(s.queue[g]) : s.queue[g][i].under <= c

WaitsForWrites(item) == item.lock = Rejected \/ item.under <= item.lock
LockInv(s) ==
  \A w \in Wrappers : \A i \in 1..Len(s.sock[w].pump) : WaitsForWrites(s.sock[w].pump[i])

\* What a half serializes before it hibernates is not told; what the mirror has is what it was
\* told last, of a half that its container lists.
NoteInv(s) ==
  /\ s.meta.told > 0 => s.meta.note = s.meta.told /\ s.sock["a"].mode = "hibernatable"
  /\ s.mirror # -1 =>
       s.mirror = s.meta.told /\ s.meta.accepted \in Gens /\ s.listed[s.meta.accepted]

\* The mirror of an open half, and that it is open until a close arrived.
MirrorInv(s) ==
  /\ NoteInv(s)
  /\ s.listed[s.gen] => s.meta.accepted = s.gen
  /\ s.sock["a"].ready = "open" =>
       /\ s.listed[s.gen] => s.mirror # -1
       /\ \A end \in s.ends : end.kind # "close"
       /\ \A i \in 1..Len(s.sock["a"].pending) : ~IsClose(s.sock["a"].pending[i])
       /\ \A g \in Gens : \A i \in 1..Len(s.queue[g]) :
            s.queue[g][i].at = "a" => ~IsClose(s.queue[g][i])

\* What the listeners of w heard, or will hear.
Comes(s, w, e) ==
  \/ \E i \in 1..Len(s.heard[w]) : e = s.heard[w][i]
  \/ \E i \in 1..Len(s.sock[w].pending) : e = s.sock[w].pending[i]
  \/ /\ s.sock[w].ctx # Host
     /\ \E i \in 1..Len(s.queue[s.sock[w].ctx]) :
          s.queue[s.sock[w].ctx][i].at = w /\ e = s.queue[s.sock[w].ctx][i]

\* An event that comes before another one.
Before(e, f)  == ~IsClose(e) /\ (e.n > 0 /\ f.n > 0 => e.n < f.n)
InOrder(q)    == \A i, j \in 1..Len(q) : i < j => Before(q[i], q[j])
InOrderAt(q, w) ==
  \A i, j \in 1..Len(q) : i < j /\ q[i].at = w /\ q[j].at = w => Before(q[i], q[j])

LineInv(s) ==
  \A w \in Wrappers :
    /\ InOrder(s.heard[w]) /\ InOrder(s.sock[w].pending)
    /\ s.sock[w].ctx # Host =>
         /\ InOrderAt(s.queue[s.sock[w].ctx], w)
         /\ \A i \in 1..Len(s.heard[w]), j \in 1..Len(s.queue[s.sock[w].ctx]) :
              s.queue[s.sock[w].ctx][j].at = w =>
                Before(s.heard[w][i], s.queue[s.sock[w].ctx][j])

\* An end that sent a close sends nothing after it.
SentInv(s, n) ==
  \A w \in Wrappers, e \in Events :
    Comes(s, w, e) => e.n <= n /\ (IsClose(e) => s.sentClose[Other[EndOf[w]]])

\* The frames of a pump leave in the order in which they were sent, after those that left.
Facing(v, w) == EndOf[v] = Other[EndOf[w]]
PumpInv(s, n) ==
  \A w \in Wrappers : \A i \in 1..Len(s.sock[w].pump) :
    LET item == s.sock[w].pump[i] IN
    /\ item.n <= n
    /\ \A j \in 1..Len(s.sock[w].pump) :
         i < j /\ item.n > 0 /\ s.sock[w].pump[j].n > 0 => item.n < s.sock[w].pump[j].n
    /\ ~s.sock[w].released /\ item.n > 0 =>
         \A v \in Wrappers, e \in Events : Facing(v, w) /\ Comes(s, v, e) => e.n < item.n

Good(s, c, n) ==
  /\ s \in States
  /\ GenInv(s) /\ EndInv(s) /\ ModeInv(s) /\ DurableInv(s, c) /\ MirrorInv(s)
  /\ LineInv(s) /\ SentInv(s, n) /\ LockInv(s) /\ PumpInv(s, n)

Inv ==
  /\ Good(net, confirmed, sent)
  /\ written \in Nat /\ confirmed \in Nat /\ sent \in Nat /\ notes \in Nat

LEMMA Constants ==
  /\ MaxGens \in Nat /\ MaxGens > 0 /\ 1 \in Gens /\ Gens \subseteq Nat /\ Host = 0
  /\ Host \notin Gens /\ Rejected \in Nat /\ Contexts \subseteq Nat
<1>1. MaxWrites * MaxGens + 1 \in Nat
  BY WebSocketsAssumption
<1> QED
  BY <1>1, WebSocketsAssumption DEF Gens, Host, Rejected, Contexts

\* The fields of a state.
LEMMA Fields ==
  ASSUME NEW s \in States
  PROVE  /\ s.sock \in [Wrappers -> Sockets] /\ s.receiver \in [Ends -> Wrappers]
         /\ s.sentClose \in [Ends -> BOOLEAN] /\ s.used \in BOOLEAN /\ s.meta \in Metadata
         /\ s.listed \in [Gens -> BOOLEAN] /\ s.mirror \in Nat \cup {-1} /\ s.gen \in Gens
         /\ s.aborted \in [Gens -> BOOLEAN] /\ s.broken \in [Gens -> BOOLEAN]
         /\ s.started \in [Gens -> BOOLEAN] /\ s.queue \in [Gens -> Seq(Events)]
         /\ s.slice \in Contexts
         /\ s.ends \in SUBSET [kind : {"close", "message", "complete"}, gen : Contexts]
         /\ s.reply \in Nat \cup {-1} /\ s.heard \in [Wrappers -> Seq(Events)]
  BY DEF States

LEMMA SocketFields ==
  ASSUME NEW v \in Sockets
  PROVE  /\ v.mode \in {"pending", "classic", "hibernatable"} /\ v.ctx \in Contexts
         /\ v.released \in BOOLEAN /\ v.ready \in {"open", "closing", "closed"}
         /\ v.own \in BOOLEAN /\ v.peer \in BOOLEAN /\ v.muted \in BOOLEAN
         /\ v.pending \in Seq(Events) /\ v.pump \in Seq(Items)
  BY DEF Sockets

LEMMA EventFields ==
  ASSUME NEW e \in Events
  PROVE  /\ e.kind \in {"message", "ping", "close", "dropped"} /\ e.at \in Wrappers
         /\ e.n \in Nat /\ e.under \in Nat
  BY DEF Events

LEMMA ItemFields ==
  ASSUME NEW item \in Items
  PROVE  /\ item.kind \in {"message", "ping", "auto", "close"} /\ item.n \in Nat
         /\ item.lock \in Nat /\ item.gen \in Contexts /\ item.under \in Nat
  BY DEF Items

LEMMA QueuedEvents ==
  ASSUME NEW s \in States
  PROVE  \A g \in Gens : \A i \in 1..Len(s.queue[g]) :
           s.queue[g][i] \in Events /\ s.queue[g][i].at \in Wrappers
<1> SUFFICES ASSUME NEW g \in Gens, NEW i \in 1..Len(s.queue[g])
             PROVE  s.queue[g][i] \in Events /\ s.queue[g][i].at \in Wrappers
  OBVIOUS
<1>1. s.queue[g] \in Seq(Events)
  BY Fields
<1>2. s.queue[g][i] \in Events
  BY <1>1, ElementOfSeq
<1> QED
  BY <1>2, EventFields

LEMMA InitInv == Init => Inv
<1> SUFFICES ASSUME Init PROVE Inv
  OBVIOUS
<1> USE Constants
<1>1. \A ctx \in Contexts : NewSocket(ctx) \in Sockets
  BY DEF NewSocket, Sockets
<1>2. net \in States
  <2>1. \A w \in Wrappers : NewSocket(IF w = "h" THEN Host ELSE 1) \in Sockets
    BY <1>1 DEF Contexts
  <2> QED
    BY <2>1 DEF Init, States, Wrappers, Ends, Metadata, Contexts
<1>3. GenInv(net) /\ EndInv(net) /\ ModeInv(net)
  BY DEF Init, NewSocket, GenInv, EndInv, ModeInv, Wrappers, Gens
<1>4. DurableInv(net, confirmed) /\ MirrorInv(net) /\ LineInv(net)
  <2>1. /\ \A w \in Wrappers : Len(net.heard[w]) = 0 /\ Len(net.sock[w].pending) = 0
                               /\ Len(net.sock[w].pump) = 0
        /\ \A g \in Gens : Len(net.queue[g]) = 0 /\ ~net.listed[g]
        /\ net.ends = {} /\ net.gen = 1 /\ "a" \in Wrappers
        /\ net.mirror = -1 /\ net.meta.told = 0
    BY DEF Init, NewSocket, Wrappers
  <2>2. DurableInv(net, confirmed)
    BY <2>1 DEF DurableInv
  <2>3. MirrorInv(net)
    <3>1. NoteInv(net)
      BY <2>1 DEF NoteInv
    <3>2. ~net.listed[net.gen] /\ \A end \in net.ends : end.kind # "close"
      BY <2>1 DEF Gens
    <3>3. \A i \in 1..Len(net.sock["a"].pending) : ~IsClose(net.sock["a"].pending[i])
      <4>1. Len(net.sock["a"].pending) = 0
        BY <2>1
      <4>2. 1..Len(net.sock["a"].pending) = {}
        BY <4>1
      <4> QED
        BY <4>2
    <3>4. ASSUME NEW g \in Gens PROVE \A i \in 1..Len(net.queue[g]) : ~IsClose(net.queue[g][i])
      <4>1. Len(net.queue[g]) = 0
        BY <2>1
      <4>2. 1..Len(net.queue[g]) = {}
        BY <4>1
      <4> QED
        BY <4>2
    <3> QED
      BY <3>1, <3>2, <3>3, <3>4 DEF MirrorInv
  <2>4. \A w \in Wrappers : net.sock[w].ctx # Host => net.sock[w].ctx \in Gens
    BY <1>2, Fields, SocketFields DEF Contexts
  <2>5. \A q : Len(q) = 0 => InOrder(q) /\ \A w : InOrderAt(q, w)
    BY DEF InOrder, InOrderAt
  <2>6. LineInv(net)
    <3> SUFFICES ASSUME NEW w \in Wrappers
                 PROVE  /\ InOrder(net.heard[w]) /\ InOrder(net.sock[w].pending)
                        /\ net.sock[w].ctx # Host =>
                             /\ InOrderAt(net.queue[net.sock[w].ctx], w)
                             /\ 1..Len(net.heard[w]) = {}
      BY DEF LineInv
    <3>1. Len(net.heard[w]) = 0 /\ Len(net.sock[w].pending) = 0
      BY <2>1
    <3>2. InOrder(net.heard[w]) /\ InOrder(net.sock[w].pending)
      BY <2>5, <3>1
    <3>3. ASSUME net.sock[w].ctx # Host PROVE InOrderAt(net.queue[net.sock[w].ctx], w)
      <4>1. Len(net.queue[net.sock[w].ctx]) = 0
        BY <2>1, <2>4, <3>3
      <4> QED
        BY <2>5, <4>1
    <3> QED
      BY <3>1, <3>2, <3>3
  <2> QED
    BY <2>2, <2>3, <2>6
<1>5. SentInv(net, sent) /\ LockInv(net) /\ PumpInv(net, sent)
  BY DEF Init, NewSocket, SentInv, LockInv, PumpInv, Comes, Gens
<1> QED
  BY <1>2, <1>3, <1>4, <1>5 DEF Inv, Good, Init

-----------------------------------------------------------------------------
(***************************************************************************)
(* Steps that send nothing and deliver nothing.                            *)
(***************************************************************************)

Quiet(s, t) ==
  /\ t.receiver = s.receiver /\ t.gen = s.gen /\ t.queue = s.queue /\ t.heard = s.heard
  /\ t.meta.accepted = s.meta.accepted /\ t.slice \in {0, t.gen}
  /\ \A g \in Gens :
       /\ s.aborted[g] => t.aborted[g]
       /\ t.aborted[g] => s.aborted[g] \/ g = s.gen
       /\ t.listed[g] => s.listed[g]
  /\ \A w \in Wrappers :
       /\ t.sock[w].mode = s.sock[w].mode /\ t.sock[w].ctx = s.sock[w].ctx
       /\ t.sock[w].released = s.sock[w].released /\ t.sock[w].pending = s.sock[w].pending
  /\ \A e \in Ends : s.sentClose[e] => t.sentClose[e]
  /\ t.sock["a"].ready = "open" =>
       /\ s.sock["a"].ready = "open" /\ \A end \in t.ends : end.kind # "close"
       /\ t.listed[t.gen] => t.mirror = s.mirror
  /\ t.meta.note = s.meta.note /\ t.meta.told = s.meta.told
  /\ \/ t.mirror = -1
     \/ t.mirror = s.mirror /\ \A g \in Gens : g = s.meta.accepted => t.listed[g] = s.listed[g]

LEMMA QuietComes ==
  ASSUME NEW s, NEW t, Quiet(s, t)
  PROVE  \A w, e : w \in Wrappers => (Comes(t, w, e) <=> Comes(s, w, e))
  BY DEF Quiet, Comes

LEMMA QuietInv ==
  ASSUME NEW s, NEW t, NEW c, NEW n, Good(s, c, n), t \in States, Quiet(s, t)
  PROVE  /\ GenInv(t) /\ ModeInv(t) /\ DurableInv(t, c) /\ MirrorInv(t)
         /\ LineInv(t) /\ SentInv(t, n)
         /\ t.sock["h"].pump = <<>> => EndInv(t)
<1> USE DEF Quiet, Good
<1>0. "a" \in Wrappers /\ "h" \in Wrappers /\ "b" \in Wrappers /\ s.gen \in Gens
  BY Fields DEF Wrappers
<1>1. GenInv(t)
  BY <1>0, Constants DEF GenInv, Gens
<1>2. t.sock["h"].pump = <<>> => EndInv(t)
  BY <1>0 DEF EndInv
<1>3. ModeInv(t)
  <2>1. \A g \in Gens : \A i \in 1..Len(s.queue[g]) : s.queue[g][i].at \in Wrappers
    BY QueuedEvents
  <2> QED
    BY <1>0, <2>1, SMTT(30) DEF ModeInv
<1>4. DurableInv(t, c)
  BY DEF DurableInv
<1>5. MirrorInv(t)
  BY <1>0 DEF MirrorInv, NoteInv
<1>6. LineInv(t)
  BY DEF LineInv
<1>7. SentInv(t, n)
  <2>1. \A w \in Wrappers : Other[EndOf[w]] \in Ends
    BY DEF Wrappers, Ends, Other, EndOf
  <2> QED
    BY <2>1, QuietComes DEF SentInv
<1> QED
  BY <1>1, <1>2, <1>3, <1>4, <1>5, <1>6, <1>7

LEMMA QuietStep ==
  ASSUME NEW s, NEW t, NEW c, NEW n, Good(s, c, n), t \in States, Quiet(s, t),
         \A w \in Wrappers : t.sock[w].pump = s.sock[w].pump
  PROVE  Good(t, c, n)
<1>1. EndInv(t)
  <2>1. t.sock["h"].pump = <<>>
    BY DEF Good, EndInv, Wrappers
  <2> QED
    BY <2>1, QuietInv
<1>2. LockInv(t)
  BY DEF Good, LockInv
<1>3. PumpInv(t, n)
  BY QuietComes DEF Good, PumpInv, Quiet
<1> QED
  BY <1>1, <1>2, <1>3, QuietInv DEF Good

LEMMA Later ==
  ASSUME NEW s, NEW c \in Nat, NEW n \in Nat, NEW d \in Nat, NEW m \in Nat, c <= d, n <= m,
         Good(s, c, n)
  PROVE  Good(s, d, m)
<1> USE DEF Good
<1>1. /\ s.sock \in [Wrappers -> Sockets] /\ s.queue \in [Gens -> Seq(Events)]
      /\ s.heard \in [Wrappers -> Seq(Events)]
  BY Fields
<1>2. DurableInv(s, d)
  <2>1. \A q \in Seq(Events) : \A i \in 1..Len(q) : q[i].under \in Nat
    BY ElementOfSeq, EventFields
  <2>2. \A w \in Wrappers : s.heard[w] \in Seq(Events) /\ s.sock[w].pending \in Seq(Events)
    BY <1>1, SocketFields
  <2>3. \A g \in Gens : s.queue[g] \in Seq(Events)
    BY <1>1
  <2>4. \A q \in Seq(Events) :
          (\A i \in 1..Len(q) : q[i].under <= c) => \A i \in 1..Len(q) : q[i].under <= d
    BY <2>1
  <2> QED
    BY <2>2, <2>3, <2>4 DEF DurableInv
<1>3. SentInv(s, m)
  BY EventFields DEF SentInv
<1>4. PumpInv(s, m)
  <2>1. ASSUME NEW w \in Wrappers, NEW i \in 1..Len(s.sock[w].pump)
        PROVE  s.sock[w].pump[i].n \in Nat
    <3>1. s.sock[w].pump \in Seq(Items)
      BY <1>1, SocketFields
    <3>2. s.sock[w].pump[i] \in Items
      BY <3>1, ElementOfSeq
    <3> QED
      BY <3>2, ItemFields
  <2> QED
    BY <2>1 DEF PumpInv
<1> QED
  BY <1>2, <1>3, <1>4

\* A write joins the pump of w.
LEMMA EnqueueStep ==
  ASSUME NEW s, NEW t, NEW c, NEW n \in Nat, NEW m \in Nat, n <= m,
         Good(s, c, n), t \in States, Quiet(s, t), NEW w \in {"a", "b"}, NEW item \in Items,
         t.sock[w].pump = Append(s.sock[w].pump, item),
         \A v \in Wrappers \ {w} : t.sock[v].pump = s.sock[v].pump,
         WaitsForWrites(item), item.n <= m, item.n = 0 \/ item.n > n
  PROVE  Good(t, c, m)
<1> DEFINE p == s.sock[w].pump
           q == t.sock[w].pump
<1>0. w \in Wrappers /\ w # "h" /\ "h" \in Wrappers /\ item.n \in Nat
  BY ItemFields DEF Wrappers
<1>1. /\ p \in Seq(Items) /\ q = Append(p, item) /\ Len(q) = Len(p) + 1 /\ q[Len(p) + 1] = item
      /\ Len(p) \in Nat /\ \A i \in 1..Len(p) : q[i] = p[i] /\ p[i].n \in Nat
  <2>1. p \in Seq(Items)
    BY <1>0, Fields, SocketFields DEF Good
  <2>2. q = Append(p, item)
    OBVIOUS
  <2> HIDE DEF p, q
  <2>3. \A i \in 1..Len(p) : p[i] \in Items
    BY <2>1, ElementOfSeq
  <2>4. \A i \in 1..Len(p) : p[i].n \in Nat
    BY <2>3, ItemFields
  <2> QED
    BY <2>1, <2>2, <2>4, AppendProperties
<1>2. EndInv(t)
  BY <1>0, QuietInv DEF Good, EndInv
<1> HIDE DEF p, q
<1>3. \A i \in 1..Len(q) : (i \in 1..Len(p) /\ q[i] = p[i]) \/ (i = Len(p) + 1 /\ q[i] = item)
  BY <1>1
<1>4. LockInv(t)
  <2>1. \A i \in 1..Len(q) : WaitsForWrites(q[i])
    BY <1>0, <1>3 DEF p, Good, LockInv
  <2> QED
    BY <1>0, <2>1 DEF q, Good, LockInv
<1>5. \A v \in Wrappers, e \in Events : Comes(s, v, e) => e.n <= n /\ e.n \in Nat
  BY EventFields DEF Good, SentInv
<1>6. ASSUME NEW i \in 1..Len(q)
      PROVE  /\ q[i].n <= m
             /\ \A j \in 1..Len(q) : i < j /\ q[i].n > 0 /\ q[j].n > 0 => q[i].n < q[j].n
             /\ ~s.sock[w].released /\ q[i].n > 0 =>
                  \A v \in Wrappers, e \in Events : Facing(v, w) /\ Comes(s, v, e) => e.n < q[i].n
  <2>1. \A k \in 1..Len(p) : p[k].n <= n
    BY <1>0 DEF p, Good, PumpInv
  <2>2. CASE i \in 1..Len(p) /\ q[i] = p[i]
    <3>1. \A j \in 1..Len(p) : i < j /\ p[i].n > 0 /\ p[j].n > 0 => p[i].n < p[j].n
      BY <1>0, <2>2 DEF p, Good, PumpInv
    <3>2. ~s.sock[w].released /\ p[i].n > 0 =>
            \A v \in Wrappers, e \in Events : Facing(v, w) /\ Comes(s, v, e) => e.n < p[i].n
      BY <1>0, <2>2 DEF p, Good, PumpInv
    <3>3. \A j \in 1..Len(q) : i < j /\ q[i].n > 0 /\ q[j].n > 0 => q[i].n < q[j].n
      BY <1>0, <1>1, <1>3, <2>1, <2>2, <3>1
    <3>4. q[i].n <= m
      BY <1>1, <2>1, <2>2
    <3>5. ~s.sock[w].released /\ q[i].n > 0 =>
            \A v \in Wrappers, e \in Events : Facing(v, w) /\ Comes(s, v, e) => e.n < q[i].n
      BY <2>2, <3>2
    <3> QED
      BY <3>3, <3>4, <3>5
  <2>3. CASE i = Len(p) + 1 /\ q[i] = item
    BY <1>0, <1>1, <1>3, <1>5, <2>3
  <2> QED
    BY <1>3, <2>2, <2>3
<1>7. PumpInv(t, m)
  <2>1. ASSUME NEW v \in Wrappers \ {w}, NEW i \in 1..Len(s.sock[v].pump)
        PROVE  s.sock[v].pump[i].n <= m
    <3>1. s.sock[v].pump[i] \in Items
      BY Fields, SocketFields, ElementOfSeq DEF Good
    <3> QED
      BY <3>1, ItemFields DEF Good, PumpInv
  <2> QED
    BY <1>0, <1>6, <2>1, QuietComes, ZenonT(60) DEF q, Good, PumpInv, Quiet
<1>8. SentInv(t, m)
  <2>1. SentInv(t, n)
    BY QuietInv
  <2> QED
    BY <2>1, EventFields DEF SentInv
<1> QED
  BY <1>2, <1>4, <1>7, <1>8, QuietInv DEF Good

-----------------------------------------------------------------------------
(***************************************************************************)
(* An event x arrives at w.                                                *)
(***************************************************************************)

Joins(s, w, x, c, n) ==
  /\ x \in Events /\ x.under <= c /\ x.n <= n
  /\ s.receiver[EndOf[w]] = w /\ (s.sock[w].ctx # Host => x.at = w)
  /\ \A e \in Events : Comes(s, w, e) => Before(e, x)
  /\ \A v \in Wrappers : Facing(w, v) /\ ~s.sock[v].released =>
       \A i \in 1..Len(s.sock[v].pump) : s.sock[v].pump[i].n > 0 => x.n < s.sock[v].pump[i].n
  /\ IsClose(x) => s.sentClose[Other[EndOf[w]]]

\* The half no longer calls itself open when its close arrives.
Fits(s, w, x, c, n) ==
  Joins(s, w, x, c, n) /\ (IsClose(x) /\ w = "a" => s.sock["a"].ready # "open")

\* The states differ in where events are.
Alike(s, t) ==
  /\ t.receiver = s.receiver /\ t.gen = s.gen /\ t.slice = s.slice /\ t.aborted = s.aborted
  /\ t.listed = s.listed /\ t.mirror = s.mirror /\ t.meta = s.meta /\ t.ends = s.ends
  /\ t.sentClose = s.sentClose
  /\ \A w \in Wrappers :
       /\ t.sock[w].mode = s.sock[w].mode /\ t.sock[w].ctx = s.sock[w].ctx
       /\ t.sock[w].released = s.sock[w].released /\ t.sock[w].ready = s.sock[w].ready
       /\ t.sock[w].pump = s.sock[w].pump

OneMore(s, t, w, x) ==
  \A v \in Wrappers, e \in Events : Comes(t, v, e) => Comes(s, v, e) \/ (v = w /\ e = x)

LEMMA AlikeNote ==
  ASSUME NEW s, NEW t, Alike(s, t), NoteInv(s)
  PROVE  NoteInv(t)
  BY DEF Alike, NoteInv, Wrappers

\* What an arrival leaves as it was, for the other wrappers.
Arrives(s, t, w, x) ==
  t.receiver = s.receiver /\ t.sentClose = s.sentClose /\ OneMore(s, t, w, x)

LEMMA ArrivalSent ==
  ASSUME NEW s, NEW t, NEW c, NEW n, Good(s, c, n), NEW w \in Wrappers, NEW x,
         Fits(s, w, x, c, n), Alike(s, t), OneMore(s, t, w, x)
  PROVE  SentInv(t, n) /\ LockInv(t) /\ PumpInv(t, n)
<1> USE DEF Good, Alike
<1>1. SentInv(t, n)
  BY DEF SentInv, OneMore, Fits, Joins
<1>2. LockInv(t)
  BY DEF LockInv
<1>3. PumpInv(t, n)
  <2> SUFFICES ASSUME NEW v \in Wrappers, NEW i \in 1..Len(s.sock[v].pump),
                      ~s.sock[v].released, s.sock[v].pump[i].n > 0,
                      NEW u \in Wrappers, NEW e \in Events, Facing(u, v), Comes(t, u, e)
               PROVE  e.n < s.sock[v].pump[i].n
    BY DEF PumpInv
  <2>1. CASE Comes(s, u, e)
    BY <2>1 DEF PumpInv
  <2>2. CASE u = w /\ e = x
    BY <2>2 DEF Fits, Joins
  <2> QED
    BY <2>1, <2>2 DEF OneMore
<1> QED
  BY <1>1, <1>2, <1>3

\* Elements of a sequence to which one is added.
LEMMA AppendOf ==
  ASSUME NEW S, NEW q \in Seq(S), NEW x \in S
  PROVE  /\ Append(q, x) \in Seq(S) /\ Len(Append(q, x)) = Len(q) + 1 /\ Len(q) \in Nat
         /\ \A i \in 1..Len(q) : Append(q, x)[i] = q[i] /\ q[i] \in S
         /\ Append(q, x)[Len(q) + 1] = x
         /\ \A i \in 1..Len(Append(q, x)) : i \in 1..Len(q) \/ i = Len(q) + 1
  BY AppendProperties, ElementOfSeq

\* A listener hears x at once.
LEMMA HearStep ==
  ASSUME NEW s, NEW c, NEW n, Good(s, c, n), NEW w \in Wrappers, NEW x,
         Fits(s, w, x, c, n), s.sock[w].mode # "pending",
         s.sock[w].ctx # Host =>
           \A i \in 1..Len(s.queue[s.sock[w].ctx]) : s.queue[s.sock[w].ctx][i].at # w
  PROVE  Good(Hear(s, w, x), c, n) /\ Arrives(s, Hear(s, w, x), w, x)
<1> DEFINE t == Hear(s, w, x)
           q == s.heard[w]
<1> USE DEF Good
<1>1. q \in Seq(Events) /\ x \in Events /\ s.heard \in [Wrappers -> Seq(Events)]
  BY Fields DEF Fits, Joins
<1>2. t \in States /\ Alike(s, t)
  BY <1>1, AppendOf, Fields DEF Hear, States, Alike
<1>a. \A i \in 1..Len(Append(q, x)) :
        \/ i \in 1..Len(q) /\ Append(q, x)[i] = q[i]
        \/ i = Len(q) + 1 /\ Append(q, x)[i] = x
  BY <1>1, AppendOf
<1>3. /\ \A v \in Wrappers : t.heard[v] = IF v = w THEN Append(q, x) ELSE s.heard[v]
      /\ \A v \in Wrappers : t.sock[v].pending = s.sock[v].pending
      /\ t.queue = s.queue
  BY <1>1, Fields DEF Hear, States
<1> HIDE DEF t
<1>4. OneMore(s, t, w, x)
  <2>1. \A v \in Wrappers \ {w}, e \in Events : Comes(t, v, e) => Comes(s, v, e)
    BY <1>2, <1>3, ZenonT(60) DEF Comes, Alike
  <2>2. ASSUME NEW e \in Events, Comes(t, w, e) PROVE Comes(s, w, e) \/ e = x
    <3>1. CASE \E i \in 1..Len(t.heard[w]) : e = t.heard[w][i]
      <4>1. PICK i \in 1..Len(Append(q, x)) : e = Append(q, x)[i]
        BY <1>3, <3>1
      <4> QED
        BY <1>a, <4>1 DEF Comes
    <3>2. CASE ~\E i \in 1..Len(t.heard[w]) : e = t.heard[w][i]
      BY <1>2, <1>3, <2>2, <3>2 DEF Comes, Alike
    <3> QED
      BY <3>1, <3>2
  <2> QED
    BY <2>1, <2>2 DEF OneMore
<1>5. GenInv(t) /\ EndInv(t) /\ MirrorInv(t)
  BY <1>2, <1>3 DEF GenInv, EndInv, MirrorInv, NoteInv, Alike, Wrappers
<1>6. ModeInv(t)
  <2>1. \A v \in Wrappers : t.sock[v].mode = "pending" => t.heard[v] = <<>>
    BY <1>2, <1>3 DEF ModeInv, Alike
  <2>2. \A g \in Gens : \A i \in 1..Len(s.queue[g]) : s.queue[g][i].at \in Wrappers
    BY QueuedEvents
  <2>3. \A v \in Wrappers :
          /\ t.sock[v].mode = "hibernatable" => v = "a" /\ t.sock[v].ctx = t.meta.accepted
          /\ t.sock[v].mode # "pending" => t.sock[v].pending = <<>>
          /\ t.sock[v].ctx # Host =>
               \A i \in 1..Len(t.sock[v].pending) : t.sock[v].pending[i].at = v
    BY <1>2, <1>3 DEF ModeInv, Alike
  <2>4. \A g \in Gens : \A i \in 1..Len(t.queue[g]) :
          /\ t.sock[t.queue[g][i].at].mode # "pending"
          /\ t.sock[t.queue[g][i].at].ctx = g \/ t.aborted[g]
    BY <1>2, <1>3, <2>2 DEF ModeInv, Alike
  <2> QED
    BY <2>1, <2>3, <2>4 DEF ModeInv
<1>7. DurableInv(t, c)
  <2>1. \A i \in 1..Len(q) : q[i].under <= c
    BY DEF DurableInv
  <2>2. \A i \in 1..Len(Append(q, x)) : Append(q, x)[i].under <= c
    BY <1>a, <2>1 DEF Fits, Joins
  <2> QED
    BY <1>2, <1>3, <2>2 DEF DurableInv, Alike
<1>8. LineInv(t)
  <2>1. InOrder(t.heard[w])
    <3>1. \A i \in 1..Len(q) : Comes(s, w, q[i])
      BY DEF Comes
    <3>2. \A i \in 1..Len(q) : Before(q[i], x)
      BY <1>1, <3>1, AppendOf DEF Fits, Joins
    <3>3. InOrder(q)
      BY DEF LineInv
    <3>4. Len(q) \in Nat
      BY <1>1, AppendOf
    <3> HIDE DEF q
    <3>5. InOrder(Append(q, x))
      BY <1>a, <3>2, <3>3, <3>4 DEF InOrder
    <3> QED
      BY <1>3, <3>5
  <2>2. \A v \in Wrappers : InOrder(t.heard[v]) /\ InOrder(t.sock[v].pending)
    BY <1>3, <2>1 DEF LineInv
  <2>3. ASSUME NEW v \in Wrappers, t.sock[v].ctx # Host
        PROVE  /\ InOrderAt(t.queue[t.sock[v].ctx], v)
               /\ \A i \in 1..Len(t.heard[v]), j \in 1..Len(t.queue[t.sock[v].ctx]) :
                    t.queue[t.sock[v].ctx][j].at = v =>
                      Before(t.heard[v][i], t.queue[t.sock[v].ctx][j])
    <3>1. t.sock[v].ctx = s.sock[v].ctx /\ t.queue = s.queue
      BY <1>2, <1>3 DEF Alike
    <3>2. InOrderAt(t.queue[t.sock[v].ctx], v)
      BY <2>3, <3>1 DEF LineInv
    <3>3. CASE v = w
      BY <2>3, <3>1, <3>2, <3>3
    <3>4. CASE v # w
      <4>1. t.heard[v] = s.heard[v]
        BY <1>3, <3>4
      <4> QED
        BY <2>3, <3>1, <3>2, <4>1 DEF LineInv
    <3> QED
      BY <3>3, <3>4
  <2> QED
    BY <2>2, <2>3 DEF LineInv
<1> QED
  BY <1>2, <1>4, <1>5, <1>6, <1>7, <1>8, ArrivalSent DEF t, Arrives, Alike

\* A wrapper without listeners keeps x.
LEMMA KeepStep ==
  ASSUME NEW s, NEW c, NEW n, Good(s, c, n), NEW w \in Wrappers, NEW x,
         Fits(s, w, x, c, n), s.sock[w].mode = "pending"
  PROVE  LET t == [s EXCEPT !.sock[w].pending = Append(@, x)] IN
         Good(t, c, n) /\ Arrives(s, t, w, x)
<1> DEFINE t == [s EXCEPT !.sock[w].pending = Append(@, x)]
           q == s.sock[w].pending
<1> USE DEF Good
<1>1. q \in Seq(Events) /\ x \in Events /\ s.sock \in [Wrappers -> Sockets]
  BY Fields, SocketFields DEF Fits, Joins
<1>2. t \in States /\ Alike(s, t)
  <2>1. [s.sock[w] EXCEPT !.pending = Append(q, x)] \in Sockets
    <3>1. Append(q, x) \in Seq(Events) /\ s.sock[w] \in Sockets
      BY <1>1, AppendOf
    <3> HIDE DEF q
    <3> QED
      BY <3>1 DEF Sockets
  <2>2. t = [s EXCEPT !.sock = [s.sock EXCEPT ![w] = [s.sock[w] EXCEPT !.pending = Append(q, x)]]]
    OBVIOUS
  <2>3. t \in States
    BY <1>1, <2>1, <2>2 DEF States
  <2>4. Alike(s, t)
    BY <1>1, <2>2 DEF Alike, Sockets, States
  <2> QED
    BY <2>3, <2>4
<1>a. \A i \in 1..Len(Append(q, x)) :
        \/ i \in 1..Len(q) /\ Append(q, x)[i] = q[i]
        \/ i = Len(q) + 1 /\ Append(q, x)[i] = x
  BY <1>1, AppendOf
<1>3. /\ \A v \in Wrappers : t.sock[v].pending = IF v = w THEN Append(q, x) ELSE s.sock[v].pending
      /\ t.heard = s.heard /\ t.queue = s.queue
  BY <1>1, Fields DEF States, Sockets
<1> HIDE DEF t
<1>4. OneMore(s, t, w, x)
  <2>1. \A v \in Wrappers \ {w}, e \in Events : Comes(t, v, e) => Comes(s, v, e)
    BY <1>2, <1>3 DEF Comes, Alike
  <2>2. ASSUME NEW e \in Events, Comes(t, w, e) PROVE Comes(s, w, e) \/ e = x
    <3>1. CASE \E i \in 1..Len(t.sock[w].pending) : e = t.sock[w].pending[i]
      <4>1. PICK i \in 1..Len(Append(q, x)) : e = Append(q, x)[i]
        BY <1>3, <3>1
      <4> QED
        BY <1>a, <4>1 DEF Comes
    <3>2. CASE ~\E i \in 1..Len(t.sock[w].pending) : e = t.sock[w].pending[i]
      BY <1>2, <1>3, <2>2, <3>2 DEF Comes, Alike
    <3> QED
      BY <3>1, <3>2
  <2> QED
    BY <2>1, <2>2 DEF OneMore
<1>5. GenInv(t)
  BY <1>2, <1>3 DEF GenInv, Alike
<1>6. EndInv(t)
  <2>1. s.receiver[EndOf[w]] = w
    BY DEF Fits, Joins
  <2> QED
    BY <1>2, <1>3, <2>1 DEF EndInv, Alike, Wrappers, EndOf
<1>7. MirrorInv(t)
  <2>1. ASSUME w = "a", s.sock["a"].ready = "open", NEW i \in 1..Len(Append(q, x))
        PROVE  ~IsClose(Append(q, x)[i])
    BY <1>a, <2>1 DEF MirrorInv, NoteInv, Fits, Joins
  <2> QED
    BY <1>2, <1>3, <2>1 DEF MirrorInv, NoteInv, Alike, Wrappers
<1>8. ModeInv(t)
  <2>1. \A g \in Gens : \A i \in 1..Len(s.queue[g]) : s.queue[g][i].at \in Wrappers
    BY QueuedEvents
  <2>2. s.sock[w].ctx # Host => \A i \in 1..Len(Append(q, x)) : Append(q, x)[i].at = w
    BY <1>a DEF ModeInv, Fits, Joins
  <2>3. \A v \in Wrappers : t.sock[v].mode # "pending" => t.sock[v].pending = <<>>
    BY <1>2, <1>3 DEF ModeInv, Alike
  <2>4. ASSUME NEW v \in Wrappers, t.sock[v].ctx # Host
        PROVE  \A i \in 1..Len(t.sock[v].pending) : t.sock[v].pending[i].at = v
    <3>1. CASE v = w
      BY <1>2, <1>3, <2>2, <2>4, <3>1 DEF Alike
    <3>2. CASE v # w
      BY <1>2, <1>3, <2>4, <3>2 DEF Alike, ModeInv
    <3> QED
      BY <3>1, <3>2
  <2>5. /\ \A v \in Wrappers : t.sock[v].mode = "hibernatable" =>
                               v = "a" /\ t.sock[v].ctx = t.meta.accepted
        /\ \A v \in Wrappers : t.sock[v].mode = "pending" => t.heard[v] = <<>>
    BY <1>2, <1>3 DEF ModeInv, Alike
  <2>6. \A g \in Gens : \A i \in 1..Len(t.queue[g]) :
          /\ t.sock[t.queue[g][i].at].mode # "pending"
          /\ t.sock[t.queue[g][i].at].ctx = g \/ t.aborted[g]
    BY <1>2, <1>3, <2>1 DEF ModeInv, Alike
  <2> QED
    BY <2>3, <2>4, <2>5, <2>6 DEF ModeInv
<1>9. DurableInv(t, c)
  <2>1. \A i \in 1..Len(q) : q[i].under <= c
    BY DEF DurableInv
  <2>2. \A i \in 1..Len(Append(q, x)) : Append(q, x)[i].under <= c
    BY <1>a, <2>1 DEF Fits, Joins
  <2> QED
    BY <1>2, <1>3, <2>2 DEF DurableInv, Alike
<1>10. LineInv(t)
  <2>1. InOrder(t.sock[w].pending)
    <3>1. \A i \in 1..Len(q) : Comes(s, w, q[i])
      BY DEF Comes
    <3>2. \A i \in 1..Len(q) : Before(q[i], x)
      BY <1>1, <3>1, AppendOf DEF Fits, Joins
    <3>3. InOrder(q)
      BY DEF LineInv
    <3>4. Len(q) \in Nat
      BY <1>1, AppendOf
    <3> HIDE DEF q
    <3>5. InOrder(Append(q, x))
      BY <1>a, <3>2, <3>3, <3>4 DEF InOrder
    <3> QED
      BY <1>3, <3>5
  <2> QED
    BY <1>2, <1>3, <2>1, ZenonT(60) DEF LineInv, Alike
<1> QED
  BY <1>2, <1>4, <1>5, <1>6, <1>7, <1>8, <1>9, <1>10, ArrivalSent DEF t, Arrives, Alike

\* x waits at the gate of the container of w.
LEMMA QueueStep ==
  ASSUME NEW s, NEW c, NEW n, Good(s, c, n), NEW w \in Wrappers, NEW x,
         Fits(s, w, x, c, n), s.sock[w].mode # "pending", NEW g \in Gens, g = s.sock[w].ctx
  PROVE  LET t == [s EXCEPT !.queue[g] = Append(@, x)] IN
         Good(t, c, n) /\ Arrives(s, t, w, x)
<1> DEFINE t == [s EXCEPT !.queue[g] = Append(@, x)]
           q == s.queue[g]
<1> USE DEF Good
<1>1. /\ q \in Seq(Events) /\ x \in Events /\ s.queue \in [Gens -> Seq(Events)]
      /\ g # Host /\ x.at = w
  BY Fields, Constants DEF Fits, Joins
<1>2. t \in States /\ Alike(s, t)
  BY <1>1, AppendOf, Fields DEF States, Alike
<1>a. \A i \in 1..Len(Append(q, x)) :
        \/ i \in 1..Len(q) /\ Append(q, x)[i] = q[i]
        \/ i = Len(q) + 1 /\ Append(q, x)[i] = x
  BY <1>1, AppendOf
<1>3. /\ \A h \in Gens : t.queue[h] = IF h = g THEN Append(q, x) ELSE s.queue[h]
      /\ \A v \in Wrappers : t.sock[v].pending = s.sock[v].pending
      /\ t.heard = s.heard /\ t.sock = s.sock
  BY <1>1, Fields DEF States
<1> HIDE DEF t
<1>b. \A v \in Wrappers : s.sock[v].ctx # Host => s.sock[v].ctx \in Gens
  BY Fields, SocketFields DEF Contexts
<1>4. OneMore(s, t, w, x)
  <2> SUFFICES ASSUME NEW v \in Wrappers, NEW e \in Events, Comes(t, v, e), ~Comes(s, v, e)
               PROVE  v = w /\ e = x
    BY DEF OneMore
  <2>1. PICK i \in 1..Len(t.queue[s.sock[v].ctx]) :
          s.sock[v].ctx # Host /\ t.queue[s.sock[v].ctx][i].at = v
          /\ e = t.queue[s.sock[v].ctx][i]
    BY <1>3 DEF Comes
  <2>2. s.sock[v].ctx = g
    BY <1>3, <1>b, <2>1 DEF Comes
  <2>3. t.queue[g] = Append(q, x)
    BY <1>3
  <2>4. i = Len(q) + 1 /\ Append(q, x)[i] = x
    BY <1>a, <2>1, <2>2, <2>3 DEF Comes
  <2> QED
    BY <1>1, <2>1, <2>2, <2>3, <2>4
<1>5. GenInv(t) /\ EndInv(t)
  <2>1. EndInv(t)
    BY <1>2, <1>3 DEF EndInv, Alike
  <2>2. g <= s.gen /\ g \in Nat /\ s.gen \in Nat
    BY Fields, Constants DEF GenInv
  <2>3. \A h \in Gens : h > t.gen => h # g /\ t.queue[h] = s.queue[h]
    BY <1>2, <1>3, <2>2, Constants DEF Alike
  <2>4. GenInv(t)
    BY <1>2, <1>3, <2>3 DEF GenInv, Alike
  <2> QED
    BY <2>1, <2>4
<1>6. MirrorInv(t)
  <2>1. s.sock["a"].ready = "open" =>
          \A i \in 1..Len(Append(q, x)) : Append(q, x)[i].at = "a" => ~IsClose(Append(q, x)[i])
    <3>1. s.sock["a"].ready = "open" =>
            \A i \in 1..Len(q) : q[i].at = "a" => ~IsClose(q[i])
      BY DEF MirrorInv, NoteInv
    <3>2. s.sock["a"].ready = "open" /\ x.at = "a" => ~IsClose(x)
      BY <1>1 DEF Fits, Joins
    <3> HIDE DEF q
    <3> QED
      BY <1>a, <3>1, <3>2
  <2>2. s.sock["a"].ready = "open" =>
          \A h \in Gens : \A i \in 1..Len(t.queue[h]) :
            t.queue[h][i].at = "a" => ~IsClose(t.queue[h][i])
    BY <1>3, <2>1 DEF MirrorInv, NoteInv
  <2>3. /\ t.listed[t.gen] => t.meta.accepted = t.gen
        /\ t.sock["a"].ready = "open" =>
             /\ t.listed[t.gen] => t.mirror # -1
             /\ \A end \in t.ends : end.kind # "close"
             /\ \A i \in 1..Len(t.sock["a"].pending) : ~IsClose(t.sock["a"].pending[i])
    BY <1>2, <1>3 DEF MirrorInv, Alike
  <2>4. NoteInv(t)
    BY <1>2, AlikeNote DEF MirrorInv
  <2> QED
    BY <1>3, <2>2, <2>3, <2>4 DEF MirrorInv
<1>7. ModeInv(t)
  <2>1. \A i \in 1..Len(Append(q, x)) :
          /\ s.sock[Append(q, x)[i].at].mode # "pending"
          /\ s.sock[Append(q, x)[i].at].ctx = g \/ s.aborted[g]
    <3>1. \A i \in 1..Len(q) :
            s.sock[q[i].at].mode # "pending" /\ (s.sock[q[i].at].ctx = g \/ s.aborted[g])
      BY DEF ModeInv
    <3>2. s.sock[x.at].mode # "pending" /\ s.sock[x.at].ctx = g
      BY <1>1
    <3> HIDE DEF q
    <3> QED
      BY <1>a, <3>1, <3>2
  <2>2. \A h \in Gens : \A i \in 1..Len(t.queue[h]) :
          /\ s.sock[t.queue[h][i].at].mode # "pending"
          /\ s.sock[t.queue[h][i].at].ctx = h \/ s.aborted[h]
    <3> SUFFICES ASSUME NEW h \in Gens, NEW i \in 1..Len(t.queue[h])
                 PROVE  /\ s.sock[t.queue[h][i].at].mode # "pending"
                        /\ s.sock[t.queue[h][i].at].ctx = h \/ s.aborted[h]
      OBVIOUS
    <3>1. CASE h = g
      BY <1>3, <2>1, <3>1
    <3>2. CASE h # g
      <4>1. t.queue[h] = s.queue[h]
        BY <1>3, <3>2
      <4> QED
        BY <4>1 DEF ModeInv
    <3> QED
      BY <3>1, <3>2
  <2>3. /\ \A v \in Wrappers :
            /\ s.sock[v].mode = "hibernatable" => v = "a" /\ s.sock[v].ctx = s.meta.accepted
            /\ s.sock[v].mode # "pending" => s.sock[v].pending = <<>>
            /\ s.sock[v].mode = "pending" => s.heard[v] = <<>>
            /\ s.sock[v].ctx # Host =>
                 \A i \in 1..Len(s.sock[v].pending) : s.sock[v].pending[i].at = v
        /\ t.aborted = s.aborted /\ t.meta = s.meta
    BY <1>2 DEF ModeInv, Alike
  <2> QED
    BY <1>3, <2>2, <2>3 DEF ModeInv
<1>8. DurableInv(t, c)
  <2>1. \A i \in 1..Len(Append(q, x)) : Append(q, x)[i].under <= c
    BY <1>a DEF DurableInv, Fits, Joins
  <2> QED
    BY <1>3, <2>1 DEF DurableInv
<1>9. LineInv(t)
  <2> SUFFICES ASSUME NEW v \in Wrappers, s.sock[v].ctx = g
               PROVE  /\ InOrderAt(Append(q, x), v)
                      /\ \A i \in 1..Len(s.heard[v]), j \in 1..Len(Append(q, x)) :
                           Append(q, x)[j].at = v => Before(s.heard[v][i], Append(q, x)[j])
    <3>1. ASSUME NEW v \in Wrappers
        PROVE  /\ InOrder(t.heard[v]) /\ InOrder(t.sock[v].pending)
               /\ t.sock[v].ctx # Host /\ t.sock[v].ctx # g =>
                    /\ InOrderAt(t.queue[t.sock[v].ctx], v)
                    /\ \A i \in 1..Len(t.heard[v]), j \in 1..Len(t.queue[t.sock[v].ctx]) :
                         t.queue[t.sock[v].ctx][j].at = v =>
                           Before(t.heard[v][i], t.queue[t.sock[v].ctx][j])
      <4>1. t.sock[v].ctx # Host /\ t.sock[v].ctx # g =>
              t.queue[t.sock[v].ctx] = s.queue[s.sock[v].ctx]
        BY <1>3, <1>b
      <4> QED
        BY <1>3, <4>1 DEF LineInv
    <3> QED
      BY <1>1, <1>3, <3>1, ZenonT(60) DEF LineInv
  <2>1. /\ InOrderAt(q, v)
        /\ \A i \in 1..Len(s.heard[v]), j \in 1..Len(q) :
             q[j].at = v => Before(s.heard[v][i], q[j])
    BY <1>1 DEF LineInv
  <2>2. v = w => \A e \in Events : Comes(s, v, e) => Before(e, x)
    BY DEF Fits, Joins
  <2>3. /\ \A i \in 1..Len(q) : q[i].at = v => Comes(s, v, q[i])
        /\ \A i \in 1..Len(s.heard[v]) : Comes(s, v, s.heard[v][i])
    BY <1>1 DEF Comes
  <2>4. \A i \in 1..Len(s.heard[v]) : s.heard[v][i] \in Events
    BY Fields, ElementOfSeq
  <2>5. Len(q) \in Nat /\ \A i \in 1..Len(q) : q[i] \in Events
    BY <1>1, AppendOf
  <2>6. InOrderAt(Append(q, x), v)
    <3> HIDE DEF q
    <3> QED
      BY <1>1, <1>a, <2>1, <2>2, <2>3, <2>5 DEF InOrderAt
  <2>7. ASSUME NEW i \in 1..Len(s.heard[v]), NEW j \in 1..Len(Append(q, x)), Append(q, x)[j].at = v
        PROVE  Before(s.heard[v][i], Append(q, x)[j])
    <3> HIDE DEF q
    <3> QED
      BY <1>1, <1>a, <2>1, <2>2, <2>3, <2>4, <2>7
  <2> QED
    BY <2>6, <2>7
<1> QED
  BY <1>2, <1>4, <1>5, <1>6, <1>7, <1>8, <1>9, ArrivalSent DEF t, Arrives, Alike

-----------------------------------------------------------------------------
(***************************************************************************)
(* The operators of the registry and of a wrapper: each leads from a good  *)
(* state to a good one, and leaves the ends as they are.                   *)
(***************************************************************************)

\* The states differ in their wrappers.
Beside(s, t) ==
  /\ t.receiver = s.receiver /\ t.sentClose = s.sentClose /\ t.meta = s.meta
  /\ t.listed = s.listed /\ t.mirror = s.mirror /\ t.gen = s.gen /\ t.aborted = s.aborted
  /\ t.broken = s.broken /\ t.started = s.started /\ t.queue = s.queue /\ t.slice = s.slice
  /\ t.ends = s.ends /\ t.reply = s.reply /\ t.heard = s.heard

LEMMA SocketStep ==
  ASSUME NEW s \in States, NEW w \in Wrappers, NEW v \in Sockets
  PROVE  LET t == [s EXCEPT !.sock[w] = v] IN
         /\ t \in States /\ Beside(s, t) /\ t.used = s.used
         /\ t.sock[w] = v /\ \A u \in Wrappers \ {w} : t.sock[u] = s.sock[u]
<1>1. s.sock \in [Wrappers -> Sockets]
  BY Fields
<1> QED
  BY <1>1 DEF States, Beside

LEMMA QuietSocket ==
  ASSUME NEW s, NEW t, NEW c, NEW n, Good(s, c, n), NEW w \in Wrappers, NEW v \in Sockets,
         t \in States, Beside(s, t),
         t.sock[w] = v, \A u \in Wrappers \ {w} : t.sock[u] = s.sock[u],
         v.mode = s.sock[w].mode, v.ctx = s.sock[w].ctx, v.released = s.sock[w].released,
         v.pending = s.sock[w].pending, w = "a" /\ v.ready = "open" => s.sock["a"].ready = "open"
  PROVE  Quiet(s, t)
<1>1. "a" \in Wrappers /\ s.slice \in {0, s.gen}
  BY DEF Wrappers, Good, GenInv
<1>2. s.sock["a"].ready = "open" => \A end \in s.ends : end.kind # "close"
  BY DEF Good, MirrorInv, NoteInv
<1>3. t.sock["a"].ready = "open" => s.sock["a"].ready = "open"
  BY <1>1
<1> QED
  BY <1>1, <1>2, <1>3 DEF Quiet, Beside

LEMMA QuietArrives ==
  ASSUME NEW s, NEW t, Quiet(s, t), t.sentClose = s.sentClose, NEW w, NEW x
  PROVE  Arrives(s, t, w, x)
  BY QuietComes DEF Quiet, Arrives, OneMore

\* Only the metadata, the list and the mirror differ.
LEMMA SettleStep ==
  ASSUME NEW s, NEW c, NEW n, Good(s, c, n), NEW isClose \in BOOLEAN, NEW g \in Gens,
         isClose => s.sock["a"].ready # "open"
  PROVE  LET t == Settle(s, isClose, g) IN
         Good(t, c, n) /\ Quiet(s, t) /\ t.sentClose = s.sentClose
<1> DEFINE u == IF isClose THEN Unlist(s, g) ELSE s
           t == Settle(s, isClose, g)
<1>0. s \in States /\ s.slice \in {0, s.gen} /\ s.meta \in Metadata
      /\ (s.sock["a"].ready = "open" => \A end \in s.ends : end.kind # "close")
  BY Fields DEF Good, GenInv, MirrorInv, NoteInv
<1>1. /\ u \in States /\ u.sock = s.sock /\ u.receiver = s.receiver /\ u.sentClose = s.sentClose
      /\ u.gen = s.gen /\ u.queue = s.queue /\ u.heard = s.heard /\ u.meta = s.meta
      /\ u.slice = s.slice /\ u.ends = s.ends /\ u.aborted = s.aborted
      /\ \A h \in Gens : u.listed[h] => s.listed[h]
      /\ u.listed[u.gen] /\ s.sock["a"].ready = "open" => u.mirror = s.mirror
      /\ u.mirror = -1 \/ (u.mirror = s.mirror /\ u.listed = s.listed)
  BY <1>0 DEF Unlist, States
<1>2. /\ t \in States /\ t.sock = u.sock /\ t.receiver = u.receiver /\ t.sentClose = u.sentClose
      /\ t.gen = u.gen /\ t.queue = u.queue /\ t.heard = u.heard
      /\ t.meta.accepted = u.meta.accepted /\ t.meta.note = u.meta.note
      /\ t.meta.told = u.meta.told
      /\ t.slice = u.slice /\ t.ends = u.ends /\ t.aborted = u.aborted
      /\ t.listed = u.listed /\ t.mirror = u.mirror
  <2> HIDE DEF u
  <2>1. t = IF u.meta.completion THEN CompleteOwnClose(u) ELSE u
    BY DEF Settle, u
  <2>2. u.meta \in Metadata
    BY <1>0, <1>1
  <2> HIDE DEF t
  <2> QED
    BY <1>1, <2>1, <2>2 DEF CompleteOwnClose, States, Metadata
<1> HIDE DEF t, u
<1>3. Quiet(s, t)
  BY <1>0, <1>1, <1>2 DEF Quiet
<1>4. Good(t, c, n)
  BY <1>1, <1>2, <1>3, QuietStep
<1> QED
  BY <1>1, <1>2, <1>3, <1>4 DEF t

\* A frame, a close or an answer joins the pump.
LEMMA PumpGets ==
  ASSUME written \in Nat, NEW s, NEW c, NEW n \in Nat, NEW m \in Nat, n <= m, Good(s, c, n),
         NEW w \in {"a", "b"}, NEW kind \in {"message", "ping", "auto", "close"}, NEW k \in Nat,
         NEW lock \in Nat, k <= m, k = 0 \/ k > n,
         kind = "auto" \/ lock = Rejected \/ written <= lock
  PROVE  LET t == Enqueue(s, w, kind, k, lock) IN
         Good(t, c, m) /\ Quiet(s, t) /\ t.sentClose = s.sentClose
<1> DEFINE item == Item(s, w, kind, k, lock)
           p == s.sock[w].pump
           v == [s.sock[w] EXCEPT !.pump = Append(p, item)]
           t == Enqueue(s, w, kind, k, lock)
<1>0. w \in Wrappers /\ s \in States /\ s.sock[w] \in Sockets
  BY Fields DEF Wrappers, Good
<1>1. item \in Items /\ item.n = k /\ WaitsForWrites(item)
  BY <1>0, SocketFields, Constants DEF Item, Items, WaitsForWrites
<1>2. p \in Seq(Items) /\ Append(p, item) \in Seq(Items)
  BY <1>0, <1>1, SocketFields, AppendOf
<1> HIDE DEF item, p
<1>3. v \in Sockets /\ v.pump = Append(p, item) /\ v.mode = s.sock[w].mode
      /\ v.ctx = s.sock[w].ctx /\ v.released = s.sock[w].released
      /\ v.pending = s.sock[w].pending /\ v.ready = s.sock[w].ready
  BY <1>0, <1>2 DEF Sockets
<1>4. t = [s EXCEPT !.sock[w] = v]
  BY DEF Enqueue, item, p
<1> HIDE DEF v, t
<1>5. t \in States /\ Beside(s, t) /\ t.sock[w] = v
      /\ \A u \in Wrappers \ {w} : t.sock[u] = s.sock[u]
  BY <1>0, <1>3, <1>4, SocketStep
<1>6. Quiet(s, t)
  BY <1>0, <1>3, <1>5, QuietSocket
<1>7. Good(t, c, m)
  <2>1. t.sock[w].pump = Append(s.sock[w].pump, item)
    BY <1>3, <1>5 DEF p
  <2>2. \A u \in Wrappers \ {w} : t.sock[u].pump = s.sock[u].pump
    BY <1>5
  <2> QED
    BY <1>1, <1>5, <1>6, <2>1, <2>2, EnqueueStep
<1> QED
  BY <1>5, <1>6, <1>7 DEF t, Beside

LEMMA StaysPut ==
  ASSUME NEW s, NEW w, NEW x
  PROVE  Arrives(s, s, w, x)
  BY DEF Arrives, OneMore

\* The registry queues a frame, answers a ping, or lets go of a socket whose close it
\* cannot dispatch.
LEMMA RegistryReceives ==
  ASSUME written \in Nat, NEW s, NEW c, NEW n \in Nat, Good(s, c, n), NEW x,
         Fits(s, "a", x, c, n), s.sock["a"].mode = "hibernatable"
  PROVE  LET t == RegistryReceive(s, "a", x) IN Good(t, c, n) /\ Arrives(s, t, "a", x)
<1> DEFINE g == s.meta.accepted
           t == RegistryReceive(s, "a", x)
<1>0. "a" \in Wrappers /\ g \in Gens /\ g = s.sock["a"].ctx
  <2>1. "a" \in Wrappers
    BY DEF Wrappers
  <2>2. s.sock["a"].ctx = g /\ s.sock["a"].ctx # Host
    BY <2>1 DEF Good, ModeInv, EndInv
  <2> QED
    BY <2>1, <2>2, Fields, SocketFields DEF Good, Contexts
<1> HIDE DEF g
<1>a. t = CASE ~s.listed[g] -> s
            [] s.listed[g] /\ x.kind = "ping" -> AutoResponds(s, "a")
            [] s.listed[g] /\ x.kind # "ping" /\ s.aborted[g] ->
                 IF x.kind = "message" THEN s ELSE Settle(s, TRUE, g)
            [] OTHER -> [s EXCEPT !.queue[g] = Append(@, x)]
  BY DEF RegistryReceive, g
<1> HIDE DEF t
<1>1. CASE ~s.listed[g]
  BY <1>a, <1>1, StaysPut DEF t
<1>2. CASE s.listed[g] /\ x.kind = "ping"
  <2>1. CASE s.sock["a"].released \/ s.sock["a"].ready # "open"
    BY <1>a, <1>2, <2>1, StaysPut DEF t, AutoResponds
  <2>2. CASE ~(s.sock["a"].released \/ s.sock["a"].ready # "open")
    <3>1. t = Enqueue(s, "a", "auto", 0, 0)
      BY <1>a, <1>2, <2>2 DEF AutoResponds
    <3>2. Good(t, c, n) /\ Quiet(s, t) /\ t.sentClose = s.sentClose
      BY <3>1, PumpGets
    <3> QED
      BY <3>2, QuietArrives DEF t
  <2> QED
    BY <2>1, <2>2
<1>3. CASE s.listed[g] /\ x.kind # "ping" /\ s.aborted[g]
  <2>1. CASE x.kind = "message"
    BY <1>a, <1>3, <2>1, StaysPut DEF t
  <2>2. CASE x.kind # "message"
    <3>1. t = Settle(s, TRUE, g)
      BY <1>a, <1>3, <2>2
    <3>2. s.sock["a"].ready # "open"
      BY <1>3, <2>2, EventFields DEF Fits, Joins, IsClose
    <3>3. Good(t, c, n) /\ Quiet(s, t) /\ t.sentClose = s.sentClose
      BY <1>0, <3>1, <3>2, SettleStep
    <3> QED
      BY <3>3, QuietArrives DEF t
  <2> QED
    BY <2>1, <2>2
<1>4. CASE s.listed[g] /\ x.kind # "ping" /\ ~s.aborted[g]
  <2>1. t = [s EXCEPT !.queue[g] = Append(@, x)]
    BY <1>a, <1>4
  <2> QED
    BY <1>0, <2>1, QueueStep DEF t
<1> QED
  BY <1>1, <1>2, <1>3, <1>4 DEF t

LEMMA ReceiveStep ==
  ASSUME written \in Nat, NEW s, NEW c, NEW n \in Nat, Good(s, c, n), NEW w \in Wrappers, NEW x,
         Fits(s, w, x, c, n)
  PROVE  LET t == Receive(s, w, x) IN Good(t, c, n) /\ Arrives(s, t, w, x)
<1> DEFINE t == Receive(s, w, x)
           g == s.sock[w].ctx
<1>0. s \in States /\ s.sock[w] \in Sockets /\ (g # Host => g \in Gens)
  BY Fields, SocketFields DEF Good, Contexts
<1>1. CASE s.sock[w].mode = "pending"
  <2>1. t = [s EXCEPT !.sock[w].pending = Append(@, x)]
    BY <1>1 DEF Receive
  <2>2. LET r == [s EXCEPT !.sock[w].pending = Append(@, x)] IN
        Good(r, c, n) /\ Arrives(s, r, w, x)
    BY <1>1, KeepStep
  <2> HIDE DEF t
  <2>3. Good(t, c, n) /\ Arrives(s, t, w, x)
    BY <2>1, <2>2
  <2> QED
    BY <2>3 DEF t
<1>2. CASE s.sock[w].mode = "classic"
  <2>a. t = CASE g = Host -> Hear(s, w, x)
              [] g # Host /\ s.aborted[g] -> s
              [] OTHER -> [s EXCEPT !.queue[g] = Append(@, x)]
    BY <1>2 DEF Receive, DeliverClassic
  <2> HIDE DEF t
  <2>1. CASE g = Host
    BY <1>2, <2>a, <2>1, HearStep DEF t
  <2>2. CASE g # Host /\ s.aborted[g]
    BY <2>a, <2>2, StaysPut DEF t
  <2>3. CASE g # Host /\ ~s.aborted[g]
    <3>1. t = [s EXCEPT !.queue[g] = Append(@, x)]
      BY <2>a, <2>3
    <3> HIDE DEF g
    <3>2. g = s.sock[w].ctx
      BY DEF g
    <3> QED
      BY <1>0, <1>2, <2>3, <3>1, <3>2, QueueStep DEF t
  <2> QED
    BY <2>1, <2>2, <2>3
<1>3. CASE s.sock[w].mode = "hibernatable"
  <2>1. w = "a"
    BY <1>3 DEF Good, ModeInv
  <2>2. t = RegistryReceive(s, "a", x)
    BY <1>3, <2>1 DEF Receive
  <2> QED
    BY <1>3, <2>1, <2>2, RegistryReceives
<1> QED
  BY <1>0, <1>1, <1>2, <1>3, SocketFields

\* What joins s joins a state that sent and delivered nothing else.
LEMMA QuietJoins ==
  ASSUME NEW s, NEW t, NEW c, NEW n, NEW w \in Wrappers, NEW x, Joins(s, w, x, c, n), Quiet(s, t),
         \A v \in Wrappers : t.sock[v].pump = s.sock[v].pump
  PROVE  Joins(t, w, x, c, n)
<1>1. Other[EndOf[w]] \in Ends
  BY DEF Wrappers, Ends, Other, EndOf
<1> QED
  BY <1>1, QuietComes DEF Joins, Quiet

\* A wrapper whose state changes, and nothing else.
LEMMA SocketQuietly ==
  ASSUME NEW s, NEW c, NEW n, Good(s, c, n), NEW w \in Wrappers, NEW v \in Sockets,
         v.mode = s.sock[w].mode, v.ctx = s.sock[w].ctx, v.released = s.sock[w].released,
         v.pending = s.sock[w].pending, v.pump = s.sock[w].pump,
         w = "a" /\ v.ready = "open" => s.sock["a"].ready = "open"
  PROVE  LET t == [s EXCEPT !.sock[w] = v] IN
         /\ Good(t, c, n) /\ Quiet(s, t) /\ t.sentClose = s.sentClose
         /\ \A u \in Wrappers : t.sock[u].pump = s.sock[u].pump
<1> DEFINE t == [s EXCEPT !.sock[w] = v]
<1>1. /\ t \in States /\ Beside(s, t)
      /\ t.sock[w] = v /\ \A u \in Wrappers \ {w} : t.sock[u] = s.sock[u]
  BY SocketStep DEF Good
<1> HIDE DEF t
<1>2. Quiet(s, t)
  BY <1>1, QuietSocket
<1>3. \A u \in Wrappers : t.sock[u].pump = s.sock[u].pump
  BY <1>1
<1>4. Good(t, c, n)
  BY <1>1, <1>2, <1>3, QuietStep
<1> QED
  BY <1>1, <1>2, <1>3, <1>4 DEF t, Beside

LEMMA ReceiveCloseStep ==
  ASSUME written \in Nat, NEW s, NEW c, NEW n \in Nat, Good(s, c, n), NEW w \in Wrappers, NEW x,
         Joins(s, w, x, c, n), IsClose(x)
  PROVE  LET t == ReceiveClose(s, w, x) IN Good(t, c, n) /\ Arrives(s, t, w, x)
<1> DEFINE v == IF s.sock[w].own THEN [s.sock[w] EXCEPT !.ready = "closed"]
                ELSE [s.sock[w] EXCEPT !.peer = TRUE, !.ready = "closing"]
           u == [s EXCEPT !.sock[w] = v]
           t == Receive(u, w, x)
<1>0. s \in States /\ s.sock[w] \in Sockets /\ s.sock \in [Wrappers -> Sockets]
  BY Fields DEF Good
<1>1. ReceiveClose(s, w, x) = t
  <2>1. s.sock[w].own => u = [s EXCEPT !.sock[w].ready = "closed"]
    OBVIOUS
  <2>2. ~s.sock[w].own => u = [s EXCEPT !.sock[w].peer = TRUE, !.sock[w].ready = "closing"]
    <3>1. [s EXCEPT !.sock[w].peer = TRUE, !.sock[w].ready = "closing"]
            = [[s EXCEPT !.sock[w].peer = TRUE] EXCEPT !.sock[w].ready = "closing"]
      OBVIOUS
    <3>2. \A z \in Sockets : [s EXCEPT !.sock[w] = z].sock[w] = z
      BY <1>0 DEF States
    <3> QED
      BY <1>0, <3>1, <3>2 DEF States
  <2> QED
    BY <1>0, <2>1, <2>2, SocketFields DEF ReceiveClose
<1>2. /\ v \in Sockets /\ v.mode = s.sock[w].mode /\ v.ctx = s.sock[w].ctx
      /\ v.released = s.sock[w].released /\ v.pending = s.sock[w].pending
      /\ v.pump = s.sock[w].pump /\ v.ready # "open"
  BY <1>0 DEF Sockets
<1>3. u.sock[w] = v
  BY <1>0
<1> HIDE DEF v
<1>4. /\ Good(u, c, n) /\ Quiet(s, u) /\ u.sentClose = s.sentClose
      /\ \A e \in Wrappers : u.sock[e].pump = s.sock[e].pump
  BY <1>2, SocketQuietly
<1> HIDE DEF u
<1>5. Fits(u, w, x, c, n)
  BY <1>2, <1>3, <1>4, QuietJoins DEF Fits
<1>6. Good(t, c, n) /\ Arrives(u, t, w, x)
  BY <1>4, <1>5, ReceiveStep
<1>7. Arrives(s, t, w, x)
  BY <1>4, <1>6, QuietComes DEF Arrives, OneMore, Quiet
<1> QED
  BY <1>1, <1>6, <1>7

LEMMA EndsOfWrappers ==
  /\ \A w \in Wrappers : EndOf[w] \in Ends /\ Other[EndOf[w]] \in Ends
  /\ \A e \in Ends : Other[e] \in Ends /\ Other[Other[e]] = e
  /\ "a" \in Wrappers /\ "b" \in Wrappers /\ "h" \in Wrappers /\ "a" \in Ends /\ "b" \in Ends
  /\ Other["a"] = "b" /\ Other["b"] = "a" /\ EndOf["a"] = "a" /\ EndOf["b"] = "b"
  /\ EndOf["h"] = "b"
  BY DEF Wrappers, Ends, Other, EndOf

LEMMA Receivers ==
  ASSUME NEW s, EndInv(s)
  PROVE  \A e \in Ends : s.receiver[e] \in Wrappers /\ EndOf[s.receiver[e]] = e
  BY EndsOfWrappers DEF EndInv, Ends

\* An owner closes its wrapper.
LEMMA ClosingStep ==
  ASSUME NEW s, NEW c, NEW n, Good(s, c, n), NEW w \in Wrappers
  PROVE  LET t == Closing(s, w) IN
         /\ Good(t, c, n) /\ Quiet(s, t) /\ t.sentClose = s.sentClose
         /\ \A u \in Wrappers : t.sock[u].pump = s.sock[u].pump
<1> DEFINE v == [s.sock[w] EXCEPT !.own = TRUE,
                                  !.ready = IF s.sock[w].peer THEN "closed" ELSE "closing"]
           u == [s EXCEPT !.sock[w] = v]
           t == Closing(s, w)
<1>0. s \in States /\ s.sock[w] \in Sockets /\ s.sock \in [Wrappers -> Sockets]
  BY Fields DEF Good
<1>1. /\ v \in Sockets /\ v.mode = s.sock[w].mode /\ v.ctx = s.sock[w].ctx
      /\ v.released = s.sock[w].released /\ v.pending = s.sock[w].pending
      /\ v.pump = s.sock[w].pump /\ v.ready # "open"
  BY <1>0 DEF Sockets
<1>2. /\ t \in States /\ Beside(s, t) /\ t.sock = u.sock
  <2>1. /\ t.sock = [s.sock EXCEPT ![w] = v]
        /\ t = [s EXCEPT !.used = TRUE, !.sock = [s.sock EXCEPT ![w] = v]]
    <3>1. t = [[[s EXCEPT !.used = TRUE] EXCEPT !.sock[w].own = TRUE]
                  EXCEPT !.sock[w].ready = IF s.sock[w].peer THEN "closed" ELSE "closing"]
      BY DEF Closing
    <3>2. [[s.sock[w] EXCEPT !.own = TRUE]
             EXCEPT !.ready = IF s.sock[w].peer THEN "closed" ELSE "closing"] = v
      OBVIOUS
    <3> HIDE DEF t, v
    <3>3. t.sock = [s.sock EXCEPT ![w] = v]
      BY <1>0, <3>1, <3>2 DEF States
    <3> QED
      BY <1>0, <3>1, <3>3 DEF States
  <2>2. u.sock = [s.sock EXCEPT ![w] = v]
    BY <1>0 DEF States
  <2> HIDE DEF v, t
  <2>3. [s.sock EXCEPT ![w] = v] \in [Wrappers -> Sockets]
    BY <1>0, <1>1
  <2>4. t \in States /\ Beside(s, t)
    BY <1>0, <2>1, <2>3 DEF States, Beside
  <2> QED
    BY <2>1, <2>2, <2>4
<1> HIDE DEF v, t
<1>3. /\ u.sock[w] = v /\ \A z \in Wrappers \ {w} : u.sock[z] = s.sock[z]
  BY <1>0, <1>1, SocketStep
<1> HIDE DEF u
<1>4. Quiet(s, t) /\ \A z \in Wrappers : t.sock[z].pump = s.sock[z].pump
  BY <1>1, <1>2, <1>3, QuietSocket
<1>5. Good(t, c, n)
  BY <1>2, <1>4, QuietStep
<1> QED
  BY <1>2, <1>4, <1>5 DEF t, Beside

\* A close is sent: nothing that closes was sent before.
LEMMA NoneClosed ==
  ASSUME NEW s, NEW c, NEW n, Good(s, c, n), NEW w \in Wrappers,
         ~s.sentClose[Other[EndOf[w]]], NEW e \in Events, Comes(s, w, e)
  PROVE  ~IsClose(e)
  BY DEF Good, SentInv

LEMMA Closes ==
  ASSUME NEW s, NEW c \in Nat, NEW n \in Nat, Good(s, c, n), NEW w \in Wrappers,
         s.receiver[EndOf[w]] = w, s.sentClose[Other[EndOf[w]]], NEW x \in Events, x.at = w,
         x.n = 0, x.under = 0,
         \A e \in Events : Comes(s, w, e) => ~IsClose(e)
  PROVE  Joins(s, w, x, c, n)
  BY DEF Joins, Before

LEMMA SendsClose ==
  ASSUME NEW s, NEW c, NEW n, Good(s, c, n), NEW z \in [Ends -> BOOLEAN],
         \A e \in Ends : s.sentClose[e] => z[e]
  PROVE  LET t == [s EXCEPT !.sentClose = z] IN
         /\ Good(t, c, n) /\ Quiet(s, t) /\ t.sentClose = z
         /\ \A v \in Wrappers : t.sock[v].pump = s.sock[v].pump
<1> DEFINE t == [s EXCEPT !.sentClose = z]
<1>0. s \in States /\ s.slice \in {0, s.gen}
  BY DEF Good, GenInv
<1>1. t \in States /\ t.sentClose = z /\ t.sock = s.sock
  BY <1>0 DEF States
<1>2. Quiet(s, t)
  BY <1>0, <1>1 DEF Quiet, Good, MirrorInv, NoteInv, States
<1> HIDE DEF t
<1>3. Good(t, c, n)
  BY <1>1, <1>2, QuietStep
<1> QED
  BY <1>1, <1>2, <1>3 DEF t

LEMMA HostAnswersStep ==
  ASSUME written \in Nat, NEW s, NEW c \in Nat, NEW n \in Nat, Good(s, c, n)
  PROVE  Good(HostAnswers(s), c, n)
<1> DEFINE t == Closing(s, "h")
           z == [s.sentClose EXCEPT !["b"] = TRUE]
           u == [t EXCEPT !.sentClose["b"] = TRUE]
           x == Event(t, "a", "close", 0, 0)
<1>1. /\ Good(t, c, n) /\ Quiet(s, t) /\ t.sentClose = s.sentClose
  BY ClosingStep, EndsOfWrappers
<1>2. HostAnswers(s) = CASE ~CanClose(s, "h") -> s
                         [] CanClose(s, "h") /\ s.sentClose["b"] -> t
                         [] OTHER -> ReceiveClose(u, "a", x)
  BY DEF HostAnswers
<1> HIDE DEF t
<1>3. ASSUME CanClose(s, "h"), ~s.sentClose["b"]
      PROVE  Good(ReceiveClose(u, "a", x), c, n)
  <2>0. s.sentClose \in [Ends -> BOOLEAN] /\ t.receiver \in [Ends -> Wrappers]
    BY <1>1, Fields DEF Good
  <2>1. z \in [Ends -> BOOLEAN] /\ z["b"] /\ \A e \in Ends : t.sentClose[e] => z[e]
    BY <1>1, <2>0, EndsOfWrappers
  <2>2. u = [t EXCEPT !.sentClose = z]
    BY <1>1
  <2> HIDE DEF z
  <2>3. Good(u, c, n) /\ Quiet(t, u) /\ u.sentClose = z
    <3> HIDE DEF u
    <3>1. Good(t, c, n)
      BY <1>1
    <3> QED
      BY <2>1, <2>2, <3>1, SendsClose
  <2>4. /\ x \in Events /\ x.at = "a" /\ x.n = 0 /\ x.under = 0 /\ IsClose(x)
    <3>1. t.receiver["a"] = "a"
      BY <1>1 DEF Good, EndInv
    <3>2. x = [kind |-> "close", at |-> "a", n |-> 0, under |-> 0]
      BY <3>1 DEF Event
    <3> HIDE DEF x
    <3> QED
      BY <3>2, EndsOfWrappers DEF Events, IsClose
  <2> HIDE DEF u, x
  <2>5. \A e \in Events : Comes(u, "a", e) => ~IsClose(e)
    BY <1>1, <1>3, <2>3, QuietComes, NoneClosed, EndsOfWrappers
  <2>6. u.receiver["a"] = "a"
    BY <2>3 DEF Good, EndInv
  <2>7. Joins(u, "a", x, c, n)
    BY <2>1, <2>3, <2>4, <2>5, <2>6, Closes, EndsOfWrappers
  <2> QED
    BY <2>3, <2>4, <2>7, ReceiveCloseStep, EndsOfWrappers
<1> QED
  BY <1>1, <1>2, <1>3

\* Nobody answers the close of a connection that was dropped.
LEMMA DroppedStep ==
  ASSUME NEW s, NEW c, NEW n, Good(s, c, n), NEW w \in Wrappers, NEW x, x.kind = "dropped"
  PROVE  LET t == AnswerPeerClose(s, w, x) IN
         Good(t, c, n) /\ Quiet(s, t) /\ t.sentClose = s.sentClose
<1> DEFINE v == [s.sock[w] EXCEPT !.ready = "closed"]
           t == AnswerPeerClose(s, w, x)
<1>0. s \in States /\ s.sock[w] \in Sockets
  BY Fields DEF Good
<1>1. CASE s.sock[w].mode # "classic" \/ s.sock[w].own
  <2>1. t = s
    BY <1>1 DEF AnswerPeerClose
  <2>2. Quiet(s, s)
    BY DEF Quiet, Good, GenInv, MirrorInv, NoteInv
  <2> QED
    BY <2>1, <2>2
<1>2. CASE ~(s.sock[w].mode # "classic" \/ s.sock[w].own)
  <2>1. t = [s EXCEPT !.sock[w] = v]
    BY <1>2 DEF AnswerPeerClose
  <2>2. /\ v \in Sockets /\ v.mode = s.sock[w].mode /\ v.ctx = s.sock[w].ctx
        /\ v.released = s.sock[w].released /\ v.pending = s.sock[w].pending
        /\ v.pump = s.sock[w].pump /\ v.ready # "open"
    BY <1>0 DEF Sockets
  <2> HIDE DEF v
  <2> QED
    BY <2>1, <2>2, SocketQuietly
<1> QED
  BY <1>1, <1>2

\* The close of an actor's half waits in the pump for the writes before it.
LEMMA PumpsClose ==
  ASSUME written \in Nat, NEW s, NEW c, NEW n \in Nat, Good(s, c, n), NEW w \in {"a", "b"}, NEW g
  PROVE  Good(Enqueue(Closing(s, w), w, "close", 0, LockOf(s, g)), c, n)
<1> DEFINE t == Closing(s, w)
           lock == LockOf(s, g)
<1>1. Good(t, c, n)
  BY ClosingStep, EndsOfWrappers
<1>2. lock \in Nat /\ (lock = Rejected \/ written <= lock)
  BY Constants DEF LockOf
<1> HIDE DEF t, lock
<1>3. Good(Enqueue(t, w, "close", 0, lock), c, n)
  BY <1>1, <1>2, PumpGets
<1> QED
  BY <1>3 DEF t, lock

LEMMA AnswerStep ==
  ASSUME written \in Nat, NEW s, NEW c \in Nat, NEW n \in Nat, Good(s, c, n),
         NEW w \in Wrappers, NEW x
  PROVE  Good(AnswerPeerClose(s, w, x), c, n)
<1>1. CASE x.kind = "dropped"
  BY <1>1, DroppedStep
<1>2. CASE s.sock[w].mode # "classic" \/ s.sock[w].own
  BY <1>2 DEF AnswerPeerClose
<1>3. CASE x.kind # "dropped" /\ ~(s.sock[w].mode # "classic" \/ s.sock[w].own)
  <2>1. CASE w = "h"
    BY <1>3, <2>1, HostAnswersStep DEF AnswerPeerClose
  <2>2. CASE w # "h" /\ ~CanClose(s, w)
    BY <1>3, <2>2 DEF AnswerPeerClose
  <2>3. CASE w # "h" /\ CanClose(s, w)
    BY <1>3, <2>3, PumpsClose DEF AnswerPeerClose, Wrappers
  <2> QED
    BY <2>1, <2>2, <2>3
<1> QED
  BY <1>1, <1>2, <1>3

-----------------------------------------------------------------------------
(***************************************************************************)
(* The connection: what leaves at an end arrives at the other.             *)
(***************************************************************************)

\* An item may leave at e: its writes are confirmed, and the frames that were sent after it
\* are still in their pumps.
Departs(s, e, item, c, n) ==
  /\ item.n \in Nat /\ item.n <= n /\ item.under \in Nat /\ item.under <= c
  /\ item.kind \in {"message", "ping", "auto", "close"}
  /\ \A f \in Events : Comes(s, s.receiver[Other[e]], f) /\ f.n > 0 /\ item.n > 0 => f.n < item.n
  /\ \A v \in Wrappers : EndOf[v] = e /\ ~s.sock[v].released =>
       \A i \in 1..Len(s.sock[v].pump) : s.sock[v].pump[i].n > 0 => item.n < s.sock[v].pump[i].n

LEMMA PutStep ==
  ASSUME written \in Nat, NEW s, NEW c \in Nat, NEW n \in Nat, Good(s, c, n), NEW e \in Ends,
         NEW item, Departs(s, e, item, c, n)
  PROVE  Good(Put(s, e, item), c, n)
<1> DEFINE w == s.receiver[Other[e]]
<1>0. /\ w \in Wrappers /\ EndOf[w] = Other[e] /\ Other[EndOf[w]] = e /\ Other[e] \in Ends
      /\ s.receiver[EndOf[w]] = w /\ s.sentClose \in [Ends -> BOOLEAN]
  <2>1. Other[e] \in Ends /\ Other[Other[e]] = e
    BY EndsOfWrappers
  <2>2. w \in Wrappers /\ EndOf[w] = Other[e]
    BY <2>1, Receivers DEF Good
  <2> QED
    BY <2>1, <2>2, Fields DEF Good
<1> HIDE DEF w
<1>1. CASE s.sentClose[e]
  BY <1>1 DEF Put
<1>2. ~s.sentClose[e] => \A f \in Events : Comes(s, w, f) => ~IsClose(f)
  BY <1>0, NoneClosed
<1>3. CASE ~s.sentClose[e] /\ item.kind # "close"
  <2> DEFINE kind == IF item.kind = "auto" THEN "message" ELSE item.kind
             x == Event(s, Other[e], kind, item.n, item.under)
  <2>1. Put(s, e, item) = Receive(s, x.at, x)
    BY <1>3 DEF Put
  <2>2. kind \in {"message", "ping"}
    BY <1>3 DEF Departs
  <2> HIDE DEF kind
  <2>3. x = [kind |-> kind, at |-> w, n |-> item.n, under |-> item.under]
    BY DEF Event, w
  <2> HIDE DEF x
  <2>4. x \in Events /\ x.at = w /\ x.n = item.n /\ x.under = item.under /\ ~IsClose(x)
    BY <1>0, <2>2, <2>3 DEF Departs, Events, IsClose
  <2>5. \A f \in Events : Comes(s, w, f) => Before(f, x)
    BY <1>2, <1>3, <2>4 DEF Before, Departs, w
  <2>6. \A v \in Wrappers : Facing(w, v) /\ ~s.sock[v].released =>
          \A i \in 1..Len(s.sock[v].pump) : s.sock[v].pump[i].n > 0 => x.n < s.sock[v].pump[i].n
    BY <1>0, <2>4, EndsOfWrappers DEF Departs, Facing
  <2>7. Fits(s, w, x, c, n)
    BY <1>0, <2>4, <2>5, <2>6 DEF Fits, Joins, Departs
  <2> QED
    BY <1>0, <2>1, <2>4, <2>7, ReceiveStep
<1>4. CASE ~s.sentClose[e] /\ item.kind = "close"
  <2> DEFINE x == Event(s, Other[e], "close", item.n, item.under)
             z == [s.sentClose EXCEPT ![e] = TRUE]
             t == [s EXCEPT !.sentClose[e] = TRUE]
             u == ReceiveClose(t, w, x)
  <2>0. Put(s, e, item) = AnswerPeerClose(ReceiveClose(t, x.at, x), x.at, x)
    BY <1>4 DEF Put
  <2>1. x = [kind |-> "close", at |-> w, n |-> item.n, under |-> item.under]
    BY DEF Event, w
  <2> HIDE DEF x
  <2>2. x \in Events /\ x.at = w /\ x.n = item.n /\ x.under = item.under /\ IsClose(x)
    BY <1>0, <2>1 DEF Departs, Events, IsClose
  <2>3. Put(s, e, item) = AnswerPeerClose(u, w, x)
    BY <2>0, <2>2
  <2>4. z \in [Ends -> BOOLEAN] /\ z[e] /\ \A f \in Ends : s.sentClose[f] => z[f]
    BY <1>0
  <2>5. t = [s EXCEPT !.sentClose = z]
    OBVIOUS
  <2> HIDE DEF z, t
  <2>6. /\ Good(t, c, n) /\ Quiet(s, t) /\ t.sentClose = z
        /\ \A v \in Wrappers : t.sock[v].pump = s.sock[v].pump
    BY <2>4, <2>5, SendsClose
  <2>7. \A f \in Events : Comes(t, w, f) => Before(f, x)
    BY <1>0, <1>2, <1>4, <2>2, <2>6, QuietComes DEF Before, Departs, w
  <2>8. \A v \in Wrappers : Facing(w, v) /\ ~t.sock[v].released =>
          \A i \in 1..Len(t.sock[v].pump) : t.sock[v].pump[i].n > 0 => x.n < t.sock[v].pump[i].n
    BY <1>0, <2>2, <2>6, EndsOfWrappers, SMTT(30) DEF Quiet, Facing, Departs
  <2>9. t.receiver[EndOf[w]] = w
    BY <1>0, <2>6 DEF Quiet
  <2>10. Joins(t, w, x, c, n)
    BY <1>0, <2>2, <2>4, <2>6, <2>7, <2>8, <2>9 DEF Joins, Departs
  <2>11. Good(u, c, n)
    BY <1>0, <2>2, <2>6, <2>10, ReceiveCloseStep
  <2> HIDE DEF u
  <2> QED
    BY <1>0, <2>3, <2>11, AnswerStep
<1> QED
  BY <1>1, <1>3, <1>4 DEF Departs

\* An end that heard no close hears that the connection was dropped.
LEMMA HearsStep ==
  ASSUME written \in Nat, NEW t, NEW c \in Nat, NEW n \in Nat, Good(t, c, n), NEW e \in Ends,
         NEW w, w = t.receiver[e], t.sentClose[Other[e]],
         \A f \in Events : Comes(t, w, f) => ~IsClose(f)
  PROVE  LET x == Event(t, e, "dropped", 0, 0)
             u == AnswerPeerClose(ReceiveClose(t, x.at, x), x.at, x)
         IN Good(u, c, n) /\ Arrives(t, u, w, x)
<1> DEFINE x == Event(t, e, "dropped", 0, 0)
           r == ReceiveClose(t, x.at, x)
           u == AnswerPeerClose(r, x.at, x)
<1>0. w \in Wrappers /\ EndOf[w] = e
  BY Receivers DEF Good
<1>1. x = [kind |-> "dropped", at |-> w, n |-> 0, under |-> 0]
  BY DEF Event
<1> HIDE DEF x
<1>2. /\ x \in Events /\ x.at = w /\ x.n = 0 /\ x.under = 0 /\ x.kind = "dropped" /\ IsClose(x)
  BY <1>0, <1>1 DEF Events, IsClose
<1>3. Joins(t, w, x, c, n)
  BY <1>0, <1>2, Closes
<1>4. Good(r, c, n) /\ Arrives(t, r, w, x)
  BY <1>0, <1>2, <1>3, ReceiveCloseStep
<1> HIDE DEF r
<1>5. Good(u, c, n) /\ Quiet(r, u) /\ u.sentClose = r.sentClose
  BY <1>0, <1>2, <1>4, DroppedStep
<1> HIDE DEF u
<1>6. Arrives(t, u, w, x)
  BY <1>4, <1>5, QuietComes DEF Arrives, OneMore, Quiet
<1> QED
  BY <1>5, <1>6 DEF x, r, u

LEMMA DropStep ==
  ASSUME written \in Nat, NEW s, NEW c \in Nat, NEW n \in Nat, Good(s, c, n)
  PROVE  Good(Drop(s), c, n)
<1> DEFINE z == [e \in Ends |-> TRUE]
           t == [s EXCEPT !.sentClose = z]
           hears(r, e) == IF s.sentClose[Other[e]] THEN r
                          ELSE LET x == Event(r, e, "dropped", 0, 0)
                               IN AnswerPeerClose(ReceiveClose(r, x.at, x), x.at, x)
           r == hears(t, "a")
<1>1. Drop(s) = hears(r, "b")
  BY DEF Drop
<1>2. z \in [Ends -> BOOLEAN] /\ z["a"] /\ z["b"]
  BY EndsOfWrappers
<1> HIDE DEF z
<1>3. Good(t, c, n) /\ Quiet(s, t) /\ t.sentClose = z
  BY <1>2, SendsClose, EndsOfWrappers DEF Ends
<1> HIDE DEF t
<1>4. \A e \in Ends : s.receiver[e] \in Wrappers /\ EndOf[s.receiver[e]] = e
                      /\ t.receiver[e] = s.receiver[e]
  BY <1>3, Receivers DEF Good, Quiet
<1>5. \A e \in Ends : ~s.sentClose[Other[e]] =>
        \A f \in Events : Comes(t, s.receiver[e], f) => ~IsClose(f)
  BY <1>3, <1>4, NoneClosed, QuietComes
<1>6. Good(r, c, n) /\ r.receiver = t.receiver /\ r.sentClose = z
      /\ \A v \in Wrappers, f \in Events : v # t.receiver["a"] /\ Comes(r, v, f) => Comes(t, v, f)
  <2>1. CASE s.sentClose[Other["a"]]
    BY <1>3, <2>1
  <2>2. CASE ~s.sentClose[Other["a"]]
    <3> DEFINE w == t.receiver["a"]
               x == Event(t, "a", "dropped", 0, 0)
    <3>1. r = AnswerPeerClose(ReceiveClose(t, x.at, x), x.at, x)
      BY <2>2
    <3> HIDE DEF r
    <3>2. /\ \A f \in Events : Comes(t, w, f) => ~IsClose(f)
          /\ t.sentClose[Other["a"]]
      BY <1>2, <1>3, <1>4, <1>5, <2>2, EndsOfWrappers
    <3>3. Good(r, c, n) /\ Arrives(t, r, w, x)
      BY <1>3, <3>1, <3>2, HearsStep, EndsOfWrappers
    <3> QED
      BY <1>3, <3>3 DEF Arrives, OneMore
  <2> QED
    BY <2>1, <2>2
<1> HIDE DEF r
<1>7. CASE s.sentClose[Other["b"]]
  BY <1>1, <1>6, <1>7
<1>8. CASE ~s.sentClose[Other["b"]]
  <2> DEFINE w == r.receiver["b"]
             x == Event(r, "b", "dropped", 0, 0)
             u == AnswerPeerClose(ReceiveClose(r, x.at, x), x.at, x)
  <2>1. hears(r, "b") = u
    BY <1>8
  <2>2. w = s.receiver["b"] /\ w # t.receiver["a"] /\ w \in Wrappers
    BY <1>4, <1>6, EndsOfWrappers
  <2>3. \A f \in Events : Comes(r, w, f) => ~IsClose(f)
    BY <1>5, <1>6, <1>8, <2>2, EndsOfWrappers
  <2>4. r.sentClose[Other["b"]]
    BY <1>2, <1>6, EndsOfWrappers
  <2>5. Good(u, c, n)
    BY <1>6, <2>3, <2>4, HearsStep, EndsOfWrappers
  <2> QED
    BY <1>1, <2>1, <2>5
<1> QED
  BY <1>7, <1>8

\* The transport under the host's socket closes the connection, or a close of the host does.
LEMMA HostClosesStep ==
  ASSUME written \in Nat, NEW s, NEW c \in Nat, NEW n \in Nat, Good(s, c, n)
  PROVE  Good(Close(s, "h"), c, n)
<1> DEFINE t == Closing(s, "h")
           item == Item(s, "h", "close", 0, 0)
<1>1. s.sock["h"].ctx = Host
  BY DEF Good, EndInv
<1>2. CASE ~CanClose(s, "h")
  BY <1>2 DEF Close
<1>3. CASE CanClose(s, "h")
  <2>1. Close(s, "h") = Put(t, "b", item)
    BY <1>1, <1>3, EndsOfWrappers DEF Close
  <2>2. Good(t, c, n)
    BY ClosingStep, EndsOfWrappers
  <2>3. item.n = 0 /\ item.under = 0 /\ item.kind = "close"
    BY <1>1 DEF Item
  <2> HIDE DEF t, item
  <2>4. Departs(t, "b", item, c, n)
    BY <2>3 DEF Departs
  <2> QED
    BY <2>1, <2>2, <2>4, PutStep, EndsOfWrappers
<1> QED
  BY <1>2, <1>3

LEMMA DropWithStep ==
  ASSUME written \in Nat, NEW s, NEW c \in Nat, NEW n \in Nat, Good(s, c, n), NEW w \in Wrappers
  PROVE  Good(DropWith(s, w), c, n)
<1> DEFINE v == [s.sock[w] EXCEPT !.ready = "closed", !.own = TRUE]
           t == [s EXCEPT !.sock[w] = v]
           u == [s EXCEPT !.sock[w].ready = "closed", !.sock[w].own = TRUE]
<1>0. s \in States /\ s.sock[w] \in Sockets /\ s.sock \in [Wrappers -> Sockets]
  BY Fields DEF Good
<1>1. u = t
  <2>1. u = [[s EXCEPT !.sock[w].ready = "closed"] EXCEPT !.sock[w].own = TRUE]
    OBVIOUS
  <2>2. [[s.sock[w] EXCEPT !.ready = "closed"] EXCEPT !.own = TRUE] = v
    OBVIOUS
  <2>3. t = [s EXCEPT !.sock = [s.sock EXCEPT ![w] = v]]
    OBVIOUS
  <2> HIDE DEF u, v, t
  <2> QED
    BY <1>0, <2>1, <2>2, <2>3 DEF States
<1>2. /\ v \in Sockets /\ v.mode = s.sock[w].mode /\ v.ctx = s.sock[w].ctx
      /\ v.released = s.sock[w].released /\ v.pending = s.sock[w].pending
      /\ v.pump = s.sock[w].pump /\ v.ready # "open"
  BY <1>0 DEF Sockets
<1> HIDE DEF v
<1>3. Good(t, c, n)
  BY <1>2, SocketQuietly
<1> HIDE DEF t, u
<1>4. Good(Drop(u), c, n)
  BY <1>1, <1>3, DropStep
<1> QED
  BY <1>4 DEF DropWith, u

LEMMA AbortStep ==
  ASSUME written \in Nat, NEW s, NEW c \in Nat, NEW n \in Nat, Good(s, c, n)
  PROVE  Good(Abort(s), c, n)
<1> DEFINE t == [s EXCEPT !.aborted[s.gen] = TRUE]
           drop(r, w) == IF r.sock[w].ctx = s.gen THEN DropWith(r, w) ELSE r
<1>1. Abort(s) = IF s.aborted[s.gen] THEN s ELSE drop(drop(t, "a"), "b")
  BY DEF Abort
<1>2. Good(t, c, n)
  <2>0. s \in States /\ s.gen \in Gens /\ s.slice \in {0, s.gen}
    BY Fields DEF Good, GenInv
  <2>1. /\ t \in States /\ Quiet(s, t) /\ t.sock = s.sock
    BY <2>0 DEF States, Quiet, Good, MirrorInv, NoteInv
  <2> HIDE DEF t
  <2> QED
    BY <2>1, QuietStep
<1> HIDE DEF t
<1>3. \A r, w : Good(r, c, n) /\ w \in Wrappers => Good(drop(r, w), c, n)
  BY DropWithStep
<1> HIDE DEF drop
<1> QED
  BY <1>1, <1>2, <1>3, EndsOfWrappers

-----------------------------------------------------------------------------
(***************************************************************************)
(* Events move: from a wrapper to its listeners, and from a gate to them.  *)
(***************************************************************************)

Fewer(s, t) ==
  /\ \A e \in Ends : s.sentClose[e] => t.sentClose[e]
  /\ \A w \in Wrappers :
       t.sock[w].pump = s.sock[w].pump /\ t.sock[w].released = s.sock[w].released
  /\ \A w \in Wrappers, e \in Events : Comes(t, w, e) => Comes(s, w, e)

LEMMA FewerStep ==
  ASSUME NEW s, NEW t, NEW c, NEW n, Good(s, c, n), Fewer(s, t)
  PROVE  SentInv(t, n) /\ LockInv(t) /\ PumpInv(t, n)
<1> USE DEF Good, Fewer
<1>1. SentInv(t, n)
  BY EndsOfWrappers DEF SentInv
<1>2. LockInv(t)
  BY DEF LockInv
<1>3. PumpInv(t, n)
  BY DEF PumpInv
<1> QED
  BY <1>1, <1>2, <1>3

\* The elements of the concatenation of two sequences.
LEMMA ConcatOf ==
  ASSUME NEW S, NEW q \in Seq(S), NEW p \in Seq(S)
  PROVE  /\ q \o p \in Seq(S)
         /\ \A i \in 1..Len(q \o p) :
              \/ i \in 1..Len(q) /\ (q \o p)[i] = q[i]
              \/ i > Len(q) /\ i - Len(q) \in 1..Len(p) /\ (q \o p)[i] = p[i - Len(q)]
<1>1. Len(q) \in Nat /\ Len(p) \in Nat
  BY LenProperties
<1> QED
  BY <1>1, ConcatProperties

LEMMA DeliverStep ==
  ASSUME NEW s, NEW c, NEW n, Good(s, c, n), NEW w \in Wrappers,
         s.sock[w].mode = "pending", s.receiver[EndOf[w]] = w
  PROVE  Good(DeliverPending(s, w), c, n)
<1> DEFINE p == s.sock[w].pending
           g == s.sock[w].ctx
           v == [s.sock[w] EXCEPT !.mode = "classic", !.pending = <<>>]
           u == [s EXCEPT !.used = TRUE, !.sock[w].mode = "classic", !.sock[w].pending = <<>>]
           t == DeliverPending(s, w)
<1> USE DEF Good
<1>0. /\ s \in States /\ s.sock[w] \in Sockets /\ s.sock \in [Wrappers -> Sockets]
      /\ p \in Seq(Events) /\ (g # Host => g \in Gens) /\ s.queue \in [Gens -> Seq(Events)]
      /\ s.heard \in [Wrappers -> Seq(Events)] /\ s.heard[w] = <<>> /\ <<>> \in Seq(Events)
  BY Fields, SocketFields, EmptySeq DEF Contexts, ModeInv
<1>1. u \in States /\ Beside(s, u) /\ u.sock[w] = v
      /\ \A z \in Wrappers \ {w} : u.sock[z] = s.sock[z]
  <2>1. v \in Sockets
    BY <1>0 DEF Sockets
  <2>2. u.sock = [s.sock EXCEPT ![w] = v]
    <3>1. u = [[[s EXCEPT !.used = TRUE] EXCEPT !.sock[w].mode = "classic"]
                 EXCEPT !.sock[w].pending = <<>>]
      OBVIOUS
    <3>2. [[s.sock[w] EXCEPT !.mode = "classic"] EXCEPT !.pending = <<>>] = v
      OBVIOUS
    <3> HIDE DEF u, v
    <3> QED
      BY <1>0, <3>1, <3>2 DEF States
  <2>3. u = [s EXCEPT !.used = TRUE, !.sock = u.sock]
    BY <1>0 DEF States
  <2> HIDE DEF u, v
  <2>4. u.sock \in [Wrappers -> Sockets]
    BY <1>0, <2>1, <2>2
  <2>5. u \in States /\ Beside(s, u)
    BY <1>0, <2>3, <2>4 DEF States, Beside
  <2> QED
    BY <1>0, <2>2, <2>5
<1>2. v.mode = "classic" /\ v.pending = <<>> /\ v.ctx = g /\ v.released = s.sock[w].released
      /\ v.ready = s.sock[w].ready /\ v.pump = s.sock[w].pump
  BY <1>0 DEF Sockets
<1>3. t = CASE g = Host -> [u EXCEPT !.heard[w] = @ \o p]
            [] g # Host /\ s.aborted[g] -> u
            [] OTHER -> [u EXCEPT !.queue[g] = @ \o p]
  BY DEF DeliverPending
<1> HIDE DEF p, g, v, u, t
<1>4. <<>> \o p = p
  BY <1>0, ConcatEmptySeq
\* Where the events are now.
<1>5. /\ t \in States /\ t.sock = u.sock
      /\ t.receiver = s.receiver /\ t.sentClose = s.sentClose /\ t.meta = s.meta
      /\ t.listed = s.listed /\ t.mirror = s.mirror /\ t.gen = s.gen /\ t.aborted = s.aborted
      /\ t.slice = s.slice /\ t.ends = s.ends
      /\ \A z \in Wrappers \ {w} : t.heard[z] = s.heard[z]
      /\ t.heard[w] = IF g = Host THEN p ELSE <<>>
      /\ \A h \in Gens : t.queue[h] = s.queue[h]
                         \/ (h = g /\ g # Host /\ t.queue[h] = s.queue[h] \o p)
  <2>1. CASE g = Host
    <3>1. t = [u EXCEPT !.heard[w] = @ \o p]
      BY <1>3, <2>1
    <3>2. u.heard[w] \o p = p
      BY <1>0, <1>1, <1>4 DEF Beside
    <3>3. t = [u EXCEPT !.heard = [u.heard EXCEPT ![w] = p]]
      BY <3>1, <3>2
    <3>4. [u.heard EXCEPT ![w] = p] \in [Wrappers -> Seq(Events)]
      BY <1>0, <1>1 DEF Beside
    <3>5. t \in States /\ t.heard = [u.heard EXCEPT ![w] = p]
      BY <1>1, <3>3, <3>4 DEF States
    <3>6. /\ t.sock = u.sock
          /\ t.receiver = s.receiver /\ t.sentClose = s.sentClose /\ t.meta = s.meta
          /\ t.listed = s.listed /\ t.mirror = s.mirror /\ t.gen = s.gen
          /\ t.aborted = s.aborted
          /\ t.slice = s.slice /\ t.ends = s.ends /\ t.queue = s.queue
      BY <1>1, <3>3 DEF Beside
    <3>7. u.heard = s.heard
      BY <1>1 DEF Beside
    <3> QED
      BY <1>0, <2>1, <3>5, <3>6, <3>7
  <2>2. CASE g # Host /\ s.aborted[g]
    <3>1. t = u
      BY <1>3, <2>2
    <3> QED
      BY <1>0, <1>1, <2>2, <3>1 DEF Beside
  <2>3. CASE g # Host /\ ~s.aborted[g]
    <3>1. t = [u EXCEPT !.queue = [u.queue EXCEPT ![g] = u.queue[g] \o p]]
      BY <1>3, <2>3
    <3>2. u.queue = s.queue /\ s.queue[g] \o p \in Seq(Events) /\ g \in Gens
      BY <1>0, <1>1, <2>3, ConcatOf DEF Beside
    <3>3. [u.queue EXCEPT ![g] = u.queue[g] \o p] \in [Gens -> Seq(Events)]
      BY <1>0, <3>2
    <3>4. t \in States /\ t.queue = [u.queue EXCEPT ![g] = u.queue[g] \o p]
      BY <1>1, <3>1, <3>3 DEF States
    <3>5. /\ t.sock = u.sock
          /\ t.receiver = s.receiver /\ t.sentClose = s.sentClose /\ t.meta = s.meta
          /\ t.listed = s.listed /\ t.mirror = s.mirror /\ t.gen = s.gen
          /\ t.aborted = s.aborted
          /\ t.slice = s.slice /\ t.ends = s.ends /\ t.heard = s.heard
      BY <1>1, <3>1 DEF Beside
    <3> QED
      BY <1>0, <2>3, <3>2, <3>4, <3>5
  <2> QED
    BY <2>1, <2>2, <2>3
<1>6. \A h \in Gens : \A i \in 1..Len(t.queue[h]) :
        \/ i \in 1..Len(s.queue[h]) /\ t.queue[h][i] = s.queue[h][i]
        \/ /\ h = g /\ g # Host /\ i > Len(s.queue[h]) /\ i - Len(s.queue[h]) \in 1..Len(p)
           /\ t.queue[h][i] = p[i - Len(s.queue[h])]
  BY <1>0, <1>5, ConcatOf
<1>7. /\ \A z \in Wrappers : t.sock[z].ctx = s.sock[z].ctx /\ t.sock[z].pump = s.sock[z].pump
                             /\ t.sock[z].released = s.sock[z].released
                             /\ t.sock[z].ready = s.sock[z].ready
      /\ \A z \in Wrappers \ {w} : t.sock[z] = s.sock[z]
      /\ t.sock[w].mode = "classic" /\ t.sock[w].pending = <<>>
  BY <1>1, <1>2, <1>5 DEF g
<1>8. /\ \A h \in Gens : \A i \in 1..Len(s.queue[h]) : s.queue[h][i].at \in Wrappers \ {w}
      /\ g # Host => \A i \in 1..Len(p) : p[i].at = w
  BY QueuedEvents DEF ModeInv, p, g
<1>9. Fewer(s, t)
  <2> SUFFICES ASSUME NEW z \in Wrappers, NEW e \in Events, Comes(t, z, e) PROVE Comes(s, z, e)
    BY <1>5, <1>7 DEF Fewer
  <2>1. CASE \E i \in 1..Len(t.heard[z]) : e = t.heard[z][i]
    <3>1. PICK i \in 1..Len(t.heard[z]) : e = t.heard[z][i]
      BY <2>1
    <3>2. CASE z = w
      <4>1. t.heard[z] = p
        BY <1>5, <3>1, <3>2
      <4> QED
        BY <3>1, <3>2, <4>1 DEF Comes, p
    <3>3. CASE z # w
      BY <1>5, <3>1, <3>3 DEF Comes
    <3> QED
      BY <3>2, <3>3
  <2>2. CASE \E i \in 1..Len(t.sock[z].pending) : e = t.sock[z].pending[i]
    <3>1. z # w
      BY <1>7, <2>2
    <3> QED
      BY <1>7, <2>2, <3>1, ZenonT(60) DEF Comes
  <2>3. CASE s.sock[z].ctx # Host /\ \E i \in 1..Len(t.queue[s.sock[z].ctx]) :
               t.queue[s.sock[z].ctx][i].at = z /\ e = t.queue[s.sock[z].ctx][i]
    <3>1. s.sock[z].ctx \in Gens
      BY <1>0, <2>3, Fields, SocketFields DEF Contexts
    <3>2. PICK i \in 1..Len(t.queue[s.sock[z].ctx]) :
            t.queue[s.sock[z].ctx][i].at = z /\ e = t.queue[s.sock[z].ctx][i]
      BY <2>3
    <3>3. CASE i \in 1..Len(s.queue[s.sock[z].ctx])
               /\ t.queue[s.sock[z].ctx][i] = s.queue[s.sock[z].ctx][i]
      BY <2>3, <3>2, <3>3 DEF Comes
    <3>4. CASE /\ g # Host /\ i - Len(s.queue[s.sock[z].ctx]) \in 1..Len(p)
               /\ t.queue[s.sock[z].ctx][i] = p[i - Len(s.queue[s.sock[z].ctx])]
      BY <1>8, <3>2, <3>4 DEF Comes, p
    <3> QED
      BY <1>6, <3>1, <3>2, <3>3, <3>4
  <2> QED
    BY <1>7, <2>1, <2>2, <2>3 DEF Comes
<1>10. GenInv(t)
  <2>1. g # Host => g <= s.gen /\ g \in Nat /\ s.gen \in Nat
    BY <1>0, Fields, Constants DEF GenInv, g
  <2>2. \A h \in Gens : h > s.gen => t.queue[h] = s.queue[h]
    BY <1>5, <2>1, Constants
  <2> QED
    BY <1>5, <1>7, <2>2 DEF GenInv
<1>11. EndInv(t)
  <2>1. w = "h" => s.receiver["b"] = "h"
    BY EndsOfWrappers
  <2>2. w = "b" => s.receiver["b"] = "b"
    BY EndsOfWrappers
  <2> QED
    BY <1>5, <1>7, <2>1, <2>2, EndsOfWrappers DEF EndInv
<1>12. ModeInv(t)
  <2>1. \A h \in Gens : \A i \in 1..Len(t.queue[h]) :
          /\ t.sock[t.queue[h][i].at].mode # "pending"
          /\ t.sock[t.queue[h][i].at].ctx = h \/ t.aborted[h]
    <3> SUFFICES ASSUME NEW h \in Gens, NEW i \in 1..Len(t.queue[h])
                 PROVE  /\ t.sock[t.queue[h][i].at].mode # "pending"
                        /\ t.sock[t.queue[h][i].at].ctx = h \/ t.aborted[h]
      OBVIOUS
    <3>1. CASE i \in 1..Len(s.queue[h]) /\ t.queue[h][i] = s.queue[h][i]
      <4>1. /\ s.sock[s.queue[h][i].at].mode # "pending"
            /\ s.sock[s.queue[h][i].at].ctx = h \/ s.aborted[h]
        BY <3>1 DEF ModeInv
      <4> QED
        BY <1>5, <1>7, <1>8, <3>1, <4>1
    <3>2. CASE /\ h = g /\ g # Host /\ i - Len(s.queue[h]) \in 1..Len(p)
               /\ t.queue[h][i] = p[i - Len(s.queue[h])]
      <4>1. t.queue[h][i].at = w
        BY <1>8, <3>2
      <4> QED
        BY <1>7, <3>2, <4>1 DEF g
    <3> QED
      BY <1>6, <3>1, <3>2
  <2>2. \A z \in Wrappers :
          /\ t.sock[z].mode = "hibernatable" => z = "a" /\ t.sock[z].ctx = t.meta.accepted
          /\ t.sock[z].mode # "pending" => t.sock[z].pending = <<>>
          /\ t.sock[z].mode = "pending" => t.heard[z] = <<>>
          /\ t.sock[z].ctx # Host =>
               \A i \in 1..Len(t.sock[z].pending) : t.sock[z].pending[i].at = z
    <3> SUFFICES ASSUME NEW z \in Wrappers
                 PROVE  /\ t.sock[z].mode = "hibernatable" => z = "a" /\ t.sock[z].ctx = t.meta.accepted
                        /\ t.sock[z].mode # "pending" => t.sock[z].pending = <<>>
                        /\ t.sock[z].mode = "pending" => t.heard[z] = <<>>
                        /\ t.sock[z].ctx # Host =>
                             \A i \in 1..Len(t.sock[z].pending) : t.sock[z].pending[i].at = z
      OBVIOUS
    <3>1. CASE z = w
      BY <1>7, <3>1
    <3>2. CASE z # w
      BY <1>5, <1>7, <3>2 DEF ModeInv
    <3> QED
      BY <3>1, <3>2
  <2> QED
    BY <2>1, <2>2 DEF ModeInv
<1>13. DurableInv(t, c)
  <2>1. \A i \in 1..Len(p) : p[i].under <= c
    BY DEF DurableInv, p
  <2>2. \A h \in Gens : \A i \in 1..Len(t.queue[h]) : t.queue[h][i].under <= c
    BY <1>6, <2>1 DEF DurableInv
  <2>3. \A z \in Wrappers : \A i \in 1..Len(t.heard[z]) : t.heard[z][i].under <= c
    BY <1>5, <2>1 DEF DurableInv
  <2>4. \A z \in Wrappers : \A i \in 1..Len(t.sock[z].pending) : t.sock[z].pending[i].under <= c
    BY <1>7 DEF DurableInv
  <2> QED
    BY <2>2, <2>3, <2>4 DEF DurableInv
<1>14. MirrorInv(t)
  <2>1. s.sock["a"].ready = "open" =>
          \A h \in Gens : \A i \in 1..Len(t.queue[h]) :
            t.queue[h][i].at = "a" => ~IsClose(t.queue[h][i])
    <3> SUFFICES ASSUME s.sock["a"].ready = "open", NEW h \in Gens, NEW i \in 1..Len(t.queue[h]),
                        t.queue[h][i].at = "a"
                 PROVE  ~IsClose(t.queue[h][i])
      OBVIOUS
    <3>1. CASE i \in 1..Len(s.queue[h]) /\ t.queue[h][i] = s.queue[h][i]
      BY <3>1 DEF MirrorInv, NoteInv
    <3>2. CASE /\ h = g /\ g # Host /\ i - Len(s.queue[h]) \in 1..Len(p)
               /\ t.queue[h][i] = p[i - Len(s.queue[h])]
      <4>1. w = "a"
        BY <1>8, <3>2
      <4> QED
        BY <3>2, <4>1 DEF MirrorInv, NoteInv, p
    <3> QED
      BY <1>6, <3>1, <3>2
  <2>2. s.sock["a"].ready = "open" =>
          \A i \in 1..Len(t.sock["a"].pending) : ~IsClose(t.sock["a"].pending[i])
    BY <1>7, EndsOfWrappers DEF MirrorInv, NoteInv
  <2> QED
    BY <1>5, <1>7, <2>1, <2>2, EndsOfWrappers DEF MirrorInv, NoteInv
<1>15. LineInv(t)
  <2> SUFFICES ASSUME NEW z \in Wrappers
               PROVE  /\ InOrder(t.heard[z]) /\ InOrder(t.sock[z].pending)
                      /\ s.sock[z].ctx # Host =>
                           /\ InOrderAt(t.queue[s.sock[z].ctx], z)
                           /\ \A i \in 1..Len(t.heard[z]), j \in 1..Len(t.queue[s.sock[z].ctx]) :
                                t.queue[s.sock[z].ctx][j].at = z =>
                                  Before(t.heard[z][i], t.queue[s.sock[z].ctx][j])
    BY <1>7 DEF LineInv
  <2>1. InOrder(p) /\ InOrder(<<>>)
    BY DEF LineInv, p, InOrder
  <2>2. InOrder(t.heard[z]) /\ InOrder(t.sock[z].pending)
    BY <1>5, <1>7, <2>1 DEF LineInv
  <2>3. ASSUME s.sock[z].ctx # Host
        PROVE  /\ InOrderAt(t.queue[s.sock[z].ctx], z)
               /\ \A i \in 1..Len(t.heard[z]), j \in 1..Len(t.queue[s.sock[z].ctx]) :
                    t.queue[s.sock[z].ctx][j].at = z =>
                      Before(t.heard[z][i], t.queue[s.sock[z].ctx][j])
    <3> DEFINE h == s.sock[z].ctx
               q == s.queue[h]
               r == t.queue[h]
    <3>1. h \in Gens /\ q \in Seq(Events) /\ Len(q) \in Nat
      BY <1>0, <2>3, Fields, SocketFields, LenProperties DEF Contexts
    <3>2. \A i \in 1..Len(r) :
            \/ i \in 1..Len(q) /\ r[i] = q[i]
            \/ /\ i > Len(q) /\ i - Len(q) \in 1..Len(p) /\ r[i] = p[i - Len(q)]
               /\ p[i - Len(q)].at = w
      BY <1>6, <1>8, <3>1
    <3>3. \A i \in 1..Len(q) : q[i].at # w
      BY <1>8, <3>1
    <3>4. /\ InOrderAt(q, z)
          /\ \A i \in 1..Len(s.heard[z]), j \in 1..Len(q) : q[j].at = z => Before(s.heard[z][i], q[j])
      BY <2>3 DEF LineInv
    <3>5. z = w => t.heard[z] = <<>>
      BY <1>5, <2>3 DEF g
    <3> HIDE DEF h, q, r
    <3>6. CASE z = w
      <4>1. InOrderAt(r, z)
        <5> SUFFICES ASSUME NEW i \in 1..Len(r), NEW j \in 1..Len(r), i < j, r[i].at = w, r[j].at = w
                     PROVE  Before(r[i], r[j])
          BY <3>6 DEF InOrderAt
        <5>1. i - Len(q) \in 1..Len(p) /\ r[i] = p[i - Len(q)]
          BY <3>2, <3>3
        <5>2. j - Len(q) \in 1..Len(p) /\ r[j] = p[j - Len(q)]
          BY <3>2, <3>3
        <5>3. i - Len(q) < j - Len(q)
          BY <3>1
        <5> QED
          BY <2>1, <5>1, <5>2, <5>3 DEF InOrder
      <4> QED
        BY <3>5, <3>6, <4>1 DEF h, r
    <3>7. CASE z # w
      <4>1. InOrderAt(r, z)
        BY <3>1, <3>2, <3>4, <3>7 DEF InOrderAt
      <4>2. t.heard[z] = s.heard[z]
        BY <1>5, <3>7
      <4>3. \A i \in 1..Len(t.heard[z]), j \in 1..Len(r) : r[j].at = z => Before(t.heard[z][i], r[j])
        BY <3>2, <3>4, <3>7, <4>2
      <4> QED
        BY <4>1, <4>3 DEF h, r
    <3> QED
      BY <3>6, <3>7
  <2> QED
    BY <2>2, <2>3
<1> QED
  BY <1>5, <1>9, <1>10, <1>11, <1>12, <1>13, <1>14, <1>15, FewerStep DEF t

LEMMA EnableStep ==
  ASSUME written \in Nat, NEW s, NEW c \in Nat, NEW n \in Nat, Good(s, c, n), NEW w \in Wrappers,
         s.sock[w].mode = "pending", s.receiver[EndOf[w]] = w
  PROVE  Good(EnableClassic(s, w), c, n)
<1> DEFINE pending == s.sock[w].pending
           t == DeliverPending(s, w)
           u == IF pending # <<>> /\ IsClose(Last(pending))
                THEN AnswerPeerClose(t, w, Last(pending)) ELSE t
<1>1. Good(t, c, n)
  BY DeliverStep
<1> HIDE DEF t
<1>2. Good(u, c, n)
  BY <1>1, AnswerStep
<1>3. EnableClassic(s, w) = IF s.sock[w].ctx # Host /\ s.aborted[s.sock[w].ctx]
                            THEN DropWith(u, w) ELSE u
  BY DEF EnableClassic, t
<1> HIDE DEF u
<1> QED
  BY <1>2, <1>3, DropWithStep

\* The elements of the rest of a sequence.
LEMMA TailOf ==
  ASSUME NEW S, NEW q \in Seq(S), q # <<>>
  PROVE  /\ Head(q) \in S /\ Tail(q) \in Seq(S) /\ Head(q) = q[1] /\ 1 \in 1..Len(q)
         /\ Len(Tail(q)) \in Nat
         /\ \A i \in 1..Len(Tail(q)) : i + 1 \in 1..Len(q) /\ i + 1 > 1 /\ Tail(q)[i] = q[i + 1]
<1>1. Len(q) \in Nat /\ Len(q) # 0
  BY EmptySeq, LenProperties
<1> QED
  BY <1>1, HeadTailProperties

\* The first event of a gate leaves it; a handler hears of it, or none does.
LEMMA TakeStep ==
  ASSUME NEW s, NEW c, NEW n, Good(s, c, n), NEW g \in Gens, s.queue[g] # <<>>, NEW hears \in BOOLEAN,
         hears => ~s.aborted[g]
  PROVE  LET r == [s EXCEPT !.queue[g] = Tail(@)]
             x == Head(s.queue[g])
             t == IF hears THEN Hear(r, x.at, x) ELSE r
         IN /\ Good(t, c, n) /\ r \in States
            /\ x \in Events /\ s.sock[x.at].mode # "pending"
            /\ IsClose(x) /\ x.at = "a" => s.sock["a"].ready # "open"
<1> DEFINE r == [s EXCEPT !.queue[g] = Tail(@)]
           q == s.queue[g]
           x == Head(q)
           w == x.at
           t == IF hears THEN Hear(r, w, x) ELSE r
           d == [s.heard EXCEPT ![w] = IF hears THEN Append(@, x) ELSE @]
<1> USE DEF Good
<1>0. /\ s \in States /\ s.queue \in [Gens -> Seq(Events)] /\ s.heard \in [Wrappers -> Seq(Events)]
      /\ q \in Seq(Events) /\ q # <<>> /\ g # Host
  BY Fields, Constants
<1>1. /\ x \in Events /\ Tail(q) \in Seq(Events) /\ x = q[1] /\ 1 \in 1..Len(q)
      /\ Len(Tail(q)) \in Nat
      /\ \A i \in 1..Len(Tail(q)) : i + 1 \in 1..Len(q) /\ i + 1 > 1 /\ Tail(q)[i] = q[i + 1]
  BY <1>0, TailOf
<1> HIDE DEF q
<1>2. w \in Wrappers /\ s.heard[w] \in Seq(Events)
  BY <1>0, <1>1, EventFields
<1>3. /\ s.sock[w].mode # "pending" /\ (hears => s.sock[w].ctx = g)
      /\ IsClose(x) /\ w = "a" => s.sock["a"].ready # "open"
  BY <1>1 DEF ModeInv, MirrorInv, NoteInv, q
<1> HIDE DEF x, w
<1>4. d \in [Wrappers -> Seq(Events)]
  BY <1>0, <1>1, <1>2, AppendOf
<1>5. r \in States /\ r = [s EXCEPT !.queue = [s.queue EXCEPT ![g] = Tail(q)]]
  BY <1>0, <1>1 DEF States, q
<1>6. t = [s EXCEPT !.queue = [s.queue EXCEPT ![g] = Tail(q)], !.heard = d]
  <2>1. hears => t = [r EXCEPT !.heard = d]
    <3> HIDE DEF r
    <3>1. r.heard = s.heard
      BY <1>0, <1>5 DEF States
    <3> QED
      BY <3>1 DEF Hear
  <2>2. ~hears => d = s.heard
    BY <1>0
  <2> HIDE DEF d, r, t
  <2>3. ~hears => t = r
    BY DEF t
  <2> QED
    <3>1. CASE hears
      <4>1. t = [[s EXCEPT !.queue = [s.queue EXCEPT ![g] = Tail(q)]] EXCEPT !.heard = d]
        BY <1>5, <2>1, <3>1
      <4> QED
        BY <1>0, <4>1 DEF States
    <3>2. CASE ~hears
      <4>1. t = [s EXCEPT !.queue = [s.queue EXCEPT ![g] = Tail(q)]] /\ d = s.heard
        BY <1>5, <2>2, <2>3, <3>2
      <4> QED
        BY <1>0, <4>1 DEF States
    <3> QED
      BY <3>1, <3>2
<1>7. \A v \in Wrappers : d[v] = IF v = w /\ hears THEN Append(s.heard[v], x) ELSE s.heard[v]
  BY <1>0
<1> HIDE DEF d, r, t
<1>8. /\ t \in States /\ t.heard = d /\ t.queue = [s.queue EXCEPT ![g] = Tail(q)]
      /\ Alike(s, t) /\ t.sock = s.sock
  <2>1. [s.queue EXCEPT ![g] = Tail(q)] \in [Gens -> Seq(Events)]
    BY <1>0, <1>1
  <2> QED
    BY <1>0, <1>4, <1>6, <2>1 DEF States, Alike
<1>9. /\ \A h \in Gens : h # g => t.queue[h] = s.queue[h]
      /\ t.queue[g] = Tail(q)
      /\ \A h \in Gens : \A i \in 1..Len(t.queue[h]) :
           \E j \in 1..Len(s.queue[h]) : t.queue[h][i] = s.queue[h][j]
  BY <1>0, <1>1, <1>8 DEF q
<1>a. \A i \in 1..Len(Append(s.heard[w], x)) :
        \/ i \in 1..Len(s.heard[w]) /\ Append(s.heard[w], x)[i] = s.heard[w][i]
        \/ i = Len(s.heard[w]) + 1 /\ Append(s.heard[w], x)[i] = x
  BY <1>1, <1>2, AppendOf
<1>10. Fewer(s, t)
  <2> SUFFICES ASSUME NEW z \in Wrappers, NEW e \in Events, Comes(t, z, e) PROVE Comes(s, z, e)
    BY <1>8 DEF Fewer, Alike
  <2>1. CASE \E i \in 1..Len(t.heard[z]) : e = t.heard[z][i]
    <3>1. PICK i \in 1..Len(t.heard[z]) : e = t.heard[z][i]
      BY <2>1
    <3>2. CASE z = w /\ hears
      <4>1. Comes(s, w, x)
        BY <1>0, <1>1, <1>3, <3>2 DEF Comes, q, w
      <4>2. t.heard[z] = Append(s.heard[w], x)
        BY <1>7, <1>8, <3>2
      <4>3. e = x \/ \E j \in 1..Len(s.heard[w]) : e = s.heard[w][j]
        BY <1>a, <3>1, <4>2
      <4> QED
        BY <3>2, <4>1, <4>3 DEF Comes
    <3>3. CASE ~(z = w /\ hears)
      BY <1>7, <1>8, <3>1, <3>3 DEF Comes
    <3> QED
      BY <3>2, <3>3
  <2>2. CASE \E i \in 1..Len(t.sock[z].pending) : e = t.sock[z].pending[i]
    BY <1>8, <2>2 DEF Comes
  <2>3. CASE s.sock[z].ctx # Host /\ \E i \in 1..Len(t.queue[s.sock[z].ctx]) :
               t.queue[s.sock[z].ctx][i].at = z /\ e = t.queue[s.sock[z].ctx][i]
    <3>1. s.sock[z].ctx \in Gens
      BY <1>0, <2>3, Fields, SocketFields DEF Contexts
    <3>2. PICK i \in 1..Len(t.queue[s.sock[z].ctx]) :
            t.queue[s.sock[z].ctx][i].at = z /\ e = t.queue[s.sock[z].ctx][i]
      BY <2>3
    <3>3. PICK j \in 1..Len(s.queue[s.sock[z].ctx]) :
            t.queue[s.sock[z].ctx][i] = s.queue[s.sock[z].ctx][j]
      BY <1>9, <3>1
    <3> QED
      BY <2>3, <3>2, <3>3 DEF Comes
  <2> QED
    BY <1>8, <2>1, <2>2, <2>3 DEF Comes
<1>11. GenInv(t) /\ EndInv(t)
  <2>1. \A h \in Gens : h > s.gen => h # g
    BY <1>0 DEF GenInv, q
  <2> QED
    BY <1>8, <1>9, <2>1 DEF GenInv, EndInv, Alike
<1>12. ModeInv(t)
  <2>1. \A h \in Gens : \A i \in 1..Len(t.queue[h]) :
          /\ s.sock[t.queue[h][i].at].mode # "pending"
          /\ s.sock[t.queue[h][i].at].ctx = h \/ s.aborted[h]
    <3> SUFFICES ASSUME NEW h \in Gens, NEW i \in 1..Len(t.queue[h])
                 PROVE  /\ s.sock[t.queue[h][i].at].mode # "pending"
                        /\ s.sock[t.queue[h][i].at].ctx = h \/ s.aborted[h]
      OBVIOUS
    <3>1. PICK j \in 1..Len(s.queue[h]) : t.queue[h][i] = s.queue[h][j]
      BY <1>9
    <3> QED
      BY <3>1 DEF ModeInv
  <2>2. \A z \in Wrappers : s.sock[z].mode = "pending" => t.heard[z] = <<>>
    BY <1>3, <1>7, <1>8 DEF ModeInv
  <2>3. \A z \in Wrappers :
          /\ s.sock[z].mode = "hibernatable" => z = "a" /\ s.sock[z].ctx = s.meta.accepted
          /\ s.sock[z].mode # "pending" => s.sock[z].pending = <<>>
          /\ s.sock[z].ctx # Host =>
               \A i \in 1..Len(s.sock[z].pending) : s.sock[z].pending[i].at = z
    BY DEF ModeInv
  <2>4. t.aborted = s.aborted /\ t.meta = s.meta /\ t.sock = s.sock
    BY <1>8 DEF Alike
  <2> QED
    BY <2>1, <2>2, <2>3, <2>4 DEF ModeInv
<1>13. DurableInv(t, c)
  <2>1. \A h \in Gens : \A i \in 1..Len(t.queue[h]) : t.queue[h][i].under <= c
    BY <1>9 DEF DurableInv
  <2>2. x.under <= c
    BY <1>1 DEF DurableInv, q
  <2>3. \A z \in Wrappers : \A i \in 1..Len(t.heard[z]) : t.heard[z][i].under <= c
    <3> SUFFICES ASSUME NEW z \in Wrappers, NEW i \in 1..Len(t.heard[z])
                 PROVE  t.heard[z][i].under <= c
      OBVIOUS
    <3>1. CASE z = w /\ hears
      <4>1. t.heard[z] = Append(s.heard[w], x)
        BY <1>7, <1>8, <3>1
      <4> QED
        BY <1>a, <1>2, <2>2, <4>1 DEF DurableInv
    <3>2. CASE ~(z = w /\ hears)
      BY <1>7, <1>8, <3>2 DEF DurableInv
    <3> QED
      BY <3>1, <3>2
  <2> QED
    BY <1>8, <2>1, <2>3 DEF DurableInv
<1>14. MirrorInv(t)
  <2>1. s.sock["a"].ready = "open" =>
          \A h \in Gens : \A i \in 1..Len(t.queue[h]) :
            t.queue[h][i].at = "a" => ~IsClose(t.queue[h][i])
    <3>1. s.sock["a"].ready = "open" =>
            \A h \in Gens : \A i \in 1..Len(s.queue[h]) :
              s.queue[h][i].at = "a" => ~IsClose(s.queue[h][i])
      BY DEF MirrorInv
    <3> QED
      BY <1>9, <3>1, SMTT(30)
  <2>2. NoteInv(t)
    BY <1>8, AlikeNote DEF MirrorInv
  <2> QED
    BY <1>8, <2>1, <2>2 DEF MirrorInv, Alike
<1>15. LineInv(t)
  <2> SUFFICES ASSUME NEW z \in Wrappers
               PROVE  /\ InOrder(t.heard[z]) /\ InOrder(t.sock[z].pending)
                      /\ s.sock[z].ctx # Host =>
                           /\ InOrderAt(t.queue[s.sock[z].ctx], z)
                           /\ \A i \in 1..Len(t.heard[z]), j \in 1..Len(t.queue[s.sock[z].ctx]) :
                                t.queue[s.sock[z].ctx][j].at = z =>
                                  Before(t.heard[z][i], t.queue[s.sock[z].ctx][j])
    BY <1>8 DEF LineInv
  <2>0. InOrder(s.heard[z]) /\ InOrder(t.sock[z].pending) /\ Len(s.heard[z]) \in Nat
    BY <1>0, <1>8, LenProperties DEF LineInv
  <2>1. s.sock[z].ctx # Host =>
          /\ s.sock[z].ctx \in Gens
          /\ InOrderAt(s.queue[s.sock[z].ctx], z)
          /\ \A i \in 1..Len(s.heard[z]), j \in 1..Len(s.queue[s.sock[z].ctx]) :
               s.queue[s.sock[z].ctx][j].at = z => Before(s.heard[z][i], s.queue[s.sock[z].ctx][j])
    BY <1>0, Fields, SocketFields DEF LineInv, Contexts
  <2>2. s.sock[z].ctx # Host => InOrderAt(t.queue[s.sock[z].ctx], z)
    <3>1. CASE s.sock[z].ctx = g
      <4>1. InOrderAt(q, z)
        BY <1>0, <2>1, <3>1 DEF q
      <4>2. InOrderAt(Tail(q), z)
        BY <1>1, <4>1 DEF InOrderAt
      <4> QED
        BY <1>9, <3>1, <4>2
    <3>2. CASE s.sock[z].ctx # g
      BY <1>9, <2>1, <3>2
    <3> QED
      BY <3>1, <3>2
  <2>3. CASE z = w /\ hears
    <3>1. t.heard[z] = Append(s.heard[w], x) /\ s.sock[z].ctx = g /\ x.at = z /\ t.queue[g] = Tail(q)
      BY <1>3, <1>7, <1>8, <1>9, <2>3 DEF w
    <3>2. \A i \in 1..Len(s.heard[w]) : Before(s.heard[w][i], x)
      BY <1>0, <1>1, <2>1, <2>3, <3>1 DEF q
    <3>3. \A j \in 1..Len(Tail(q)) : Tail(q)[j].at = z => Before(x, Tail(q)[j])
      BY <1>0, <1>1, <2>1, <3>1 DEF q, InOrderAt
    <3>4. \A i \in 1..Len(s.heard[w]), j \in 1..Len(Tail(q)) :
            Tail(q)[j].at = z => Before(s.heard[w][i], Tail(q)[j])
      BY <1>0, <1>1, <2>1, <2>3, <3>1 DEF q
    <3>5. InOrder(Append(s.heard[w], x))
      BY <1>a, <2>0, <2>3, <3>2 DEF InOrder
    <3>6. \A i \in 1..Len(Append(s.heard[w], x)), j \in 1..Len(Tail(q)) :
            Tail(q)[j].at = z => Before(Append(s.heard[w], x)[i], Tail(q)[j])
      BY <1>a, <3>3, <3>4
    <3> QED
      BY <2>0, <2>2, <3>1, <3>5, <3>6
  <2>4. CASE ~(z = w /\ hears)
    <3>1. t.heard[z] = s.heard[z]
      BY <1>7, <1>8, <2>4
    <3>2. s.sock[z].ctx # Host =>
            \A j \in 1..Len(t.queue[s.sock[z].ctx]) :
              \E k \in 1..Len(s.queue[s.sock[z].ctx]) :
                t.queue[s.sock[z].ctx][j] = s.queue[s.sock[z].ctx][k]
      BY <1>9, <2>1
    <3> QED
      BY <2>0, <2>1, <2>2, <3>1, <3>2
  <2> QED
    BY <2>3, <2>4
<1>16. Good(t, c, n)
  BY <1>8, <1>10, <1>11, <1>12, <1>13, <1>14, <1>15, FewerStep
<1> QED
  BY <1>1, <1>3, <1>5, <1>16 DEF t, r, x, w, q

-----------------------------------------------------------------------------
(***************************************************************************)
(* The actions.                                                            *)
(***************************************************************************)

Counters == written \in Nat /\ confirmed \in Nat /\ sent \in Nat /\ notes \in Nat

LEMMA RunEventInv ==
  ASSUME Inv, NEW g \in Gens, RunEvent(g)
  PROVE  Good(net', confirmed', sent')
<1> DEFINE x == Head(net.queue[g])
           s == [net EXCEPT !.queue[g] = Tail(@)]
           hib == Hibernates(s, x.at)
           hears == ~(hib /\ ~s.started[g])
           A == IF hears THEN Hear(s, x.at, x) ELSE s
           r == [s EXCEPT !.slice = g, !.meta.dispatched = @ \/ (hib /\ IsClose(x))]
           t == IF hib /\ ~s.started[g] THEN r ELSE Hear(r, x.at, x)
           kind == IF IsClose(x) THEN "close" ELSE "message"
           u == IF hib /\ (IsClose(x) \/ s.meta.completion)
                THEN [t EXCEPT !.ends = @ \cup {[kind |-> kind, gen |-> g]}] ELSE t
<1>0. /\ Good(net, confirmed, sent) /\ net.queue[g] # <<>> /\ ~net.aborted[g]
      /\ confirmed' = confirmed /\ sent' = sent /\ net \in States
  BY DEF Inv, RunEvent, storage, counters, Good
<1>1. net' = u
  BY DEF RunEvent, Dispatched
<1>2. /\ Good(A, confirmed, sent) /\ s \in States /\ x \in Events
      /\ IsClose(x) /\ x.at = "a" => net.sock["a"].ready # "open"
  <2>1. hears \in BOOLEAN
    OBVIOUS
  <2> HIDE DEF hears
  <2> QED
    BY <1>0, <2>1, TakeStep
<1>3. g = net.gen
  <2>1. net.gen \in Gens /\ net.gen \in Nat /\ g \in Nat
    BY <1>0, Fields, Constants
  <2>2. ~(g < net.gen) /\ ~(g > net.gen)
    BY <1>0 DEF Good, GenInv
  <2> QED
    BY <2>1, <2>2
<1>4. s.sock = net.sock /\ s.gen = net.gen /\ (hib => x.at = "a")
  BY <1>0 DEF States, Hibernates
<1>5. /\ A \in States /\ A.sock = s.sock /\ A.gen = s.gen /\ A.meta = s.meta /\ A.slice = s.slice
      /\ A.ends = s.ends /\ A.receiver = s.receiver /\ A.sentClose = s.sentClose
      /\ A.queue = s.queue /\ A.listed = s.listed /\ A.mirror = s.mirror
      /\ A.aborted = s.aborted /\ A.used = s.used /\ A.broken = s.broken
      /\ A.started = s.started /\ A.reply = s.reply
  BY <1>2 DEF Hear, States, Good
<1> DEFINE m == [A.meta EXCEPT !.dispatched = @ \/ (hib /\ IsClose(x))]
           ends == IF hib /\ (IsClose(x) \/ s.meta.completion)
                   THEN A.ends \cup {[kind |-> kind, gen |-> g]} ELSE A.ends
<1>6. u = [A EXCEPT !.slice = g, !.meta = m, !.ends = ends]
  <2>1. t = [A EXCEPT !.slice = g, !.meta = m]
    <3>1. r = [s EXCEPT !.slice = g, !.meta = m]
      BY <1>2, <1>5 DEF States
    <3> HIDE DEF r, m, s, hib
    <3>2. hears => t = [A EXCEPT !.slice = g, !.meta = m]
      BY <1>2, <3>1 DEF Hear, States
    <3>3. ~hears => t = [A EXCEPT !.slice = g, !.meta = m]
      BY <3>1
    <3> QED
      BY <3>2, <3>3
  <2> HIDE DEF t, m, A, s, hib, x, kind
  <2> QED
    BY <1>2, <1>5, <2>1 DEF States, Good
<1>7. /\ m \in Metadata /\ m.accepted = A.meta.accepted /\ m.note = A.meta.note
      /\ m.told = A.meta.told
      /\ ends \in SUBSET [kind : {"close", "message", "complete"}, gen : Contexts]
      /\ A.sock["a"].ready = "open" => \A end \in ends : end.kind # "close"
  <2>1. A.meta \in Metadata
        /\ A.ends \in SUBSET [kind : {"close", "message", "complete"}, gen : Contexts]
    BY <1>5, Fields
  <2>2. A.sock["a"].ready = "open" => \A end \in A.ends : end.kind # "close"
    BY <1>2 DEF Good, MirrorInv, NoteInv
  <2>3. kind \in {"close", "message"} /\ (kind = "close" => IsClose(x)) /\ g \in Contexts
    BY DEF Contexts
  <2> HIDE DEF kind, A, s, x, hib
  <2>4. A.sock["a"].ready = "open" /\ hib => kind # "close"
    BY <1>2, <1>4, <1>5, <2>3
  <2>5. /\ m \in Metadata /\ m.accepted = A.meta.accepted /\ m.note = A.meta.note
        /\ m.told = A.meta.told
    <3> DEFINE dispatched == A.meta.dispatched \/ (hib /\ IsClose(x))
    <3>1. dispatched \in BOOLEAN /\ m = [A.meta EXCEPT !.dispatched = dispatched]
      OBVIOUS
    <3> HIDE DEF dispatched, m
    <3> QED
      BY <2>1, <3>1 DEF Metadata
  <2>6. ends \in SUBSET [kind : {"close", "message", "complete"}, gen : Contexts]
    BY <2>1, <2>3
  <2>7. A.sock["a"].ready = "open" => \A end \in ends : end.kind # "close"
    BY <2>2, <2>4
  <2> QED
    BY <2>5, <2>6, <2>7
<1> HIDE DEF A, m, ends, u
<1>8. /\ u \in States /\ u.sock = A.sock /\ u.receiver = A.receiver /\ u.gen = A.gen
      /\ u.queue = A.queue /\ u.heard = A.heard /\ u.meta = m /\ u.slice = g /\ u.ends = ends
      /\ u.aborted = A.aborted /\ u.listed = A.listed /\ u.mirror = A.mirror
      /\ u.sentClose = A.sentClose
  <2>1. g \in Contexts
    BY DEF Contexts
  <2> QED
    BY <1>5, <1>6, <1>7, <2>1 DEF States
<1>9. Quiet(A, u)
  BY <1>3, <1>4, <1>5, <1>7, <1>8 DEF Quiet
<1>10. Good(u, confirmed, sent)
  BY <1>2, <1>8, <1>9, QuietStep
<1> QED
  BY <1>0, <1>1, <1>10

LEMMA RefusedInv ==
  ASSUME Inv, NEW g \in Gens, Refused(g)
  PROVE  Good(net', confirmed', sent')
<1> DEFINE x == Head(net.queue[g])
           t == [net EXCEPT !.queue[g] = Tail(@)]
<1>0. /\ Good(net, confirmed, sent) /\ net.queue[g] # <<>> /\ net \in States
      /\ confirmed' = confirmed /\ sent' = sent
      /\ net' = IF Hibernates(t, x.at) /\ IsClose(x) THEN Settle(t, TRUE, g) ELSE t
  BY DEF Inv, Refused, storage, counters, Good
<1>1. /\ Good(t, confirmed, sent)
      /\ IsClose(x) /\ x.at = "a" => net.sock["a"].ready # "open"
  BY <1>0, TakeStep
<1>2. t.sock = net.sock
  BY <1>0 DEF States
<1> HIDE DEF t, x
<1>3. Hibernates(t, x.at) /\ IsClose(x) => Good(Settle(t, TRUE, g), confirmed, sent)
  BY <1>1, <1>2, SettleStep DEF Hibernates
<1> QED
  BY <1>0, <1>1, <1>3

\* A step of the bookkeeping: it sends nothing, delivers nothing, and no pump changes.
LEMMA UsedStep ==
  ASSUME NEW s, NEW c, NEW n, Good(s, c, n), NEW r \in Nat \cup {-1}
  PROVE  LET t == [s EXCEPT !.used = TRUE]
             u == [s EXCEPT !.used = TRUE, !.reply = r]
         IN Good(t, c, n) /\ t.sock = s.sock /\ t.receiver = s.receiver /\ Good(u, c, n)
<1> DEFINE t == [s EXCEPT !.used = TRUE]
           u == [s EXCEPT !.used = TRUE, !.reply = r]
<1>0. s \in States /\ s.slice \in {0, s.gen}
      /\ (s.sock["a"].ready = "open" => \A end \in s.ends : end.kind # "close")
  BY DEF Good, GenInv, MirrorInv, NoteInv
<1>1. t \in States /\ Beside(s, t) /\ t.sock = s.sock
  BY <1>0 DEF States, Beside
<1>2. u \in States /\ Beside(s, [u EXCEPT !.reply = s.reply]) /\ u.sock = s.sock
  BY <1>0 DEF States, Beside
<1>3. Quiet(s, t)
  BY <1>0, <1>1 DEF Quiet, Beside
<1>4. Quiet(s, u)
  BY <1>0 DEF Quiet, States
<1> HIDE DEF t, u
<1>5. Good(t, c, n) /\ Good(u, c, n)
  BY <1>1, <1>2, <1>3, <1>4, QuietStep
<1> QED
  BY <1>1, <1>5 DEF t, u, Beside

LEMMA CompleteStep ==
  ASSUME NEW s, NEW c, NEW n, Good(s, c, n)
  PROVE  Good(CompleteOwnClose(s), c, n)
<1> DEFINE t == CompleteOwnClose(s)
<1>0. s \in States /\ s.slice \in {0, s.gen} /\ s.meta \in Metadata
      /\ (s.sock["a"].ready = "open" => \A end \in s.ends : end.kind # "close")
  BY Fields DEF Good, GenInv, MirrorInv, NoteInv
<1>1. t \in States /\ Quiet(s, t) /\ t.sock = s.sock
  BY <1>0 DEF CompleteOwnClose, States, Metadata, Quiet
<1> HIDE DEF t
<1>2. Good(t, c, n)
  BY <1>1, QuietStep
<1> QED
  BY <1>2 DEF t

LEMMA CodeActs ==
  ASSUME Inv, NEW w \in Wrappers, Code(w)
  PROVE  /\ w \in {"a", "b"} /\ net.receiver[EndOf[w]] = w /\ net.slice \in Gens
         /\ net.slice = net.gen /\ net.sock[w].ctx = net.slice
<1>1. net \in States /\ GenInv(net) /\ EndInv(net) /\ net.slice # 0 /\ net.sock[w].ctx = net.slice
  BY DEF Inv, Good, Code
<1>2. w # "h" /\ (w = "b" => net.receiver["b"] = "b") /\ net.receiver["a"] = "a"
  BY <1>1, Constants DEF EndInv
<1>3. net.slice \in Gens /\ net.slice = net.gen
  BY <1>1, Fields DEF GenInv
<1> QED
  BY <1>1, <1>2, <1>3, EndsOfWrappers DEF Wrappers

LEMMA SendInv ==
  ASSUME Inv, NEW w \in {"a", "b"}, Send(w)
  PROVE  Good(net', confirmed', sent')
<1> DEFINE s == [net EXCEPT !.used = TRUE]
           lock == LockOf(net, net.slice)
<1>0. /\ Good(net, confirmed, sent) /\ written \in Nat /\ sent \in Nat
      /\ net' = Enqueue(s, w, "message", sent + 1, lock)
      /\ confirmed' = confirmed /\ sent' = sent + 1
  BY DEF Inv, Send, storage
<1>1. Good(s, confirmed, sent)
  BY <1>0, UsedStep
<1>2. lock \in Nat /\ (lock = Rejected \/ written <= lock)
  BY <1>0, Constants DEF LockOf
<1> HIDE DEF s, lock
<1>3. Good(Enqueue(s, w, "message", sent + 1, lock), confirmed, sent + 1)
  <2> DEFINE m == sent + 1
  <2>1. m \in Nat /\ sent <= m /\ m > sent
    BY <1>0
  <2> HIDE DEF m
  <2>2. Good(Enqueue(s, w, "message", m, lock), confirmed, m)
    BY <1>0, <1>1, <1>2, <2>1, PumpGets
  <2> QED
    BY <2>2 DEF m
<1> QED
  BY <1>0, <1>3

LEMMA CloseByCodeInv ==
  ASSUME Inv, NEW w \in {"a", "b"}, CloseByCode(w)
  PROVE  Good(net', confirmed', sent')
<1>1. /\ Good(net, confirmed, sent) /\ written \in Nat /\ sent \in Nat
      /\ confirmed' = confirmed /\ sent' = sent /\ net' = Close(net, w)
      /\ Code(w) /\ CanClose(net, w)
  BY DEF Inv, CloseByCode, storage, counters
<1>2. net.sock[w].ctx # Host
  BY <1>1 DEF Code, Host
<1>3. net' = Enqueue(Closing(net, w), w, "close", 0, LockOf(net, net.sock[w].ctx))
  BY <1>1, <1>2 DEF Close
<1> QED
  BY <1>1, <1>3, PumpsClose

LEMMA SerializeAttachmentInv ==
  ASSUME Inv, SerializeAttachment
  PROVE  Good(net', confirmed', sent')
<1> DEFINE hib == Hibernates(net, "a")
           mirror == IF hib /\ net.listed[net.meta.accepted] /\ net.mirror # -1
                     THEN notes + 1 ELSE net.mirror
           told == IF hib THEN notes + 1 ELSE net.meta.told
           m == [net.meta EXCEPT !.note = notes + 1, !.told = told]
           r == [net EXCEPT !.meta = m]
           t == [net EXCEPT !.meta = m, !.mirror = mirror]
<1>0. /\ Good(net, confirmed, sent) /\ net \in States /\ notes \in Nat
      /\ confirmed' = confirmed /\ sent' = sent
      /\ hib <=> net.sock["a"].mode = "hibernatable"
  BY DEF Inv, SerializeAttachment, storage, Good, Hibernates
<1>b. net' = IF hib THEN AttachmentChanged(r, notes + 1) ELSE r
  BY DEF SerializeAttachment
<1>1. net.meta \in Metadata /\ net.mirror \in Nat \cup {-1} /\ net.gen \in Gens
  BY <1>0, Fields
<1>a. NoteInv(net)
  BY <1>0 DEF Good, MirrorInv
<1>2. /\ m \in Metadata /\ m.accepted = net.meta.accepted /\ m.note = notes + 1
      /\ m.told = told
  <2>1. told \in Nat /\ notes + 1 \in Nat
    BY <1>0, <1>1 DEF Metadata
  <2> HIDE DEF told
  <2> QED
    BY <1>1, <2>1 DEF Metadata
<1>3. mirror \in Nat \cup {-1}
  BY <1>0, <1>1
<1> HIDE DEF hib
<1>4. net' = t
  <2>1. r.listed = net.listed /\ r.mirror = net.mirror /\ r.meta = m
    BY <1>0 DEF States
  <2>2. net' = IF hib /\ net.listed[m.accepted] /\ net.mirror # -1
               THEN [r EXCEPT !.mirror = notes + 1] ELSE r
    BY <1>b, <2>1 DEF AttachmentChanged
  <2> HIDE DEF m
  <2>3. r = [net EXCEPT !.meta = m, !.mirror = net.mirror]
    BY <1>0 DEF States
  <2> QED
    BY <1>2, <2>2, <2>3
<1>5. /\ m.told > 0 => m.note = m.told /\ net.sock["a"].mode = "hibernatable"
      /\ mirror # -1 => /\ mirror = m.told /\ net.meta.accepted \in Gens
                        /\ net.listed[net.meta.accepted] /\ net.mirror # -1
  BY <1>0, <1>1, <1>2, <1>a DEF NoteInv, Metadata
<1>6. net.mirror # -1 => mirror # -1
  BY <1>0, <1>1
<1> HIDE DEF m, mirror, r
<1>7. /\ t \in States /\ t.meta = m /\ t.mirror = mirror /\ t.sock = net.sock
      /\ t.receiver = net.receiver /\ t.sentClose = net.sentClose /\ t.listed = net.listed
      /\ t.gen = net.gen /\ t.aborted = net.aborted /\ t.queue = net.queue
      /\ t.slice = net.slice /\ t.ends = net.ends /\ t.heard = net.heard
  BY <1>0, <1>2, <1>3 DEF States
<1> HIDE DEF t
<1>8. NoteInv(t)
  BY <1>2, <1>5, <1>7 DEF NoteInv
<1>9. MirrorInv(t)
  BY <1>0, <1>2, <1>6, <1>7, <1>8 DEF Good, MirrorInv
<1>10. GenInv(t) /\ EndInv(t) /\ ModeInv(t) /\ DurableInv(t, confirmed) /\ LineInv(t)
  <2>1. GenInv(t) /\ EndInv(t)
    BY <1>0, <1>7 DEF Good, GenInv, EndInv
  <2>2. ModeInv(t)
    BY <1>0, <1>2, <1>7, SMTT(30) DEF Good, ModeInv
  <2>3. DurableInv(t, confirmed) /\ LineInv(t)
    BY <1>0, <1>7 DEF Good, DurableInv, LineInv
  <2> QED
    BY <2>1, <2>2, <2>3
<1>11. Fewer(net, t)
  BY <1>7 DEF Fewer, Comes
<1>12. Good(t, confirmed, sent)
  BY <1>0, <1>7, <1>9, <1>10, <1>11, FewerStep DEF Good
<1> QED
  BY <1>0, <1>4, <1>12

LEMMA AcceptWebSocketInv ==
  ASSUME Inv, AcceptWebSocket
  PROVE  Good(net', confirmed', sent')
<1> DEFINE v == [net.sock["a"] EXCEPT !.mode = "hibernatable", !.pending = <<>>]
           m == [net.meta EXCEPT !.accepted = net.slice]
           t == net'
<1>0. /\ Good(net, confirmed, sent) /\ net \in States /\ Code("a")
      /\ net.sock["a"].mode = "pending" /\ confirmed' = confirmed /\ sent' = sent
      /\ net' = [net EXCEPT !.used = TRUE, !.sock["a"].mode = "hibernatable",
                            !.sock["a"].pending = <<>>, !.meta.accepted = net.slice,
                            !.listed[net.slice] = TRUE, !.mirror = 0]
  BY DEF Inv, AcceptWebSocket, storage, counters, Good
<1>1. /\ net.sock["a"] \in Sockets /\ net.sock \in [Wrappers -> Sockets] /\ net.meta \in Metadata
      /\ net.slice \in Gens /\ net.slice = net.gen /\ net.sock["a"].ctx = net.slice
      /\ net.listed \in [Gens -> BOOLEAN] /\ <<>> \in Seq(Events) /\ net.slice \in Contexts
  BY <1>0, Fields, CodeActs, EndsOfWrappers, EmptySeq DEF Contexts
<1>2. /\ v \in Sockets /\ v.mode = "hibernatable" /\ v.pending = <<>>
      /\ v.ctx = net.sock["a"].ctx /\ v.released = net.sock["a"].released
      /\ v.pump = net.sock["a"].pump /\ v.ready = net.sock["a"].ready
  BY <1>1 DEF Sockets
<1>3. m \in Metadata /\ m.accepted = net.slice /\ m.told = 0
  BY <1>0, <1>1 DEF Metadata, Good, MirrorInv, NoteInv
<1>4. net' = [net EXCEPT !.used = TRUE, !.sock = [net.sock EXCEPT !["a"] = v], !.meta = m,
                         !.listed = [net.listed EXCEPT ![net.slice] = TRUE], !.mirror = 0]
  <2> DEFINE r == [[[net EXCEPT !.used = TRUE] EXCEPT !.sock["a"].mode = "hibernatable"]
                     EXCEPT !.sock["a"].pending = <<>>]
             listed == [net.listed EXCEPT ![net.slice] = TRUE]
  <2>1. [[net.sock["a"] EXCEPT !.mode = "hibernatable"] EXCEPT !.pending = <<>>] = v
    OBVIOUS
  <2>2. net' = [[[r EXCEPT !.meta.accepted = net.slice] EXCEPT !.listed[net.slice] = TRUE]
                  EXCEPT !.mirror = 0]
    BY <1>0
  <2>3. r = [net EXCEPT !.used = TRUE, !.sock = [net.sock EXCEPT !["a"] = v]]
    <3>1. r = [[[net EXCEPT !.used = TRUE] EXCEPT !.sock["a"].mode = "hibernatable"]
                     EXCEPT !.sock["a"].pending = <<>>]
      OBVIOUS
    <3> HIDE DEF r, v
    <3> QED
      BY <1>0, <1>1, <2>1, <3>1, EndsOfWrappers, ZenonT(60) DEF States
  <2> HIDE DEF r, v
  <2>4. r.meta = net.meta /\ r.listed = net.listed
    BY <1>0, <2>3 DEF States
  <2>5. [r EXCEPT !.meta.accepted = net.slice] = [r EXCEPT !.meta = m]
    BY <2>4
  <2>6. [[r EXCEPT !.meta = m] EXCEPT !.listed[net.slice] = TRUE]
        = [[r EXCEPT !.meta = m] EXCEPT !.listed = listed]
    BY <1>0, <2>3, <2>4 DEF States
  <2> HIDE DEF m, listed
  <2>7. net' = [[[r EXCEPT !.meta = m] EXCEPT !.listed = listed] EXCEPT !.mirror = 0]
    BY <2>2, <2>5, <2>6
  <2>8. net' = [net EXCEPT !.used = TRUE, !.sock = [net.sock EXCEPT !["a"] = v], !.meta = m,
                           !.listed = listed, !.mirror = 0]
    BY <1>0, <2>3, <2>7 DEF States
  <2> QED
    BY <2>8 DEF listed
<1> HIDE DEF v, m
<1>5. /\ t \in States /\ t.sock = [net.sock EXCEPT !["a"] = v] /\ t.meta = m
      /\ t.listed = [net.listed EXCEPT ![net.slice] = TRUE] /\ t.mirror = 0
      /\ t.receiver = net.receiver /\ t.sentClose = net.sentClose
      /\ t.gen = net.gen /\ t.aborted = net.aborted /\ t.queue = net.queue
      /\ t.slice = net.slice /\ t.ends = net.ends /\ t.heard = net.heard
  <2>1. [net.sock EXCEPT !["a"] = v] \in [Wrappers -> Sockets]
        /\ [net.listed EXCEPT ![net.slice] = TRUE] \in [Gens -> BOOLEAN]
    BY <1>1, <1>2
  <2> DEFINE sock == [net.sock EXCEPT !["a"] = v]
             listed == [net.listed EXCEPT ![net.slice] = TRUE]
  <2>2. t = [net EXCEPT !.used = TRUE, !.sock = sock, !.meta = m, !.listed = listed, !.mirror = 0]
    BY <1>4
  <2> HIDE DEF t, sock, listed
  <2>3. t \in States /\ t.sock = sock /\ t.listed = listed
    BY <1>0, <1>3, <2>1, <2>2 DEF States, sock, listed
  <2>4. /\ t.meta = m /\ t.mirror = 0
        /\ t.receiver = net.receiver /\ t.sentClose = net.sentClose
        /\ t.gen = net.gen /\ t.aborted = net.aborted /\ t.queue = net.queue
        /\ t.slice = net.slice /\ t.ends = net.ends /\ t.heard = net.heard
    BY <1>0, <2>2 DEF States
  <2> QED
    BY <2>3, <2>4 DEF sock, listed
<1> HIDE DEF t
<1>6. /\ \A z \in Wrappers : /\ t.sock[z].ctx = net.sock[z].ctx
                             /\ t.sock[z].released = net.sock[z].released
                             /\ t.sock[z].ready = net.sock[z].ready
                             /\ t.sock[z].pump = net.sock[z].pump
      /\ \A z \in Wrappers \ {"a"} : t.sock[z] = net.sock[z]
      /\ t.sock["a"].mode = "hibernatable" /\ t.sock["a"].pending = <<>>
  BY <1>1, <1>2, <1>5, EndsOfWrappers
<1>7. GenInv(t) /\ EndInv(t)
  <2>1. \A g \in Gens : g > t.gen => ~t.listed[g]
    BY <1>0, <1>1, <1>5, Constants DEF Good, GenInv
  <2>2. GenInv(t)
    BY <1>0, <1>5, <1>6, <2>1 DEF Good, GenInv
  <2>3. EndInv(t)
    BY <1>0, <1>5, <1>6, EndsOfWrappers DEF Good, EndInv
  <2> QED
    BY <2>2, <2>3
<1>8. ModeInv(t)
  <2>1. \A z \in Wrappers :
          /\ t.sock[z].mode = "hibernatable" => z = "a" /\ t.sock[z].ctx = t.meta.accepted
          /\ t.sock[z].mode # "pending" => t.sock[z].pending = <<>>
          /\ t.sock[z].mode = "pending" => t.heard[z] = <<>>
          /\ t.sock[z].ctx # Host =>
               \A i \in 1..Len(t.sock[z].pending) : t.sock[z].pending[i].at = z
    <3> SUFFICES ASSUME NEW z \in Wrappers
                 PROVE  /\ t.sock[z].mode = "hibernatable" => z = "a" /\ t.sock[z].ctx = t.meta.accepted
                        /\ t.sock[z].mode # "pending" => t.sock[z].pending = <<>>
                        /\ t.sock[z].mode = "pending" => t.heard[z] = <<>>
                        /\ t.sock[z].ctx # Host =>
                             \A i \in 1..Len(t.sock[z].pending) : t.sock[z].pending[i].at = z
      OBVIOUS
    <3>1. CASE z = "a"
      BY <1>1, <1>3, <1>5, <1>6, <3>1
    <3>2. CASE z # "a"
      BY <1>0, <1>5, <1>6, <3>2 DEF Good, ModeInv
    <3> QED
      BY <3>1, <3>2
  <2>2. \A g \in Gens : \A i \in 1..Len(net.queue[g]) :
          /\ net.queue[g][i].at \in Wrappers \ {"a"}
          /\ net.sock[net.queue[g][i].at].mode # "pending"
          /\ net.sock[net.queue[g][i].at].ctx = g \/ net.aborted[g]
    BY <1>0, QueuedEvents DEF Good, ModeInv
  <2> QED
    BY <1>5, <1>6, <2>1, <2>2 DEF ModeInv
<1>9. DurableInv(t, confirmed) /\ LineInv(t)
  <2>1. \A z \in Wrappers : t.sock[z].pending = net.sock[z].pending \/ t.sock[z].pending = <<>>
    BY <1>6
  <2>2. InOrder(<<>>)
    BY DEF InOrder
  <2>3. DurableInv(t, confirmed)
    BY <1>0, <1>5, <2>1 DEF Good, DurableInv
  <2>4. LineInv(t)
    BY <1>0, <1>5, <1>6, <2>1, <2>2, SMTT(30) DEF Good, LineInv
  <2> QED
    BY <2>3, <2>4
<1>10. MirrorInv(t)
  BY <1>0, <1>1, <1>3, <1>5, <1>6, EndsOfWrappers DEF Good, MirrorInv, NoteInv
<1>11. Fewer(net, t)
  <2>1. \A z \in Wrappers, e \in Events : Comes(t, z, e) => Comes(net, z, e)
    <3> SUFFICES ASSUME NEW z \in Wrappers, NEW e \in Events, Comes(t, z, e)
                 PROVE  Comes(net, z, e)
      OBVIOUS
    <3>1. CASE z = "a"
      <4>1. /\ t.queue = net.queue /\ t.heard = net.heard /\ t.sock[z].ctx = net.sock[z].ctx
            /\ t.sock[z].pending = <<>>
        BY <1>5, <1>6, <3>1
      <4>2. ~\E i \in 1..Len(t.sock[z].pending) : e = t.sock[z].pending[i]
        BY <4>1
      <4> QED
        BY <4>1, <4>2 DEF Comes
    <3>2. CASE z # "a"
      <4>1. t.sock[z] = net.sock[z] /\ t.queue = net.queue /\ t.heard = net.heard
        BY <1>5, <1>6, <3>2
      <4> QED
        BY <4>1 DEF Comes
    <3> QED
      BY <3>1, <3>2
  <2> QED
    BY <1>5, <1>6, <2>1 DEF Fewer
<1>12. Good(t, confirmed, sent)
  BY <1>0, <1>5, <1>7, <1>8, <1>9, <1>10, <1>11, FewerStep DEF Good
<1> QED
  BY <1>0, <1>12 DEF t

LEMMA AcceptInv ==
  ASSUME Inv, NEW w \in Wrappers, Accept(w)
  PROVE  Good(net', confirmed', sent')
<1>1. /\ Good(net, confirmed, sent) /\ written \in Nat /\ confirmed \in Nat /\ sent \in Nat
      /\ confirmed' = confirmed /\ sent' = sent
      /\ net' = EnableClassic(net, w) /\ net.sock[w].mode = "pending"
      /\ Code(w) \/ (w = "h" /\ net.receiver["b"] = "h")
  BY DEF Inv, Accept, storage, counters
<1>2. net.receiver[EndOf[w]] = w
  BY <1>1, CodeActs, EndsOfWrappers
<1> QED
  BY <1>1, <1>2, EnableStep

LEMMA RespondInv ==
  ASSUME Inv, Respond
  PROVE  Good(net', confirmed', sent')
<1>1. /\ Good(net, confirmed, sent) /\ confirmed' = confirmed /\ sent' = sent
      /\ net' = [net EXCEPT !.used = TRUE, !.reply = LockOf(net, net.slice)]
      /\ LockOf(net, net.slice) \in Nat
  BY Constants DEF Inv, Respond, storage, counters, LockOf
<1> QED
  BY <1>1, UsedStep

LEMMA StartsInv ==
  ASSUME Inv, Starts
  PROVE  Good(net', confirmed', sent')
<1> DEFINE t == [net EXCEPT !.slice = net.gen, !.started[net.gen] = TRUE]
<1>0. /\ Good(net, confirmed, sent) /\ confirmed' = confirmed /\ sent' = sent
      /\ net' = t /\ net \in States /\ net.gen \in Gens
      /\ net.started \in [Gens -> BOOLEAN]
      /\ (net.sock["a"].ready = "open" => \A end \in net.ends : end.kind # "close")
  BY Fields DEF Inv, Good, MirrorInv, NoteInv, Starts, storage, counters
<1>1. t \in States
  <2>1. [net.started EXCEPT ![net.gen] = TRUE] \in [Gens -> BOOLEAN] /\ net.gen \in Contexts
    BY <1>0 DEF Contexts
  <2> QED
    BY <1>0, <2>1 DEF States
<1>2. Quiet(net, t) /\ t.sock = net.sock
  BY <1>0 DEF Quiet, States
<1> HIDE DEF t
<1> QED
  BY <1>0, <1>1, <1>2, QuietStep

\* A closed half leaves the lists and the mirror; an open half that is listed keeps it.
LEMMA CheckpointEndInv ==
  ASSUME Inv, CheckpointEnd
  PROVE  Good(net', confirmed', sent')
<1> DEFINE closed == {end.gen : end \in {e \in net.ends : e.kind = "close"}}
           completes == \E end \in net.ends : net.meta.completion \/ end.kind = "complete"
           listed == [g \in Gens |-> net.listed[g] /\ g \notin closed]
           mirror == IF \E g \in closed : net.listed[g] THEN -1 ELSE net.mirror
           t == [net EXCEPT !.slice = 0, !.ends = {}, !.listed = listed, !.mirror = mirror]
<1>0. /\ Good(net, confirmed, sent) /\ confirmed' = confirmed /\ sent' = sent /\ net \in States
      /\ (net.sock["a"].ready = "open" => \A end \in net.ends : end.kind # "close")
      /\ net' = IF completes THEN CompleteOwnClose(t) ELSE t
  BY DEF Inv, Good, MirrorInv, NoteInv, CheckpointEnd, storage, counters
<1>1. /\ listed \in [Gens -> BOOLEAN] /\ mirror \in Nat \cup {-1}
      /\ \A g \in Gens : listed[g] => net.listed[g]
      /\ net.sock["a"].ready = "open" => mirror = net.mirror
      /\ mirror = -1 \/ (mirror = net.mirror /\ \A g \in Gens : listed[g] = net.listed[g])
  BY <1>0, Fields
<1> HIDE DEF closed, listed, mirror, completes
<1>2. t \in States
  BY <1>0, <1>1 DEF States, Contexts, Host
<1>3. Quiet(net, t) /\ t.sock = net.sock
  BY <1>0, <1>1 DEF Quiet, States
<1> HIDE DEF t
<1>4. Good(t, confirmed, sent)
  BY <1>0, <1>2, <1>3, QuietStep
<1> QED
  BY <1>0, <1>4, CompleteStep

LEMMA HostSendsInv ==
  ASSUME Inv, NEW kind \in {"message", "ping"}, HostSends(kind)
  PROVE  Good(net', confirmed', sent')
<1> DEFINE s == [net EXCEPT !.used = TRUE]
           m == sent + 1
           item == Item(net, "h", kind, m, 0)
<1>0. /\ Good(net, confirmed, sent) /\ written \in Nat /\ confirmed \in Nat /\ sent \in Nat
      /\ net' = Put(s, "b", item) /\ net.receiver["b"] = "h"
      /\ confirmed' = confirmed /\ sent' = m
  BY DEF Inv, HostSends, Hosted, Coupled, storage
<1>1. m \in Nat /\ sent < m
  BY <1>0
<1> HIDE DEF m
<1>2. Good(s, confirmed, sent) /\ s.sock = net.sock /\ s.receiver = net.receiver
  BY <1>0, UsedStep
<1>3. item.n = m /\ item.under = 0 /\ item.kind = kind
  BY <1>0 DEF Item, Good, EndInv
<1> HIDE DEF s, item
<1>4. Good(s, confirmed, m)
  BY <1>0, <1>1, <1>2, Later
<1>5. Departs(s, "b", item, confirmed, m)
  <2>1. s.receiver["a"] = "a" /\ s.sock["b"].released /\ s.sock["h"].pump = <<>>
    BY <1>0, <1>2 DEF Good, EndInv
  <2>2. \A f \in Events : Comes(s, "a", f) => f.n < m
    BY <1>0, <1>1, <1>2, EndsOfWrappers, EventFields DEF Good, SentInv
  <2>3. \A v \in Wrappers : EndOf[v] = "b" /\ ~s.sock[v].released => s.sock[v].pump = <<>>
    BY <2>1, EndsOfWrappers DEF Wrappers
  <2> QED
    BY <1>0, <1>1, <1>3, <2>1, <2>2, <2>3, EndsOfWrappers DEF Departs
<1> QED
  BY <1>0, <1>1, <1>4, <1>5, PutStep, EndsOfWrappers

LEMMA OwnCloseStep ==
  ASSUME NEW s, NEW c, NEW n, Good(s, c, n)
  PROVE  Good(OwnCloseWritten(s), c, n)
<1> DEFINE m == [s.meta EXCEPT !.completion = TRUE]
           end == [kind |-> "complete", gen |-> 0]
           t == [s EXCEPT !.meta = m]
           u == [s EXCEPT !.ends = @ \cup {end}]
<1>0. s \in States /\ s.slice \in {0, s.gen} /\ s.meta \in Metadata
      /\ (s.sock["a"].ready = "open" => \A e \in s.ends : e.kind # "close")
      /\ s.ends \in SUBSET [kind : {"close", "message", "complete"}, gen : Contexts]
  BY Fields DEF Good, GenInv, MirrorInv, NoteInv
<1>1. OwnCloseWritten(s) \in {t, u}
  BY <1>0 DEF OwnCloseWritten, States
<1>2. /\ m \in Metadata /\ m.accepted = s.meta.accepted /\ m.note = s.meta.note
      /\ m.told = s.meta.told
  BY <1>0 DEF Metadata
<1>3. end \in [kind : {"close", "message", "complete"}, gen : Contexts] /\ end.kind # "close"
  BY DEF Contexts, Host
<1> HIDE DEF m, end
<1>4. t \in States /\ Quiet(s, t) /\ t.sock = s.sock
  BY <1>0, <1>2 DEF States, Quiet
<1>5. u \in States /\ Quiet(s, u) /\ u.sock = s.sock
  BY <1>0, <1>3 DEF States, Quiet
<1> HIDE DEF t, u
<1>6. Good(t, c, n) /\ Good(u, c, n)
  BY <1>4, <1>5, QuietStep
<1> QED
  BY <1>1, <1>6

LEMMA PumpStep ==
  ASSUME Inv, NEW w \in Wrappers, Pump(w)
  PROVE  Good(net', confirmed', sent')
<1> DEFINE p == net.sock[w].pump
           item == Head(p)
           v == [net.sock[w] EXCEPT !.pump = Tail(p)]
           t == [net EXCEPT !.sock[w].pump = Tail(@)]
           u == Put(t, EndOf[w], item)
           z == [net.sock[w] EXCEPT !.muted = TRUE]
<1>0. /\ Good(net, confirmed, sent) /\ written \in Nat /\ confirmed \in Nat /\ sent \in Nat
      /\ confirmed' = confirmed /\ sent' = sent /\ net \in States /\ Ready(w)
      /\ net' = CASE item.lock = Rejected -> [net EXCEPT !.sock[w].muted = TRUE]
                  [] item.lock # Rejected /\ (t.sock[w].released \/ t.aborted[item.gen]) -> t
                  [] OTHER -> IF item.kind = "close" /\ Hibernates(u, w)
                              THEN OwnCloseWritten(u) ELSE u
  BY DEF Inv, Good, Pump, storage, counters
<1>1. net.sock[w] \in Sockets /\ p \in Seq(Items) /\ p # <<>>
      /\ (p[1].lock = Rejected \/ p[1].lock <= confirmed)
  BY <1>0, Fields, SocketFields DEF Ready
<1>2. /\ item \in Items /\ Tail(p) \in Seq(Items) /\ item = p[1] /\ 1 \in 1..Len(p)
      /\ Len(Tail(p)) \in Nat
      /\ \A i \in 1..Len(Tail(p)) : i + 1 \in 1..Len(p) /\ i + 1 > 1 /\ Tail(p)[i] = p[i + 1]
  BY <1>1, TailOf
<1>3. w # "h" /\ w \in {"a", "b"}
  BY <1>0, <1>1 DEF Good, EndInv, Wrappers
<1>4. Good([net EXCEPT !.sock[w].muted = TRUE], confirmed, sent)
  <2>1. /\ z \in Sockets /\ z.mode = net.sock[w].mode /\ z.ctx = net.sock[w].ctx
        /\ z.released = net.sock[w].released /\ z.pending = net.sock[w].pending
        /\ z.pump = net.sock[w].pump /\ z.ready = net.sock[w].ready
    BY <1>1 DEF Sockets
  <2>2. [net EXCEPT !.sock[w].muted = TRUE] = [net EXCEPT !.sock[w] = z]
    OBVIOUS
  <2> HIDE DEF z
  <2>3. Good(net, confirmed, sent)
    BY <1>0
  <2>4. Good([net EXCEPT !.sock[w] = z], confirmed, sent)
    BY <2>1, <2>3, SocketQuietly
  <2> QED
    BY <2>2, <2>4
<1> HIDE DEF p
<1>5. /\ v \in Sockets /\ v.mode = net.sock[w].mode /\ v.ctx = net.sock[w].ctx
      /\ v.released = net.sock[w].released /\ v.pending = net.sock[w].pending
      /\ v.ready = net.sock[w].ready /\ v.pump = Tail(p)
  BY <1>1, <1>2 DEF Sockets
<1>6. t = [net EXCEPT !.sock[w] = v]
  BY DEF p
<1> HIDE DEF item, v, t, u
<1>7. /\ t \in States /\ Beside(net, t) /\ t.sock[w] = v
      /\ \A e \in Wrappers \ {w} : t.sock[e] = net.sock[e]
  BY <1>0, <1>5, <1>6, SocketStep
<1>8. Quiet(net, t)
  BY <1>0, <1>5, <1>7, QuietSocket
<1>9. /\ t.sock[w].pump = Tail(p) /\ \A e \in Wrappers \ {w} : t.sock[e].pump = net.sock[e].pump
      /\ \A e \in Wrappers : t.sock[e].released = net.sock[e].released
  BY <1>5, <1>7, <1>8 DEF Quiet
<1>10. EndInv(t)
  <2>1. t.sock["h"].pump = <<>>
    BY <1>0, <1>3, <1>9, EndsOfWrappers DEF Good, EndInv
  <2> QED
    BY <1>0, <1>7, <1>8, <2>1, QuietInv
<1>11. LockInv(t)
  <2>1. \A i \in 1..Len(Tail(p)) : WaitsForWrites(Tail(p)[i])
    BY <1>0, <1>2 DEF Good, LockInv, p
  <2> QED
    BY <1>0, <1>9, <2>1 DEF Good, LockInv
<1>a. /\ \A i \in 1..Len(p) : p[i].n <= sent
      /\ \A i, j \in 1..Len(p) : i < j /\ p[i].n > 0 /\ p[j].n > 0 => p[i].n < p[j].n
      /\ \A i \in 1..Len(p) : ~net.sock[w].released /\ p[i].n > 0 =>
           \A e \in Wrappers, f \in Events : Facing(e, w) /\ Comes(net, e, f) => f.n < p[i].n
  BY <1>0 DEF Good, PumpInv, p
<1>12. PumpInv(t, sent)
  <2>1. ASSUME NEW i \in 1..Len(Tail(p))
        PROVE  /\ Tail(p)[i].n <= sent
               /\ \A j \in 1..Len(Tail(p)) :
                    i < j /\ Tail(p)[i].n > 0 /\ Tail(p)[j].n > 0 => Tail(p)[i].n < Tail(p)[j].n
               /\ ~t.sock[w].released /\ Tail(p)[i].n > 0 =>
                    \A e \in Wrappers, f \in Events : Facing(e, w) /\ Comes(t, e, f) => f.n < Tail(p)[i].n
    <3>1. i + 1 \in 1..Len(p) /\ Tail(p)[i] = p[i + 1]
      BY <1>2
    <3>2. ASSUME NEW j \in 1..Len(Tail(p)), i < j
          PROVE  i + 1 < j + 1 /\ j + 1 \in 1..Len(p) /\ Tail(p)[j] = p[j + 1]
      BY <1>2, <3>2
    <3> QED
      BY <1>a, <1>8, <1>9, <3>1, <3>2, QuietComes
  <2>2. ASSUME NEW e \in Wrappers \ {w}, NEW i \in 1..Len(t.sock[e].pump)
        PROVE  LET x == t.sock[e].pump[i] IN
               /\ x.n <= sent
               /\ \A j \in 1..Len(t.sock[e].pump) :
                    i < j /\ x.n > 0 /\ t.sock[e].pump[j].n > 0 => x.n < t.sock[e].pump[j].n
               /\ ~t.sock[e].released /\ x.n > 0 =>
                    \A d \in Wrappers, f \in Events : Facing(d, e) /\ Comes(t, d, f) => f.n < x.n
    BY <1>0, <1>8, <1>9, QuietComes DEF Good, PumpInv
  <2> QED
    BY <1>9, <2>1, <2>2 DEF PumpInv
<1>13. Good(t, confirmed, sent)
  BY <1>0, <1>7, <1>8, <1>10, <1>11, <1>12, QuietInv DEF Good
<1>14. ASSUME item.lock # Rejected, ~t.sock[w].released
       PROVE  Good(u, confirmed, sent)
  <2>1. item.n \in Nat /\ item.under \in Nat /\ item.lock \in Nat
        /\ item.kind \in {"message", "ping", "auto", "close"}
    BY <1>2, ItemFields
  <2>2. item.under <= confirmed
    <3>1. WaitsForWrites(item)
      BY <1>0, <1>2 DEF Good, LockInv, p
    <3> QED
      BY <1>0, <1>1, <1>2, <1>14, <2>1, <3>1 DEF WaitsForWrites
  <2> DEFINE r == t.receiver[Other[EndOf[w]]]
  <2>3. r \in Wrappers /\ Facing(r, w) /\ EndOf[w] \in Ends
    BY <1>10, EndsOfWrappers, Receivers DEF Facing
  <2>4. \A f \in Events : Comes(t, r, f) /\ f.n > 0 /\ item.n > 0 => f.n < item.n
    BY <1>a, <1>2, <1>8, <1>9, <1>14, <2>3, QuietComes
  <2>5. ASSUME NEW e \in Wrappers, EndOf[e] = EndOf[w], NEW i \in 1..Len(t.sock[e].pump),
               t.sock[e].pump[i].n > 0
        PROVE  item.n < t.sock[e].pump[i].n
    <3>1. CASE e = w
      <4>1. /\ i + 1 \in 1..Len(p) /\ 1 < i + 1 /\ t.sock[e].pump[i] = p[i + 1] /\ item = p[1]
            /\ 1 \in 1..Len(p)
        BY <1>2, <1>9, <2>5, <3>1
      <4>2. item.n = 0 \/ item.n > 0
        BY <2>1
      <4> QED
        BY <1>a, <2>5, <4>1, <4>2
    <3>2. CASE e # w
      <4>1. e = "h"
        BY <1>3, <2>5, <3>2, EndsOfWrappers DEF Wrappers
      <4>2. t.sock[e].pump = <<>>
        BY <1>10, <4>1 DEF EndInv
      <4> QED
        BY <4>2
    <3> QED
      BY <3>1, <3>2
  <2>6. item.n <= sent
    BY <1>a, <1>2
  <2>7. Departs(t, EndOf[w], item, confirmed, sent)
    BY <2>1, <2>2, <2>4, <2>5, <2>6 DEF Departs
  <2> QED
    BY <1>0, <1>13, <2>3, <2>7, PutStep DEF u
<1>15. item.lock # Rejected /\ ~t.sock[w].released => Good(OwnCloseWritten(u), confirmed, sent)
  BY <1>14, OwnCloseStep
<1> QED
  BY <1>0, <1>4, <1>13, <1>14, <1>15

\* A commit fails: the writes in the pumps that waited for it never leave.
LEMMA CommitFailsInv ==
  ASSUME Inv, CommitFails
  PROVE  Good(net', confirmed', sent')
<1> DEFINE reject(item) == [item EXCEPT !.lock = IF @ > confirmed THEN Rejected ELSE @]
           rejects(p) == [i \in DOMAIN p |-> reject(p[i])]
           sock == [w \in Wrappers |-> [net.sock[w] EXCEPT !.pump = rejects(@)]]
           broken == [net.broken EXCEPT ![net.gen] = TRUE]
           t == [net EXCEPT !.broken = broken, !.sock = sock]
<1>0. /\ Good(net, confirmed, sent) /\ confirmed \in Nat /\ sent \in Nat
      /\ confirmed' = confirmed /\ sent' = sent /\ net \in States /\ net' = Abort(t)
      /\ written \in Nat
  BY DEF Inv, Good, CommitFails, counters
<1>1. \A w \in Wrappers : net.sock[w] \in Sockets /\ net.sock[w].pump \in Seq(Items)
  BY <1>0, Fields, SocketFields
<1>2. ASSUME NEW item \in Items
      PROVE  /\ reject(item) \in Items /\ reject(item).n = item.n
             /\ WaitsForWrites(item) => WaitsForWrites(reject(item))
  <2> DEFINE lock == IF item.lock > confirmed THEN Rejected ELSE item.lock
             r == [item EXCEPT !.lock = lock]
  <2>1. lock \in Nat /\ lock \in {item.lock, Rejected}
    BY ItemFields, Constants
  <2> HIDE DEF lock
  <2>2. r \in Items /\ r.n = item.n /\ r.under = item.under /\ r.lock = lock
    BY <2>1 DEF Items
  <2>3. WaitsForWrites(item) => WaitsForWrites(r)
    BY <2>1, <2>2 DEF WaitsForWrites
  <2> QED
    BY <2>2, <2>3 DEF lock
<1> HIDE DEF reject
<1>3. ASSUME NEW p \in Seq(Items)
      PROVE  /\ rejects(p) \in Seq(Items) /\ Len(rejects(p)) = Len(p)
             /\ \A i \in 1..Len(p) : rejects(p)[i] = reject(p[i]) /\ p[i] \in Items
             /\ p = <<>> => rejects(p) = <<>>
  <2>1. DOMAIN p = 1..Len(p) /\ Len(p) \in Nat /\ \A i \in 1..Len(p) : p[i] \in Items
    BY LenProperties, ElementOfSeq
  <2>2. \A i \in 1..Len(p) : reject(p[i]) \in Items
    BY <1>2, <2>1
  <2>3. rejects(p) \in Seq(Items) /\ Len(rejects(p)) = Len(p)
    BY <2>1, <2>2
  <2>4. p = <<>> => rejects(p) = <<>>
    BY <2>3, EmptySeq
  <2> QED
    BY <2>1, <2>3, <2>4
<1> HIDE DEF rejects
<1>4. \A w \in Wrappers :
        LET v == sock[w] IN
        /\ v \in Sockets /\ v.mode = net.sock[w].mode /\ v.ctx = net.sock[w].ctx
        /\ v.released = net.sock[w].released /\ v.pending = net.sock[w].pending
        /\ v.ready = net.sock[w].ready /\ v.pump = rejects(net.sock[w].pump)
  BY <1>1, <1>3 DEF Sockets
<1>5. sock \in [Wrappers -> Sockets]
  BY <1>4
<1> HIDE DEF sock
<1>6. t \in States /\ t.sock = sock /\ Quiet(net, t) /\ Beside(net, [t EXCEPT !.broken = net.broken])
  <2>1. broken \in [Gens -> BOOLEAN]
    BY <1>0, Fields
  <2> HIDE DEF broken
  <2>2. t \in States /\ t.sock = sock
    BY <1>0, <1>5, <2>1 DEF States
  <2>3. Beside(net, [t EXCEPT !.broken = net.broken])
    BY <1>0 DEF States, Beside
  <2>4. net.slice \in {0, net.gen}
        /\ (net.sock["a"].ready = "open" => \A end \in net.ends : end.kind # "close")
    BY <1>0 DEF Good, GenInv, MirrorInv, NoteInv
  <2>5. Quiet(net, t)
    BY <1>0, <1>4, <2>2, <2>4, EndsOfWrappers DEF States, Quiet
  <2> QED
    BY <2>2, <2>3, <2>5
<1> HIDE DEF t
<1>7. \A w \in Wrappers : /\ t.sock[w].pump = rejects(net.sock[w].pump)
                          /\ t.sock[w].released = net.sock[w].released
                          /\ Len(t.sock[w].pump) = Len(net.sock[w].pump)
                          /\ \A i \in 1..Len(net.sock[w].pump) :
                               /\ t.sock[w].pump[i] = reject(net.sock[w].pump[i])
                               /\ t.sock[w].pump[i].n = net.sock[w].pump[i].n
  BY <1>1, <1>2, <1>3, <1>4, <1>6
<1>8. EndInv(t)
  <2>1. t.sock["h"].pump = <<>>
    BY <1>0, <1>1, <1>3, <1>7, EndsOfWrappers DEF Good, EndInv
  <2> QED
    BY <1>0, <1>6, <2>1, QuietInv
<1>9. LockInv(t)
  <2> SUFFICES ASSUME NEW w \in Wrappers, NEW i \in 1..Len(t.sock[w].pump)
               PROVE  WaitsForWrites(t.sock[w].pump[i])
    BY DEF LockInv
  <2>1. WaitsForWrites(net.sock[w].pump[i]) /\ i \in 1..Len(net.sock[w].pump)
    BY <1>0, <1>7 DEF Good, LockInv
  <2> QED
    BY <1>1, <1>2, <1>3, <1>7, <2>1
<1>10. PumpInv(t, sent)
  BY <1>0, <1>6, <1>7, QuietComes, ZenonT(60) DEF Good, PumpInv
<1>11. Good(t, confirmed, sent)
  BY <1>0, <1>6, <1>8, <1>9, <1>10, QuietInv DEF Good
<1> QED
  BY <1>0, <1>11, AbortStep

\* The next container has the socket of the mirror, and what its listeners heard stays.
LEMMA ReplaceInv ==
  ASSUME Inv, Replace
  PROVE  Good(net', confirmed', sent')
<1> DEFINE G == net.gen + 1
           t == [net EXCEPT !.gen = G]
           v == [net.sock["a"] EXCEPT !.ctx = G, !.mode = "hibernatable", !.pending = <<>>]
           m == [accepted |-> G, note |-> IF net.mirror > 0 THEN net.mirror ELSE net.meta.note,
                 told |-> net.meta.told, dispatched |-> FALSE, completion |-> FALSE, released |-> FALSE]
           u == Rehydrate(t)
<1>0. /\ Good(net, confirmed, sent) /\ confirmed' = confirmed /\ sent' = sent
      /\ net \in States /\ net.gen \in Gens /\ net.aborted[net.gen] /\ net.slice = 0
      /\ net.gen < MaxGens
      /\ net' = IF t.mirror # -1 THEN Rehydrate(t) ELSE t
  BY Fields DEF Inv, Good, Replace, storage, counters
<1>1. G \in Gens /\ G > net.gen /\ G \in Contexts /\ net.gen \in Nat
  BY <1>0, WebSocketsAssumption DEF Gens, Contexts
<1>2. \A g \in Gens : (g < G => net.aborted[g]) /\ (g > G => g > net.gen)
                      /\ (g = G => ~net.listed[g] /\ ~net.aborted[g] /\ net.queue[g] = <<>>)
  <2>1. \A g \in Gens : g < G => g < net.gen \/ g = net.gen
    BY <1>0, <1>1, Constants
  <2>2. \A g \in Gens : g > G => g > net.gen
    BY <1>1, Constants
  <2> QED
    BY <1>0, <1>1, <2>1, <2>2 DEF Good, GenInv
<1> HIDE DEF G
<1>3. /\ t \in States /\ t.gen = G /\ t.sock = net.sock /\ t.receiver = net.receiver
      /\ t.sentClose = net.sentClose /\ t.meta = net.meta /\ t.listed = net.listed
      /\ t.mirror = net.mirror /\ t.aborted = net.aborted /\ t.queue = net.queue
      /\ t.slice = 0 /\ t.ends = net.ends /\ t.heard = net.heard
  BY <1>0, <1>1 DEF States
<1> HIDE DEF t
<1>4. \A w \in Wrappers : net.sock[w].ctx <= net.gen /\ net.sock[w].ctx \in Nat
                          /\ net.sock[w].ctx <= G /\ net.sock[w].ctx # G
  <2>1. \A w \in Wrappers : net.sock[w].ctx <= net.gen /\ net.sock[w].ctx \in Nat
    <3>1. \A w \in Wrappers : net.sock[w].ctx \in Contexts
      BY <1>0, Fields, SocketFields
    <3> QED
      BY <1>0, <3>1, Constants DEF Good, GenInv
  <2>2. G \in Nat
    BY <1>1, Constants
  <2> QED
    BY <1>1, <2>1, <2>2
<1>5. Good(t, confirmed, sent)
  <2>1. GenInv(t) /\ EndInv(t) /\ ModeInv(t)
    <3>1. GenInv(t)
      BY <1>0, <1>2, <1>3, <1>4 DEF Good, GenInv
    <3> QED
      BY <1>0, <1>3, <3>1 DEF Good, EndInv, ModeInv
  <2>2. MirrorInv(t)
    BY <1>0, <1>1, <1>2, <1>3 DEF Good, MirrorInv, NoteInv
  <2>3. DurableInv(t, confirmed) /\ LineInv(t)
    BY <1>0, <1>3 DEF Good, DurableInv, LineInv
  <2>4. Fewer(net, t)
    BY <1>3 DEF Fewer, Comes
  <2> QED
    BY <1>0, <1>3, <2>1, <2>2, <2>3, <2>4, FewerStep DEF Good
<1>6. ASSUME t.mirror # -1
      PROVE  Good(u, confirmed, sent)
  <2>0. /\ net.sock["a"] \in Sockets /\ net.sock \in [Wrappers -> Sockets]
        /\ net.meta \in Metadata /\ net.mirror \in Nat /\ net.listed \in [Gens -> BOOLEAN]
        /\ <<>> \in Seq(Events)
    BY <1>0, <1>3, <1>6, Fields, EndsOfWrappers, EmptySeq
  <2>1. /\ v \in Sockets /\ v.mode = "hibernatable" /\ v.pending = <<>> /\ v.ctx = G
        /\ v.released = net.sock["a"].released
        /\ v.pump = net.sock["a"].pump /\ v.ready = net.sock["a"].ready
    BY <1>1, <2>0 DEF Sockets
  <2>2. /\ m \in Metadata /\ m.accepted = G /\ m.told = net.mirror
        /\ m.told > 0 => m.note = m.told
    BY <1>0, <1>1, <1>3, <1>6, <2>0 DEF Metadata, Good, MirrorInv, NoteInv
  <2> DEFINE sock == [net.sock EXCEPT !["a"] = v]
             listed == [net.listed EXCEPT ![G] = TRUE]
  <2>3. u = [t EXCEPT !.sock = sock, !.meta = m, !.listed = listed]
    <3> DEFINE r == [[[t EXCEPT !.sock["a"].ctx = t.gen] EXCEPT !.sock["a"].mode = "hibernatable"]
                       EXCEPT !.sock["a"].pending = <<>>]
               l == [t EXCEPT !.sock = sock]
    <3>1. u = [[r EXCEPT !.meta = [accepted |-> t.gen,
                                   note |-> IF t.mirror > 0 THEN t.mirror ELSE t.meta.note,
                                   told |-> t.meta.told, dispatched |-> FALSE, completion |-> FALSE, released |-> FALSE]]
                 EXCEPT !.listed[t.gen] = TRUE]
      BY DEF Rehydrate
    <3>2. [[[net.sock["a"] EXCEPT !.ctx = G] EXCEPT !.mode = "hibernatable"]
             EXCEPT !.pending = <<>>] = v
      OBVIOUS
    <3>3. r = [[[t EXCEPT !.sock["a"].ctx = t.gen] EXCEPT !.sock["a"].mode = "hibernatable"]
                 EXCEPT !.sock["a"].pending = <<>>]
      OBVIOUS
    <3>4. m = [accepted |-> t.gen, note |-> IF t.mirror > 0 THEN t.mirror ELSE t.meta.note,
               told |-> t.meta.told, dispatched |-> FALSE, completion |-> FALSE,
               released |-> FALSE]
      BY <1>3
    <3> HIDE DEF u, v, r, m
    <3>5. r = l
      BY <1>3, <2>0, <3>2, <3>3, EndsOfWrappers, ZenonT(60) DEF States
    <3>6. l.listed = net.listed
      BY <1>3 DEF States
    <3> HIDE DEF l
    <3>7. u = [[l EXCEPT !.meta = m] EXCEPT !.listed[G] = TRUE]
      BY <1>3, <3>1, <3>4, <3>5
    <3>8. l \in [sock : {l.sock}, receiver : {l.receiver}, sentClose : {l.sentClose},
                 used : {l.used}, meta : {l.meta}, listed : {l.listed}, mirror : {l.mirror},
                 gen : {l.gen}, aborted : {l.aborted}, broken : {l.broken},
                 started : {l.started}, queue : {l.queue}, slice : {l.slice},
                 ends : {l.ends}, reply : {l.reply}, heard : {l.heard}]
      BY <1>3 DEF States, l
    <3>9. u = [l EXCEPT !.meta = m, !.listed = listed]
      BY <3>6, <3>7, <3>8
    <3> HIDE DEF sock, listed
    <3> QED
      BY <1>3, <3>9 DEF States, l
  <2>4. sock \in [Wrappers -> Sockets] /\ listed \in [Gens -> BOOLEAN]
    BY <1>1, <2>0, <2>1
  <2>5. /\ sock["a"] = v /\ \A w \in Wrappers \ {"a"} : sock[w] = net.sock[w]
        /\ listed[G] /\ \A g \in Gens : g # G => listed[g] = net.listed[g]
    BY <1>1, <2>0, EndsOfWrappers
  <2> HIDE DEF u, v, m, sock, listed
  <2>6. /\ u \in States /\ u.gen = G /\ u.sock = sock /\ u.receiver = net.receiver
        /\ u.sentClose = net.sentClose /\ u.meta = m /\ u.listed = listed
        /\ u.mirror = net.mirror /\ u.aborted = net.aborted /\ u.queue = net.queue
        /\ u.slice = 0 /\ u.ends = net.ends /\ u.heard = net.heard
    BY <1>3, <2>2, <2>3, <2>4 DEF States
  <2>7. GenInv(u) /\ EndInv(u)
    <3>1. G <= G /\ G # Host
      BY <1>1, Constants
    <3>2. \A w \in Wrappers : u.sock[w].ctx <= G
      BY <1>4, <2>1, <2>5, <2>6, <3>1
    <3>3. \A g \in Gens : g > G => g # G
      BY Constants
    <3>4. GenInv(u)
      BY <1>0, <1>2, <2>5, <2>6, <3>2, <3>3 DEF Good, GenInv
    <3>5. EndInv(u)
      BY <1>0, <2>1, <2>5, <2>6, <3>1, EndsOfWrappers DEF Good, EndInv
    <3> QED
      BY <3>4, <3>5
  <2>8. ModeInv(u)
    <3>1. \A w \in Wrappers :
            /\ u.sock[w].mode = "hibernatable" => w = "a" /\ u.sock[w].ctx = u.meta.accepted
            /\ u.sock[w].mode # "pending" => u.sock[w].pending = <<>>
            /\ u.sock[w].mode = "pending" => u.heard[w] = <<>>
            /\ u.sock[w].ctx # Host =>
                 \A i \in 1..Len(u.sock[w].pending) : u.sock[w].pending[i].at = w
      <4> SUFFICES ASSUME NEW w \in Wrappers
                   PROVE  /\ u.sock[w].mode = "hibernatable" => w = "a" /\ u.sock[w].ctx = u.meta.accepted
                          /\ u.sock[w].mode # "pending" => u.sock[w].pending = <<>>
                          /\ u.sock[w].mode = "pending" => u.heard[w] = <<>>
                          /\ u.sock[w].ctx # Host =>
                               \A i \in 1..Len(u.sock[w].pending) : u.sock[w].pending[i].at = w
        OBVIOUS
      <4>1. CASE w = "a"
        BY <2>1, <2>2, <2>5, <2>6, <4>1
      <4>2. CASE w # "a"
        <5>1. u.sock[w] = net.sock[w] /\ u.heard = net.heard
          BY <2>5, <2>6, <4>2
        <5> QED
          BY <1>0, <4>2, <5>1 DEF Good, ModeInv
      <4> QED
        BY <4>1, <4>2
    <3>2. \A g \in Gens : \A i \in 1..Len(u.queue[g]) :
            /\ u.sock[u.queue[g][i].at].mode # "pending"
            /\ u.aborted[g]
      <4> SUFFICES ASSUME NEW g \in Gens, NEW i \in 1..Len(net.queue[g])
                   PROVE  sock[net.queue[g][i].at].mode # "pending" /\ net.aborted[g]
        BY <2>6
      <4>1. ~(g = G) /\ ~(g > net.gen)
        BY <1>0, <1>2 DEF Good, GenInv
      <4>2. g < G
        BY <1>1, <1>2, <4>1, Constants
      <4>3. net.queue[g][i].at \in Wrappers /\ net.sock[net.queue[g][i].at].mode # "pending"
        BY <1>0, QueuedEvents DEF Good, ModeInv
      <4> QED
        BY <1>2, <2>1, <2>5, <4>2, <4>3
    <3> QED
      BY <3>1, <3>2 DEF ModeInv
  <2>9. MirrorInv(u)
    <3>1. /\ u.sock["a"].ready = net.sock["a"].ready /\ u.sock["a"].pending = <<>>
          /\ u.listed[u.gen] /\ u.meta.accepted = u.gen /\ u.mirror # -1
      BY <1>3, <1>6, <2>1, <2>2, <2>5, <2>6
    <3>2. NoteInv(u)
      BY <1>1, <2>1, <2>2, <2>5, <2>6 DEF NoteInv
    <3> QED
      BY <1>0, <2>6, <3>1, <3>2 DEF Good, MirrorInv
  <2>10. \A w \in Wrappers :
           /\ u.sock[w].pending = net.sock[w].pending \/ u.sock[w].pending = <<>>
           /\ u.sock[w].pump = net.sock[w].pump /\ u.sock[w].released = net.sock[w].released
           /\ u.sock[w].ctx # net.sock[w].ctx =>
                w = "a" /\ u.sock[w].ctx = G /\ G # Host /\ u.queue[G] = <<>>
           /\ u.sock[w].ctx # Host /\ u.sock[w].ctx # G => u.sock[w].ctx = net.sock[w].ctx
    <3>1. u.queue[G] = <<>> /\ G # Host
      BY <1>1, <1>2, <2>6, Constants
    <3> QED
      BY <2>1, <2>5, <2>6, <3>1
  <2>11. DurableInv(u, confirmed) /\ LineInv(u)
    <3>1. InOrder(<<>>) /\ \A w : InOrderAt(<<>>, w)
      BY DEF InOrder, InOrderAt
    <3>2. DurableInv(u, confirmed)
      BY <1>0, <2>6, <2>10 DEF Good, DurableInv
    <3>3. LineInv(u)
      <4> SUFFICES ASSUME NEW w \in Wrappers
                   PROVE  /\ InOrder(u.heard[w]) /\ InOrder(u.sock[w].pending)
                          /\ u.sock[w].ctx # Host =>
                               /\ InOrderAt(u.queue[u.sock[w].ctx], w)
                               /\ \A i \in 1..Len(u.heard[w]), j \in 1..Len(u.queue[u.sock[w].ctx]) :
                                    u.queue[u.sock[w].ctx][j].at = w =>
                                      Before(u.heard[w][i], u.queue[u.sock[w].ctx][j])
        BY DEF LineInv
      <4>1. InOrder(u.heard[w]) /\ InOrder(u.sock[w].pending)
        BY <1>0, <2>6, <2>10, <3>1 DEF Good, LineInv
      <4>2. CASE u.sock[w].ctx # net.sock[w].ctx
        <5>1. u.queue[u.sock[w].ctx] = <<>>
          BY <2>10, <4>2
        <5> QED
          BY <3>1, <4>1, <5>1
      <4>3. CASE u.sock[w].ctx = net.sock[w].ctx
        BY <1>0, <2>6, <4>1, <4>3 DEF Good, LineInv
      <4> QED
        BY <4>2, <4>3
    <3> QED
      BY <3>2, <3>3
  <2>12. Fewer(net, u)
    <3>1. ASSUME NEW w \in Wrappers, NEW e \in Events, Comes(u, w, e)
          PROVE  Comes(net, w, e)
      <4>1. CASE \E i \in 1..Len(u.heard[w]) : e = u.heard[w][i]
        BY <2>6, <4>1 DEF Comes
      <4>2. CASE \E i \in 1..Len(u.sock[w].pending) : e = u.sock[w].pending[i]
        BY <2>10, <4>2 DEF Comes
      <4>3. CASE u.sock[w].ctx # Host /\ \E i \in 1..Len(u.queue[u.sock[w].ctx]) :
                   u.queue[u.sock[w].ctx][i].at = w /\ e = u.queue[u.sock[w].ctx][i]
        <5>1. u.sock[w].ctx = net.sock[w].ctx
          BY <2>10, <4>3
        <5> QED
          BY <2>6, <4>3, <5>1 DEF Comes
      <4> QED
        BY <3>1, <4>1, <4>2, <4>3 DEF Comes
    <3> QED
      BY <2>6, <2>10, <3>1 DEF Fewer
  <2> QED
    BY <1>0, <2>6, <2>7, <2>8, <2>9, <2>11, <2>12, FewerStep DEF Good
<1> QED
  BY <1>0, <1>5, <1>6

\* The host takes half b over: what waited for a listener of b waits for one of the host.
LEMMA CoupleToHostInv ==
  ASSUME Inv, CoupleToHost
  PROVE  Good(net', confirmed', sent')
<1> DEFINE b == net.sock["b"]
           v == [b EXCEPT !.ctx = Host, !.pump = <<>>]
           z == [b EXCEPT !.released = TRUE, !.ctx = Host, !.pending = <<>>, !.ready = "closed"]
           sock == [net.sock EXCEPT !["h"] = v, !["b"] = z]
           receiver == [net.receiver EXCEPT !["b"] = "h"]
           t == [net EXCEPT !.sock["h"] = v, !.receiver["b"] = "h", !.used = TRUE,
                            !.sock["b"] = z]
<1>0. /\ Good(net, confirmed, sent) /\ confirmed' = confirmed /\ sent' = sent
      /\ net \in States /\ b.mode = "pending" /\ ~b.released /\ net.slice = 0
      /\ net' = IF t.meta.completion THEN CompleteOwnClose(t) ELSE t
  BY DEF Inv, Good, CoupleToHost, storage, counters
<1>1. /\ net.sock \in [Wrappers -> Sockets] /\ b \in Sockets /\ net.receiver \in [Ends -> Wrappers]
      /\ net.receiver["b"] = "b" /\ b.ctx # Host /\ net.heard["b"] = <<>>
      /\ net.sock["h"].mode = "pending" /\ net.heard["h"] = <<>>
      /\ <<>> \in Seq(Events) /\ <<>> \in Seq(Items) /\ Host \in Contexts
  BY <1>0, Fields, EndsOfWrappers, EmptySeq DEF Good, EndInv, ModeInv, Contexts
<1>2. /\ v \in Sockets /\ v.mode = "pending" /\ v.ctx = Host /\ ~v.released /\ v.pump = <<>>
      /\ v.pending = b.pending
  BY <1>0, <1>1 DEF Sockets
<1>3. /\ z \in Sockets /\ z.mode = "pending" /\ z.ctx = Host /\ z.released /\ z.pump = b.pump
      /\ z.pending = <<>>
  BY <1>0, <1>1 DEF Sockets
<1> HIDE DEF v, z
<1>4. t = [net EXCEPT !.used = TRUE, !.sock = sock, !.receiver = receiver]
  BY <1>0 DEF States
<1>5. /\ sock \in [Wrappers -> Sockets] /\ sock["h"] = v /\ sock["b"] = z
      /\ sock["a"] = net.sock["a"]
      /\ receiver \in [Ends -> Wrappers] /\ receiver["a"] = net.receiver["a"] /\ receiver["b"] = "h"
  BY <1>1, <1>2, <1>3, EndsOfWrappers
<1> HIDE DEF sock, receiver, t
<1>6. /\ t \in States /\ t.sock = sock /\ t.receiver = receiver
      /\ t.sentClose = net.sentClose /\ t.meta = net.meta /\ t.listed = net.listed
      /\ t.mirror = net.mirror /\ t.gen = net.gen /\ t.aborted = net.aborted
      /\ t.queue = net.queue /\ t.slice = net.slice /\ t.ends = net.ends
      /\ t.heard = net.heard
  BY <1>0, <1>4, <1>5 DEF States
<1>7. \A g \in Gens : \A i \in 1..Len(net.queue[g]) :
        net.queue[g][i].at = "a" /\ net.sock["a"].mode # "pending"
        /\ (net.sock["a"].ctx = g \/ net.aborted[g])
  BY <1>0, <1>1, QueuedEvents DEF Good, ModeInv, Wrappers
<1>8. GenInv(t)
  <2>1. net.gen \in Nat /\ 0 <= net.gen
    <3>1. net.gen \in Gens
      BY <1>0, Fields
    <3>2. MaxGens \in Nat
      BY Constants
    <3> HIDE DEF b
    <3> QED
      BY <3>1, <3>2 DEF Gens
  <2>2. \A w \in Wrappers : t.sock[w].ctx = Host \/ t.sock[w] = net.sock[w]
    BY <1>2, <1>3, <1>5, <1>6 DEF Wrappers
  <2>3. \A w \in Wrappers : t.sock[w].ctx <= t.gen
    BY <1>0, <1>6, <2>1, <2>2, Constants DEF Good, GenInv
  <2> QED
    BY <1>0, <1>6, <2>3 DEF Good, GenInv
<1>9. EndInv(t)
  BY <1>0, <1>2, <1>3, <1>5, <1>6 DEF Good, EndInv
<1>10. ModeInv(t)
  <2>1. \A w \in Wrappers :
          /\ t.sock[w].mode = "hibernatable" => w = "a" /\ t.sock[w].ctx = t.meta.accepted
          /\ t.sock[w].mode # "pending" => t.sock[w].pending = <<>>
          /\ t.sock[w].mode = "pending" => t.heard[w] = <<>>
          /\ t.sock[w].ctx # Host =>
               \A i \in 1..Len(t.sock[w].pending) : t.sock[w].pending[i].at = w
    <3> SUFFICES ASSUME NEW w \in Wrappers
                 PROVE  /\ t.sock[w].mode = "hibernatable" => w = "a" /\ t.sock[w].ctx = t.meta.accepted
                        /\ t.sock[w].mode # "pending" => t.sock[w].pending = <<>>
                        /\ t.sock[w].mode = "pending" => t.heard[w] = <<>>
                        /\ t.sock[w].ctx # Host =>
                             \A i \in 1..Len(t.sock[w].pending) : t.sock[w].pending[i].at = w
      OBVIOUS
    <3>1. CASE w = "a"
      BY <1>0, <1>5, <1>6, <3>1 DEF Good, ModeInv
    <3>2. CASE w = "b" \/ w = "h"
      BY <1>1, <1>2, <1>3, <1>5, <1>6, <3>2
    <3> QED
      BY <3>1, <3>2 DEF Wrappers
  <2>2. \A g \in Gens : \A i \in 1..Len(t.queue[g]) :
          /\ t.sock[t.queue[g][i].at].mode # "pending"
          /\ t.sock[t.queue[g][i].at].ctx = g \/ t.aborted[g]
    BY <1>5, <1>6, <1>7
  <2> QED
    BY <2>1, <2>2 DEF ModeInv
\* Where an event is heard now, and where it was.
<1>11. \A w \in Wrappers :
         /\ w = "a" => t.sock[w] = net.sock[w] /\ (\A e : Comes(t, w, e) <=> Comes(net, w, e))
         /\ w = "b" => \A e : ~Comes(t, w, e)
         /\ w = "h" => \A e : Comes(t, w, e) => Comes(net, "b", e)
  <2>1. t.sock["a"] = net.sock["a"] /\ \A e : Comes(t, "a", e) <=> Comes(net, "a", e)
    BY <1>5, <1>6 DEF Comes
  <2>2. \A e : ~Comes(t, "b", e)
    BY <1>1, <1>3, <1>5, <1>6 DEF Comes
  <2>3. \A e : Comes(t, "h", e) => Comes(net, "b", e)
    BY <1>1, <1>2, <1>5, <1>6 DEF Comes
  <2> QED
    BY <2>1, <2>2, <2>3
<1>12. DurableInv(t, confirmed)
  <2>1. \A w \in Wrappers : \A i \in 1..Len(t.sock[w].pending) : t.sock[w].pending[i].under <= confirmed
    <3>1. t.sock["a"].pending = net.sock["a"].pending /\ t.sock["b"].pending = <<>>
          /\ t.sock["h"].pending = net.sock["b"].pending
      BY <1>2, <1>3, <1>5, <1>6
    <3> QED
      BY <1>0, <3>1, EndsOfWrappers DEF Good, DurableInv, Wrappers
  <2> QED
    BY <1>0, <1>6, <2>1 DEF Good, DurableInv
<1>13. LineInv(t)
  <2>1. InOrder(<<>>)
    BY DEF InOrder
  <2>2. LineInv(net)
    BY <1>0 DEF Good
  <2>3. /\ t.sock["a"] = net.sock["a"] /\ t.sock["b"].ctx = Host /\ t.sock["b"].pending = <<>>
        /\ t.sock["h"].ctx = Host /\ t.sock["h"].pending = net.sock["b"].pending
    BY <1>2, <1>3, <1>5, <1>6
  <2> QED
    <3> SUFFICES ASSUME NEW w \in Wrappers
                 PROVE  /\ InOrder(t.heard[w]) /\ InOrder(t.sock[w].pending)
                        /\ t.sock[w].ctx # Host =>
                             /\ InOrderAt(t.queue[t.sock[w].ctx], w)
                             /\ \A i \in 1..Len(t.heard[w]), j \in 1..Len(t.queue[t.sock[w].ctx]) :
                                  t.queue[t.sock[w].ctx][j].at = w =>
                                    Before(t.heard[w][i], t.queue[t.sock[w].ctx][j])
      BY DEF LineInv
    <3>1. InOrder(t.heard[w])
      BY <1>6, <2>2 DEF LineInv
    <3>2. CASE w = "a"
      BY <1>6, <2>2, <2>3, <3>2 DEF LineInv
    <3>3. CASE w = "b"
      BY <2>1, <2>3, <3>1, <3>3
    <3>4. CASE w = "h"
      <4>1. InOrder(net.sock["b"].pending)
        BY <2>2, EndsOfWrappers DEF LineInv
      <4> QED
        BY <2>3, <3>1, <3>4, <4>1
    <3> QED
      BY <3>2, <3>3, <3>4 DEF Wrappers
<1>14. MirrorInv(t)
  BY <1>0, <1>5, <1>6 DEF Good, MirrorInv, NoteInv
<1>15. SentInv(t, sent)
  <2> SUFFICES ASSUME NEW w \in Wrappers, NEW e \in Events, Comes(t, w, e)
               PROVE  e.n <= sent /\ (IsClose(e) => t.sentClose[Other[EndOf[w]]])
    BY DEF SentInv
  <2>1. CASE w = "a"
    BY <1>0, <1>6, <1>11, <2>1 DEF Good, SentInv
  <2>2. CASE w = "h"
    BY <1>0, <1>6, <1>11, <2>2, EndsOfWrappers DEF Good, SentInv
  <2> QED
    BY <1>11, <2>1, <2>2 DEF Wrappers
<1>16. LockInv(t) /\ PumpInv(t, sent)
  <2>1. /\ \A w \in {"a", "b"} : t.sock[w].pump = net.sock[w].pump
        /\ t.sock["h"].pump = <<>> /\ t.sock["b"].released /\ t.sock["a"] = net.sock["a"]
    BY <1>2, <1>3, <1>5, <1>6
  <2>2. LockInv(t)
    BY <1>0, <2>1 DEF Good, LockInv, Wrappers
  <2>3. \A e \in Wrappers, f \in Events : Facing(e, "a") /\ Comes(t, e, f) =>
          Facing("b", "a") /\ Comes(net, "b", f)
    BY <1>11, EndsOfWrappers DEF Facing, Wrappers
  <2>4. ASSUME NEW w \in Wrappers, NEW i \in 1..Len(t.sock[w].pump)
        PROVE  LET x == t.sock[w].pump[i] IN
               /\ x.n <= sent
               /\ \A j \in 1..Len(t.sock[w].pump) :
                    i < j /\ x.n > 0 /\ t.sock[w].pump[j].n > 0 => x.n < t.sock[w].pump[j].n
               /\ ~t.sock[w].released /\ x.n > 0 =>
                    \A d \in Wrappers, f \in Events : Facing(d, w) /\ Comes(t, d, f) => f.n < x.n
    <3>1. CASE w = "a"
      BY <1>0, <2>1, <2>3, <2>4, <3>1, EndsOfWrappers DEF Good, PumpInv
    <3>2. CASE w = "b"
      BY <1>0, <2>1, <2>4, <3>2 DEF Good, PumpInv
    <3>3. CASE w = "h"
      BY <2>1, <2>4, <3>3
    <3> QED
      BY <3>1, <3>2, <3>3 DEF Wrappers
  <2> QED
    BY <2>2, <2>4 DEF PumpInv
<1>17. Good(t, confirmed, sent)
  BY <1>6, <1>8, <1>9, <1>10, <1>12, <1>13, <1>14, <1>15, <1>16 DEF Good
<1> QED
  BY <1>0, <1>17, CompleteStep

LEMMA CountersStep == Inv /\ [Next]_vars => Counters'
<1> SUFFICES ASSUME Inv, [Next]_vars PROVE Counters'
  OBVIOUS
<1>1. written \in Nat /\ confirmed \in Nat /\ sent \in Nat /\ notes \in Nat
  BY DEF Inv
<1>2. /\ written' \in {written, written + 1, confirmed}
      /\ confirmed' \in {confirmed, confirmed + 1}
      /\ sent' \in {sent, sent + 1} /\ notes' \in {notes, notes + 1}
  BY DEF Next, Continuation, vars, storage, counters, Pump, RunEvent, Refused, CheckpointEnd,
         Confirms, CommitFails, Starts, Replace, Send, CloseByCode, Accept, Writes,
         SerializeAttachment, AcceptWebSocket, Respond, Aborts, CoupleToHost, HostCloses,
         TransportClosed, HostSends
<1> QED
  BY <1>1, <1>2 DEF Counters

LEMMA NextInv == Inv /\ [Next]_vars => Inv'
<1> SUFFICES ASSUME Inv, [Next]_vars PROVE Inv'
  OBVIOUS
<1>0. Good(net, confirmed, sent) /\ written \in Nat /\ confirmed \in Nat /\ sent \in Nat
  BY DEF Inv
<1>1. Good(net', confirmed', sent')
  <2>1. CASE Continuation
    <3>1. ASSUME NEW w \in Wrappers, Pump(w) PROVE Good(net', confirmed', sent')
      BY <3>1, PumpStep
    <3>2. ASSUME NEW g \in Gens, RunEvent(g) PROVE Good(net', confirmed', sent')
      BY <3>2, RunEventInv
    <3>3. ASSUME NEW g \in Gens, Refused(g) PROVE Good(net', confirmed', sent')
      BY <3>3, RefusedInv
    <3>4. ASSUME CheckpointEnd PROVE Good(net', confirmed', sent')
      BY <3>4, CheckpointEndInv
    <3>5. ASSUME Confirms PROVE Good(net', confirmed', sent')
      <4>1. /\ net' = net /\ sent' = sent /\ confirmed' = confirmed + 1
            /\ confirmed + 1 \in Nat /\ confirmed <= confirmed + 1
        BY <1>0, <3>5 DEF Confirms, counters
      <4> HIDE DEF Inv
      <4>2. \A d \in Nat : confirmed <= d => Good(net, d, sent)
        BY <1>0, Later
      <4> QED
        BY <4>1, <4>2
    <3> QED
      BY <2>1, <3>1, <3>2, <3>3, <3>4, <3>5 DEF Continuation
  <2>2. CASE CommitFails
    BY <2>2, CommitFailsInv
  <2>3. CASE Starts
    BY <2>3, StartsInv
  <2>4. CASE Replace
    BY <2>4, ReplaceInv
  <2>5. ASSUME NEW w \in {"a", "b"}, Send(w) \/ CloseByCode(w)
        PROVE  Good(net', confirmed', sent')
    BY <2>5, SendInv, CloseByCodeInv
  <2>6. ASSUME NEW w \in Wrappers, Accept(w) PROVE Good(net', confirmed', sent')
    BY <2>6, AcceptInv
  <2>7. CASE Writes \/ UNCHANGED vars
    BY <1>0, <2>7 DEF Writes, vars, storage, counters
  <2>8. CASE SerializeAttachment
    BY <2>8, SerializeAttachmentInv
  <2>9. CASE AcceptWebSocket
    BY <2>9, AcceptWebSocketInv
  <2>10. CASE Respond
    BY <2>10, RespondInv
  <2>11. CASE Aborts
    <3>1. net' = Abort(net) /\ confirmed' = confirmed /\ sent' = sent
      BY <2>11 DEF Aborts, storage, counters
    <3> QED
      BY <1>0, <3>1, AbortStep
  <2>12. CASE CoupleToHost
    BY <2>12, CoupleToHostInv
  <2>13. CASE HostCloses
    <3>1. net' = Close(net, "h") /\ confirmed' = confirmed /\ sent' = sent
      BY <2>13 DEF HostCloses, storage, counters
    <3> QED
      BY <1>0, <3>1, HostClosesStep
  <2>14. CASE TransportClosed
    <3>1. net' = Drop(net) /\ confirmed' = confirmed /\ sent' = sent
      BY <2>14 DEF TransportClosed, storage, counters
    <3> QED
      BY <1>0, <3>1, DropStep
  <2>15. ASSUME NEW kind \in {"message", "ping"}, HostSends(kind)
         PROVE  Good(net', confirmed', sent')
    BY <2>15, HostSendsInv
  <2> QED
    BY <2>1, <2>2, <2>3, <2>4, <2>5, <2>6, <2>7, <2>8, <2>9, <2>10, <2>11, <2>12, <2>13,
       <2>14, <2>15 DEF Next
<1>2. Counters'
  BY CountersStep
<1> QED
  BY <1>1, <1>2 DEF Inv, Counters

-----------------------------------------------------------------------------
(***************************************************************************)
(* The theorems.                                                           *)
(***************************************************************************)

LEMMA Invariance == Spec => []Inv
<1>1. Init => Inv
  BY InitInv
<1>2. Inv /\ [Next]_vars => Inv'
  BY NextInv
<1> QED
  BY <1>1, <1>2, PTL DEF Spec

\* The type of the state, for every number of containers: the wrappers, what they keep and
\* what the gates of the containers hold.
THEOREM PairTyping == Spec => [](net \in States)
<1>1. Inv => net \in States
  BY DEF Inv, Good
<1> QED
  BY <1>1, Invariance, PTL

\* A frame leaves through the pump of AcceptedWebSocket.#send() when the output lock that was
\* taken with it is released: whatever a listener of the other half hears, be it kept until
\* accept(), queued at a gate, or on its way when the commit failed, was sent under writes
\* that are confirmed.
THEOREM DurableFrames == Spec => []OnlyDurableIsHeard
<1>1. Inv => OnlyDurableIsHeard
  BY DEF Inv, Good, DurableInv, OnlyDurableIsHeard
<1> QED
  BY <1>1, Invariance, PTL

\* Every path that forgets a socket, of the registry, of a checkpoint or of an aborted actor,
\* comes after its close, and each attachment of a socket that hibernates goes to the host: the
\* mirror of the HibernationMirror has each open socket that a live actor lists, with the last
\* attachment that was serialized since the socket hibernates, be it by a container before this
\* one, and with none exactly when there was none.
THEOREM MirroredSockets == Spec => []ListedIsMirrored
<1>1. Inv => ListedIsMirrored
  BY DEF Inv, Good, MirrorInv, NoteInv, ListedIsMirrored
<1> QED
  BY <1>1, Invariance, PTL

\* However frames, pings, closes and drops of both ends interleave with accept(), with the
\* gates and with the host that takes a half over: the listeners of a half hear the frames in
\* the order in which they were sent, none twice, and nothing after a close.
THEOREM FramesAreHeardInOrder == Spec => []HeardInOrder
<1>1. Inv => HeardInOrder
  <2> SUFFICES ASSUME Inv, NEW w \in Wrappers,
                      NEW i \in 1..Len(net.heard[w]), NEW j \in 1..Len(net.heard[w]), i < j
               PROVE  Before(net.heard[w][i], net.heard[w][j])
    BY DEF HeardInOrder, Before
  <2>1. InOrder(net.heard[w])
    BY DEF Inv, Good, LineInv
  <2> QED
    BY <2>1 DEF InOrder
<1> QED
  BY <1>1, Invariance, PTL

=============================================================================
