---------------------------- MODULE FacetsProofs ----------------------------
(***************************************************************************)
(* Proofs about Facets, for every tree of facets and every bound.          *)
(***************************************************************************)
EXTENDS Facets, FiniteSetTheorems, SequenceTheorems, WellFoundedInduction, TLAPS

(***************************************************************************)
(* The invariant                                                           *)
(***************************************************************************)

\* The operations on one id, the entry for it and its placement: only the first
\* operation is under way, and a placement comes after the teardown of the one before.
HeadOk(op, placement) ==
  \/ op.kind = "abort" /\ op.stage = "done" /\ placement.stage = "absent"
  \/ /\ op.kind = "place"
     /\ \/ op.stage \in {"info", "settling"} /\ placement.stage = "absent"
        \/ op.stage = "starting" /\ placement.stage \in {"loading", "opening"}
        \/ op.stage = "done" /\ placement.stage \in {"absent", "live"}
Failed(q, placement) == q[1].stage = "done" /\ placement.stage = "absent"
Serial(q, entry, placement) ==
  /\ IF q = <<>> THEN placement.stage \in {"absent", "live"} ELSE HeadOk(q[1], placement)
  /\ \A i \in DOMAIN q \ {1} :
       /\ q[i].stage = "start"
       /\ q[i].kind = "place" => q[i - 1].kind = "abort" \/ (i = 2 /\ Failed(q, placement))
  /\ entry = 0 => IF q = <<>> THEN placement.stage = "absent"
                  ELSE q[Len(q)].kind = "abort" \/ (Len(q) = 1 /\ Failed(q, placement))
  /\ entry # 0 => \A i \in DOMAIN q : q[i].kind = "place" /\ q[i].entry = entry => i = Len(q)
SerialInv ==
  \A f \in Facets :
    /\ Serial(ops[f], entries[f], host[f])
    /\ \A i \in DOMAIN ops[f] : ops[f][i].entry <= gets

\* A facet that the index does not know has no storage, and is not placed.
KnownInv ==
  \A f \in Facets \ known :
    /\ storage[f] = {} /\ host[f].stage = "absent"
    /\ \A i \in DOMAIN ops[f] : ops[f][i].kind = "abort"

\* The runs for a facet: only the first is under way, each is for a newer receipt than
\* the one before, and until one is over its receipt was not cleared.
RunsInv ==
  \A f \in Facets : \A i \in DOMAIN runs[f] :
    /\ i > 1 => runs[f][i].stage = "waiting"
    /\ \A j \in DOMAIN runs[f] : i < j => runs[f][i].generation < runs[f][j].generation
    /\ runs[f][i].generation > 0
    /\ runs[f][i].stage # "settled" => runs[f][i].generation <= receipts[f]

\* Each removal belongs to the first run of its facet, and only the first one is under
\* way; while it waits for a start, that start is cancelled or over, and the next one
\* waits for the removal.
QueueInv ==
  /\ boot = "down" => queue = <<>>
  /\ \A i \in DOMAIN queue :
       /\ runs[queue[i].facet] # <<>> /\ runs[queue[i].facet][1].stage = "queued"
       /\ \A j \in DOMAIN queue : queue[i].facet = queue[j].facet => i = j
       /\ Range(queue[i].left) \subseteq queue[i].covered
Withheld(f) ==
  /\ host[f].stage = "absent" \/ host[f].cancelled
  /\ ops[f] # <<>> /\ ops[f][1].stage = "settling" => ops[f][1].wait > 0
PendingInv ==
  \A i \in DOMAIN queue :
    queue[i].pending => i = 1 /\ queue[i].left # <<>> /\ Withheld(queue[i].left[1])

\* What is doomed, or can still write what is.
Dirty(g) == "doomed" \in storage[g] \/ (host[g].stage # "absent" /\ host[g].epoch # epochs[g])

\* The run that may clear the receipt of a has nothing left to erase for g.
Passed(a, g) ==
  \E i \in DOMAIN runs[a] :
    /\ runs[a][i].generation = receipts[a]
    /\ \/ runs[a][i].stage = "removed"
       \/ /\ runs[a][i].stage = "queued"
          /\ \E j \in DOMAIN queue : queue[j].facet = a /\ g \notin Range(queue[j].left)
OnRecord(a, g) == receipts[a] > 0 /\ ~Passed(a, g)
RecordInv ==
  \A g \in Facets : Dirty(g) => \E a \in Facets \cap SelfAndAncestors(g) : OnRecord(a, g)

Inv ==
  /\ TypeOK /\ SerialInv /\ KnownInv /\ RunsInv /\ QueueInv /\ PendingInv /\ RecordInv

-----------------------------------------------------------------------------
(***************************************************************************)
(* Sequences                                                               *)
(***************************************************************************)

\* The first element of a sequence is replaced.
LEMMA HeadReplaced ==
  ASSUME NEW S, NEW q \in Seq(S), q # <<>>, NEW x \in S
  PROVE  LET r == [q EXCEPT ![1] = x] IN
         /\ r \in Seq(S) /\ r # <<>> /\ Len(r) = Len(q) /\ DOMAIN r = DOMAIN q
         /\ r[1] = x /\ \A i \in DOMAIN q \ {1} : r[i] = q[i]
  OBVIOUS

\* The first element of a sequence is taken off.
LEMMA TailOf ==
  ASSUME NEW S, NEW q \in Seq(S), q # <<>>
  PROVE  /\ Tail(q) \in Seq(S) /\ Len(Tail(q)) = Len(q) - 1
         /\ Head(q) = q[1] /\ q[1] \in S /\ 1 \in DOMAIN q /\ DOMAIN q = 1..Len(q)
         /\ DOMAIN Tail(q) = 1..(Len(q) - 1)
         /\ \A i \in DOMAIN Tail(q) : Tail(q)[i] = q[i + 1] /\ i + 1 \in DOMAIN q
  OBVIOUS

\* An element is added to a sequence.
LEMMA AppendOf ==
  ASSUME NEW S, NEW q \in Seq(S), NEW x \in S
  PROVE  LET r == Append(q, x) IN
         /\ r \in Seq(S) /\ r # <<>> /\ Len(r) = Len(q) + 1 /\ DOMAIN r = 1..(Len(q) + 1)
         /\ r[Len(r)] = x /\ DOMAIN q = 1..Len(q) /\ \A i \in DOMAIN q : r[i] = q[i]
  OBVIOUS

\* Each element of a sequence is replaced.
LEMMA EachReplaced ==
  ASSUME NEW S, NEW T, NEW q \in Seq(S), NEW r, r \in [DOMAIN q -> T]
  PROVE  r \in Seq(T) /\ Len(r) = Len(q) /\ DOMAIN r = DOMAIN q
  OBVIOUS

\* What settled() takes the greatest of has a greatest element.
LEMMA GreatestOf ==
  ASSUME NEW n \in Nat, NEW S \in SUBSET (0..n), S # {}
  PROVE  Max(S) \in S /\ \A x \in S : x <= Max(S)
<1> DEFINE T == {y \in 0..n : n - y \in S}
<1>1. T \in SUBSET Nat /\ T # {}
  <2>1. PICK x \in S : TRUE
    OBVIOUS
  <2>2. n - x \in 0..n /\ n - (n - x) = x
    BY <2>1
  <2>3. n - x \in T
    BY <2>1, <2>2
  <2>4. \A y \in T : y \in Nat
    OBVIOUS
  <2> HIDE DEF T
  <2> QED
    BY <2>3, <2>4
<1>2. \E y \in T : \A z \in T : <<z, y>> \notin OpToRel(<, Nat)
  BY <1>1, NatLessThanWellFounded, WFMin
<1>3. PICK y \in T : \A z \in T : <<z, y>> \notin OpToRel(<, Nat)
  BY <1>2
<1>4. \A z \in T : ~(z < y)
  BY <1>1, <1>3 DEF OpToRel
<1>5. n - y \in S /\ \A w \in S : n - y >= w
  <2> SUFFICES ASSUME NEW w \in S PROVE n - y >= w
    OBVIOUS
  <2>1. n - w \in T
    <3>1. n - w \in 0..n /\ n - (n - w) = w
      OBVIOUS
    <3> QED
      BY <3>1
  <2> QED
    BY <1>4, <2>1
<1>6. Max(S) \in S /\ \A w \in S : Max(S) >= w
  BY <1>5, Zenon DEF Max
<1> QED
  BY <1>6
-----------------------------------------------------------------------------
(***************************************************************************)
(* What the actions do to one facet                                        *)
(***************************************************************************)

\* Nothing of a facet's operations changes, or it is torn down; its placement may be
\* stopped, and is when nothing is under way for a facet that is torn down.
Torn(f) ==
  /\ ops'[f] = Append(ops[f], Teardown(f)) /\ entries'[f] = 0
  /\ Idle(f) => host'[f] = Stopped(host[f])
Untorn(f) == ops'[f] = ops[f] /\ entries'[f] = entries[f]
Disturbed(f) == (Torn(f) \/ Untorn(f)) /\ host'[f] \in {host[f], Stopped(host[f])}

LEMMA StoppedType ==
  ASSUME NEW p \in Placements
  PROVE  /\ Stopped(p) \in Placements /\ Absent \in Placements /\ Absent.stage = "absent"
         /\ p.stage = "live" => Stopped(p) = Absent
         /\ p.stage \in {"loading", "opening"} =>
              Stopped(p).stage = p.stage /\ Stopped(p).cancelled /\ Stopped(p).epoch = p.epoch
         /\ p.stage = "absent" => Stopped(p) = p
<1>1. CASE p.stage = "live"
  BY <1>1 DEF Placements, Stopped, Absent
<1>2. CASE p.stage \in {"loading", "opening"}
  <2>1. Stopped(p) = [p EXCEPT !.cancelled = TRUE]
    BY <1>2 DEF Stopped
  <2> QED
    BY <1>2, <2>1 DEF Placements, Absent
<1>3. CASE p.stage = "absent"
  <2>1. Stopped(p) = p
    BY <1>3 DEF Stopped
  <2> QED
    BY <1>3, <2>1 DEF Placements, Absent
<1> QED
  BY <1>1, <1>2, <1>3 DEF Placements

LEMMA TeardownType == ASSUME NEW f \in Facets PROVE Teardown(f) \in Operations
  BY DEF Teardown, Operations

\* abortAll() disturbs facets, and keeps the types.
LEMMA AbortEach ==
  ASSUME TypeOK, NEW Stop, NEW Gone, Abort(Stop, Gone)
  PROVE  /\ \A f \in Facets : Disturbed(f)
         /\ \A f \in Stop \cap Facets : host'[f] = Stopped(host[f])
         /\ entries' \in [Facets -> 0..gets] /\ ops' \in [Facets -> Seq(Operations)]
         /\ host' \in [Facets -> Placements]
<1> DEFINE torn == Gone \cup Below(Stop \cup {f \in Gone : Idle(f)})
<1>1. /\ entries' = [f \in Facets |-> IF f \in torn THEN 0 ELSE entries[f]]
      /\ ops' = [f \in Facets |-> IF f \in torn THEN Append(ops[f], Teardown(f)) ELSE ops[f]]
      /\ host' = [f \in Facets |->
           IF f \in Stop \/ (f \in torn /\ Idle(f)) THEN Stopped(host[f]) ELSE host[f]]
  BY Zenon DEF Abort
<1> HIDE DEF torn
<1>2. \A f \in Facets : Disturbed(f) /\ (f \in Stop => host'[f] = Stopped(host[f]))
  BY <1>1 DEF Disturbed, Torn, Untorn
<1>3. ASSUME NEW f \in Facets
      PROVE  entries'[f] \in 0..gets /\ ops'[f] \in Seq(Operations) /\ host'[f] \in Placements
  <2>1. Disturbed(f) /\ entries[f] \in 0..gets /\ 0 \in 0..gets
        /\ ops[f] \in Seq(Operations) /\ host[f] \in Placements
    BY <1>2, FacetsAssumption DEF TypeOK
  <2>2. Append(ops[f], Teardown(f)) \in Seq(Operations) /\ Stopped(host[f]) \in Placements
    BY <2>1, TeardownType, StoppedType
  <2> QED
    BY <2>1, <2>2 DEF Disturbed, Torn, Untorn
<1> QED
  BY <1>1, <1>2, <1>3

\* The stage of the operation under way changes.
StageChanges(f, stage) ==
  /\ ops'[f] = [ops[f] EXCEPT ![1] = [ops[f][1] EXCEPT !.stage = stage]]
  /\ \A g \in Facets \ {f} : ops'[g] = ops[g]
LEMMA AdvanceEach ==
  ASSUME TypeOK, NEW f \in Facets, ~Idle(f), Advance(f, "done") \/ Advance(f, "starting")
  PROVE  /\ ops' \in [Facets -> Seq(Operations)]
         /\ Advance(f, "done") => StageChanges(f, "done")
         /\ Advance(f, "starting") => StageChanges(f, "starting")
<1>1. ops[f] \in Seq(Operations) /\ ops[f] # <<>> /\ ops[f][1] \in Operations
  BY DEF TypeOK, Idle
<1>2. ASSUME NEW s \in {"done", "starting"}, Advance(f, s)
      PROVE  StageChanges(f, s) /\ ops' \in [Facets -> Seq(Operations)]
  <2> DEFINE op == [ops[f][1] EXCEPT !.stage = s]
  <2>1. op \in Operations
    BY <1>1 DEF Operations
  <2>2. ops' = [ops EXCEPT ![f] = [ops[f] EXCEPT ![1] = op]]
    BY <1>2 DEF Advance
  <2>3. [ops[f] EXCEPT ![1] = op] \in Seq(Operations)
    BY <1>1, <2>1, HeadReplaced
  <2> QED
    BY <2>2, <2>3 DEF StageChanges, TypeOK
<1> QED
  BY <1>2

\* OpEnds: the next operation of f starts, and a teardown among them stops what it should.
Follows(f, stage) ==
  ops'[f] = [Tail(ops[f]) EXCEPT ![1] = [Tail(ops[f])[1] EXCEPT !.stage = stage]]
LEMMA OpEndsEach ==
  ASSUME TypeOK, NEW f \in Facets, OpEnds(f)
  PROVE  /\ ops' \in [Facets -> Seq(Operations)] /\ entries' \in [Facets -> 0..gets]
         /\ host' \in [Facets -> Placements]
         /\ ops[f] # <<>> /\ ops[f][1].stage = "done"
         /\ \A g \in Facets \ {f} : Disturbed(g)
         /\ entries'[f] = entries[f]
         /\ \/ Tail(ops[f]) = <<>> /\ ops'[f] = <<>> /\ host'[f] = host[f]
            \/ /\ Tail(ops[f]) # <<>> /\ Tail(ops[f])[1].kind = "place"
               /\ Follows(f, "info") /\ host'[f] = host[f]
            \/ /\ Tail(ops[f]) # <<>> /\ Tail(ops[f])[1].kind = "abort"
               /\ Follows(f, "done") /\ host'[f] = Stopped(host[f])
<1> DEFINE left == Tail(ops[f])
           torn == Below({f})
<1>1. ops[f] \in Seq(Operations) /\ ops[f] # <<>> /\ ops[f][1].stage = "done"
  BY DEF OpEnds, Idle, Op, TypeOK
<1>2. left \in Seq(Operations) /\ (left # <<>> => Head(left) = left[1] /\ left[1] \in Operations)
  BY <1>1, TailOf
<1>3. f \notin torn
  BY DEF Below
<1>4. ASSUME left = <<>> \/ Head(left).kind = "place"
      PROVE  /\ ops' = [ops EXCEPT ![f] =
                  IF left = <<>> THEN left ELSE [left EXCEPT ![1].stage = "info"]]
             /\ UNCHANGED <<entries, host>>
  BY <1>4, Zenon DEF OpEnds
<1>5. ASSUME ~(left = <<>> \/ Head(left).kind = "place")
      PROVE  /\ entries' = [g \in Facets |-> IF g \in torn THEN 0 ELSE entries[g]]
             /\ ops' = [g \in Facets |->
                  IF g = f THEN [left EXCEPT ![1].stage = "done"]
                  ELSE IF g \in torn THEN Append(ops[g], Teardown(g)) ELSE ops[g]]
             /\ host' = [g \in Facets |->
                  IF g = f \/ (g \in torn /\ Idle(g)) THEN Stopped(host[g]) ELSE host[g]]
  BY <1>5, Zenon DEF OpEnds
<1>6. ASSUME left # <<>>, NEW s \in {"info", "done"}
      PROVE  [left EXCEPT ![1] = [left[1] EXCEPT !.stage = s]] \in Seq(Operations)
  <2>1. [left[1] EXCEPT !.stage = s] \in Operations
    BY <1>2, <1>6 DEF Operations
  <2> QED
    BY <1>2, <1>6, <2>1, HeadReplaced
<1> HIDE DEF torn
<1>7. CASE left = <<>>
  <2>1. ops' = [ops EXCEPT ![f] = <<>>] /\ UNCHANGED <<entries, host>>
    BY <1>4, <1>7
  <2> QED
    BY <1>1, <1>7, <2>1 DEF TypeOK, Disturbed, Untorn
<1>8. CASE left # <<>> /\ Head(left).kind = "place"
  <2>1. /\ ops' = [ops EXCEPT ![f] = [left EXCEPT ![1] = [left[1] EXCEPT !.stage = "info"]]]
        /\ UNCHANGED <<entries, host>>
    BY <1>4, <1>8
  <2> HIDE DEF left
  <2>2. ops' \in [Facets -> Seq(Operations)] /\ \A g \in Facets \ {f} : Disturbed(g)
    BY <1>6, <1>8, <2>1 DEF TypeOK, Disturbed, Untorn
  <2>3. ops'[f] = [left EXCEPT ![1] = [left[1] EXCEPT !.stage = "info"]]
    BY <2>1 DEF TypeOK
  <2> QED
    BY <1>1, <1>2, <1>8, <2>1, <2>2, <2>3 DEF TypeOK, Follows, left
<1>9. CASE left # <<>> /\ Head(left).kind # "place"
  <2>1. left[1].kind = "abort"
    BY <1>2, <1>9 DEF Operations
  <2>2. ops'[f] = [left EXCEPT ![1] = [left[1] EXCEPT !.stage = "done"]]
    BY <1>5, <1>9
  <2>3. entries'[f] = entries[f] /\ host'[f] = Stopped(host[f])
    BY <1>3, <1>5, <1>9
  <2>4. \A g \in Facets \ {f} : Disturbed(g)
    BY <1>5, <1>9 DEF Disturbed, Torn, Untorn
  <2>5. ASSUME NEW g \in Facets
        PROVE  entries'[g] \in 0..gets /\ ops'[g] \in Seq(Operations) /\ host'[g] \in Placements
    <3>1. /\ entries[g] \in 0..gets /\ 0 \in 0..gets
          /\ ops[g] \in Seq(Operations) /\ host[g] \in Placements
      BY FacetsAssumption DEF TypeOK
    <3>2. Append(ops[g], Teardown(g)) \in Seq(Operations) /\ Stopped(host[g]) \in Placements
      BY <3>1, TeardownType, StoppedType
    <3>3. CASE g = f
      BY <1>6, <1>9, <2>2, <2>3, <3>1, <3>2, <3>3
    <3>4. CASE g # f
      BY <2>4, <3>1, <3>2, <3>4 DEF Disturbed, Torn, Untorn
    <3> QED
      BY <3>3, <3>4
  <2>6. /\ ops' \in [Facets -> Seq(Operations)] /\ entries' \in [Facets -> 0..gets]
        /\ host' \in [Facets -> Placements]
    BY <1>5, <1>9, <2>5
  <2> QED
    BY <1>1, <1>9, <2>1, <2>2, <2>3, <2>4, <2>6 DEF Follows
<1> QED
  BY <1>7, <1>8, <1>9

\* The stage of the first run of f changes.
RunStage(f, stage) ==
  /\ runs'[f] = [runs[f] EXCEPT ![1] = [runs[f][1] EXCEPT !.stage = stage]]
  /\ \A g \in Facets \ {f} : runs'[g] = runs[g]
LEMMA RunToEach ==
  ASSUME TypeOK, NEW f \in Facets, runs[f] # <<>>, NEW s \in {"queued", "removed", "settled"},
         RunTo(f, s)
  PROVE  RunStage(f, s) /\ runs' \in [Facets -> Seq(Runs)]
<1> DEFINE run == [runs[f][1] EXCEPT !.stage = s]
<1>1. runs[f] \in Seq(Runs) /\ runs[f][1] \in Runs
  BY DEF TypeOK
<1>2. run \in Runs
  BY <1>1 DEF Runs
<1>3. runs' = [runs EXCEPT ![f] = [runs[f] EXCEPT ![1] = run]]
  BY DEF RunTo
<1>4. [runs[f] EXCEPT ![1] = run] \in Seq(Runs)
  BY <1>1, <1>2, HeadReplaced
<1> QED
  BY <1>3, <1>4 DEF RunStage, TypeOK

\* The first removal goes, and each operation waits for one removal less.
LEMMA DequeueEach ==
  ASSUME TypeOK, queue # <<>>, Dequeue
  PROVE  /\ queue' = Tail(queue) /\ queue' \in Seq(Removals)
         /\ ops' \in [Facets -> Seq(Operations)]
         /\ \A f \in Facets :
              /\ DOMAIN ops'[f] = DOMAIN ops[f] /\ Len(ops'[f]) = Len(ops[f])
              /\ ops'[f] = <<>> <=> ops[f] = <<>>
              /\ \A i \in DOMAIN ops[f] :
                   /\ ops'[f][i].kind = ops[f][i].kind /\ ops'[f][i].stage = ops[f][i].stage
                   /\ ops'[f][i].entry = ops[f][i].entry /\ ops'[f][i].epoch = ops[f][i].epoch
<1> DEFINE Less(op) == [op EXCEPT !.wait = IF @ > 0 THEN @ - 1 ELSE 0]
<1>1. queue' = Tail(queue)
  BY DEF Dequeue
<1>2. queue' \in Seq(Removals)
  BY <1>1 DEF TypeOK
<1>3. ops' = [f \in Facets |-> [i \in DOMAIN ops[f] |-> Less(ops[f][i])]]
  BY DEF Dequeue
<1>4. ASSUME NEW op \in Operations
      PROVE  /\ Less(op) \in Operations
             /\ Less(op).kind = op.kind /\ Less(op).stage = op.stage
             /\ Less(op).entry = op.entry /\ Less(op).epoch = op.epoch
  BY DEF Operations
<1> HIDE DEF Less
<1>5. ASSUME NEW f \in Facets
      PROVE  /\ ops'[f] \in Seq(Operations)
             /\ DOMAIN ops'[f] = DOMAIN ops[f] /\ Len(ops'[f]) = Len(ops[f])
             /\ ops'[f] = <<>> <=> ops[f] = <<>>
             /\ \A i \in DOMAIN ops[f] : ops'[f][i] = Less(ops[f][i]) /\ ops[f][i] \in Operations
  <2>1. ops[f] \in Seq(Operations) /\ \A i \in DOMAIN ops[f] : ops[f][i] \in Operations
    BY DEF TypeOK
  <2>2. ops'[f] = [i \in DOMAIN ops[f] |-> Less(ops[f][i])]
    BY <1>3
  <2>3. ops'[f] \in [DOMAIN ops[f] -> Operations]
    BY <1>4, <2>1, <2>2
  <2>4. ops'[f] \in Seq(Operations) /\ Len(ops'[f]) = Len(ops[f]) /\ DOMAIN ops'[f] = DOMAIN ops[f]
    BY <2>1, <2>3, EachReplaced
  <2> QED
    BY <2>1, <2>2, <2>4
<1> QED
  BY <1>1, <1>2, <1>3, <1>4, <1>5

\* DeleteAndFence: the subtrees are fenced, and a receipt is recorded for each of F.
Subtrees(F) == UNION {{f} \cup Descendants(f) : f \in F}
Fenced(F, g) ==
  /\ epochs'[g] = IF g \in Subtrees(F) THEN epochs[g] + 1 ELSE epochs[g]
  /\ storage'[g] = IF g \in Subtrees(F) /\ storage[g] # {} THEN {"doomed"} ELSE storage[g]
  /\ receipts'[g] = IF g \in F THEN receipts[g] + 1 ELSE receipts[g]
  /\ runs'[g] = IF g \in F /\ ~Covered(g, receipts'[g])
                THEN Append(runs[g], NewRun(receipts'[g], Barrier(g, ops'))) ELSE runs[g]
LEMMA NewRunType ==
  ASSUME NEW n \in Nat, NEW b \in [Facets -> Nat]
  PROVE  NewRun(n, b) \in Runs /\ NewRun(n, b).stage = "waiting" /\ NewRun(n, b).generation = n
  BY DEF NewRun, Runs
LEMMA FenceEach ==
  ASSUME TypeOK, NEW F \in SUBSET Facets, deletes < MaxDeletes, deletes' = deletes + 1,
         ops' \in [Facets -> Seq(Operations)], DeleteAndFence(F)
  PROVE  /\ \A g \in Facets : Fenced(F, g) /\ Barrier(g, ops') \in [Facets -> Nat]
         /\ deletes' \in 0..MaxDeletes
         /\ receipts' \in [Facets -> 0..deletes'] /\ epochs' \in [Facets -> 0..deletes']
         /\ storage' \in [Facets -> SUBSET {"doomed", "kept"}]
         /\ runs' \in [Facets -> Seq(Runs)]
<1>1. deletes \in Nat /\ deletes' \in 0..MaxDeletes
  BY FacetsAssumption DEF TypeOK
<1>2. epochs' = [g \in Facets |-> IF g \in Subtrees(F) THEN epochs[g] + 1 ELSE epochs[g]]
  BY DEF DeleteAndFence, Invalidated, Subtrees
<1>3. storage' = [g \in Facets |->
        IF g \in Subtrees(F) /\ storage[g] # {} THEN {"doomed"} ELSE storage[g]]
  BY DEF DeleteAndFence, Doomed, Subtrees
<1>4. receipts' = [g \in Facets |-> IF g \in F THEN receipts[g] + 1 ELSE receipts[g]]
  BY DEF DeleteAndFence, StartRuns, Recorded
<1>5. runs' = [g \in Facets |->
        IF g \in F /\ ~Covered(g, receipts'[g])
        THEN Append(runs[g], NewRun(receipts'[g], Barrier(g, ops'))) ELSE runs[g]]
  BY DEF DeleteAndFence, StartRuns
<1>6. ASSUME NEW g \in Facets PROVE Barrier(g, ops') \in [Facets -> Nat]
  <2>1. \A t \in Facets : Len(ops'[t]) \in Nat
    OBVIOUS
  <2> QED
    BY <2>1 DEF Barrier
<1>7. ASSUME NEW g \in Facets PROVE Fenced(F, g)
  BY <1>2, <1>3, <1>4, <1>5 DEF Fenced
<1>8. receipts' \in [Facets -> 0..deletes']
  BY <1>1, <1>4 DEF TypeOK
<1>9. epochs' \in [Facets -> 0..deletes']
  BY <1>1, <1>2 DEF TypeOK
<1>10. storage' \in [Facets -> SUBSET {"doomed", "kept"}]
  BY <1>3 DEF TypeOK
<1>11. ASSUME NEW g \in Facets PROVE runs'[g] \in Seq(Runs)
  <2>1. receipts'[g] \in Nat /\ runs[g] \in Seq(Runs)
    BY <1>1, <1>8 DEF TypeOK
  <2>2. NewRun(receipts'[g], Barrier(g, ops')) \in Runs
    BY <1>6, <2>1, NewRunType
  <2>3. Append(runs[g], NewRun(receipts'[g], Barrier(g, ops'))) \in Seq(Runs)
    BY <2>1, <2>2
  <2> QED
    BY <1>5, <2>1, <2>3
<1> QED
  BY <1>1, <1>5, <1>6, <1>7, <1>8, <1>9, <1>10, <1>11

-----------------------------------------------------------------------------
(***************************************************************************)
(* Types                                                                   *)
(***************************************************************************)

LEMMA QueuedForType ==
  ASSUME TypeOK, NEW f \in Facets
  PROVE  /\ QueuedFor(f) \in Nat
         /\ \A i \in DOMAIN queue : f \in queue[i].covered => i <= QueuedFor(f)
<1> DEFINE S == {0} \cup {i \in DOMAIN queue : f \in queue[i].covered}
<1>1. Len(queue) \in Nat /\ DOMAIN queue = 1..Len(queue)
  BY DEF TypeOK
<1>2. S \in SUBSET (0..Len(queue)) /\ S # {}
  BY <1>1
<1> HIDE DEF S
<1>3. Max(S) \in S /\ \A i \in S : i <= Max(S)
  BY <1>1, <1>2, GreatestOf
<1> QED
  BY <1>1, <1>2, <1>3 DEF QueuedFor, S

\* One operation is appended, or the first one changes.
LEMMA OpsOf ==
  ASSUME TypeOK, NEW f \in Facets, NEW op \in Operations
  PROVE  /\ [ops EXCEPT ![f] = Append(@, op)] \in [Facets -> Seq(Operations)]
         /\ ~Idle(f) => ops[f] # <<>> /\ ops[f][1] \in Operations /\ Op(f) = ops[f][1]
<1>1. ops[f] \in Seq(Operations)
  BY DEF TypeOK
<1>2. Append(ops[f], op) \in Seq(Operations)
  BY <1>1
<1> QED
  BY <1>1, <1>2 DEF TypeOK, Idle, Op

LEMMA TypeAtInit == Init => TypeOK
<1> SUFFICES ASSUME Init PROVE TypeOK
  OBVIOUS
<1>1. Absent \in Placements /\ 0 \in 0..0 /\ 0 \in 0..MaxGets /\ 0 \in 0..MaxDeletes
  BY FacetsAssumption DEF Absent, Placements
<1> QED
  BY <1>1 DEF Init, TypeOK, Everywhere

LEMMA TypeOfApplication ==
  ASSUME TypeOK, Application PROVE TypeOK'
<1> USE DEF durable, memory, counters
<1>1. ASSUME NEW f \in Facets, Get(f) PROVE TypeOK'
  <2> DEFINE op == [kind |-> "place", stage |-> IF Idle(f) THEN "info" ELSE "start",
                    entry |-> gets', epoch |-> epochs[f], wait |-> 0]
  <2>1. gets' = gets + 1 /\ gets' \in 0..MaxGets /\ gets' \in Nat /\ 0..gets \subseteq 0..gets'
    BY <1>1, FacetsAssumption DEF Get, TypeOK
  <2>2. epochs[f] \in Nat
    BY FacetsAssumption DEF TypeOK
  <2>3. op \in Operations
    BY <2>1, <2>2 DEF Operations
  <2>4. ops' = [ops EXCEPT ![f] = Append(@, op)]
    BY <1>1 DEF Get
  <2>5. ops' \in [Facets -> Seq(Operations)]
    BY <2>3, <2>4, OpsOf
  <2>6. entries' \in [Facets -> 0..gets']
    BY <1>1, <2>1 DEF Get, TypeOK
  <2> QED
    BY <1>1, <2>1, <2>5, <2>6 DEF Get, TypeOK
<1>2. ASSUME NEW f \in Facets, AbortFacet(f) PROVE TypeOK'
  <2>1. Abort({}, {f})
    BY <1>2 DEF AbortFacet
  <2> QED
    BY <1>2, <2>1, AbortEach DEF AbortFacet, TypeOK
<1>3. ASSUME NEW f \in Facets, DeleteFacet(f) PROVE TypeOK'
  <2>1. Abort({}, IF entries[f] # 0 THEN {f} ELSE {})
    BY <1>3 DEF DeleteFacet
  <2>2. /\ entries' \in [Facets -> 0..gets] /\ ops' \in [Facets -> Seq(Operations)]
        /\ host' \in [Facets -> Placements]
    BY <2>1, AbortEach
  <2>3. deletes < MaxDeletes /\ deletes' = deletes + 1 /\ DeleteAndFence({f})
    BY <1>3 DEF DeleteFacet
  <2> QED
    BY <1>3, <2>2, <2>3, FenceEach DEF DeleteFacet, TypeOK
<1>4. ASSUME NEW f \in Facets, Write(f) PROVE TypeOK'
  BY <1>4 DEF Write, TypeOK
<1>5. ASSUME NEW actor \in Facets \cup {Root}, DeleteAll(actor) PROVE TypeOK'
  <2> DEFINE children == {f \in Facets : Parent[f] = actor}
  <2>1. Abort({}, {f \in children : entries[f] # 0})
    BY <1>5 DEF DeleteAll
  <2>2. /\ entries' \in [Facets -> 0..gets] /\ ops' \in [Facets -> Seq(Operations)]
        /\ host' \in [Facets -> Placements]
    BY <2>1, AbortEach
  <2>3. /\ deletes < MaxDeletes /\ deletes' = deletes + 1 /\ DeleteAndFence(children \cap known)
        /\ children \cap known \in SUBSET Facets
    BY <1>5 DEF DeleteAll
  <2> HIDE DEF children
  <2> QED
    BY <1>5, <2>2, <2>3, FenceEach DEF DeleteAll, TypeOK
<1> QED
  BY <1>1, <1>2, <1>3, <1>4, <1>5 DEF Application

LEMMA HostType ==
  ASSUME TypeOK, NEW f \in Facets
  PROVE  /\ host[f] \in Placements /\ entries[f] \in 0..gets /\ gets \in Nat
         /\ ops[f] \in Seq(Operations)
         /\ [host EXCEPT ![f] = Absent] \in [Facets -> Placements]
         /\ \A stage \in {"opening", "live"} :
              [host EXCEPT ![f].stage = stage] \in [Facets -> Placements]
         /\ [entries EXCEPT ![f] = IF @ = Op(f).entry THEN 0 ELSE @] \in [Facets -> 0..gets]
<1>1. host[f] \in Placements /\ entries[f] \in 0..gets /\ gets \in Nat /\ 0 \in 0..gets
  BY FacetsAssumption DEF TypeOK
<1>2. Absent \in Placements
  BY DEF Absent, Placements
<1>3. \A stage \in {"opening", "live"} : [host[f] EXCEPT !.stage = stage] \in Placements
  BY <1>1 DEF Placements
<1> QED
  BY <1>1, <1>2, <1>3 DEF TypeOK

\* A start that is under way is the first operation of its facet.
LEMMA StartIsFirst ==
  ASSUME TypeOK, SerialInv, NEW f \in Facets, host[f].stage \in {"loading", "opening"}
  PROVE  ~Idle(f) /\ ops[f][1].kind = "place" /\ ops[f][1].stage = "starting"
  BY DEF SerialInv, Serial, HeadOk, Idle

LEMMA TypeOfPlacement ==
  ASSUME TypeOK, SerialInv,
         Placement \/ \E f \in Facets : InfoFails(f) \/ StartThrows(f)
  PROVE  TypeOK'
<1> USE DEF durable, memory, counters
<1>1. ASSUME NEW f \in Facets, InfoReturns(f) PROVE TypeOK'
  <2> DEFINE op == [ops[f][1] EXCEPT !.stage = "settling", !.wait = QueuedFor(f)]
  <2>1. ops[f] # <<>> /\ ops[f] \in Seq(Operations) /\ ops[f][1] \in Operations
    BY <1>1 DEF InfoReturns, OpAt, Idle, TypeOK
  <2>2. op \in Operations
    BY <2>1, QueuedForType DEF Operations
  <2>3. ops' = [ops EXCEPT ![f] = [ops[f] EXCEPT ![1] = op]]
    BY <1>1, <2>1 DEF InfoReturns, TypeOK, Operations
  <2>4. [ops[f] EXCEPT ![1] = op] \in Seq(Operations)
    BY <2>1, <2>2, HeadReplaced
  <2>5. ops' \in [Facets -> Seq(Operations)]
    BY <2>3, <2>4 DEF TypeOK
  <2> QED
    BY <1>1, <2>5 DEF InfoReturns, TypeOK
<1>2. ASSUME NEW f \in Facets, InfoFails(f) \/ PlaceStale(f) PROVE TypeOK'
  <2>1. ~Idle(f) /\ Advance(f, "done") /\ Forget(f)
    BY <1>2 DEF InfoFails, PlaceStale, Settled, OpAt
  <2> QED
    BY <1>2, <2>1, AdvanceEach, HostType DEF InfoFails, PlaceStale, Forget, TypeOK
<1>3. ASSUME NEW f \in Facets, Place(f) PROVE TypeOK'
  <2>1. ~Idle(f) /\ Advance(f, "starting")
    BY <1>3 DEF Place, Settled, OpAt
  <2>2. Op(f).epoch \in Nat
    BY <2>1, OpsOf, TeardownType DEF Operations
  <2>3. [stage |-> "loading", cancelled |-> FALSE, epoch |-> Op(f).epoch] \in Placements
    BY <2>2 DEF Placements
  <2>4. host' \in [Facets -> Placements]
    BY <1>3, <2>3 DEF Place, TypeOK
  <2> QED
    BY <1>3, <2>1, <2>4, AdvanceEach DEF Place, TypeOK
<1>4. ASSUME NEW f \in Facets, Loaded(f) PROVE TypeOK'
  BY <1>4, HostType DEF Loaded, TypeOK
<1>5. ASSUME NEW f \in Facets, Started(f), ~Idle(f) PROVE TypeOK'
  <2>1. Advance(f, "done") /\ host' \in [Facets -> Placements]
    BY <1>5, HostType DEF Started
  <2> QED
    BY <1>5, <2>1, AdvanceEach DEF Started, TypeOK
<1>6. ASSUME NEW f \in Facets, StartFails(f), ~Idle(f) PROVE TypeOK'
  <2>1. Advance(f, "done") /\ host' \in [Facets -> Placements] /\ Forget(f)
    BY <1>6, HostType DEF StartFails
  <2> QED
    BY <1>6, <2>1, AdvanceEach, HostType, SMTT(30) DEF StartFails, Forget, TypeOK
<1>7. ASSUME NEW f \in Facets, OpEnds(f) PROVE TypeOK'
  <2>1. ASSUME NEW g \in Facets
        PROVE  [i \in DOMAIN runs[g] |-> [runs[g][i] EXCEPT !.barrier = Settle(@, f)]] \in Seq(Runs)
    <3>1. runs[g] \in Seq(Runs) /\ \A i \in DOMAIN runs[g] : runs[g][i] \in Runs
      BY DEF TypeOK
    <3>2. ASSUME NEW i \in DOMAIN runs[g]
          PROVE  [runs[g][i] EXCEPT !.barrier = Settle(@, f)] \in Runs
      <4>1. runs[g][i].barrier \in [Facets -> Nat]
        BY <3>1 DEF Runs
      <4>2. Settle(runs[g][i].barrier, f) \in [Facets -> Nat]
        BY <4>1 DEF Settle
      <4> QED
        BY <3>1, <4>2 DEF Runs
    <3> QED
      BY <3>1, <3>2, EachReplaced
  <2>2. runs' \in [Facets -> Seq(Runs)]
    BY <1>7, <2>1 DEF OpEnds
  <2> QED
    BY <1>7, <2>2, OpEndsEach DEF OpEnds, TypeOK
<1>8. ASSUME NEW f \in Facets, Started(f) PROVE ~Idle(f)
  BY <1>8, StartIsFirst DEF Started
<1>9. ASSUME NEW f \in Facets, StartCancelled(f) \/ StartThrows(f) PROVE StartFails(f) /\ ~Idle(f)
  BY <1>9, StartIsFirst DEF StartCancelled, StartThrows, StartFails
<1> QED
  BY <1>1, <1>2, <1>3, <1>4, <1>5, <1>6, <1>7, <1>8, <1>9, Zenon DEF Placement

\* The removal under way, and what it erases next.
LEMMA RemovalType ==
  ASSUME TypeOK, queue # <<>>
  PROVE  /\ Removal = queue[1] /\ queue[1] \in Removals /\ 1 \in DOMAIN queue
         /\ DOMAIN queue = 1..Len(queue)
         /\ Removal.facet \in Facets /\ Removal.left \in Seq(Facets)
         /\ Removal.covered \subseteq Facets
         /\ Removal.left # <<>> => Target = Removal.left[1] /\ Target \in Facets
<1>1. queue \in Seq(Removals) /\ Removal = queue[1] /\ queue[1] \in Removals
  BY DEF TypeOK, Removal
<1>2. Removal.facet \in Facets /\ Removal.left \in Seq(Facets) /\ Removal.covered \subseteq Facets
  BY <1>1 DEF Removals
<1>3. Removal.left # <<>> => Target = Removal.left[1] /\ Target \in Facets
  BY <1>2 DEF Target
<1> QED
  BY <1>1, <1>2, <1>3

\* Only the first removal changes.
HeadChanges(next) ==
  /\ next \in Removals /\ next.facet = queue[1].facet /\ next.covered = queue[1].covered
  /\ queue' = [queue EXCEPT ![1] = next]
LEMMA AfterHeadChanges ==
  ASSUME TypeOK, queue # <<>>, NEW next, HeadChanges(next)
  PROVE  /\ queue' \in Seq(Removals) /\ DOMAIN queue' = DOMAIN queue /\ queue' # <<>>
         /\ queue'[1] = next /\ \A i \in DOMAIN queue \ {1} : queue'[i] = queue[i]
         /\ \A i \in DOMAIN queue :
              queue'[i].facet = queue[i].facet /\ queue'[i].covered = queue[i].covered
<1>1. queue \in Seq(Removals)
  BY DEF TypeOK
<1>2. /\ queue' \in Seq(Removals) /\ DOMAIN queue' = DOMAIN queue /\ queue' # <<>>
      /\ queue'[1] = next /\ \A i \in DOMAIN queue \ {1} : queue'[i] = queue[i]
  BY <1>1, HeadReplaced DEF HeadChanges
<1>3. ASSUME NEW i \in DOMAIN queue
      PROVE  queue'[i].facet = queue[i].facet /\ queue'[i].covered = queue[i].covered
  <2>1. CASE i = 1
    BY <1>2, <2>1 DEF HeadChanges
  <2>2. CASE i # 1
    BY <1>2, <2>2
  <2> QED
    BY <2>1, <2>2
<1> QED
  BY <1>2, <1>3

Rest == [queue[1] EXCEPT !.left = Tail(@), !.pending = FALSE]
LEMMA EraseEach ==
  ASSUME TypeOK, queue # <<>>, Removal.left # <<>>, Erase
  PROVE  /\ HeadChanges(Rest) /\ Rest.left = Tail(Removal.left) /\ ~Rest.pending
         /\ storage' \in [Facets -> SUBSET {"doomed", "kept"}]
         /\ storage'[Target] = {} /\ \A f \in Facets \ {Target} : storage'[f] = storage[f]
<1>1. Removal = queue[1] /\ queue[1] \in Removals /\ Removal.left \in Seq(Facets) /\ Target \in Facets
  BY RemovalType
<1>2. Tail(queue[1].left) \in Seq(Facets)
  BY <1>1
<1>3. /\ Rest \in Removals /\ Rest.left = Tail(Removal.left) /\ ~Rest.pending
      /\ Rest.facet = queue[1].facet /\ Rest.covered = queue[1].covered
  BY <1>1, <1>2 DEF Rest, Removals
<1>4. queue' = [queue EXCEPT ![1] = Rest]
  BY <1>1 DEF Erase, Rest, TypeOK, Removals
<1>5. storage' = [storage EXCEPT ![Target] = {}]
  BY DEF Erase
<1> QED
  BY <1>1, <1>3, <1>4, <1>5 DEF HeadChanges, TypeOK

Halted == [queue[1] EXCEPT !.pending = TRUE]
LEMMA HaltEach ==
  ASSUME TypeOK, queue # <<>>, queue' = [queue EXCEPT ![1].pending = TRUE]
  PROVE  HeadChanges(Halted) /\ Halted.left = queue[1].left /\ Halted.pending
<1>1. queue[1] \in Removals
  BY RemovalType
<1>2. /\ Halted \in Removals /\ Halted.left = queue[1].left /\ Halted.pending
      /\ Halted.facet = queue[1].facet /\ Halted.covered = queue[1].covered
  BY <1>1 DEF Halted, Removals
<1>3. queue' = [queue EXCEPT ![1] = Halted]
  BY <1>1 DEF Halted, TypeOK, Removals
<1> QED
  BY <1>2, <1>3 DEF HeadChanges

\* A removal is queued for the whole subtree.
Queued(f, removal) ==
  /\ removal \in Removals /\ removal.facet = f /\ ~removal.pending
  /\ removal.covered = {f} \cup Descendants(f) /\ Range(removal.left) = removal.covered
  /\ queue' = Append(queue, removal)
LEMMA QueuedEach ==
  ASSUME TypeOK, NEW f \in Facets, RunQueued(f)
  PROVE  \E removal : Queued(f, removal)
<1> DEFINE F == {f} \cup Descendants(f)
<1>1. PICK order \in RemovalOrders(F) :
        queue' = Append(queue, [facet |-> f, covered |-> F, left |-> order, pending |-> FALSE])
  BY DEF RunQueued
<1> DEFINE removal == [facet |-> f, covered |-> F, left |-> order, pending |-> FALSE]
<1>2. F \subseteq Facets
  BY DEF Descendants, TypeOK
<1>3. IsFiniteSet(F)
  BY <1>2, FacetsAssumption, FS_Subset, Zenon
<1> HIDE DEF F
<1>4. Cardinality(F) \in Nat
  BY <1>3, FS_CardinalityType
<1>5. order \in [1..Cardinality(F) -> F] /\ Range(order) = F
  BY <1>1 DEF RemovalOrders
<1>6. order \in Seq(Facets)
  BY <1>2, <1>4, <1>5
<1>7. removal \in Removals
  BY <1>2, <1>6 DEF Removals
<1>8. /\ removal.facet = f /\ ~removal.pending /\ removal.covered = F
      /\ Range(removal.left) = F
  BY <1>5
<1> HIDE DEF removal
<1>9. Queued(f, removal)
  BY <1>1, <1>7, <1>8 DEF Queued, F, removal
<1> QED
  BY <1>9

LEMMA TypeOfDeletion ==
  ASSUME TypeOK, QueueInv, PendingInv, Deletion \/ RemovalFails \/ Crash \/ Start \/ Recovered
  PROVE  TypeOK'
<1> USE DEF durable, memory, counters
<1>1. ASSUME NEW f \in Facets, RunQueued(f) PROVE TypeOK'
  <2>1. runs[f] # <<>> /\ RunTo(f, "queued")
    BY <1>1 DEF RunQueued, Ready, RunAt
  <2>2. PICK removal : Queued(f, removal)
    BY <1>1, QueuedEach
  <2>3. queue' \in Seq(Removals)
    BY <2>2 DEF Queued, TypeOK
  <2> QED
    BY <1>1, <2>1, <2>3, RunToEach DEF RunQueued, TypeOK
<1>2. ASSUME NEW f \in Facets, RunCleared(f) PROVE TypeOK'
  <2>1. runs[f] # <<>> /\ RunTo(f, "settled")
    BY <1>2 DEF RunCleared, RunAt
  <2>2. receipts' \in [Facets -> 0..deletes]
    BY <1>2, FacetsAssumption DEF RunCleared, TypeOK
  <2> QED
    BY <1>2, <2>1, <2>2, RunToEach DEF RunCleared, TypeOK
<1>3. ASSUME NEW f \in Facets, RunForgotten(f) PROVE TypeOK'
  <2>1. runs[f] # <<>> /\ runs[f] \in Seq(Runs)
    BY <1>3 DEF RunForgotten, RunAt, TypeOK
  <2>2. Tail(runs[f]) \in Seq(Runs)
    BY <2>1
  <2> QED
    BY <1>3, <2>2 DEF RunForgotten, TypeOK
<1>4. CASE TargetAborted
  <2>1. queue # <<>> /\ Removal.left # <<>> /\ Abort({Target}, {})
    BY <1>4 DEF TargetAborted, Removing
  <2>2. /\ entries' \in [Facets -> 0..gets] /\ ops' \in [Facets -> Seq(Operations)]
        /\ host' \in [Facets -> Placements]
    BY <2>1, AbortEach
  <2>3. CASE Starting(Target)
    <3>1. queue' \in Seq(Removals) /\ UNCHANGED storage
      BY <1>4, <2>1, <2>3, HaltEach, AfterHeadChanges DEF TargetAborted
    <3> QED
      BY <1>4, <2>2, <3>1 DEF TargetAborted, TypeOK
  <2>4. CASE ~Starting(Target)
    <3>1. queue' \in Seq(Removals) /\ storage' \in [Facets -> SUBSET {"doomed", "kept"}]
      BY <1>4, <2>1, <2>4, EraseEach, AfterHeadChanges DEF TargetAborted
    <3> QED
      BY <1>4, <2>2, <3>1 DEF TargetAborted, TypeOK
  <2> QED
    BY <2>3, <2>4
<1>5. CASE TargetErased
  <2>1. queue # <<>> /\ Removal.pending /\ Erase
    BY <1>5 DEF TargetErased, Unwound, Removing
  <2>2. Removal.left # <<>>
    BY <2>1, RemovalType DEF PendingInv
  <2> QED
    BY <1>5, <2>1, <2>2, EraseEach, AfterHeadChanges DEF TargetErased, TypeOK
<1>6. ASSUME Removed \/ RemovalFails PROVE TypeOK'
  <2>1. queue # <<>> /\ Dequeue
    BY <1>6 DEF Removed, RemovalFails, Removing, Unwound
  <2>2. Removal.facet \in Facets /\ runs[Removal.facet] # <<>>
    BY <2>1, RemovalType DEF QueueInv
  <2>3. RunTo(Removal.facet, "removed") \/ RunTo(Removal.facet, "settled")
    BY <1>6 DEF Removed, RemovalFails
  <2>4. runs' \in [Facets -> Seq(Runs)]
    BY <2>2, <2>3, RunToEach
  <2> QED
    BY <1>6, <2>1, <2>4, DequeueEach DEF Removed, RemovalFails, TypeOK
<1>7. CASE Crash
  <2>1. Absent \in Placements /\ 0 \in 0..gets /\ 0 \in 0..deletes
    BY FacetsAssumption DEF Absent, Placements, TypeOK
  <2> QED
    BY <1>7, <2>1 DEF Crash, Everywhere, TypeOK
<1>8. CASE Start
  <2>1. ASSUME NEW f \in Facets
        PROVE  <<>> \in Seq(Runs) /\ <<NewRun(receipts[f], [t \in Facets |-> 0])>> \in Seq(Runs)
    <3>1. receipts[f] \in Nat
      BY FacetsAssumption DEF TypeOK
    <3>2. NewRun(receipts[f], [t \in Facets |-> 0]) \in Runs
      BY <3>1, NewRunType
    <3> QED
      BY <3>2
  <2>2. runs' \in [Facets -> Seq(Runs)]
    BY <1>8, <2>1 DEF Start
  <2> QED
    BY <1>8, <2>2 DEF Start, TypeOK
<1>9. CASE Recovered
  BY <1>9 DEF Recovered, TypeOK
<1> QED
  BY <1>1, <1>2, <1>3, <1>4, <1>5, <1>6, <1>7, <1>8, <1>9 DEF Deletion

-----------------------------------------------------------------------------
(***************************************************************************)
(* The operations on one id are serial                                     *)
(***************************************************************************)

SerialOf(f) ==
  Serial(ops[f], entries[f], host[f]) /\ \A i \in DOMAIN ops[f] : ops[f][i].entry <= gets

LEMMA SerialFacts ==
  ASSUME TypeOK, SerialInv, NEW f \in Facets
  PROVE  /\ ops[f] \in Seq(Operations) /\ entries[f] \in 0..gets /\ gets \in Nat
         /\ host[f] \in Placements /\ DOMAIN ops[f] = 1..Len(ops[f])
         /\ \A i \in DOMAIN ops[f] : ops[f][i] \in Operations
         /\ ops[f] # <<>> => ops[f][1] \in Operations /\ Len(ops[f]) >= 1 /\ 1 \in DOMAIN ops[f]
         /\ Serial(ops[f], entries[f], host[f]) /\ \A i \in DOMAIN ops[f] : ops[f][i].entry <= gets
<1>1. ops[f] \in Seq(Operations) /\ entries[f] \in 0..gets /\ gets \in Nat /\ host[f] \in Placements
  BY FacetsAssumption DEF TypeOK
<1> QED
  BY <1>1 DEF SerialInv

\* The placement is stopped while nothing changes in the operations.
LEMMA SerialStopped ==
  ASSUME NEW q, NEW e, NEW h \in Placements, Serial(q, e, h)
  PROVE  Serial(q, e, Stopped(h))
<1>1. CASE h.stage = "live"
  BY <1>1, StoppedType DEF Serial, HeadOk, Failed
<1>2. CASE h.stage # "live"
  <2>1. Stopped(h).stage = h.stage
    BY <1>2, StoppedType DEF Placements
  <2> QED
    BY <2>1 DEF Serial, HeadOk, Failed
<1> QED
  BY <1>1, <1>2

\* A teardown joins the operations.
LEMMA SerialTorn ==
  ASSUME NEW q \in Seq(Operations), NEW e, NEW h \in Placements, NEW p \in Placements,
         Serial(q, e, h), p \in {h, Stopped(h)}, q = <<>> => p = Stopped(h),
         NEW t \in Operations, t.kind = "abort", t.stage = IF q = <<>> THEN "done" ELSE "start"
  PROVE  Serial(Append(q, t), 0, p)
<1> DEFINE r == Append(q, t)
<1>1. /\ r # <<>> /\ Len(r) = Len(q) + 1 /\ DOMAIN r = 1..(Len(q) + 1) /\ Len(q) \in Nat
      /\ r[Len(r)] = t /\ \A i \in DOMAIN q : r[i] = q[i]
  BY AppendOf
<1>2. Serial(q, e, p)
  BY SerialStopped
<1> HIDE DEF r
<1>3. CASE q = <<>>
  <2>1. p.stage = "absent" /\ Len(q) = 0
    BY <1>3, StoppedType DEF Serial, Placements
  <2> QED
    BY <1>1, <1>3, <2>1 DEF Serial, HeadOk, r
<1>4. CASE q # <<>>
  <2>1. Len(q) >= 1 /\ DOMAIN q = 1..Len(q) /\ r[1] = q[1]
    BY <1>1, <1>4
  <2>2. HeadOk(r[1], p)
    BY <1>2, <1>4, <2>1 DEF Serial
  <2>3. ASSUME NEW i \in DOMAIN r \ {1}
        PROVE  /\ r[i].stage = "start"
               /\ r[i].kind = "place" => r[i - 1].kind = "abort" \/ (i = 2 /\ Failed(r, p))
    <3>1. CASE i = Len(q) + 1
      BY <1>1, <1>4, <3>1
    <3>2. CASE i # Len(q) + 1
      <4>1. i \in DOMAIN q \ {1} /\ i - 1 \in DOMAIN q
        BY <1>1, <2>1, <3>2
      <4>2. r[i] = q[i] /\ r[i - 1] = q[i - 1]
        BY <1>1, <4>1
      <4> QED
        BY <1>2, <2>1, <4>1, <4>2 DEF Serial, Failed
    <3> QED
      BY <3>1, <3>2
  <2> QED
    BY <1>1, <2>2, <2>3 DEF Serial, r
<1> QED
  BY <1>3, <1>4

LEMMA SerialDisturbed ==
  ASSUME TypeOK, SerialInv, NEW f \in Facets, Disturbed(f), gets' = gets
  PROVE  SerialOf(f)'
<1>1. /\ ops[f] \in Seq(Operations) /\ host[f] \in Placements /\ Stopped(host[f]) \in Placements
      /\ Serial(ops[f], entries[f], host[f]) /\ \A i \in DOMAIN ops[f] : ops[f][i].entry <= gets
      /\ gets \in Nat
  BY SerialFacts, StoppedType
<1>2. CASE Untorn(f)
  BY <1>1, <1>2, SerialStopped DEF Untorn, Disturbed, SerialOf
<1>3. CASE Torn(f)
  <2> DEFINE t == Teardown(f)
  <2>1. t \in Operations /\ t.kind = "abort" /\ t.entry = 0
        /\ t.stage = IF ops[f] = <<>> THEN "done" ELSE "start"
    BY TeardownType DEF Teardown, Idle
  <2> HIDE DEF t
  <2>2. /\ ops'[f] = Append(ops[f], t) /\ entries'[f] = 0
        /\ host'[f] \in {host[f], Stopped(host[f])}
        /\ ops[f] = <<>> => host'[f] = Stopped(host[f])
    BY <1>3 DEF Torn, Disturbed, Idle, t
  <2>3. Serial(ops'[f], 0, host'[f])
    BY <1>1, <2>1, <2>2, SerialTorn
  <2>4. ASSUME NEW i \in DOMAIN ops'[f] PROVE ops'[f][i].entry <= gets
    <3>1. i \in DOMAIN ops[f] \/ ops'[f][i] = t
      BY <1>1, <2>1, <2>2, AppendOf
    <3>2. i \in DOMAIN ops[f] => ops'[f][i] = ops[f][i]
      BY <1>1, <2>1, <2>2, AppendOf
    <3> QED
      BY <1>1, <2>1, <3>1, <3>2
  <2> QED
    BY <2>2, <2>3, <2>4 DEF SerialOf
<1> QED
  BY <1>2, <1>3 DEF Disturbed

\* The operation under way goes on, while the others wait.
LEMMA SerialGoesOn ==
  ASSUME NEW q \in Seq(Operations), NEW e, NEW h, NEW d, NEW p, NEW op \in Operations,
         q # <<>>, Serial(q, e, h), q[1].kind = "place", op.kind = "place",
         op.entry = q[1].entry, HeadOk(op, p),
         (q[1].stage = "done" /\ h.stage = "absent") => op.stage = "done" /\ p.stage = "absent",
         \/ d = e
         \/ d = 0 /\ e = op.entry /\ e # 0 /\ op.stage = "done" /\ p.stage = "absent"
  PROVE  Serial([q EXCEPT ![1] = op], d, p)
<1> DEFINE r == [q EXCEPT ![1] = op]
<1>1. /\ r \in Seq(Operations) /\ r # <<>> /\ Len(r) = Len(q) /\ DOMAIN r = DOMAIN q
      /\ r[1] = op /\ \A i \in DOMAIN q \ {1} : r[i] = q[i]
      /\ DOMAIN q = 1..Len(q) /\ Len(q) \in Nat /\ Len(q) >= 1
  BY HeadReplaced
<1> HIDE DEF r
<1>2. \A i \in DOMAIN q : r[i].kind = q[i].kind /\ r[i].entry = q[i].entry
  BY <1>1
<1>3. ASSUME NEW i \in DOMAIN r \ {1}
      PROVE  /\ r[i].stage = "start"
             /\ r[i].kind = "place" => r[i - 1].kind = "abort" \/ (i = 2 /\ Failed(r, p))
  <2>1. i - 1 \in DOMAIN q
    BY <1>1
  <2> QED
    BY <1>1, <1>2, <2>1 DEF Serial, Failed
<1>4. ASSUME d = 0
      PROVE  r[Len(r)].kind = "abort" \/ (Len(r) = 1 /\ Failed(r, p))
  <2>1. CASE e = 0
    BY <1>1, <1>2, <1>4, <2>1 DEF Serial, Failed
  <2>2. CASE e # 0
    <3>1. d # e
      BY <1>4, <2>2
    <3>2. e = q[1].entry /\ op.stage = "done" /\ p.stage = "absent"
      BY <3>1
    <3>3. 1 = Len(q)
      BY <1>1, <2>2, <3>2 DEF Serial
    <3> QED
      BY <1>1, <3>2, <3>3 DEF Failed
  <2> QED
    BY <2>1, <2>2
<1>5. ASSUME d # 0, NEW i \in DOMAIN r, r[i].kind = "place", r[i].entry = d PROVE i = Len(r)
  <2>1. d = e
    BY <1>5
  <2> QED
    BY <1>1, <1>2, <1>5, <2>1 DEF Serial
<1> QED
  BY <1>1, <1>3, <1>4, <1>5 DEF Serial, r

\* A placement joins the operations.
LEMMA SerialPlaced ==
  ASSUME NEW q \in Seq(Operations), NEW h \in Placements, Serial(q, 0, h),
         NEW op \in Operations, op.kind = "place", op.entry # 0,
         op.stage = IF q = <<>> THEN "info" ELSE "start",
         \A i \in DOMAIN q : q[i].entry # op.entry
  PROVE  Serial(Append(q, op), op.entry, h)
<1> DEFINE r == Append(q, op)
<1>1. /\ r # <<>> /\ Len(r) = Len(q) + 1 /\ DOMAIN r = 1..(Len(q) + 1) /\ Len(q) \in Nat
      /\ r[Len(r)] = op /\ DOMAIN q = 1..Len(q) /\ \A i \in DOMAIN q : r[i] = q[i]
  BY AppendOf
<1> HIDE DEF r
<1>2. \A i \in DOMAIN r : r[i].entry = op.entry => i = Len(r)
  BY <1>1
<1>3. CASE q = <<>>
  <2>1. h.stage = "absent" /\ Len(q) = 0
    BY <1>3 DEF Serial
  <2> QED
    BY <1>1, <1>2, <1>3, <2>1 DEF Serial, HeadOk, r
<1>4. CASE q # <<>>
  <2>1. Len(q) >= 1 /\ r[1] = q[1] /\ HeadOk(r[1], h)
    BY <1>1, <1>4 DEF Serial
  <2>2. ASSUME NEW i \in DOMAIN r \ {1}
        PROVE  /\ r[i].stage = "start"
               /\ r[i].kind = "place" => r[i - 1].kind = "abort" \/ (i = 2 /\ Failed(r, h))
    <3>1. CASE i = Len(q) + 1
      <4>1. r[i] = op /\ r[i - 1] = q[Len(q)]
        BY <1>1, <2>1, <3>1
      <4>2. q[Len(q)].kind = "abort" \/ (Len(q) = 1 /\ Failed(q, h))
        BY <1>4 DEF Serial
      <4> QED
        BY <1>4, <2>1, <3>1, <4>1, <4>2 DEF Failed
    <3>2. CASE i # Len(q) + 1
      <4>1. i \in DOMAIN q \ {1} /\ i - 1 \in DOMAIN q
        BY <1>1, <2>1, <3>2
      <4>2. r[i] = q[i] /\ r[i - 1] = q[i - 1]
        BY <1>1, <4>1
      <4> QED
        BY <2>1, <4>1, <4>2 DEF Serial, Failed
    <3> QED
      BY <3>1, <3>2
  <2> QED
    BY <1>1, <1>2, <2>1, <2>2 DEF Serial, r
<1> QED
  BY <1>3, <1>4

\* The operation under way is over, and the next one starts.
LEMMA SerialEnds ==
  ASSUME NEW q \in Seq(Operations), q # <<>>, NEW e, NEW h \in Placements, Serial(q, e, h),
         q[1].stage = "done"
  PROVE  /\ Tail(q) = <<>> => Serial(<<>>, e, h)
         /\ \A op \in Operations : Tail(q) # <<>> /\ op.kind = Tail(q)[1].kind
              /\ op.entry = Tail(q)[1].entry =>
              /\ op.kind = "place" /\ op.stage = "info" => Serial([Tail(q) EXCEPT ![1] = op], e, h)
              /\ op.kind = "abort" /\ op.stage = "done" =>
                   Serial([Tail(q) EXCEPT ![1] = op], e, Stopped(h))
<1>1. /\ Tail(q) \in Seq(Operations) /\ Len(Tail(q)) = Len(q) - 1 /\ Len(q) \in Nat /\ Len(q) >= 1
      /\ 1 \in DOMAIN q /\ DOMAIN q = 1..Len(q) /\ DOMAIN Tail(q) = 1..(Len(q) - 1)
      /\ \A i \in DOMAIN Tail(q) : Tail(q)[i] = q[i + 1] /\ i + 1 \in DOMAIN q
  BY TailOf
<1> DEFINE s == Tail(q)
<1> HIDE DEF s
<1>0. s \in Seq(Operations) /\ (s = <<>> <=> Len(s) = 0) /\ Len(s) = Len(q) - 1
  <2>1. s \in Seq(Operations) /\ Len(s) = Len(q) - 1
    BY <1>1 DEF s
  <2> QED
    BY <2>1
<1>2. HeadOk(q[1], h) /\ h.stage \in {"absent", "live"}
  BY DEF Serial, HeadOk
<1>3. ASSUME s = <<>> PROVE Serial(<<>>, e, h)
  <2>1. Len(q) = 1
    BY <1>0, <1>1, <1>3
  <2>2. e = 0 => h.stage = "absent"
    BY <1>2, <2>1 DEF Serial, HeadOk, Failed, Operations
  <2> QED
    BY <1>2, <2>2 DEF Serial
<1>4. ASSUME NEW op \in Operations, s # <<>>, op.kind = s[1].kind,
             op.entry = s[1].entry, NEW p, HeadOk(op, p)
      PROVE  Serial([s EXCEPT ![1] = op], e, p)
  <2> DEFINE r == [s EXCEPT ![1] = op]
  <2>1. /\ r # <<>> /\ Len(r) = Len(q) - 1 /\ DOMAIN r = 1..(Len(q) - 1) /\ Len(q) >= 2
        /\ r[1] = op /\ \A i \in DOMAIN r \ {1} : r[i] = q[i + 1]
    <3>1. s # <<>> /\ Len(s) >= 1 /\ DOMAIN s = 1..(Len(q) - 1)
      BY <1>0, <1>1, <1>4 DEF s
    <3>2. /\ r # <<>> /\ Len(r) = Len(s) /\ DOMAIN r = DOMAIN s
          /\ r[1] = op /\ \A i \in DOMAIN s \ {1} : r[i] = s[i]
      BY <1>0, <3>1, HeadReplaced
    <3>3. \A i \in DOMAIN s : s[i] = q[i + 1]
      BY <1>1 DEF s
    <3> QED
      BY <1>0, <1>1, <3>1, <3>2, <3>3
  <2> HIDE DEF r
  <2>2. \A i \in DOMAIN r : /\ i + 1 \in DOMAIN q \ {1}
                            /\ r[i].kind = q[i + 1].kind /\ r[i].entry = q[i + 1].entry
    BY <1>1, <1>4, <2>1 DEF s
  <2>3. ASSUME NEW i \in DOMAIN r \ {1}
        PROVE  r[i].stage = "start" /\ (r[i].kind = "place" => r[i - 1].kind = "abort")
    <3>1. i - 1 \in DOMAIN r /\ r[i - 1].kind = q[i].kind /\ i + 1 # 2 /\ i + 1 - 1 = i
      BY <2>1, <2>2
    <3>2. q[i + 1].stage = "start" /\ (q[i + 1].kind = "place" => q[i].kind = "abort")
      <4>1. PICK k \in DOMAIN q \ {1} : k = i + 1
        BY <2>2
      <4>2. k - 1 = i /\ k # 2
        BY <2>1, <3>1, <4>1
      <4>3. q[k].stage = "start" /\ (q[k].kind = "place" => q[k - 1].kind = "abort" \/ k = 2)
        BY <4>1 DEF Serial
      <4> QED
        BY <4>1, <4>2, <4>3
    <3> QED
      BY <2>1, <2>2, <3>1, <3>2
  <2>4. e = 0 => r[Len(r)].kind = "abort"
    BY <1>1, <2>1, <2>2 DEF Serial
  <2>5. e # 0 => \A i \in DOMAIN r : r[i].kind = "place" /\ r[i].entry = e => i = Len(r)
    BY <1>1, <2>1, <2>2 DEF Serial
  <2> QED
    BY <1>4, <2>1, <2>3, <2>4, <2>5 DEF Serial, r
<1>5. ASSUME NEW op \in Operations, s # <<>>, op.kind = s[1].kind,
             op.kind = "place", op.stage = "info"
      PROVE  HeadOk(op, h)
  <2>1. 2 \in DOMAIN q \ {1} /\ q[2].kind = "place" /\ 2 - 1 = 1
    BY <1>0, <1>1, <1>5 DEF s
  <2>2. q[1].kind = "abort" \/ Failed(q, h)
    BY <2>1 DEF Serial
  <2> QED
    BY <1>2, <1>5, <2>2 DEF HeadOk, Failed
<1>6. ASSUME NEW op \in Operations, op.kind = "abort", op.stage = "done"
      PROVE  HeadOk(op, Stopped(h))
  BY <1>2, <1>6, StoppedType DEF HeadOk
<1> QED
  BY <1>3, <1>4, <1>5, <1>6 DEF s

\* Only how long the operations wait changes.
LEMMA SerialAlike ==
  ASSUME NEW q \in Seq(Operations), NEW r \in Seq(Operations), NEW e, NEW h, Serial(q, e, h),
         DOMAIN r = DOMAIN q, Len(r) = Len(q), r = <<>> <=> q = <<>>,
         \A i \in DOMAIN q : r[i].kind = q[i].kind /\ r[i].stage = q[i].stage /\ r[i].entry = q[i].entry
  PROVE  Serial(r, e, h)
<1>1. q # <<>> => 1 \in DOMAIN q /\ Len(q) \in DOMAIN q
  OBVIOUS
<1>2. \A i \in DOMAIN q \ {1} : i - 1 \in DOMAIN q
  OBVIOUS
<1>3. /\ IF r = <<>> THEN h.stage \in {"absent", "live"} ELSE HeadOk(r[1], h)
      /\ r # <<>> => (Failed(r, h) <=> Failed(q, h))
  BY <1>1 DEF Serial, HeadOk, Failed
<1>4. \A i \in DOMAIN r \ {1} :
        /\ r[i].stage = "start"
        /\ r[i].kind = "place" => r[i - 1].kind = "abort" \/ (i = 2 /\ Failed(r, h))
  BY <1>2, <1>3 DEF Serial
<1>5. e = 0 => IF r = <<>> THEN h.stage = "absent"
               ELSE r[Len(r)].kind = "abort" \/ (Len(r) = 1 /\ Failed(r, h))
  BY <1>1, <1>3 DEF Serial
<1>6. e # 0 => \A i \in DOMAIN r : r[i].kind = "place" /\ r[i].entry = e => i = Len(r)
  BY DEF Serial
<1> QED
  BY <1>3, <1>4, <1>5, <1>6 DEF Serial

\* Nothing happens to the operations of other facets.
LEMMA SerialElsewhere ==
  ASSUME SerialInv, NEW f \in Facets, gets' = gets, SerialOf(f)',
         \A g \in Facets \ {f} :
           ops'[g] = ops[g] /\ entries'[g] = entries[g] /\ host'[g] = host[g]
  PROVE  SerialInv'
  BY DEF SerialInv, SerialOf

\* An operation that is under way goes on.
LEMMA SerialStep ==
  ASSUME TypeOK, SerialInv, NEW f \in Facets, ops[f] # <<>>, ops[f][1].kind = "place",
         gets' = gets, NEW op \in Operations, ops'[f] = [ops[f] EXCEPT ![1] = op],
         op.kind = "place", op.entry = ops[f][1].entry, HeadOk(op, host'[f]),
         (ops[f][1].stage = "done" /\ host[f].stage = "absent") =>
           op.stage = "done" /\ host'[f].stage = "absent",
         \/ entries'[f] = entries[f]
         \/ /\ entries'[f] = 0 /\ entries[f] = op.entry
            /\ op.stage = "done" /\ host'[f].stage = "absent"
  PROVE  SerialOf(f)'
<1>1. /\ ops[f] \in Seq(Operations) /\ gets \in Nat
      /\ ops[f][1] \in Operations /\ 1 \in DOMAIN ops[f]
      /\ Serial(ops[f], entries[f], host[f]) /\ \A i \in DOMAIN ops[f] : ops[f][i].entry <= gets
  BY SerialFacts
<1>2. Serial(ops'[f], entries'[f], host'[f])
  BY <1>1, SerialGoesOn, SMTT(30)
<1>3. /\ DOMAIN ops'[f] = DOMAIN ops[f] /\ ops'[f][1] = op
      /\ \A i \in DOMAIN ops[f] \ {1} : ops'[f][i] = ops[f][i]
  BY <1>1, HeadReplaced
<1>4. \A i \in DOMAIN ops'[f] : ops'[f][i].entry <= gets
  BY <1>1, <1>3
<1> QED
  BY <1>2, <1>4 DEF SerialOf

LEMMA StageFields ==
  ASSUME NEW op \in Operations, NEW s \in {"start", "info", "settling", "starting", "done"}
  PROVE  LET next == [op EXCEPT !.stage = s] IN
         /\ next \in Operations /\ next.kind = op.kind /\ next.stage = s
         /\ next.entry = op.entry /\ next.epoch = op.epoch /\ next.wait = op.wait
  BY DEF Operations

LEMMA SerialOfPlacement ==
  ASSUME TypeOK, SerialInv,
         Placement \/ \E f \in Facets : InfoFails(f) \/ StartThrows(f)
  PROVE  SerialInv'
<1> USE DEF durable, memory, counters
<1>1. ASSUME NEW f \in Facets, InfoReturns(f) PROVE SerialInv'
  <2> DEFINE op == [ops[f][1] EXCEPT !.stage = "settling", !.wait = QueuedFor(f)]
  <2>1. /\ ops[f] # <<>> /\ ops[f][1] \in Operations
        /\ ops[f][1].kind = "place" /\ ops[f][1].stage = "info"
    BY <1>1, SerialFacts DEF InfoReturns, OpAt, Idle, Op
  <2>2. op \in Operations /\ op.kind = "place" /\ op.entry = ops[f][1].entry /\ op.stage = "settling"
    BY <2>1, QueuedForType DEF Operations
  <2>3. ops' = [ops EXCEPT ![f] = [ops[f] EXCEPT ![1] = op]]
    BY <1>1, <2>1, SerialFacts, ZenonT(60) DEF InfoReturns, TypeOK, Operations
  <2> HIDE DEF op
  <2>4. ops'[f] = [ops[f] EXCEPT ![1] = op] /\ \A g \in Facets \ {f} : ops'[g] = ops[g]
    BY <2>3 DEF TypeOK
  <2>5. HeadOk(op, host[f])
    BY <2>1, <2>2 DEF SerialInv, Serial, HeadOk
  <2>6. UNCHANGED <<entries, host, gets>>
    BY <1>1 DEF InfoReturns
  <2>7. SerialOf(f)'
    BY <2>1, <2>2, <2>4, <2>5, <2>6, SerialStep
  <2> QED
    BY <2>4, <2>6, <2>7, SerialElsewhere
<1>2. ASSUME NEW f \in Facets, ~Idle(f), Op(f).kind = "place",
             \/ Op(f).stage \in {"info", "settling"} /\ host' = host
             \/ host[f].stage \in {"loading", "opening"} /\ host' = [host EXCEPT ![f] = Absent],
             Advance(f, "done"), Forget(f), gets' = gets
      PROVE  SerialInv'
  <2> DEFINE op == [ops[f][1] EXCEPT !.stage = "done"]
  <2>1. ops[f] # <<>> /\ ops[f][1] \in Operations /\ ops[f][1].kind = "place" /\ Op(f) = ops[f][1]
    BY <1>2, SerialFacts DEF Idle, Op
  <2>2. op \in Operations /\ op.kind = "place" /\ op.entry = ops[f][1].entry /\ op.stage = "done"
    BY <2>1, StageFields
  <2>3. ops'[f] = [ops[f] EXCEPT ![1] = op] /\ \A g \in Facets \ {f} : ops'[g] = ops[g]
    BY <1>2, AdvanceEach DEF StageChanges
  <2> HIDE DEF op
  <2>4. host'[f].stage = "absent" /\ \A g \in Facets \ {f} : host'[g] = host[g]
    <3>1. Op(f).stage \in {"info", "settling"} => host[f].stage = "absent"
      BY <2>1 DEF SerialInv, Serial, HeadOk
    <3> QED
      BY <1>2, <3>1, HostType, StoppedType DEF TypeOK
  <2>5. /\ entries'[f] = entries[f] \/ (entries'[f] = 0 /\ entries[f] = op.entry)
        /\ \A g \in Facets \ {f} : entries'[g] = entries[g]
    BY <1>2, <2>1, <2>2 DEF Forget, TypeOK
  <2>6. HeadOk(op, host'[f])
    BY <2>2, <2>4 DEF HeadOk
  <2>7. SerialOf(f)'
    BY <1>2, <2>1, <2>2, <2>3, <2>4, <2>5, <2>6, SerialStep
  <2> QED
    BY <1>2, <2>3, <2>4, <2>5, <2>7, SerialElsewhere
<1>3. ASSUME NEW f \in Facets, Place(f) PROVE SerialInv'
  <2> DEFINE op == [ops[f][1] EXCEPT !.stage = "starting"]
  <2>1. /\ ops[f] # <<>> /\ ops[f][1] \in Operations /\ ops[f][1].kind = "place"
        /\ ops[f][1].stage = "settling" /\ ~Idle(f)
    BY <1>3, SerialFacts DEF Place, Settled, OpAt, Idle, Op
  <2>2. op \in Operations /\ op.kind = "place" /\ op.entry = ops[f][1].entry /\ op.stage = "starting"
    BY <2>1, StageFields
  <2>3. ops'[f] = [ops[f] EXCEPT ![1] = op] /\ \A g \in Facets \ {f} : ops'[g] = ops[g]
    BY <1>3, <2>1, AdvanceEach DEF Place, StageChanges
  <2> HIDE DEF op
  <2>4. host'[f].stage = "loading" /\ \A g \in Facets \ {f} : host'[g] = host[g]
    BY <1>3 DEF Place, TypeOK
  <2>5. UNCHANGED <<entries, gets>>
    BY <1>3 DEF Place
  <2>6. HeadOk(op, host'[f])
    BY <2>2, <2>4 DEF HeadOk
  <2>7. SerialOf(f)'
    BY <2>1, <2>2, <2>3, <2>5, <2>6, SerialStep
  <2> QED
    BY <2>3, <2>4, <2>5, <2>7, SerialElsewhere
<1>4. ASSUME NEW f \in Facets, Loaded(f) PROVE SerialInv'
  <2>1. /\ host[f].stage = "loading" /\ host'[f].stage = "opening"
        /\ \A g \in Facets \ {f} : host'[g] = host[g]
    BY <1>4 DEF Loaded, TypeOK, Placements
  <2>2. UNCHANGED <<ops, entries, gets>>
    BY <1>4 DEF Loaded
  <2>3. SerialOf(f)'
    BY <2>1, <2>2 DEF SerialInv, SerialOf, Serial, HeadOk, Failed
  <2> QED
    BY <2>1, <2>2, <2>3, SerialElsewhere
<1>5. ASSUME NEW f \in Facets, Started(f) PROVE SerialInv'
  <2> DEFINE op == [ops[f][1] EXCEPT !.stage = "done"]
  <2>1. /\ ops[f] # <<>> /\ ops[f][1] \in Operations /\ ops[f][1].kind = "place"
        /\ ops[f][1].stage = "starting" /\ ~Idle(f)
    BY <1>5, StartIsFirst, SerialFacts DEF Started, Idle
  <2>2. op \in Operations /\ op.kind = "place" /\ op.entry = ops[f][1].entry /\ op.stage = "done"
    BY <2>1, StageFields
  <2>3. ops'[f] = [ops[f] EXCEPT ![1] = op] /\ \A g \in Facets \ {f} : ops'[g] = ops[g]
    BY <1>5, <2>1, AdvanceEach DEF Started, StageChanges
  <2> HIDE DEF op
  <2>4. host'[f].stage = "live" /\ \A g \in Facets \ {f} : host'[g] = host[g]
    BY <1>5 DEF Started, TypeOK, Placements
  <2>5. UNCHANGED <<entries, gets>>
    BY <1>5 DEF Started
  <2>6. HeadOk(op, host'[f])
    BY <2>2, <2>4 DEF HeadOk
  <2>7. SerialOf(f)'
    BY <2>1, <2>2, <2>3, <2>5, <2>6, SerialStep
  <2> QED
    BY <2>3, <2>4, <2>5, <2>7, SerialElsewhere
<1>6. ASSUME NEW f \in Facets, OpEnds(f) PROVE SerialInv'
  <2> DEFINE q == ops[f]
  <2>1. gets' = gets /\ q # <<>> /\ q[1].stage = "done" /\ entries'[f] = entries[f]
    BY <1>6, OpEndsEach DEF OpEnds
  <2>2. /\ q \in Seq(Operations) /\ host[f] \in Placements /\ gets \in Nat
        /\ Serial(q, entries[f], host[f]) /\ \A i \in DOMAIN q : q[i].entry <= gets
    BY SerialFacts
  <2>3. ASSUME NEW g \in Facets \ {f} PROVE SerialOf(g)'
    BY <1>6, <2>1, OpEndsEach, SerialDisturbed
  <2>4. ASSUME Tail(q) = <<>> PROVE SerialOf(f)'
    <3>1. ops'[f] = <<>> /\ host'[f] = host[f]
      BY <1>6, <2>4, OpEndsEach
    <3>2. Serial(<<>>, entries[f], host[f])
      BY <2>1, <2>2, <2>4, SerialEnds
    <3>3. \A i \in DOMAIN ops'[f] : ops'[f][i].entry <= gets
      BY <3>1
    <3> HIDE DEF q
    <3> QED
      BY <2>1, <3>1, <3>2, <3>3 DEF SerialOf
  <2>5. ASSUME Tail(q) # <<>>, NEW s \in {"info", "done"}, Follows(f, s),
               \/ s = "info" /\ Tail(q)[1].kind = "place" /\ host'[f] = host[f]
               \/ s = "done" /\ Tail(q)[1].kind = "abort" /\ host'[f] = Stopped(host[f])
        PROVE  SerialOf(f)'
    <3> DEFINE tail == Tail(q)
               op == [tail[1] EXCEPT !.stage = s]
    <3>1. /\ tail \in Seq(Operations) /\ tail[1] \in Operations /\ 1 \in DOMAIN tail
          /\ \A i \in DOMAIN tail : tail[i] = q[i + 1] /\ i + 1 \in DOMAIN q
      <4>1. /\ tail \in Seq(Operations) /\ tail # <<>>
            /\ \A i \in DOMAIN tail : tail[i] = q[i + 1] /\ i + 1 \in DOMAIN q
        BY <2>1, <2>2, <2>5, TailOf
      <4> HIDE DEF tail
      <4> QED
        BY <4>1
    <3>2. op \in Operations /\ op.kind = tail[1].kind /\ op.entry = tail[1].entry /\ op.stage = s
      <4> HIDE DEF tail
      <4>1. s \in {"start", "info", "settling", "starting", "done"} /\ tail[1] \in Operations
        BY <3>1
      <4> QED
        BY <4>1, StageFields, Zenon
    <3>3. ops'[f] = [tail EXCEPT ![1] = op]
      BY <2>5 DEF Follows
    <3>4. Serial(ops'[f], entries[f], host'[f])
      <4> HIDE DEF op
      <4>1. /\ op.kind = "place" /\ op.stage = "info" =>
                 Serial([tail EXCEPT ![1] = op], entries[f], host[f])
            /\ op.kind = "abort" /\ op.stage = "done" =>
                 Serial([tail EXCEPT ![1] = op], entries[f], Stopped(host[f]))
        BY <2>1, <2>2, <2>5, <3>2, SerialEnds
      <4> QED
        BY <2>5, <3>2, <3>3, <4>1
    <3> HIDE DEF op, tail
    <3>5. DOMAIN ops'[f] = DOMAIN tail /\ \A i \in DOMAIN tail : ops'[f][i].entry = tail[i].entry
      BY <3>1, <3>2, <3>3, HeadReplaced
    <3>6. \A i \in DOMAIN ops'[f] : ops'[f][i].entry <= gets
      BY <2>2, <3>1, <3>5
    <3> QED
      BY <2>1, <3>4, <3>6 DEF SerialOf
  <2> HIDE DEF q
  <2>6. SerialOf(f)'
    <3>1. \/ Tail(q) = <<>>
          \/ Tail(q) # <<>> /\ Tail(q)[1].kind = "place" /\ Follows(f, "info") /\ host'[f] = host[f]
          \/ /\ Tail(q) # <<>> /\ Tail(q)[1].kind = "abort" /\ Follows(f, "done")
             /\ host'[f] = Stopped(host[f])
      BY <1>6, OpEndsEach DEF q
    <3> QED
      BY <2>4, <2>5, <3>1, Zenon
  <2> QED
    BY <2>3, <2>6 DEF SerialInv, SerialOf
<1>7. ASSUME NEW f \in Facets, InfoFails(f) \/ PlaceStale(f) PROVE SerialInv'
  BY <1>2, <1>7 DEF InfoFails, PlaceStale, Settled, OpAt
<1>8. ASSUME NEW f \in Facets, StartCancelled(f) \/ StartThrows(f) PROVE SerialInv'
  <2>1. StartFails(f) /\ host[f].stage \in {"loading", "opening"}
    BY <1>8 DEF StartCancelled, StartThrows, StartFails
  <2>2. ~Idle(f) /\ Op(f).kind = "place"
    BY <2>1, StartIsFirst, SerialFacts DEF Idle, Op
  <2> QED
    BY <1>2, <2>1, <2>2 DEF StartFails
<1> QED
  BY <1>1, <1>3, <1>4, <1>5, <1>6, <1>7, <1>8, Zenon DEF Placement

LEMMA SerialOfAbort ==
  ASSUME TypeOK, SerialInv, NEW Stop, NEW Gone, Abort(Stop, Gone), gets' = gets
  PROVE  SerialInv'
<1>1. \A f \in Facets : Disturbed(f)
  BY AbortEach
<1>2. \A f \in Facets : SerialOf(f)'
  BY <1>1, SerialDisturbed
<1> QED
  BY <1>2 DEF SerialInv, SerialOf

LEMMA SerialOfApplication ==
  ASSUME TypeOK, SerialInv, Application PROVE SerialInv'
<1> USE DEF durable, memory, counters
<1>1. ASSUME NEW f \in Facets, Get(f) PROVE SerialInv'
  <2> DEFINE op == [kind |-> "place", stage |-> IF Idle(f) THEN "info" ELSE "start",
                    entry |-> gets', epoch |-> epochs[f], wait |-> 0]
  <2>1. entries[f] = 0 /\ gets' = gets + 1 /\ gets \in Nat
    BY <1>1, SerialFacts DEF Get
  <2>2. op \in Operations
    BY <2>1, FacetsAssumption DEF Operations, TypeOK
  <2>3. op.kind = "place" /\ op.entry = gets' /\ op.stage = IF ops[f] = <<>> THEN "info" ELSE "start"
    BY DEF Idle
  <2>4. ops' = [ops EXCEPT ![f] = Append(@, op)]
    BY <1>1 DEF Get
  <2> HIDE DEF op
  <2>5. ops'[f] = Append(ops[f], op) /\ \A g \in Facets \ {f} : ops'[g] = ops[g]
    BY <2>4 DEF TypeOK
  <2>6. /\ host' = host /\ entries'[f] = gets'
        /\ \A g \in Facets \ {f} : entries'[g] = entries[g]
    BY <1>1 DEF Get, TypeOK
  <2>7. /\ ops[f] \in Seq(Operations) /\ host[f] \in Placements /\ Serial(ops[f], 0, host[f])
        /\ \A i \in DOMAIN ops[f] : ops[f][i].entry <= gets /\ ops[f][i] \in Operations
    BY <2>1, SerialFacts
  <2>8. \A i \in DOMAIN ops[f] : ops[f][i].entry # op.entry /\ ops[f][i].entry <= gets'
    BY <2>1, <2>3, <2>7 DEF Operations
  <2>9. Serial(ops'[f], gets', host[f])
    <3>1. Serial(Append(ops[f], op), op.entry, host[f])
      BY <2>1, <2>2, <2>3, <2>7, <2>8, SerialPlaced
    <3> QED
      BY <2>3, <2>5, <3>1
  <2>10. \A i \in DOMAIN ops'[f] : (i \in DOMAIN ops[f] /\ ops'[f][i] = ops[f][i]) \/ ops'[f][i] = op
    BY <2>2, <2>5, <2>7, AppendOf
  <2>11. SerialOf(f)'
    <3>1. \A i \in DOMAIN ops'[f] : ops'[f][i].entry <= gets'
      BY <2>1, <2>3, <2>8, <2>10
    <3> QED
      BY <2>6, <2>9, <3>1 DEF SerialOf
  <2>12. ASSUME NEW g \in Facets \ {f} PROVE SerialOf(g)'
    <3>1. Serial(ops[g], entries[g], host[g])
      BY SerialFacts
    <3>2. \A i \in DOMAIN ops[g] : ops[g][i].entry <= gets' /\ ops[g][i] \in Operations
      <4>1. \A i \in DOMAIN ops[g] : ops[g][i].entry <= gets /\ ops[g][i] \in Operations
        BY SerialFacts
      <4> QED
        BY <2>1, <4>1 DEF Operations
    <3> QED
      BY <2>5, <2>6, <3>1, <3>2 DEF SerialOf
  <2> QED
    BY <2>11, <2>12 DEF SerialInv, SerialOf
<1>2. ASSUME NEW f \in Facets, AbortFacet(f) PROVE SerialInv'
  <2>1. Abort({}, {f}) /\ gets' = gets
    BY <1>2 DEF AbortFacet
  <2> QED
    BY <2>1, SerialOfAbort
<1>3. ASSUME NEW f \in Facets, DeleteFacet(f) PROVE SerialInv'
  <2>1. Abort({}, IF entries[f] # 0 THEN {f} ELSE {}) /\ gets' = gets
    BY <1>3 DEF DeleteFacet
  <2> QED
    BY <2>1, SerialOfAbort
<1>4. ASSUME NEW f \in Facets, Write(f) PROVE SerialInv'
  BY <1>4 DEF Write, SerialInv
<1>5. ASSUME NEW actor \in Facets \cup {Root}, DeleteAll(actor) PROVE SerialInv'
  <2>1. Abort({}, {f \in {f \in Facets : Parent[f] = actor} : entries[f] # 0}) /\ gets' = gets
    BY <1>5 DEF DeleteAll
  <2> QED
    BY <2>1, SerialOfAbort
<1> QED
  BY <1>1, <1>2, <1>3, <1>4, <1>5 DEF Application

LEMMA SerialOfDeletion ==
  ASSUME TypeOK, SerialInv, Deletion \/ RemovalFails \/ Crash \/ Start \/ Recovered
  PROVE  SerialInv'
<1> USE DEF durable, memory, counters
<1>1. ASSUME NEW f \in Facets, RunQueued(f) \/ RunCleared(f) \/ RunForgotten(f) PROVE SerialInv'
  BY <1>1 DEF RunQueued, RunCleared, RunForgotten, SerialInv
<1>2. CASE TargetAborted
  <2>1. Abort({Target}, {}) /\ gets' = gets
    BY <1>2 DEF TargetAborted
  <2> QED
    BY <2>1, SerialOfAbort
<1>3. CASE TargetErased
  BY <1>3 DEF TargetErased, SerialInv
<1>4. ASSUME Removed \/ RemovalFails PROVE SerialInv'
  <2>1. queue # <<>> /\ Dequeue /\ UNCHANGED <<entries, host, gets>>
    BY <1>4 DEF Removed, RemovalFails, Removing, Unwound
  <2>2. ASSUME NEW f \in Facets PROVE SerialOf(f)'
    <3>1. /\ ops[f] \in Seq(Operations) /\ Serial(ops[f], entries[f], host[f])
          /\ \A i \in DOMAIN ops[f] : ops[f][i].entry <= gets
      BY SerialFacts
    <3>2. /\ ops'[f] \in Seq(Operations) /\ DOMAIN ops'[f] = DOMAIN ops[f]
          /\ Len(ops'[f]) = Len(ops[f]) /\ (ops'[f] = <<>> <=> ops[f] = <<>>)
          /\ \A i \in DOMAIN ops[f] :
               /\ ops'[f][i].kind = ops[f][i].kind /\ ops'[f][i].stage = ops[f][i].stage
               /\ ops'[f][i].entry = ops[f][i].entry
      BY <2>1, DequeueEach
    <3>3. Serial(ops'[f], entries[f], host[f])
      BY <3>1, <3>2, SerialAlike
    <3> QED
      BY <2>1, <3>1, <3>2, <3>3 DEF SerialOf
  <2> QED
    BY <2>2 DEF SerialInv, SerialOf
<1>5. CASE Crash
  BY <1>5 DEF Crash, Everywhere, SerialInv, Serial, Absent
<1>6. CASE Start \/ Recovered
  BY <1>6 DEF Start, Recovered, SerialInv
<1> QED
  BY <1>1, <1>2, <1>3, <1>4, <1>5, <1>6 DEF Deletion

-----------------------------------------------------------------------------
(***************************************************************************)
(* The index                                                               *)
(***************************************************************************)

KnownOf(g) ==
  /\ storage[g] = {} /\ host[g].stage = "absent"
  /\ \A i \in DOMAIN ops[g] : ops[g][i].kind = "abort"

LEMMA KnownDisturbed ==
  ASSUME TypeOK, NEW g \in Facets, KnownOf(g), Disturbed(g), storage'[g] = {}
  PROVE  KnownOf(g)'
<1>1. host[g] \in Placements /\ ops[g] \in Seq(Operations) /\ Teardown(g) \in Operations
  BY TeardownType DEF TypeOK
<1>2. host'[g].stage = "absent"
  BY <1>1, StoppedType DEF KnownOf, Disturbed
<1>3. \A i \in DOMAIN ops'[g] : ops'[g][i].kind = "abort"
  <2>1. CASE Untorn(g)
    BY <2>1 DEF Untorn, KnownOf
  <2>2. CASE Torn(g)
    <3>1. Teardown(g).kind = "abort"
      BY DEF Teardown
    <3>2. \A i \in DOMAIN ops'[g] :
            (i \in DOMAIN ops[g] /\ ops'[g][i] = ops[g][i]) \/ ops'[g][i] = Teardown(g)
      BY <1>1, <2>2, AppendOf DEF Torn
    <3> QED
      BY <3>1, <3>2 DEF KnownOf
  <2> QED
    BY <2>1, <2>2 DEF Disturbed
<1> QED
  BY <1>2, <1>3 DEF KnownOf

\* All operations of a facet are teardowns, so that none is a placement.
LEMMA NotPlaced ==
  ASSUME TypeOK, SerialInv, NEW f \in Facets, KnownOf(f), ops[f] # <<>>
  PROVE  Op(f).kind = "abort"
  BY SerialFacts DEF KnownOf, Op

LEMMA KnownKept ==
  ASSUME TypeOK, SerialInv, KnownInv, QueueInv, PendingInv, Next PROVE KnownInv'
<1> USE DEF durable, memory, counters
<1> SUFFICES ASSUME NEW g \in Facets, g \notin known' PROVE KnownOf(g)'
  BY DEF KnownInv, KnownOf
<1>1. known \subseteq known'
  BY DEF Next, Application, Placement, Deletion, Failure, Get, AbortFacet, DeleteFacet, DeleteAll,
         Write, InfoReturns, InfoFails, PlaceStale, Place, Loaded, Started, StartCancelled,
         StartThrows, StartFails, OpEnds, RunQueued, RunCleared, RunForgotten, TargetAborted,
         TargetErased, Removed, RemovalFails, Crash, Start, Recovered
<1>2. KnownOf(g)
  BY <1>1 DEF KnownInv, KnownOf
<1>3. ASSUME UNCHANGED <<storage, host, ops>> PROVE KnownOf(g)'
  BY <1>2, <1>3 DEF KnownOf
<1>4. ASSUME NEW f \in Facets, f # g, UNCHANGED storage, host'[g] = host[g], ops'[g] = ops[g]
      PROVE  KnownOf(g)'
  BY <1>2, <1>4 DEF KnownOf
<1>5. ASSUME Application PROVE KnownOf(g)'
  <2>1. ASSUME NEW f \in Facets, Get(f) PROVE KnownOf(g)'
    <3>1. f # g
      BY <2>1 DEF Get
    <3> QED
      BY <1>4, <2>1, <3>1 DEF Get, TypeOK
  <2>2. ASSUME NEW f \in Facets, AbortFacet(f) PROVE KnownOf(g)'
    <3>1. Abort({}, {f}) /\ UNCHANGED storage
      BY <2>2 DEF AbortFacet
    <3>2. Disturbed(g)
      BY <3>1, AbortEach
    <3> QED
      BY <1>2, <3>1, <3>2, KnownDisturbed DEF KnownOf
  <2>3. ASSUME NEW Gone, NEW F \in SUBSET Facets, Abort({}, Gone), DeleteAndFence(F),
               deletes < MaxDeletes, deletes' = deletes + 1
        PROVE  KnownOf(g)'
    <3>1. Disturbed(g) /\ ops' \in [Facets -> Seq(Operations)]
      BY <2>3, AbortEach
    <3>2. Fenced(F, g)
      BY <2>3, <3>1, FenceEach
    <3>3. storage'[g] = {}
      BY <1>2, <3>2 DEF Fenced, KnownOf
    <3> QED
      BY <1>2, <3>1, <3>3, KnownDisturbed
  <2>4. ASSUME NEW f \in Facets, DeleteFacet(f) PROVE KnownOf(g)'
    <3>1. /\ Abort({}, IF entries[f] # 0 THEN {f} ELSE {}) /\ DeleteAndFence({f})
          /\ deletes < MaxDeletes /\ deletes' = deletes + 1
      BY <2>4 DEF DeleteFacet
    <3> QED
      BY <2>3, <3>1
  <2>5. ASSUME NEW actor, DeleteAll(actor) PROVE KnownOf(g)'
    <3> DEFINE children == {f \in Facets : Parent[f] = actor}
    <3>1. /\ Abort({}, {f \in children : entries[f] # 0}) /\ DeleteAndFence(children \cap known)
          /\ deletes < MaxDeletes /\ deletes' = deletes + 1 /\ children \cap known \in SUBSET Facets
      BY <2>5 DEF DeleteAll
    <3> HIDE DEF children
    <3> QED
      BY <2>3, <3>1
  <2>6. ASSUME NEW f \in Facets, Write(f) PROVE KnownOf(g)'
    <3>1. f # g /\ UNCHANGED <<host, ops>> /\ storage'[g] = storage[g]
      BY <1>2, <2>6 DEF Write, KnownOf, TypeOK
    <3> QED
      BY <1>2, <3>1 DEF KnownOf
  <2> QED
    BY <1>5, <2>1, <2>2, <2>4, <2>5, <2>6 DEF Application
<1>6. ASSUME Placement \/ \E f \in Facets : InfoFails(f) \/ StartThrows(f) PROVE KnownOf(g)'
  <2>1. ASSUME NEW f \in Facets,
               InfoReturns(f) \/ InfoFails(f) \/ PlaceStale(f) \/ Place(f) \/ Loaded(f) \/ Started(f)
                 \/ StartCancelled(f) \/ StartThrows(f)
        PROVE  KnownOf(g)'
    <3>1. f # g
      <4>1. host[g].stage = "absent" /\ (ops[g] # <<>> => Op(g).kind = "abort")
        BY <1>2, NotPlaced DEF KnownOf
      <4> QED
        BY <2>1, <4>1 DEF InfoReturns, InfoFails, PlaceStale, Place, Loaded, Started, StartCancelled,
             StartThrows, StartFails, Settled, OpAt, Idle
    <3>2. UNCHANGED storage /\ host'[g] = host[g] /\ ops'[g] = ops[g]
      BY <2>1, <3>1 DEF InfoReturns, InfoFails, PlaceStale, Place, Loaded, Started, StartCancelled,
             StartThrows, StartFails, Advance, TypeOK
    <3> QED
      BY <1>4, <3>1, <3>2
  <2>2. ASSUME NEW f \in Facets, OpEnds(f) PROVE KnownOf(g)'
    <3>1. UNCHANGED storage
      BY <2>2 DEF OpEnds
    <3>2. CASE f # g
      BY <1>2, <2>2, <3>1, <3>2, OpEndsEach, KnownDisturbed DEF KnownOf
    <3>3. CASE f = g
      <4> DEFINE tail == Tail(ops[f])
      <4>1. ops[f] \in Seq(Operations) /\ ops[f] # <<>> /\ host[f] \in Placements
        BY <2>2, OpEndsEach DEF TypeOK
      <4>2. host'[f].stage = "absent"
        BY <1>2, <2>2, <3>3, <4>1, OpEndsEach, StoppedType DEF KnownOf
      <4>3. /\ tail \in Seq(Operations)
            /\ \A i \in DOMAIN tail : tail[i] = ops[f][i + 1] /\ i + 1 \in DOMAIN ops[f]
        BY <4>1, TailOf
      <4>4. \A i \in DOMAIN tail : tail[i].kind = "abort" /\ tail[i] \in Operations
        BY <1>2, <3>3, <4>3 DEF KnownOf
      <4>5. CASE ops'[f] = <<>>
        BY <3>1, <3>3, <4>2, <4>5, <1>2 DEF KnownOf
      <4>6. ASSUME NEW s \in {"info", "done"}, tail # <<>>, Follows(f, s) PROVE KnownOf(g)'
        <5> HIDE DEF tail
        <5>1. ops'[f] = [tail EXCEPT ![1] = [tail[1] EXCEPT !.stage = s]]
          BY <4>6 DEF Follows, tail
        <5>2. 1 \in DOMAIN tail /\ tail[1] \in Operations
          BY <4>3, <4>4, <4>6
        <5>3. /\ [tail[1] EXCEPT !.stage = s] \in Operations
              /\ [tail[1] EXCEPT !.stage = s].kind = "abort"
          BY <4>4, <5>2 DEF Operations
        <5>4. \A i \in DOMAIN ops'[f] : ops'[f][i].kind = "abort"
          BY <4>3, <4>4, <4>6, <5>1, <5>2, <5>3, HeadReplaced
        <5> QED
          BY <1>2, <3>1, <3>3, <4>2, <5>4 DEF KnownOf
      <4>7. ops'[f] = <<>> \/ (tail # <<>> /\ (Follows(f, "info") \/ Follows(f, "done")))
        BY <2>2, OpEndsEach
      <4> QED
        BY <4>5, <4>6, <4>7
    <3> QED
      BY <3>2, <3>3
  <2> QED
    BY <1>6, <2>1, <2>2, Zenon DEF Placement
<1>7. ASSUME NEW f \in Facets, RunQueued(f) \/ RunCleared(f) \/ RunForgotten(f) PROVE KnownOf(g)'
  BY <1>3, <1>7 DEF RunQueued, RunCleared, RunForgotten
<1>8. CASE TargetAborted
  <2>1. Abort({Target}, {}) /\ queue # <<>> /\ Removal.left # <<>>
    BY <1>8 DEF TargetAborted, Removing
  <2>2. Disturbed(g)
    BY <2>1, AbortEach
  <2>3. UNCHANGED storage \/ Erase
    BY <1>8 DEF TargetAborted
  <2>4. storage'[g] = {}
    BY <1>2, <2>1, <2>3, EraseEach DEF KnownOf
  <2> QED
    BY <1>2, <2>2, <2>4, KnownDisturbed
<1>9. CASE TargetErased
  <2>1. Erase /\ queue # <<>> /\ Removal.left # <<>>
    BY <1>9, RemovalType DEF TargetErased, Unwound, Removing, PendingInv
  <2>2. storage'[g] = {} /\ UNCHANGED <<host, ops>>
    BY <1>2, <1>9, <2>1, EraseEach DEF KnownOf, TargetErased
  <2> QED
    BY <1>2, <2>2 DEF KnownOf
<1>10. ASSUME Removed \/ RemovalFails PROVE KnownOf(g)'
  <2>1. queue # <<>> /\ Dequeue /\ UNCHANGED <<storage, host>>
    BY <1>10 DEF Removed, RemovalFails, Removing, Unwound
  <2> QED
    BY <1>2, <2>1, DequeueEach DEF KnownOf
<1>11. CASE Crash
  BY <1>2, <1>11 DEF Crash, Everywhere, Absent, KnownOf
<1>12. CASE Start \/ Recovered
  BY <1>3, <1>12 DEF Start, Recovered
<1> QED
  BY <1>5, <1>6, <1>7, <1>8, <1>9, <1>10, <1>11, <1>12, Zenon DEF Next, Deletion, Failure

-----------------------------------------------------------------------------
(***************************************************************************)
(* Runs and removals                                                       *)
(***************************************************************************)

\* What a step does to the receipts, the runs and the queue.
Apart ==
  /\ UNCHANGED <<receipts, queue>> /\ (boot' = "down" => boot = "down")
  /\ \A f \in Facets :
      /\ DOMAIN runs'[f] = DOMAIN runs[f] /\ (runs'[f] = <<>> <=> runs[f] = <<>>)
      /\ \A i \in DOMAIN runs[f] :
           /\ runs'[f][i].generation = runs[f][i].generation
           /\ runs'[f][i].stage = runs[f][i].stage
Fences(F) ==
  /\ UNCHANGED <<boot, queue>>
  /\ \A f \in Facets : Fenced(F, f) /\ Barrier(f, ops') \in [Facets -> Nat]
Queues(f, removal) ==
  /\ boot # "down" /\ runs[f] # <<>> /\ runs[f][1].stage = "waiting" /\ RunStage(f, "queued")
  /\ Queued(f, removal) /\ UNCHANGED <<boot, receipts>>
Erases(next) ==
  /\ queue # <<>> /\ queue[1].left # <<>> /\ HeadChanges(next)
  /\ UNCHANGED <<boot, receipts, runs>>
  /\ \/ next.left = queue[1].left
     \/ /\ next.left = Tail(queue[1].left)
        /\ \E f \in Facets : f = queue[1].left[1] /\ ~Dirty(f)'
Settles(stage) ==
  /\ queue # <<>> /\ queue' = Tail(queue) /\ queue[1].facet \in Facets
  /\ RunStage(queue[1].facet, stage) /\ (stage = "removed" => queue[1].left = <<>>)
  /\ UNCHANGED <<boot, receipts>>

LEMMA FencesOf ==
  ASSUME TypeOK, NEW F \in SUBSET Facets, NEW Gone, Abort({}, Gone), DeleteAndFence(F),
         deletes < MaxDeletes, deletes' = deletes + 1, UNCHANGED <<boot, queue>>
  PROVE  Fences(F)
<1>1. ops' \in [Facets -> Seq(Operations)]
  BY AbortEach
<1> QED
  BY <1>1, FenceEach DEF Fences

LEMMA Effects ==
  ASSUME TypeOK, SerialInv, QueueInv, PendingInv, Next
  PROVE  \/ Apart
         \/ \E F \in SUBSET Facets : Fences(F)
         \/ \E f \in Facets : RunCleared(f) \/ RunForgotten(f) \/ \E removal : Queues(f, removal)
         \/ \E next : Erases(next)
         \/ Settles("removed") \/ Settles("settled")
         \/ Crash \/ Start
<1> USE DEF durable, memory, counters
<1>1. ASSUME NEW f \in Facets,
             Get(f) \/ AbortFacet(f) \/ Write(f) \/ InfoReturns(f) \/ InfoFails(f) \/ PlaceStale(f)
               \/ Place(f) \/ Loaded(f) \/ Started(f) \/ StartCancelled(f) \/ StartThrows(f)
      PROVE  Apart
  BY <1>1 DEF Get, AbortFacet, Write, InfoReturns, InfoFails, PlaceStale, Place, Loaded, Started,
       StartCancelled, StartThrows, StartFails, Apart
<1>2. ASSUME NEW f \in Facets, OpEnds(f) PROVE Apart
  <2>1. UNCHANGED <<boot, receipts, queue>>
    BY <1>2 DEF OpEnds
  <2>2. ASSUME NEW g \in Facets
        PROVE  /\ DOMAIN runs'[g] = DOMAIN runs[g] /\ (runs'[g] = <<>> <=> runs[g] = <<>>)
               /\ \A i \in DOMAIN runs[g] :
                    /\ runs'[g][i].generation = runs[g][i].generation
                    /\ runs'[g][i].stage = runs[g][i].stage
    <3>1. runs'[g] = [i \in DOMAIN runs[g] |-> [runs[g][i] EXCEPT !.barrier = Settle(@, f)]]
      BY <1>2 DEF OpEnds
    <3>2. runs[g] \in Seq(Runs) /\ \A i \in DOMAIN runs[g] : runs[g][i] \in Runs
      BY DEF TypeOK
    <3>3. DOMAIN runs'[g] = DOMAIN runs[g]
      BY <3>1
    <3>4. runs'[g] = <<>> <=> runs[g] = <<>>
      <4>1. runs[g] = <<>> => runs'[g] = <<>>
        BY <3>1
      <4>2. runs[g] # <<>> => 1 \in DOMAIN runs[g]
        BY <3>2
      <4> QED
        BY <3>3, <4>1, <4>2
    <3> QED
      BY <3>1, <3>2, <3>3, <3>4 DEF Runs
  <2> QED
    BY <2>1, <2>2 DEF Apart
<1>3. ASSUME NEW f \in Facets, DeleteFacet(f) PROVE \E F \in SUBSET Facets : Fences(F)
  <2>1. /\ Abort({}, IF entries[f] # 0 THEN {f} ELSE {}) /\ DeleteAndFence({f})
        /\ deletes < MaxDeletes /\ deletes' = deletes + 1 /\ UNCHANGED <<boot, queue>>
    BY <1>3 DEF DeleteFacet
  <2>2. Fences({f})
    BY <2>1, FencesOf
  <2> QED
    BY <2>2
<1>4. ASSUME NEW actor, DeleteAll(actor) PROVE \E F \in SUBSET Facets : Fences(F)
  <2> DEFINE children == {f \in Facets : Parent[f] = actor}
  <2>1. /\ Abort({}, {f \in children : entries[f] # 0}) /\ DeleteAndFence(children \cap known)
        /\ deletes < MaxDeletes /\ deletes' = deletes + 1 /\ UNCHANGED <<boot, queue>>
        /\ children \cap known \in SUBSET Facets
    BY <1>4 DEF DeleteAll
  <2> HIDE DEF children
  <2>2. Fences(children \cap known)
    BY <2>1, FencesOf
  <2> QED
    BY <2>1, <2>2
<1>5. ASSUME NEW f \in Facets, RunQueued(f) PROVE \E removal : Queues(f, removal)
  <2>1. /\ boot # "down" /\ runs[f] # <<>> /\ runs[f][1].stage = "waiting"
        /\ RunTo(f, "queued") /\ UNCHANGED <<boot, receipts>>
    BY <1>5 DEF RunQueued, Ready, RunAt
  <2>2. RunStage(f, "queued")
    BY <2>1, RunToEach
  <2>3. PICK removal : Queued(f, removal)
    BY <1>5, QueuedEach
  <2>4. Queues(f, removal)
    BY <2>1, <2>2, <2>3 DEF Queues
  <2> QED
    BY <2>4
<1>6. ASSUME TargetAborted \/ TargetErased PROVE \E next : Erases(next)
  <2>1. /\ queue # <<>> /\ Removal.left # <<>> /\ Removal = queue[1]
        /\ UNCHANGED <<boot, receipts, runs>>
    BY <1>6, RemovalType DEF TargetAborted, TargetErased, Removing, Unwound, PendingInv
  <2>2. PICK f \in Facets : f = Target /\ f = queue[1].left[1]
    BY <2>1, RemovalType
  <2>3. ASSUME Erase, host'[f].stage = "absent" PROVE \E next : Erases(next)
    <3>1. /\ HeadChanges(Rest) /\ Rest.left = Tail(queue[1].left) /\ storage'[f] = {}
      BY <2>1, <2>2, <2>3, EraseEach
    <3>2. ~Dirty(f)'
      BY <2>3, <3>1 DEF Dirty
    <3>3. Erases(Rest)
      BY <2>1, <2>2, <3>1, <3>2 DEF Erases
    <3> QED
      BY <3>3
  <2>4. CASE TargetErased
    <3>1. Erase /\ Removal.pending /\ ~host[f].cancelled /\ host' = host
      BY <2>2, <2>4 DEF TargetErased, Unwound
    <3>2. Withheld(f)
      BY <2>1, <2>2, <3>1, RemovalType DEF PendingInv
    <3> QED
      BY <2>3, <3>1, <3>2 DEF Withheld
  <2>5. CASE TargetAborted /\ ~Starting(Target)
    <3>1. Erase /\ host'[f] = Stopped(host[f]) /\ host[f] \in Placements
      BY <2>2, <2>5, AbortEach, SerialFacts DEF TargetAborted
    <3>2. host'[f].stage = "absent"
      BY <2>2, <2>5, <3>1, StoppedType DEF Starting, Placements
    <3> QED
      BY <2>3, <3>1, <3>2
  <2>6. CASE TargetAborted /\ Starting(Target)
    <3>1. queue' = [queue EXCEPT ![1].pending = TRUE]
      BY <2>6 DEF TargetAborted
    <3>2. Erases(Halted)
      BY <2>1, <3>1, HaltEach DEF Erases
    <3> QED
      BY <3>2
  <2> QED
    BY <1>6, <2>4, <2>5, <2>6
<1>7. ASSUME Removed \/ RemovalFails PROVE Settles("removed") \/ Settles("settled")
  <2>1. /\ queue # <<>> /\ Dequeue /\ Removal = queue[1] /\ Removal.facet \in Facets
        /\ runs[Removal.facet] # <<>> /\ UNCHANGED <<boot, receipts>>
    BY <1>7, RemovalType DEF Removed, RemovalFails, Removing, Unwound, QueueInv
  <2>2. \/ RunTo(Removal.facet, "removed") /\ queue[1].left = <<>>
        \/ RunTo(Removal.facet, "settled")
    BY <1>7, <2>1 DEF Removed, RemovalFails
  <2>3. \/ RunStage(Removal.facet, "removed") /\ queue[1].left = <<>>
        \/ RunStage(Removal.facet, "settled")
    BY <2>1, <2>2, RunToEach
  <2> QED
    BY <2>1, <2>3, DequeueEach DEF Settles
<1>8. CASE Recovered
  BY <1>8 DEF Recovered, Apart
<1> QED
  BY <1>1, <1>2, <1>3, <1>4, <1>5, <1>6, <1>7, <1>8, Zenon
     DEF Next, Application, Placement, Deletion, Failure

\* RunsInv for one facet.
RunsOk(rs, receipt) ==
  \A i \in DOMAIN rs :
    /\ i > 1 => rs[i].stage = "waiting"
    /\ \A j \in DOMAIN rs : i < j => rs[i].generation < rs[j].generation
    /\ rs[i].generation > 0
    /\ rs[i].stage # "settled" => rs[i].generation <= receipt

LEMMA RunsFacts ==
  ASSUME TypeOK, RunsInv, NEW f \in Facets
  PROVE  /\ runs[f] \in Seq(Runs) /\ receipts[f] \in Nat /\ RunsOk(runs[f], receipts[f])
         /\ DOMAIN runs[f] = 1..Len(runs[f]) /\ Len(runs[f]) \in Nat
         /\ \A i \in DOMAIN runs[f] : runs[f][i] \in Runs /\ runs[f][i].generation \in Nat
         /\ runs[f] # <<>> => 1 \in DOMAIN runs[f] /\ Len(runs[f]) \in DOMAIN runs[f]
<1>1. runs[f] \in Seq(Runs) /\ receipts[f] \in Nat
  BY FacetsAssumption DEF TypeOK
<1>2. \A i \in DOMAIN runs[f] : runs[f][i] \in Runs /\ runs[f][i].generation \in Nat
  <2>1. \A i \in DOMAIN runs[f] : runs[f][i] \in Runs
    BY <1>1
  <2>2. \A run \in Runs : run.generation \in Nat
    BY DEF Runs
  <2> QED
    BY <2>1, <2>2
<1> QED
  BY <1>1, <1>2 DEF RunsInv, RunsOk

LEMMA RunsKept ==
  ASSUME TypeOK, SerialInv, RunsInv, QueueInv, PendingInv, Next, TypeOK' PROVE RunsInv'
<1> SUFFICES ASSUME NEW g \in Facets PROVE RunsOk(runs[g], receipts[g])'
  BY DEF RunsInv, RunsOk
<1> DEFINE rs == runs[g]
           n == receipts[g]
<1>1. /\ rs \in Seq(Runs) /\ n \in Nat /\ RunsOk(rs, n) /\ DOMAIN rs = 1..Len(rs) /\ Len(rs) \in Nat
      /\ \A i \in DOMAIN rs : rs[i] \in Runs /\ rs[i].generation \in Nat
      /\ rs # <<>> => 1 \in DOMAIN rs /\ Len(rs) \in DOMAIN rs
  BY RunsFacts
<1> HIDE DEF rs, n
<1>2. ASSUME runs'[g] = rs, receipts'[g] = n PROVE RunsOk(runs[g], receipts[g])'
  BY <1>1, <1>2
<1>3. CASE Apart
  BY <1>1, <1>3 DEF Apart, RunsOk, rs, n
<1>4. ASSUME NEW F \in SUBSET Facets, Fences(F) PROVE RunsOk(runs[g], receipts[g])'
  <2>1. /\ Fenced(F, g) /\ Barrier(g, ops') \in [Facets -> Nat]
    BY <1>4 DEF Fences
  <2>2. n \in Nat /\ receipts'[g] \in {n, n + 1} /\ (g \in F => receipts'[g] = n + 1)
    BY <1>1, <2>1 DEF Fenced, n
  <2>3. CASE runs'[g] = rs
    BY <1>1, <2>2, <2>3 DEF RunsOk
  <2>4. ASSUME g \in F, ~Covered(g, receipts'[g]),
               runs'[g] = Append(rs, NewRun(receipts'[g], Barrier(g, ops')))
        PROVE  RunsOk(runs[g], receipts[g])'
    <3> DEFINE run == NewRun(receipts'[g], Barrier(g, ops'))
    <3>1. run \in Runs /\ run.stage = "waiting" /\ run.generation = n + 1
      BY <2>1, <2>2, <2>4, NewRunType
    <3> HIDE DEF run
    <3>2. runs'[g] = Append(rs, run) /\ receipts'[g] = n + 1
      BY <2>2, <2>4 DEF run
    <3>3. /\ DOMAIN runs'[g] = 1..(Len(rs) + 1) /\ runs'[g][Len(rs) + 1] = run
          /\ \A i \in DOMAIN rs : runs'[g][i] = rs[i]
      BY <1>1, <3>1, <3>2, AppendOf
    <3>4. \A i \in DOMAIN rs : rs[i].generation < n + 1
      <4>1. rs # <<>> => rs[Len(rs)].generation < n + 1
        <5>1. rs # <<>> => ~(rs[Len(rs)].generation >= n + 1)
          BY <2>4, <3>2 DEF Covered, Active, Last, rs
        <5> QED
          BY <1>1, <5>1
      <4>2. ASSUME NEW i \in DOMAIN rs PROVE rs[i].generation <= rs[Len(rs)].generation
        <5>1. Len(rs) \in DOMAIN rs /\ (i = Len(rs) \/ i < Len(rs))
          BY <1>1
        <5> QED
          BY <1>1, <5>1 DEF RunsOk
      <4> QED
        BY <1>1, <4>1, <4>2
    <3>5. ASSUME NEW i \in DOMAIN runs'[g]
          PROVE  /\ i > 1 => runs'[g][i].stage = "waiting"
                 /\ \A j \in DOMAIN runs'[g] : i < j => runs'[g][i].generation < runs'[g][j].generation
                 /\ runs'[g][i].generation > 0
                 /\ runs'[g][i].stage # "settled" => runs'[g][i].generation <= receipts'[g]
      <4>1. CASE i = Len(rs) + 1
        BY <1>1, <3>1, <3>2, <3>3, <4>1
      <4>2. CASE i \in DOMAIN rs
        <5>1. runs'[g][i] = rs[i] /\ rs[i].generation \in Nat /\ rs[i].generation < n + 1
          BY <1>1, <3>3, <3>4, <4>2
        <5>2. ASSUME NEW j \in DOMAIN runs'[g], i < j
              PROVE  rs[i].generation < runs'[g][j].generation
          <6>1. CASE j \in DOMAIN rs
            BY <1>1, <3>3, <4>2, <5>2, <6>1 DEF RunsOk
          <6>2. CASE j = Len(rs) + 1
            BY <3>1, <3>3, <5>1, <6>2
          <6> QED
            BY <1>1, <3>3, <6>1, <6>2
        <5> QED
          BY <1>1, <3>2, <4>2, <5>1, <5>2 DEF RunsOk
      <4> QED
        BY <1>1, <3>3, <4>1, <4>2
    <3> QED
      BY <3>5 DEF RunsOk
  <2> QED
    BY <2>1, <2>3, <2>4 DEF Fenced, rs
<1>5. ASSUME rs # <<>>, NEW s \in {"queued", "removed", "settled"}, RunStage(g, s),
             receipts'[g] = n \/ (receipts'[g] = 0 /\ rs[1].generation = n /\ s = "settled"),
             s # "settled" => rs[1].stage # "settled"
      PROVE  RunsOk(runs[g], receipts[g])'
  <2> DEFINE run == [rs[1] EXCEPT !.stage = s]
  <2>1. run \in Runs /\ run.stage = s /\ run.generation = rs[1].generation
    BY <1>1, <1>5 DEF Runs
  <2> HIDE DEF run
  <2>2. runs'[g] = [rs EXCEPT ![1] = run]
    BY <1>5 DEF RunStage, rs, run
  <2>3. /\ DOMAIN runs'[g] = DOMAIN rs /\ runs'[g][1] = run
        /\ \A i \in DOMAIN rs \ {1} : runs'[g][i] = rs[i]
    BY <1>1, <1>5, <2>1, <2>2, HeadReplaced
  <2>4. \A i \in DOMAIN rs : runs'[g][i].generation = rs[i].generation
    BY <2>1, <2>3
  <2>5. ASSUME receipts'[g] = 0, rs[1].generation = n, NEW i \in DOMAIN rs \ {1} PROVE FALSE
    <3>1. i > 1 /\ 1 < i /\ 1 \in DOMAIN rs
      BY <1>1, <1>5
    <3>2. rs[1].generation < rs[i].generation /\ rs[i].stage = "waiting"
      BY <1>1, <3>1, <2>5 DEF RunsOk
    <3>3. rs[i].generation <= n /\ rs[i].generation \in Nat
      BY <1>1, <3>2, <2>5 DEF RunsOk
    <3> QED
      BY <1>1, <2>5, <3>2, <3>3
  <2>6. ASSUME NEW i \in DOMAIN runs'[g], runs'[g][i].stage # "settled"
        PROVE  runs'[g][i].generation <= receipts'[g]
    <3>1. i # 1 \/ s # "settled"
      BY <2>1, <2>3, <2>6
    <3>2. receipts'[g] = n
      BY <1>5, <2>3, <2>5, <2>6, <3>1
    <3>3. rs[i].stage # "settled"
      BY <1>5, <2>3, <2>6, <3>1
    <3> QED
      BY <1>1, <2>3, <2>4, <3>2, <3>3 DEF RunsOk
  <2>7. ASSUME NEW i \in DOMAIN runs'[g], i > 1 PROVE runs'[g][i].stage = "waiting"
    BY <1>1, <2>3, <2>7 DEF RunsOk
  <2>8. ASSUME NEW i \in DOMAIN runs'[g], NEW j \in DOMAIN runs'[g], i < j
        PROVE  runs'[g][i].generation < runs'[g][j].generation
    BY <1>1, <2>3, <2>4, <2>8 DEF RunsOk
  <2>9. ASSUME NEW i \in DOMAIN runs'[g] PROVE runs'[g][i].generation > 0
    BY <1>1, <2>3, <2>4 DEF RunsOk
  <2> QED
    BY <2>6, <2>7, <2>8, <2>9 DEF RunsOk
<1>6. ASSUME NEW f \in Facets, NEW removal, Queues(f, removal) PROVE RunsOk(runs[g], receipts[g])'
  <2>1. CASE f = g
    BY <1>5, <1>6, <2>1 DEF Queues, rs, n
  <2>2. CASE f # g
    BY <1>2, <1>6, <2>2 DEF Queues, RunStage, rs, n
  <2> QED
    BY <2>1, <2>2
<1>7. ASSUME NEW next, Erases(next) PROVE RunsOk(runs[g], receipts[g])'
  BY <1>2, <1>7 DEF Erases, rs, n
<1>8. ASSUME NEW s \in {"removed", "settled"}, Settles(s) PROVE RunsOk(runs[g], receipts[g])'
  <2>1. CASE queue[1].facet = g
    <3>1. rs # <<>> /\ rs[1].stage = "queued"
      BY <1>8, <2>1, RemovalType DEF Settles, QueueInv, rs
    <3> QED
      BY <1>5, <1>8, <2>1, <3>1 DEF Settles, n
  <2>2. CASE queue[1].facet # g
    BY <1>2, <1>8, <2>2 DEF Settles, RunStage, rs, n
  <2> QED
    BY <2>1, <2>2
<1>9. ASSUME NEW f \in Facets, RunCleared(f) PROVE RunsOk(runs[g], receipts[g])'
  <2>1. runs[f] # <<>> /\ runs[f][1].stage = "removed" /\ RunStage(f, "settled")
    <3>1. runs[f] # <<>> /\ runs[f][1].stage = "removed" /\ RunTo(f, "settled")
      BY <1>9 DEF RunCleared, RunAt
    <3> QED
      BY <3>1, RunToEach
  <2>2. CASE f = g
    <3>1. receipts'[g] = n \/ (receipts'[g] = 0 /\ rs[1].generation = n)
      BY <1>9, <2>2 DEF RunCleared, Clears, TypeOK, rs, n
    <3> QED
      BY <1>5, <2>1, <2>2, <3>1 DEF rs
  <2>3. CASE f # g
    BY <1>2, <1>9, <2>1, <2>3 DEF RunStage, RunCleared, TypeOK, rs, n
  <2> QED
    BY <2>2, <2>3
<1>10. ASSUME NEW f \in Facets, RunForgotten(f) PROVE RunsOk(runs[g], receipts[g])'
  <2>1. runs[f] # <<>> /\ runs' = [runs EXCEPT ![f] = Tail(@)] /\ receipts' = receipts
    BY <1>10 DEF RunForgotten, RunAt, durable
  <2>2. CASE f = g
    <3>1. runs'[g] = Tail(rs) /\ receipts'[g] = n /\ rs # <<>>
      BY <2>1, <2>2 DEF TypeOK, rs, n
    <3>2. /\ DOMAIN Tail(rs) = 1..(Len(rs) - 1)
          /\ \A i \in DOMAIN Tail(rs) : Tail(rs)[i] = rs[i + 1] /\ i + 1 \in DOMAIN rs
      BY <1>1, <3>1, TailOf
    <3> QED
      BY <1>1, <3>1, <3>2 DEF RunsOk
  <2>3. CASE f # g
    BY <1>2, <2>1, <2>3 DEF TypeOK, rs, n
  <2> QED
    BY <2>2, <2>3
<1>11. CASE Crash
  BY <1>11 DEF Crash, Everywhere, RunsOk
<1>12. CASE Start
  <2>1. runs'[g] = IF n = 0 THEN <<>> ELSE <<NewRun(n, [t \in Facets |-> 0])>>
    BY <1>12 DEF Start, n
  <2>2. receipts'[g] = n
    BY <1>12 DEF Start, durable, n
  <2>3. CASE n = 0
    BY <2>1, <2>3 DEF RunsOk
  <2>4. CASE n # 0
    <3> DEFINE run == NewRun(n, [t \in Facets |-> 0])
    <3>1. run.stage = "waiting" /\ run.generation = n
      BY DEF NewRun
    <3> HIDE DEF run
    <3>2. runs'[g] = <<run>>
      BY <2>1, <2>4 DEF run
    <3> QED
      BY <1>1, <2>2, <2>4, <3>1, <3>2 DEF RunsOk
  <2> QED
    BY <2>3, <2>4
<1> QED
  BY <1>3, <1>4, <1>6, <1>7, <1>8, <1>9, <1>10, <1>11, <1>12, Effects

LEMMA QueueFacts ==
  ASSUME TypeOK, QueueInv
  PROVE  /\ queue \in Seq(Removals) /\ DOMAIN queue = 1..Len(queue) /\ Len(queue) \in Nat
         /\ \A i \in DOMAIN queue :
              /\ queue[i] \in Removals /\ queue[i].facet \in Facets /\ queue[i].left \in Seq(Facets)
              /\ runs[queue[i].facet] # <<>> /\ runs[queue[i].facet][1].stage = "queued"
              /\ \A j \in DOMAIN queue : queue[i].facet = queue[j].facet => i = j
              /\ Range(queue[i].left) \subseteq queue[i].covered
<1>1. queue \in Seq(Removals)
  BY DEF TypeOK
<1>2. \A i \in DOMAIN queue : queue[i] \in Removals
  BY <1>1
<1>3. \A r \in Removals : r.facet \in Facets /\ r.left \in Seq(Facets)
  BY DEF Removals
<1> QED
  BY <1>1, <1>2, <1>3 DEF QueueInv

\* What is left of a removal after a step is part of what was left before.
LEMMA LeftShrinks ==
  ASSUME NEW s \in Seq(Facets), s # <<>>
  PROVE  /\ Range(Tail(s)) \subseteq Range(s) /\ s[1] \in Range(s)
         /\ \A x \in Range(s) : x # s[1] => x \in Range(Tail(s))
<1>1. /\ DOMAIN s = 1..Len(s) /\ DOMAIN Tail(s) = 1..(Len(s) - 1) /\ Len(s) \in Nat /\ 1 \in DOMAIN s
      /\ \A i \in DOMAIN Tail(s) : Tail(s)[i] = s[i + 1] /\ i + 1 \in DOMAIN s
  BY TailOf
<1>2. ASSUME NEW x \in Range(s), x # s[1] PROVE x \in Range(Tail(s))
  <2>1. PICK i \in DOMAIN s : s[i] = x
    BY DEF Range
  <2>2. i # 1 /\ i - 1 \in DOMAIN Tail(s) /\ i - 1 + 1 = i
    BY <1>1, <1>2, <2>1
  <2>3. Tail(s)[i - 1] = x
    BY <1>1, <2>1, <2>2
  <2> QED
    BY <2>2, <2>3 DEF Range
<1> QED
  BY <1>1, <1>2 DEF Range

\* RunStage for the run of a facet.
LEMMA StageOfRun ==
  ASSUME TypeOK, NEW f \in Facets, runs[f] # <<>>, NEW s \in {"queued", "removed", "settled"},
         RunStage(f, s)
  PROVE  /\ runs'[f] # <<>> /\ DOMAIN runs'[f] = DOMAIN runs[f] /\ 1 \in DOMAIN runs[f]
         /\ runs'[f][1].stage = s /\ runs'[f][1].generation = runs[f][1].generation
         /\ \A i \in DOMAIN runs[f] \ {1} : runs'[f][i] = runs[f][i]
<1> DEFINE run == [runs[f][1] EXCEPT !.stage = s]
<1>1. runs[f] \in Seq(Runs) /\ runs[f][1] \in Runs /\ 1 \in DOMAIN runs[f]
  BY DEF TypeOK
<1>2. run \in Runs /\ run.stage = s /\ run.generation = runs[f][1].generation
  BY <1>1 DEF Runs
<1> HIDE DEF run
<1>3. runs'[f] = [runs[f] EXCEPT ![1] = run]
  BY DEF RunStage, run
<1> QED
  BY <1>1, <1>2, <1>3, HeadReplaced

LEMMA QueueKept ==
  ASSUME TypeOK, SerialInv, RunsInv, QueueInv, PendingInv, Next PROVE QueueInv'
<1> DEFINE Good(i) ==
      /\ runs[queue[i].facet] # <<>> /\ runs[queue[i].facet][1].stage = "queued"
      /\ \A j \in DOMAIN queue : queue[i].facet = queue[j].facet => i = j
      /\ Range(queue[i].left) \subseteq queue[i].covered
<1> USE DEF durable, memory, counters
<1>0. QueueInv <=> (boot = "down" => queue = <<>>) /\ \A i \in DOMAIN queue : Good(i)
  BY DEF QueueInv
<1>1. CASE Apart
  <2>1. ASSUME NEW i \in DOMAIN queue PROVE Good(i)'
    <3>1. queue[i].facet \in Facets /\ runs[queue[i].facet] # <<>>
      BY QueueFacts
    <3>2. 1 \in DOMAIN runs[queue[i].facet]
      BY <3>1, RunsFacts
    <3> QED
      BY <1>1, <3>1, <3>2 DEF Apart, QueueInv
  <2> QED
    BY <1>1, <2>1 DEF Apart, QueueInv
<1>2. ASSUME NEW F \in SUBSET Facets, Fences(F) PROVE QueueInv'
  <2>1. ASSUME NEW i \in DOMAIN queue PROVE Good(i)'
    <3> DEFINE f == queue[i].facet
    <3>1. /\ f \in Facets /\ runs[f] # <<>> /\ runs[f][1].stage = "queued"
          /\ runs[f] \in Seq(Runs) /\ 1 \in DOMAIN runs[f]
      BY QueueFacts, RunsFacts
    <3>2. runs'[f] = runs[f] \/ \E x : runs'[f] = Append(runs[f], x)
      BY <1>2, <3>1 DEF Fences, Fenced
    <3>3. runs'[f] # <<>> /\ runs'[f][1] = runs[f][1]
      BY <3>1, <3>2
    <3> QED
      BY <1>2, <3>1, <3>3 DEF Fences, QueueInv
  <2> QED
    BY <1>2, <2>1 DEF Fences, QueueInv
<1>3. ASSUME NEW f \in Facets, NEW removal, Queues(f, removal) PROVE QueueInv'
  <2> DEFINE q == Append(queue, removal)
             n == Len(queue) + 1
  <2>1. /\ boot # "down" /\ runs[f] # <<>> /\ runs[f][1].stage = "waiting" /\ boot' = boot
        /\ removal \in Removals /\ removal.facet = f /\ Range(removal.left) = removal.covered
        /\ queue' = q /\ RunStage(f, "queued")
    BY <1>3 DEF Queues, Queued
  <2>2. /\ DOMAIN q = 1..n /\ q[n] = removal /\ DOMAIN queue = 1..Len(queue)
        /\ Len(queue) \in Nat /\ \A i \in DOMAIN queue : q[i] = queue[i]
    BY <2>1, QueueFacts, AppendOf
  <2> HIDE DEF q
  <2>3. runs'[f] # <<>> /\ runs'[f][1].stage = "queued"
    BY <2>1, StageOfRun
  <2>4. \A i \in DOMAIN queue : queue[i].facet # f /\ runs'[queue[i].facet] = runs[queue[i].facet]
    BY <2>1, QueueFacts DEF RunStage
  <2>5. ASSUME NEW i \in DOMAIN q
        PROVE  /\ runs'[q[i].facet] # <<>> /\ runs'[q[i].facet][1].stage = "queued"
               /\ \A j \in DOMAIN q : q[i].facet = q[j].facet => i = j
               /\ Range(q[i].left) \subseteq q[i].covered
    <3>1. CASE i = n
      <4>1. \A j \in DOMAIN q : j = n \/ j \in DOMAIN queue
        BY <2>2
      <4> QED
        BY <2>1, <2>2, <2>3, <2>4, <3>1, <4>1
    <3>2. CASE i # n
      <4>1. i \in DOMAIN queue /\ \A j \in DOMAIN q : j = n \/ j \in DOMAIN queue
        BY <2>2, <3>2
      <4> QED
        BY <2>1, <2>2, <2>4, <4>1, QueueFacts
    <3> QED
      BY <3>1, <3>2
  <2> QED
    BY <2>1, <2>5 DEF QueueInv
<1>4. ASSUME NEW next, Erases(next) PROVE QueueInv'
  <2>1. /\ queue # <<>> /\ HeadChanges(next) /\ UNCHANGED <<boot, runs>> /\ queue[1].left # <<>>
        /\ next.left = queue[1].left \/ next.left = Tail(queue[1].left)
    BY <1>4 DEF Erases
  <2>2. /\ DOMAIN queue' = DOMAIN queue /\ queue' # <<>> /\ queue'[1] = next
        /\ \A i \in DOMAIN queue \ {1} : queue'[i] = queue[i]
        /\ \A i \in DOMAIN queue :
             queue'[i].facet = queue[i].facet /\ queue'[i].covered = queue[i].covered
    BY <2>1, AfterHeadChanges
  <2>3. Range(next.left) \subseteq Range(queue[1].left)
    BY <2>1, QueueFacts, LeftShrinks
  <2>4. ASSUME NEW i \in DOMAIN queue PROVE Range(queue'[i].left) \subseteq queue[i].covered
    BY <2>1, <2>2, <2>3, QueueFacts
  <2> QED
    BY <2>1, <2>2, <2>4 DEF QueueInv
<1>5. ASSUME NEW s \in {"removed", "settled"}, Settles(s) PROVE QueueInv'
  <2> DEFINE q == Tail(queue)
             f == queue[1].facet
  <2>1. queue # <<>> /\ queue' = q /\ f \in Facets /\ RunStage(f, s) /\ boot' = boot
    BY <1>5 DEF Settles
  <2>2. /\ 1 \in DOMAIN queue /\ DOMAIN queue = 1..Len(queue) /\ Len(queue) \in Nat
        /\ DOMAIN q = 1..(Len(queue) - 1)
        /\ \A i \in DOMAIN q : q[i] = queue[i + 1] /\ i + 1 \in DOMAIN queue
    BY <2>1, QueueFacts, TailOf
  <2> HIDE DEF q
  <2>3. ASSUME NEW i \in DOMAIN q
        PROVE  /\ runs'[q[i].facet] # <<>> /\ runs'[q[i].facet][1].stage = "queued"
               /\ \A j \in DOMAIN q : q[i].facet = q[j].facet => i = j
               /\ Range(q[i].left) \subseteq q[i].covered
    <3>1. q[i] = queue[i + 1] /\ i + 1 \in DOMAIN queue /\ i + 1 # 1
      BY <2>2
    <3>2. q[i].facet # f /\ q[i].facet \in Facets
      BY <2>2, <3>1, QueueFacts
    <3>3. runs'[q[i].facet] = runs[q[i].facet]
      BY <2>1, <3>2 DEF RunStage
    <3>4. ASSUME NEW j \in DOMAIN q, q[i].facet = q[j].facet PROVE i = j
      <4>1. i + 1 = j + 1
        BY <2>2, <3>1, <3>4, QueueFacts
      <4> QED
        BY <2>2, <4>1
    <3> QED
      BY <3>1, <3>3, <3>4, QueueFacts
  <2>4. boot' # "down" \/ q = <<>>
    BY <2>1 DEF QueueInv
  <2> QED
    BY <2>1, <2>3, <2>4 DEF QueueInv
<1>6. ASSUME NEW f \in Facets, RunCleared(f) \/ RunForgotten(f) PROVE QueueInv'
  <2>1. /\ UNCHANGED <<boot, queue>> /\ runs[f] # <<>> /\ runs[f][1].stage # "queued"
        /\ \A g \in Facets \ {f} : runs'[g] = runs[g]
    BY <1>6 DEF RunCleared, RunForgotten, RunAt, RunTo, TypeOK
  <2>2. ASSUME NEW i \in DOMAIN queue PROVE runs'[queue[i].facet] = runs[queue[i].facet]
    BY <2>1, QueueFacts
  <2> QED
    BY <2>1, <2>2 DEF QueueInv
<1>7. CASE Crash
  BY <1>7 DEF Crash, QueueInv
<1>8. CASE Start
  BY <1>8 DEF Start, QueueInv
<1> QED
  BY <1>1, <1>2, <1>3, <1>4, <1>5, <1>6, <1>7, <1>8, Effects

-----------------------------------------------------------------------------
(***************************************************************************)
(* A removal that waits for a start                                        *)
(***************************************************************************)

LEMMA WithheldDisturbed ==
  ASSUME TypeOK, NEW f \in Facets, Withheld(f), Disturbed(f)
  PROVE  Withheld(f)'
<1>1. host[f] \in Placements /\ ops[f] \in Seq(Operations) /\ Teardown(f) \in Operations
  BY TeardownType DEF TypeOK
<1>2. host'[f].stage = "absent" \/ host'[f].cancelled
  <2>1. Stopped(host[f]).stage = "absent" \/ Stopped(host[f]).cancelled
    <3>1. CASE host[f].stage = "absent"
      BY <1>1, <3>1, StoppedType
    <3>2. CASE host[f].stage # "absent"
      BY <1>1, <3>2, StoppedType DEF Placements
    <3> QED
      BY <3>1, <3>2
  <2> QED
    BY <2>1 DEF Withheld, Disturbed
<1>3. ops'[f] # <<>> /\ ops'[f][1].stage = "settling" => ops'[f][1].wait > 0
  <2>1. CASE ops'[f] = ops[f]
    BY <2>1 DEF Withheld
  <2>2. CASE Torn(f)
    <3>1. ops'[f] = Append(ops[f], Teardown(f)) /\ Teardown(f).stage \in {"done", "start"}
      BY <2>2 DEF Torn, Teardown
    <3>2. CASE ops[f] = <<>>
      BY <1>1, <3>1, <3>2
    <3>3. CASE ops[f] # <<>>
      <4>1. ops'[f][1] = ops[f][1]
        BY <1>1, <3>1, <3>3
      <4> QED
        BY <3>3, <4>1 DEF Withheld
    <3> QED
      BY <3>2, <3>3
  <2> QED
    BY <2>1, <2>2 DEF Disturbed, Untorn
<1> QED
  BY <1>2, <1>3 DEF Withheld

LEMMA HeadAdvanced ==
  ASSUME TypeOK, NEW f \in Facets, ~Idle(f), Advance(f, "done")
  PROVE  ops'[f][1].stage = "done"
<1> DEFINE op == [ops[f][1] EXCEPT !.stage = "done"]
<1>1. ops[f] \in Seq(Operations) /\ ops[f] # <<>> /\ ops[f][1] \in Operations
  BY DEF TypeOK, Idle
<1>2. op \in Operations /\ op.stage = "done"
  BY <1>1 DEF Operations
<1> HIDE DEF op
<1>3. ops'[f] = [ops[f] EXCEPT ![1] = op]
  BY AdvanceEach DEF StageChanges, op
<1> QED
  BY <1>1, <1>2, <1>3, HeadReplaced

LEMMA WithheldKept ==
  ASSUME TypeOK, SerialInv, QueueInv, NEW f \in Facets, Withheld(f),
         queue # <<>>, f \in queue[1].covered,
         Application \/ Placement \/ \E g \in Facets : InfoFails(g) \/ StartThrows(g)
  PROVE  Withheld(f)'
<1> USE DEF durable, memory, counters
<1>1. ASSUME host'[f] = host[f], ops'[f] = ops[f] PROVE Withheld(f)'
  BY <1>1 DEF Withheld
<1>2. ASSUME host'[f].stage = "absent" \/ host'[f].cancelled,
             ops'[f] # <<>> => ops'[f][1].stage # "settling"
      PROVE  Withheld(f)'
  BY <1>2 DEF Withheld
<1>3. /\ ops[f] \in Seq(Operations) /\ host[f] \in Placements
      /\ ops[f] # <<>> => ops[f][1] \in Operations /\ Op(f) = ops[f][1]
  BY SerialFacts DEF Op
<1>4. ASSUME NEW g \in Facets, Get(g) PROVE Withheld(f)'
  <2>1. CASE g = f
    <3> DEFINE op == [kind |-> "place", stage |-> IF Idle(f) THEN "info" ELSE "start",
                      entry |-> gets', epoch |-> epochs[f], wait |-> 0]
    <3>1. ops'[f] = Append(ops[f], op) /\ host'[f] = host[f]
      BY <1>4, <2>1 DEF Get, TypeOK
    <3>2. op.stage # "settling"
      OBVIOUS
    <3>3. op \in Operations
      BY <1>4, FacetsAssumption DEF Get, TypeOK, Operations
    <3> HIDE DEF op
    <3>4. CASE ops[f] = <<>>
      <4>1. ops'[f][1] = op
        BY <1>3, <3>1, <3>3, <3>4
      <4> QED
        BY <1>2, <3>1, <3>2, <4>1 DEF Withheld
    <3>5. CASE ops[f] # <<>>
      <4>1. ops'[f][1] = ops[f][1]
        BY <1>3, <3>1, <3>3, <3>5
      <4> QED
        BY <3>1, <3>5, <4>1 DEF Withheld
    <3> QED
      BY <3>4, <3>5
  <2>2. CASE g # f
    BY <1>1, <1>4, <2>2 DEF Get, TypeOK
  <2> QED
    BY <2>1, <2>2
<1>5. ASSUME NEW Gone, Abort({}, Gone) PROVE Withheld(f)'
  BY <1>5, AbortEach, WithheldDisturbed
<1>6. ASSUME NEW g \in Facets, AbortFacet(g) \/ DeleteFacet(g) PROVE Withheld(f)'
  BY <1>5, <1>6 DEF AbortFacet, DeleteFacet
<1>7. ASSUME NEW actor, DeleteAll(actor) PROVE Withheld(f)'
  BY <1>5, <1>7 DEF DeleteAll
<1>8. ASSUME NEW g \in Facets, Write(g) PROVE Withheld(f)'
  BY <1>1, <1>8 DEF Write
<1>9. ASSUME NEW g \in Facets,
             InfoReturns(g) \/ InfoFails(g) \/ PlaceStale(g) \/ Place(g) \/ Loaded(g) \/ Started(g)
               \/ StartCancelled(g) \/ StartThrows(g)
      PROVE  Withheld(f)'
  <2>1. CASE g # f
    <3>1. host'[f] = host[f] /\ ops'[f] = ops[f]
      BY <1>9, <2>1 DEF InfoReturns, InfoFails, PlaceStale, Place, Loaded, Started, StartCancelled,
           StartThrows, StartFails, Advance, TypeOK
    <3> QED
      BY <1>1, <3>1
  <2>2. CASE g = f /\ InfoReturns(f)
    <3>1. ops[f] # <<>> /\ host'[f] = host[f]
      BY <2>2 DEF InfoReturns, OpAt, Idle
    <3>2. ops'[f] = [ops[f] EXCEPT ![1] =
                       [ops[f][1] EXCEPT !.stage = "settling", !.wait = QueuedFor(f)]]
      BY <1>3, <2>2, <3>1 DEF InfoReturns, TypeOK, Operations
    <3>3. ops'[f][1].wait = QueuedFor(f)
      BY <1>3, <3>1, <3>2 DEF Operations
    <3>4. QueuedFor(f) \in Nat /\ 1 <= QueuedFor(f)
      BY QueuedForType, RemovalType
    <3> QED
      BY <3>1, <3>3, <3>4 DEF Withheld
  <2>3. CASE g = f /\ (InfoFails(f) \/ PlaceStale(f))
    <3>1. ~Idle(f) /\ Advance(f, "done") /\ host' = host
      BY <2>3 DEF InfoFails, PlaceStale, Settled, OpAt
    <3>2. ops'[f][1].stage = "done"
      BY <3>1, HeadAdvanced
    <3> QED
      BY <1>2, <3>1, <3>2 DEF Withheld
  <2>4. CASE g = f /\ Place(f)
    BY <1>3, <2>4 DEF Place, Settled, OpAt, Idle, Withheld
  <2>5. CASE g = f /\ (Loaded(f) \/ Started(f))
    BY <2>5 DEF Loaded, Started, Withheld
  <2>6. CASE g = f /\ (StartCancelled(f) \/ StartThrows(f))
    <3>1. StartFails(f) /\ ~Idle(f)
      BY <2>6, StartIsFirst DEF StartCancelled, StartThrows, StartFails
    <3>2. Advance(f, "done") /\ host'[f].stage = "absent"
      BY <3>1 DEF StartFails, TypeOK, Absent
    <3>3. ops'[f][1].stage = "done"
      BY <3>1, <3>2, HeadAdvanced
    <3> QED
      BY <1>2, <3>2, <3>3
  <2> QED
    BY <1>9, <2>1, <2>2, <2>3, <2>4, <2>5, <2>6
<1>10. ASSUME NEW g \in Facets, OpEnds(g) PROVE Withheld(f)'
  <2>1. CASE g # f
    BY <1>10, <2>1, OpEndsEach, WithheldDisturbed
  <2>2. CASE g = f
    <3> DEFINE tail == Tail(ops[f])
    <3>1. ops[f] # <<>> /\ tail \in Seq(Operations)
      BY <1>3, <1>10, <2>2, OpEndsEach, TailOf
    <3>2. ASSUME NEW s \in {"info", "done"}, tail # <<>>, Follows(f, s) PROVE ops'[f][1].stage = s
      <4>1. tail[1] \in Operations
        BY <3>1, <3>2
      <4>2. ops'[f] = [tail EXCEPT ![1] = [tail[1] EXCEPT !.stage = s]]
        BY <3>2 DEF Follows
      <4> HIDE DEF tail
      <4> QED
        BY <3>1, <3>2, <4>1, <4>2 DEF Operations
    <3>3. host'[f].stage = "absent" \/ host'[f].cancelled
      <4>1. host'[f] = host[f] \/ host'[f] = Stopped(host[f])
        BY <1>10, <2>2, OpEndsEach
      <4>2. host[f].stage = "absent" => Stopped(host[f]) = host[f]
        BY <1>3, StoppedType
      <4>3. host[f].stage # "absent" => Stopped(host[f]).stage = "absent" \/ Stopped(host[f]).cancelled
        BY <1>3, StoppedType DEF Placements
      <4> QED
        BY <4>1, <4>2, <4>3 DEF Withheld
    <3>4. ops'[f] # <<>> => ops'[f][1].stage # "settling"
      BY <1>10, <2>2, <3>2, OpEndsEach
    <3> QED
      BY <1>2, <3>3, <3>4
  <2> QED
    BY <2>1, <2>2
<1> QED
  BY <1>4, <1>6, <1>7, <1>8, <1>9, <1>10, Zenon DEF Application, Placement

LEMMA PendingKept ==
  ASSUME TypeOK, SerialInv, QueueInv, PendingInv, Next PROVE PendingInv'
<1> USE DEF durable, memory, counters
<1> DEFINE Waits(i) == i = 1 /\ queue[i].left # <<>> /\ Withheld(queue[i].left[1])
<1>1. ASSUME NEW i \in DOMAIN queue, queue[i].pending
      PROVE  /\ i = 1 /\ queue # <<>> /\ queue[1].left # <<>> /\ queue[1].left[1] \in Facets
             /\ Withheld(queue[1].left[1]) /\ queue[1].left[1] \in queue[1].covered
  <2>1. i = 1 /\ queue[1].left # <<>> /\ Withheld(queue[1].left[1])
    BY <1>1 DEF PendingInv
  <2>2. queue[1].left \in Seq(Facets) /\ Range(queue[1].left) \subseteq queue[1].covered
    BY <1>1, <2>1, QueueFacts
  <2>3. queue[1].left[1] \in Range(queue[1].left)
    BY <2>1, <2>2, LeftShrinks
  <2>4. queue # <<>>
    BY <1>1
  <2> QED
    BY <2>1, <2>2, <2>3, <2>4
<1>2. ASSUME queue' = queue,
             \A f \in Facets : queue # <<>> /\ f \in queue[1].covered /\ Withheld(f) => Withheld(f)'
      PROVE  PendingInv'
  <2>1. ASSUME NEW i \in DOMAIN queue, queue[i].pending PROVE Waits(i)'
    <3>1. PICK f \in Facets : f = queue[1].left[1]
      BY <1>1, <2>1
    <3>2. i = 1 /\ queue # <<>> /\ queue[1].left # <<>> /\ Withheld(f) /\ f \in queue[1].covered
      BY <1>1, <2>1, <3>1
    <3>3. Withheld(f)'
      BY <1>2, <3>2
    <3> QED
      BY <1>2, <3>1, <3>2, <3>3 DEF Withheld
  <2> QED
    BY <1>2, <2>1 DEF PendingInv
<1>3. ASSUME queue' = queue, UNCHANGED <<host, ops>> PROVE PendingInv'
  BY <1>3 DEF PendingInv, Withheld
<1>4. ASSUME Application \/ Placement \/ \E g \in Facets : InfoFails(g) \/ StartThrows(g)
      PROVE  PendingInv'
  <2>1. queue' = queue
    BY <1>4 DEF Application, Placement, Get, AbortFacet, DeleteFacet, DeleteAll, Write,
         InfoReturns, InfoFails, PlaceStale, Place, Loaded, Started, StartCancelled, StartThrows,
         StartFails, OpEnds
  <2> QED
    BY <1>2, <1>4, <2>1, WithheldKept
<1>5. ASSUME NEW f \in Facets, RunCleared(f) \/ RunForgotten(f) PROVE PendingInv'
  BY <1>3, <1>5 DEF RunCleared, RunForgotten
<1>6. ASSUME NEW f \in Facets, RunQueued(f) PROVE PendingInv'
  <2>1. PICK removal : Queued(f, removal)
    BY <1>6, QueuedEach
  <2>2. /\ UNCHANGED <<host, ops>> /\ removal \in Removals /\ ~removal.pending
        /\ queue' = Append(queue, removal)
    BY <1>6, <2>1 DEF RunQueued, Queued
  <2>3. \A i \in DOMAIN queue' : (i \in DOMAIN queue /\ queue'[i] = queue[i]) \/ queue'[i] = removal
    BY <2>2, QueueFacts, AppendOf
  <2> QED
    BY <2>2, <2>3 DEF PendingInv, Withheld
<1>7. ASSUME queue # <<>>, NEW next, HeadChanges(next), ~next.pending PROVE PendingInv'
  <2>1. /\ DOMAIN queue' = DOMAIN queue /\ queue'[1] = next
        /\ \A i \in DOMAIN queue \ {1} : queue'[i] = queue[i]
    BY <1>7, AfterHeadChanges
  <2> QED
    BY <1>7, <2>1 DEF PendingInv
<1>8. CASE TargetAborted
  <2>1. /\ queue # <<>> /\ Removal.left # <<>> /\ Abort({Target}, {}) /\ Removal = queue[1]
        /\ Target \in Facets /\ Target = Removal.left[1]
    BY <1>8, RemovalType DEF TargetAborted, Removing
  <2>2. CASE ~Starting(Target)
    <3>1. HeadChanges(Rest) /\ ~Rest.pending
      BY <1>8, <2>1, <2>2, EraseEach DEF TargetAborted
    <3> QED
      BY <1>7, <2>1, <3>1
  <2>3. CASE Starting(Target)
    <3>1. PICK f \in Facets : f = Target
      BY <2>1
    <3>2. HeadChanges(Halted) /\ Halted.left = queue[1].left
      BY <1>8, <2>1, <2>3, HaltEach DEF TargetAborted
    <3>3. /\ DOMAIN queue' = DOMAIN queue /\ queue'[1] = Halted
          /\ \A i \in DOMAIN queue \ {1} : queue'[i] = queue[i]
      BY <2>1, <3>2, AfterHeadChanges
    <3>4. /\ host[f].stage \in {"loading", "opening"} /\ host[f] \in Placements
          /\ host'[f] = Stopped(host[f]) /\ Disturbed(f)
      BY <2>1, <2>3, <3>1, AbortEach, SerialFacts DEF Starting
    <3>5. host'[f].cancelled
      BY <3>4, StoppedType
    <3>6. ops[f] # <<>> /\ ops[f][1].stage = "starting" /\ ops[f] \in Seq(Operations)
      BY <3>4, StartIsFirst, SerialFacts DEF Idle
    <3>7. ops'[f][1] = ops[f][1]
      BY <3>4, <3>6, AppendOf, TeardownType DEF Disturbed, Torn, Untorn
    <3>8. Withheld(f)'
      BY <3>5, <3>6, <3>7 DEF Withheld
    <3>9. queue'[1].left # <<>> /\ queue'[1].left[1] = f
      BY <2>1, <3>1, <3>2, <3>3
    <3>10. ASSUME NEW i \in DOMAIN queue' \ {1} PROVE ~queue'[i].pending
      BY <3>3, <3>10 DEF PendingInv
    <3>11. Withheld(queue[1].left[1])'
      BY <3>8, <3>9 DEF Withheld
    <3> QED
      BY <3>9, <3>10, <3>11 DEF PendingInv
  <2> QED
    BY <2>2, <2>3
<1>9. CASE TargetErased
  <2>1. queue # <<>> /\ Removal.left # <<>> /\ Erase
    BY <1>9, RemovalType DEF TargetErased, Unwound, Removing, PendingInv
  <2>2. HeadChanges(Rest) /\ ~Rest.pending
    BY <2>1, EraseEach
  <2> QED
    BY <1>7, <2>1, <2>2
<1>10. ASSUME Removed \/ RemovalFails PROVE PendingInv'
  <2>1. queue # <<>> /\ Dequeue
    BY <1>10 DEF Removed, RemovalFails, Removing, Unwound
  <2>2. queue' = Tail(queue)
    BY <2>1, DequeueEach
  <2>3. \A i \in DOMAIN queue' : queue'[i] = queue[i + 1] /\ i + 1 \in DOMAIN queue /\ i + 1 # 1
    BY <2>1, <2>2, QueueFacts, TailOf
  <2> QED
    BY <2>3 DEF PendingInv
<1>11. CASE Crash
  BY <1>11 DEF Crash, PendingInv
<1>12. CASE Start \/ Recovered
  BY <1>3, <1>12 DEF Start, Recovered
<1> QED
  BY <1>4, <1>5, <1>6, <1>8, <1>9, <1>10, <1>11, <1>12, Zenon DEF Next, Deletion, Failure

-----------------------------------------------------------------------------
(***************************************************************************)
(* What is doomed is on record                                             *)
(***************************************************************************)

LEMMA DirtyDisturbed ==
  ASSUME TypeOK, NEW g \in Facets, Dirty(g)', host'[g] \in {host[g], Stopped(host[g])},
         epochs'[g] = epochs[g], storage'[g] \subseteq storage[g]
  PROVE  Dirty(g)
<1>1. host[g] \in Placements
  BY DEF TypeOK
<1>2. Stopped(host[g]).stage # "absent" =>
        host[g].stage # "absent" /\ Stopped(host[g]).epoch = host[g].epoch
  BY <1>1, StoppedType DEF Placements
<1> QED
  BY <1>2 DEF Dirty

\* Only a deletion makes anything dirty.
LEMMA DirtyBefore ==
  ASSUME TypeOK, SerialInv, QueueInv, PendingInv, Next, NEW g \in Facets, Dirty(g)',
         ~\E f \in Facets : DeleteFacet(f), ~\E actor \in Facets \cup {Root} : DeleteAll(actor)
  PROVE  Dirty(g)
<1> USE DEF durable, memory, counters
<1>1. ASSUME UNCHANGED <<host, epochs, storage>> PROVE Dirty(g)
  BY <1>1, DirtyDisturbed
<1>2. ASSUME NEW f \in Facets,
             Get(f) \/ InfoReturns(f) \/ InfoFails(f) \/ PlaceStale(f)
               \/ RunQueued(f) \/ RunCleared(f) \/ RunForgotten(f)
      PROVE  Dirty(g)
  BY <1>1, <1>2 DEF Get, InfoReturns, InfoFails, PlaceStale, RunQueued, RunCleared, RunForgotten
<1>3. ASSUME Removed \/ RemovalFails \/ Start \/ Recovered PROVE Dirty(g)
  BY <1>1, <1>3 DEF Removed, RemovalFails, Start, Recovered
<1>4. ASSUME NEW f \in Facets, AbortFacet(f) PROVE Dirty(g)
  BY <1>4, AbortEach, DirtyDisturbed DEF AbortFacet, Disturbed
<1>5. ASSUME NEW f \in Facets, OpEnds(f) PROVE Dirty(g)
  <2>1. host'[g] \in {host[g], Stopped(host[g])}
    BY <1>5, OpEndsEach DEF Disturbed
  <2> QED
    BY <1>5, <2>1, DirtyDisturbed DEF OpEnds
<1>6. ASSUME NEW f \in Facets, Write(f) PROVE Dirty(g)
  <2>1. CASE f # g
    BY <1>6, <2>1 DEF Write, Dirty, TypeOK
  <2>2. CASE f = g
    <3>1. storage'[g] = storage[g] \cup {IF host[g].epoch = epochs[g] THEN "kept" ELSE "doomed"}
      BY <1>6, <2>2 DEF Write, TypeOK
    <3>2. host[g].stage = "live" /\ UNCHANGED <<host, epochs>>
      BY <1>6, <2>2 DEF Write
    <3> QED
      BY <3>1, <3>2 DEF Dirty
  <2> QED
    BY <2>1, <2>2
<1>7. ASSUME NEW f \in Facets, Place(f) PROVE Dirty(g)
  <2>1. CASE f # g
    BY <1>7, <2>1 DEF Place, Dirty, TypeOK
  <2>2. CASE f = g
    <3>1. host'[g].epoch = epochs[g] /\ UNCHANGED <<epochs, storage>>
      BY <1>7, <2>2 DEF Place, IsCurrent, TypeOK
    <3> QED
      BY <3>1 DEF Dirty
  <2> QED
    BY <2>1, <2>2
<1>8. ASSUME NEW f \in Facets, Loaded(f) \/ Started(f) PROVE Dirty(g)
  <2>1. host[f] \in Placements /\ host[f].stage # "absent" /\ UNCHANGED <<epochs, storage>>
    BY <1>8, HostType DEF Loaded, Started
  <2>2. host'[g] = host[g] \/ (g = f /\ host'[g].epoch = host[f].epoch)
    <3>1. PICK s \in {"opening", "live"} : host' = [host EXCEPT ![f] = [host[f] EXCEPT !.stage = s]]
      BY <1>8, <2>1 DEF Loaded, Started, TypeOK
    <3>2. [host[f] EXCEPT !.stage = s].epoch = host[f].epoch
      BY <2>1 DEF Placements
    <3> QED
      BY <3>1, <3>2 DEF TypeOK
  <2> QED
    BY <2>1, <2>2 DEF Dirty
<1>9. ASSUME NEW f \in Facets, StartCancelled(f) \/ StartThrows(f) PROVE Dirty(g)
  <2>1. host'[g] = host[g] \/ host'[g].stage = "absent"
    BY <1>9 DEF StartCancelled, StartThrows, StartFails, Absent, TypeOK
  <2> QED
    BY <1>9, <2>1 DEF StartCancelled, StartThrows, StartFails, Dirty
<1>10. ASSUME TargetAborted \/ TargetErased PROVE Dirty(g)
  <2>1. queue # <<>> /\ Removal.left # <<>>
    BY <1>10, RemovalType DEF TargetAborted, TargetErased, Removing, Unwound, PendingInv
  <2>2. UNCHANGED storage \/ Erase
    BY <1>10 DEF TargetAborted, TargetErased
  <2>3. storage'[g] \subseteq storage[g]
    BY <2>1, <2>2, EraseEach
  <2>4. host' = host \/ Abort({Target}, {})
    BY <1>10 DEF TargetAborted, TargetErased
  <2>5. host'[g] \in {host[g], Stopped(host[g])}
    BY <2>4, AbortEach DEF Disturbed
  <2> QED
    BY <1>10, <2>3, <2>5, DirtyDisturbed DEF TargetAborted, TargetErased
<1>11. CASE Crash
  BY <1>11 DEF Crash, Everywhere, Absent, Dirty
<1> QED
  BY <1>2, <1>3, <1>4, <1>5, <1>6, <1>7, <1>8, <1>9, <1>10, <1>11, Zenon
     DEF Next, Application, Placement, Deletion, Failure

LEMMA FenceRecords ==
  ASSUME TypeOK, RunsInv, NEW F \in SUBSET Facets, Fences(F), NEW a \in Facets, NEW g \in Facets
  PROVE  /\ a \in F => OnRecord(a, g)'
         /\ OnRecord(a, g) => OnRecord(a, g)'
<1>1. /\ Fenced(F, a) /\ queue' = queue /\ Barrier(a, ops') \in [Facets -> Nat]
      /\ receipts[a] \in Nat /\ runs[a] \in Seq(Runs)
      /\ \A i \in DOMAIN runs[a] : runs[a][i] \in Runs /\ runs[a][i].generation \in Nat
      /\ RunsOk(runs[a], receipts[a])
  BY RunsFacts DEF Fences
<1>2. CASE a \in F
  <2>1. receipts'[a] = receipts[a] + 1
    BY <1>1, <1>2 DEF Fenced
  <2>2. ASSUME NEW i \in DOMAIN runs'[a], runs'[a][i].generation = receipts'[a]
        PROVE  runs'[a][i].stage \in {"waiting", "settled"}
    <3> DEFINE run == NewRun(receipts'[a], Barrier(a, ops'))
    <3>1. run \in Runs /\ run.stage = "waiting"
      BY <1>1, <2>1, NewRunType
    <3>2. runs'[a] = runs[a] \/ runs'[a] = Append(runs[a], run)
      BY <1>1 DEF Fenced
    <3> HIDE DEF run
    <3>3. (i \in DOMAIN runs[a] /\ runs'[a][i] = runs[a][i]) \/ runs'[a][i] = run
      BY <1>1, <3>1, <3>2, <2>2, AppendOf
    <3>4. CASE i \in DOMAIN runs[a] /\ runs'[a][i] = runs[a][i]
      BY <1>1, <2>1, <2>2, <3>4 DEF RunsOk
    <3> QED
      BY <3>1, <3>3, <3>4
  <2>3. ~Passed(a, g)'
    BY <2>2 DEF Passed
  <2> QED
    BY <1>1, <2>1, <2>3 DEF OnRecord
<1>3. CASE a \notin F
  <2>1. receipts'[a] = receipts[a] /\ runs'[a] = runs[a]
    BY <1>1, <1>3 DEF Fenced
  <2> QED
    BY <1>1, <1>3, <2>1 DEF OnRecord, Passed
<1> QED
  BY <1>2, <1>3

LEMMA OnRecordKept ==
  ASSUME TypeOK, SerialInv, KnownInv, RunsInv, QueueInv, PendingInv, Next,
         NEW g \in Facets, NEW a \in Facets, a \in SelfAndAncestors(g),
         Dirty(g), Dirty(g)', OnRecord(a, g)
  PROVE  OnRecord(a, g)'
<1>1. /\ runs[a] \in Seq(Runs) /\ receipts[a] \in Nat /\ RunsOk(runs[a], receipts[a])
      /\ DOMAIN runs[a] = 1..Len(runs[a]) /\ Len(runs[a]) \in Nat
  BY RunsFacts
<1>2. receipts[a] > 0 /\ ~Passed(a, g)
  BY DEF OnRecord
<1>3. ASSUME runs'[a] = runs[a], receipts'[a] = receipts[a],
             \A j \in DOMAIN queue' : queue'[j].facet = a /\ g \notin Range(queue'[j].left) =>
               \E k \in DOMAIN queue : queue[k].facet = a /\ g \notin Range(queue[k].left)
      PROVE  OnRecord(a, g)'
  BY <1>2, <1>3 DEF OnRecord, Passed
<1>4. CASE Apart
  BY <1>2, <1>4 DEF Apart, OnRecord, Passed
<1>5. ASSUME NEW F \in SUBSET Facets, Fences(F) PROVE OnRecord(a, g)'
  BY <1>5, FenceRecords
<1>6. ASSUME NEW f \in Facets, RunForgotten(f) PROVE OnRecord(a, g)'
  <2>1. runs[f] # <<>> /\ runs' = [runs EXCEPT ![f] = Tail(@)] /\ UNCHANGED <<receipts, queue>>
    BY <1>6 DEF RunForgotten, RunAt, durable
  <2>2. CASE f = a
    <3> DEFINE tail == Tail(runs[a])
    <3>1. runs'[a] = tail
      BY <2>1, <2>2 DEF TypeOK
    <3>2. \A i \in DOMAIN tail : tail[i] = runs[a][i + 1] /\ i + 1 \in DOMAIN runs[a]
      BY <1>1, <2>1, <2>2, TailOf
    <3> HIDE DEF tail
    <3> QED
      BY <1>2, <2>1, <3>1, <3>2 DEF OnRecord, Passed
  <2>3. CASE f # a
    BY <1>3, <2>1, <2>3 DEF TypeOK
  <2> QED
    BY <2>2, <2>3
<1>7. ASSUME NEW f \in Facets, RunCleared(f) PROVE OnRecord(a, g)'
  <2>1. /\ runs[f] # <<>> /\ runs[f][1].stage = "removed" /\ RunTo(f, "settled") /\ queue' = queue
        /\ receipts' = [receipts EXCEPT ![f] = IF Clears(f) THEN 0 ELSE @]
    BY <1>7 DEF RunCleared, RunAt
  <2>2. RunStage(f, "settled")
    BY <2>1, RunToEach
  <2>3. CASE f = a
    <3>1. 1 \in DOMAIN runs[a] /\ ~Clears(a)
      <4>1. 1 \in DOMAIN runs[a]
        BY <1>1, <2>1, <2>3
      <4> QED
        BY <1>2, <2>1, <2>3, <4>1 DEF Clears, Passed
    <3>2. receipts'[a] = receipts[a]
      BY <2>1, <2>3, <3>1 DEF TypeOK
    <3>3. /\ DOMAIN runs'[a] = DOMAIN runs[a] /\ runs'[a][1].stage = "settled"
          /\ \A i \in DOMAIN runs[a] \ {1} : runs'[a][i] = runs[a][i]
      BY <2>1, <2>2, <2>3, StageOfRun
    <3> QED
      BY <1>2, <2>1, <3>2, <3>3 DEF OnRecord, Passed
  <2>4. CASE f # a
    BY <1>3, <2>1, <2>2, <2>4 DEF RunStage, TypeOK
  <2> QED
    BY <2>3, <2>4
<1>8. ASSUME NEW f \in Facets, NEW removal, Queues(f, removal) PROVE OnRecord(a, g)'
  <2>1. /\ runs[f] # <<>> /\ runs[f][1].stage = "waiting" /\ RunStage(f, "queued")
        /\ removal \in Removals /\ removal.facet = f /\ queue' = Append(queue, removal)
        /\ Range(removal.left) = {f} \cup Descendants(f) /\ receipts' = receipts
    BY <1>8 DEF Queues, Queued
  <2>2. \A j \in DOMAIN queue' : (j \in DOMAIN queue /\ queue'[j] = queue[j]) \/ queue'[j] = removal
    BY <2>1, QueueFacts, AppendOf
  <2>3. CASE f = a
    <3>1. g \in known
      BY DEF KnownInv, Dirty
    <3>2. g \in Range(removal.left)
      BY <2>1, <2>3, <3>1 DEF Descendants
    <3>3. \A j \in DOMAIN queue : queue[j].facet # a
      BY <2>1, <2>3, QueueFacts
    <3>4. \A j \in DOMAIN queue' : queue'[j].facet = a => g \in Range(queue'[j].left)
      BY <2>2, <3>2, <3>3
    <3>5. /\ DOMAIN runs'[a] = DOMAIN runs[a] /\ runs'[a][1].stage = "queued"
          /\ \A i \in DOMAIN runs[a] \ {1} : runs'[a][i] = runs[a][i]
      BY <2>1, <2>3, StageOfRun
    <3>6. ASSUME NEW i \in DOMAIN runs'[a], runs'[a][i].stage = "removed" PROVE FALSE
      <4>1. i # 1 /\ runs'[a][i] = runs[a][i] /\ i > 1
        BY <1>1, <3>5, <3>6
      <4> QED
        BY <1>1, <3>5, <3>6, <4>1 DEF RunsOk
    <3> QED
      BY <1>2, <2>1, <3>4, <3>6 DEF OnRecord, Passed
  <2>4. CASE f # a
    <3>1. \A j \in DOMAIN queue' : queue'[j].facet = a => j \in DOMAIN queue /\ queue'[j] = queue[j]
      BY <2>1, <2>2, <2>4
    <3> QED
      BY <1>3, <2>1, <2>4, <3>1 DEF RunStage
  <2> QED
    BY <2>3, <2>4
<1>9. ASSUME NEW next, Erases(next) PROVE OnRecord(a, g)'
  <2>1. /\ queue # <<>> /\ queue[1].left # <<>> /\ HeadChanges(next) /\ UNCHANGED <<receipts, runs>>
        /\ queue[1].left \in Seq(Facets)
    BY <1>9, RemovalType DEF Erases
  <2>2. /\ DOMAIN queue' = DOMAIN queue /\ queue'[1] = next
        /\ \A i \in DOMAIN queue \ {1} : queue'[i] = queue[i]
        /\ \A i \in DOMAIN queue : queue'[i].facet = queue[i].facet
    BY <2>1, AfterHeadChanges
  <2>3. g \in Range(queue[1].left) => g \in Range(next.left)
    <3>1. CASE next.left = queue[1].left
      BY <3>1
    <3>2. ASSUME next.left = Tail(queue[1].left), NEW f \in Facets, f = queue[1].left[1], ~Dirty(f)'
          PROVE  g \in Range(queue[1].left) => g \in Range(next.left)
      <4>1. f # g
        BY <3>2
      <4> QED
        BY <2>1, <3>2, <4>1, LeftShrinks
    <3> QED
      BY <1>9, <3>1, <3>2 DEF Erases
  <2>4. ASSUME NEW j \in DOMAIN queue', queue'[j].facet = a, g \notin Range(queue'[j].left)
        PROVE  queue[j].facet = a /\ g \notin Range(queue[j].left) /\ j \in DOMAIN queue
    BY <2>2, <2>3, <2>4
  <2> QED
    BY <1>3, <2>1, <2>4
<1>10. ASSUME NEW s \in {"removed", "settled"}, Settles(s) PROVE OnRecord(a, g)'
  <2> DEFINE f == queue[1].facet
  <2>1. /\ queue # <<>> /\ queue' = Tail(queue) /\ f \in Facets /\ RunStage(f, s)
        /\ s = "removed" => queue[1].left = <<>>
        /\ receipts' = receipts
    BY <1>10 DEF Settles
  <2>2. 1 \in DOMAIN queue /\ runs[f] # <<>> /\ runs[f][1].stage = "queued"
    BY <2>1, RemovalType, QueueFacts
  <2>3. CASE f = a
    <3>1. /\ DOMAIN runs'[a] = DOMAIN runs[a] /\ runs'[a][1].stage = s /\ 1 \in DOMAIN runs[a]
          /\ runs'[a][1].generation = runs[a][1].generation
          /\ \A i \in DOMAIN runs[a] \ {1} : runs'[a][i] = runs[a][i]
      BY <2>1, <2>2, <2>3, StageOfRun
    <3>2. \A i \in DOMAIN runs[a] \ {1} : runs'[a][i].stage = "waiting"
      <4>1. \A i \in DOMAIN runs[a] \ {1} : i > 1
        BY <1>1
      <4> QED
        BY <1>1, <3>1, <4>1 DEF RunsOk
    <3>3. ASSUME s = "removed", runs[a][1].generation = receipts[a] PROVE FALSE
      <4>1. g \notin Range(queue[1].left)
        BY <2>1, <3>3 DEF Range
      <4> QED
        BY <1>2, <2>2, <2>3, <3>1, <3>3, <4>1 DEF Passed
    <3> QED
      BY <1>2, <1>10, <2>1, <3>1, <3>2, <3>3 DEF OnRecord, Passed
  <2>4. CASE f # a
    <3>1. \A j \in DOMAIN queue' : queue'[j] = queue[j + 1] /\ j + 1 \in DOMAIN queue
      BY <2>1, QueueFacts, TailOf
    <3>2. runs'[a] = runs[a]
      BY <2>1, <2>4 DEF RunStage
    <3> QED
      BY <1>3, <2>1, <3>1, <3>2
  <2> QED
    BY <2>3, <2>4
<1>11. CASE Crash
  BY <1>2, <1>11 DEF Crash, Everywhere, durable, OnRecord, Passed
<1>12. CASE Start
  <2>1. receipts' = receipts
    BY <1>12 DEF Start, durable
  <2>2. runs'[a] = <<NewRun(receipts[a], [t \in Facets |-> 0])>>
    BY <1>2, <1>12 DEF Start
  <2>3. NewRun(receipts[a], [t \in Facets |-> 0]).stage = "waiting"
    BY DEF NewRun
  <2>4. \A i \in DOMAIN runs'[a] : runs'[a][i].stage = "waiting"
    BY <2>2, <2>3
  <2> QED
    BY <1>2, <2>1, <2>4 DEF OnRecord, Passed
<1> QED
  BY <1>4, <1>5, <1>6, <1>7, <1>8, <1>9, <1>10, <1>11, <1>12, Effects

LEMMA RecordKept ==
  ASSUME TypeOK, SerialInv, KnownInv, RunsInv, QueueInv, PendingInv, RecordInv, Next
  PROVE  RecordInv'
<1> SUFFICES ASSUME NEW g \in Facets, Dirty(g)'
             PROVE  \E a \in Facets \cap SelfAndAncestors(g) : OnRecord(a, g)'
  BY DEF RecordInv
<1>1. ASSUME Dirty(g) PROVE \E a \in Facets \cap SelfAndAncestors(g) : OnRecord(a, g)'
  <2>1. PICK a \in Facets \cap SelfAndAncestors(g) : OnRecord(a, g)
    BY <1>1 DEF RecordInv
  <2>2. OnRecord(a, g)'
    BY <1>1, <2>1, OnRecordKept
  <2> QED
    BY <2>2
<1>2. ASSUME NEW F \in SUBSET Facets, Fences(F), NEW Gone, Abort({}, Gone)
      PROVE  \E a \in Facets \cap SelfAndAncestors(g) : OnRecord(a, g)'
  <2>1. CASE g \in Subtrees(F)
    <3>1. PICK f \in F : g \in {f} \cup Descendants(f)
      BY <2>1 DEF Subtrees
    <3>2. f \in Facets \cap SelfAndAncestors(g)
      BY <3>1 DEF Descendants, SelfAndAncestors
    <3>3. OnRecord(f, g)'
      BY <1>2, <3>1, <3>2, FenceRecords
    <3> QED
      BY <3>2, <3>3
  <2>2. CASE g \notin Subtrees(F)
    <3>1. epochs'[g] = epochs[g] /\ storage'[g] = storage[g]
      BY <1>2, <2>2 DEF Fences, Fenced
    <3>2. host'[g] \in {host[g], Stopped(host[g])}
      BY <1>2, AbortEach DEF Disturbed
    <3> QED
      BY <1>1, <3>1, <3>2, DirtyDisturbed
  <2> QED
    BY <2>1, <2>2
<1>3. ASSUME NEW f \in Facets, DeleteFacet(f)
      PROVE  \E a \in Facets \cap SelfAndAncestors(g) : OnRecord(a, g)'
  <2>1. /\ Abort({}, IF entries[f] # 0 THEN {f} ELSE {}) /\ DeleteAndFence({f})
        /\ deletes < MaxDeletes /\ deletes' = deletes + 1 /\ UNCHANGED <<boot, queue>>
    BY <1>3 DEF DeleteFacet
  <2>2. Fences({f})
    BY <2>1, FencesOf
  <2> QED
    BY <1>2, <2>1, <2>2
<1>4. ASSUME NEW actor, DeleteAll(actor)
      PROVE  \E a \in Facets \cap SelfAndAncestors(g) : OnRecord(a, g)'
  <2> DEFINE children == {f \in Facets : Parent[f] = actor}
  <2>1. /\ Abort({}, {f \in children : entries[f] # 0}) /\ DeleteAndFence(children \cap known)
        /\ deletes < MaxDeletes /\ deletes' = deletes + 1 /\ UNCHANGED <<boot, queue>>
        /\ children \cap known \in SUBSET Facets
    BY <1>4 DEF DeleteAll
  <2> HIDE DEF children
  <2>2. Fences(children \cap known)
    BY <2>1, FencesOf
  <2> QED
    BY <1>2, <2>1, <2>2
<1> QED
  BY <1>1, <1>3, <1>4, DirtyBefore

-----------------------------------------------------------------------------
(***************************************************************************)
(* The theorems                                                            *)
(***************************************************************************)

LEMMA InvInitially == Init => Inv
<1> SUFFICES ASSUME Init PROVE Inv
  OBVIOUS
<1>1. TypeOK
  BY TypeAtInit
<1>2. SerialInv /\ KnownInv /\ RunsInv /\ QueueInv /\ PendingInv
  BY DEF Init, Everywhere, Absent, SerialInv, Serial, KnownInv, RunsInv, QueueInv, PendingInv
<1>3. RecordInv
  BY DEF Init, Everywhere, Absent, RecordInv, Dirty
<1> QED
  BY <1>1, <1>2, <1>3 DEF Inv

LEMMA InvStep == Inv /\ [Next]_vars => Inv'
<1>1. ASSUME Inv, Next PROVE Inv'
  <2>1. /\ TypeOK /\ SerialInv /\ KnownInv /\ RunsInv /\ QueueInv /\ PendingInv /\ RecordInv
    BY <1>1 DEF Inv
  <2>2. TypeOK'
    BY <1>1, <2>1, TypeOfApplication, TypeOfPlacement, TypeOfDeletion, Zenon DEF Next, Failure
  <2>3. SerialInv'
    BY <1>1, <2>1, SerialOfApplication, SerialOfPlacement, SerialOfDeletion, Zenon
       DEF Next, Failure
  <2>4. KnownInv' /\ RunsInv' /\ QueueInv' /\ PendingInv' /\ RecordInv'
    BY <1>1, <2>1, <2>2, KnownKept, RunsKept, QueueKept, PendingKept, RecordKept, Zenon
  <2> QED
    BY <2>2, <2>3, <2>4 DEF Inv
<1>2. ASSUME Inv, UNCHANGED vars PROVE Inv'
  <2> USE <1>2 DEF vars, durable, memory, counters
  <2>1. TypeOK'
    BY DEF Inv, TypeOK
  <2>2. SerialInv' /\ KnownInv' /\ RunsInv' /\ QueueInv'
    BY DEF Inv, SerialInv, KnownInv, RunsInv, QueueInv
  <2>3. PendingInv'
    BY DEF Inv, PendingInv, Withheld
  <2>4. RecordInv'
    BY DEF Inv, RecordInv, Dirty, OnRecord, Passed
  <2> QED
    BY <2>1, <2>2, <2>3, <2>4 DEF Inv
<1> QED
  BY <1>1, <1>2

\* The invariant holds in every state of Facets.
THEOREM Invariance == Spec => []Inv
  BY InvInitially, InvStep, PTL DEF Spec

\* The variables of Facets keep their types, whatever tree the facets form.
THEOREM Typing == Spec => []TypeOK
<1>1. Inv => TypeOK
  BY DEF Inv
<1> QED
  BY <1>1, Invariance, PTL

\* Whatever a deletion was requested for is in the receipt of the facet or of an ancestor
\* until it is erased, whatever newer requests, placements, failures and crashes come in
\* between (record(), the generation in clear(), recoverAll()).
THEOREM OnRecordAlways == Spec => []DoomedIsOnRecord
<1>1. Inv => DoomedIsOnRecord
  BY DEF Inv, RecordInv, Dirty, OnRecord, DoomedIsOnRecord
<1> QED
  BY <1>1, Invariance, PTL

\* The host is never asked for a facet that it is placing or has placed: an operation on an
\* id, and the teardown of the placement before it, is over when the next one starts
\* (runOperation()).
THEOREM Serially == Spec => StartsAreSerial
<1>1. ASSUME Inv, NEW f \in Facets, Place(f) PROVE host[f].stage = "absent"
  <2>1. ops[f] # <<>> /\ ops[f][1].stage = "settling"
    BY <1>1, SerialFacts DEF Place, Settled, OpAt, Idle, Op, Inv
  <2> QED
    BY <1>1, <2>1 DEF Inv, SerialInv, Serial, HeadOk
<1>2. Inv => [\A f \in Facets : Place(f) => host[f].stage = "absent"]_vars
  BY <1>1
<1> QED
  BY <1>2, Invariance, PTL DEF StartsAreSerial

=============================================================================
