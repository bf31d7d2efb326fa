--------------------------- MODULE BrowserAlarmProofs ---------------------------
(***************************************************************************)
(* Proofs about the browser alarm, for every clock and every number of     *)
(* projections, of deliveries and of troubles.                             *)
(***************************************************************************)
EXTENDS BrowserAlarm, SequenceTheorems, TLAPS

-----------------------------------------------------------------------------
(***************************************************************************)
(* The inductive invariant.                                                *)
(***************************************************************************)

Ops ==
       [kind : {"reconcile"}, stage : {"start"}]
  \cup [kind : {"project"}, stage : {"start", "apply"}, generation : Generations, when : Wakes]
  \cup [kind : {"fire"}, stage : {"start"}, when : Instants]
  \cup [kind : {"fire"}, stage : {"save"}, when : Instants, delivery : Deliveries]
  \cup [kind : {"complete"}, stage : {"start", "apply"}, attempt : Generations,
        generation : Generations, when : Wakes]

TypeInv == TypeOK /\ generation \in Nat /\ bgUp \in BOOLEAN /\ tail \in Seq(Ops)

\* The projections that anything names: the journal, the host, the wire, the mutations and
\* the answers to deliveries.
Carries(op) == op.kind \in {"project", "complete"}
Known ==
  {NoProjection, journal.projection, Projection(latest)} \cup wire
    \cup {a.answer : a \in attempts}
    \cup {Projection(tail[i]) : i \in {j \in 1..Len(tail) : Carries(tail[j])}}
    \cup {Projection(sends[i]) : i \in {j \in 1..Len(sends) : sends[j].generation > 0}}

\* A generation was drawn for one wake.
KnownInv == \A p, q \in Known : p.generation = q.generation => p = q

\* The projection under way has the last generation, and so has the one that settled last,
\* which is the one of the journal when it was accepted.  The last one sent is what the
\* scheduler would project now.
HostInv ==
  /\ ~hostUp => sends = <<>> /\ latest.result = "none" /\ delivering = Never
  /\ \A i \in 1..Len(sends) :
       /\ sends[i].generation > 0 => i = 1 /\ sends[i].generation = generation
       /\ i = Len(sends) => sends[i].when = Earliest(row, delivering)
  /\ latest.result # "none" =>
       sends = <<>> /\ latest.generation = generation /\ latest.when = Earliest(row, delivering)
  /\ latest.result = "ok" => journal.projection.generation = generation

\* A mutation that has begun is the first one, and a projection that is applied is in the
\* journal; the end of a delivery belongs to one delivery, which is completing.
OpInv(i) ==
  /\ i > 1 => tail[i].stage = "start"
  /\ tail[i].kind = "fire" => tail[i].when <= now
  /\ tail[i].kind = "complete" =>
       \E a \in attempts : a.stage = "completing" /\ a.generation = tail[i].attempt
  /\ tail[i].kind = "project" /\ tail[i].stage = "apply" =>
       journal.projection = Projection(tail[i])

TailInv ==
  /\ \A i \in 1..Len(tail) : OpInv(i)
  /\ \A i, j \in 1..Len(tail) :
       tail[i].kind = "complete" /\ tail[j].kind = "complete" /\ tail[i].attempt = tail[j].attempt
         => i = j

\* The scheduler has nothing left of what was due when a delivery that was answered began.
DoneWith(a) == Earliest(row, delivering) > a.after
AttemptInv ==
  \A a \in attempts : a.after <= now /\ (a.stage \in {"answered", "completing"} => DoneWith(a))

Inv == TypeInv /\ KnownInv /\ HostInv /\ TailInv /\ AttemptInv

-----------------------------------------------------------------------------
(***************************************************************************)
(* Times.                                                                  *)
(***************************************************************************)

LEMMA MinOfTwo ==
  ASSUME NEW x \in Int, NEW y \in Int PROVE Min({x, y}) = IF x < y THEN x ELSE y
<1>1. PICK m \in {x, y} : m = (IF x < y THEN x ELSE y) /\ \A z \in {x, y} : m <= z
  OBVIOUS
<1>2. \A u \in {x, y} : (\A z \in {x, y} : u <= z) => u = m
  BY <1>1
<1> QED
  BY <1>1, <1>2 DEF Min

LEMMA MaxOfTwo ==
  ASSUME NEW x \in Int, NEW y \in Int PROVE Max({x, y}) = IF x < y THEN y ELSE x
<1>1. PICK m \in {x, y} : m = (IF x < y THEN y ELSE x) /\ \A z \in {x, y} : m >= z
  OBVIOUS
<1>2. \A u \in {x, y} : (\A z \in {x, y} : u >= z) => u = m
  BY <1>1
<1> QED
  BY <1>1, <1>2 DEF Max

LEMMA WakesAreNumbers ==
  /\ MaxTime \in Nat /\ Never \in Nat /\ Wakes \subseteq Nat /\ Instants \subseteq Wakes
  /\ Never \in Wakes /\ \A t \in Instants : t < Never
  /\ \A t \in Wakes : t <= Never /\ (t # Never => t \in Instants)
  BY BrowserAlarmAssumption DEF Never, Wakes, Instants

LEMMA EarliestIs ==
  ASSUME NEW alarm \in Wakes, NEW active \in Wakes
  PROVE  /\ Earliest(alarm, active) = IF alarm < active THEN alarm ELSE active
         /\ Earliest(alarm, active) \in Wakes
<1>1. alarm \in Int /\ active \in Int
  BY WakesAreNumbers
<1> QED
  BY <1>1, MinOfTwo DEF Earliest

\* What fire() journals is a delivery.
LEMMA DeliveryIsTyped ==
  ASSUME TypeInv PROVE Delivery \in Deliveries
<1>1. journal.projection.generation \in Generations /\ now \in Instants /\ MaxTries \in Nat \ {0}
  BY BrowserAlarmAssumption DEF TypeInv, TypeOK, Projections
<1>2. Retries \in 0..MaxTries
  <2>1. CASE journal.delivery = NoDelivery
    BY <1>1, <2>1 DEF Retries
  <2>2. CASE journal.delivery # NoDelivery
    <3>1. journal.delivery \in Deliveries
      BY <2>2 DEF TypeInv, TypeOK
    <3>2. journal.delivery.retryCount \in 1..MaxTries
      BY <3>1 DEF Deliveries
    <3> QED
      BY <1>1, <3>2 DEF Retries
  <2> QED
    BY <2>1, <2>2
<1>3. Counted(Retries) \in 1..MaxTries
  BY <1>1, <1>2, MinOfTwo DEF Counted
<1>4. RetryDelay(Retries) \in Nat
  <2>1. Min({Retries, MaxTries - 1}) \in 0..MaxTries
    BY <1>1, <1>2, MinOfTwo
  <2> QED
    BY <2>1, DelaysAreNumbers DEF RetryDelay
<1>5. Min({now + RetryDelay(Retries), MaxTime}) \in Instants
  <2>1. PICK d \in Nat : d = now + RetryDelay(Retries)
    BY <1>1, <1>4 DEF Instants
  <2> QED
    BY <2>1, MinOfTwo, WakesAreNumbers DEF Instants
<1> QED
  BY <1>1, <1>3, <1>5 DEF Delivery, Deliveries

-----------------------------------------------------------------------------
(***************************************************************************)
(* Generations.                                                            *)
(***************************************************************************)

LEMMA KnownIsTyped ==
  ASSUME TypeInv PROVE Known \subseteq Projections
<1>1. \A i \in 1..Len(tail) : tail[i] \in Ops
  BY ElementOfSeq DEF TypeInv
<1>2. \A i \in 1..Len(sends) : sends[i] \in [when : Wakes, active : {0, 1}, generation : Generations]
  BY ElementOfSeq DEF TypeInv, TypeOK
<1>3. \A i \in 1..Len(tail) : Carries(tail[i]) => Projection(tail[i]) \in Projections
  BY <1>1 DEF Ops, Carries, Projection, Projections
<1>4. \A i \in 1..Len(sends) : Projection(sends[i]) \in Projections
  BY <1>2 DEF Projection, Projections
<1>5. /\ NoProjection \in Projections /\ journal.projection \in Projections
      /\ Projection(latest) \in Projections /\ wire \subseteq Projections
      /\ \A a \in attempts : a.answer \in Projections
  BY WakesAreNumbers DEF TypeInv, TypeOK, NoProjection, Projection, Projections, Generations
<1> QED
  BY <1>3, <1>4, <1>5 DEF Known

\* No projection was made up.
LEMMA KnownIsKept ==
  ASSUME KnownInv, journal'.projection \in Known, Projection(latest)' \in Known, wire' \subseteq Known,
         \A a \in attempts' : a.answer \in Known,
         \A i \in 1..Len(tail') : Carries(tail'[i]) => Projection(tail'[i]) \in Known,
         \A i \in 1..Len(sends') : sends'[i].generation > 0 => Projection(sends'[i]) \in Known
  PROVE  KnownInv'
<1>1. Known' \subseteq Known
  BY DEF Known, Projection
<1> QED
  BY <1>1 DEF KnownInv

LEMMA Knows ==
  /\ NoProjection \in Known /\ journal.projection \in Known /\ Projection(latest) \in Known
  /\ wire \subseteq Known /\ \A a \in attempts : a.answer \in Known
  /\ \A i \in 1..Len(tail) : Carries(tail[i]) => Projection(tail[i]) \in Known
  /\ \A i \in 1..Len(sends) : sends[i].generation > 0 => Projection(sends[i]) \in Known
  BY DEF Known

-----------------------------------------------------------------------------
(***************************************************************************)
(* Mutations, #mutate().                                                   *)
(***************************************************************************)

\* What the tail lemmas keep of the attempts.
Kept(op) ==
  \A a \in attempts : a.stage = "completing" /\ (op.kind = "complete" => a.generation # op.attempt)
    => a \in attempts'

\* The first mutation is over.
LEMMA DoneKeeps ==
  ASSUME TypeInv, TailInv, tail # <<>>, tail' = Tail(tail), Kept(Op), now' = now,
         generation' = generation
  PROVE  /\ TailInv' /\ tail' \in Seq(Ops)' /\ bgUp \in BOOLEAN
         /\ \A i \in 1..Len(tail') : Carries(tail'[i]) => Projection(tail'[i]) \in Known
<1>1. /\ Len(tail) \in Nat /\ Len(tail') = Len(tail) - 1 /\ tail' \in Seq(Ops) /\ Op = tail[1]
      /\ \A i \in 1..Len(tail') : /\ i + 1 \in 1..Len(tail) /\ i + 1 > 1 /\ i \in Nat
                                  /\ tail'[i] = tail[i + 1] /\ tail'[i] \in Ops
  BY HeadTailProperties, LenProperties, ElementOfSeq DEF TypeInv, Op
<1>2. Seq(Ops)' = Seq(Ops)
  BY DEF Ops, Generations, Deliveries
<1>3. 1 \in 1..Len(tail)
  BY <1>1, EmptySeq DEF TypeInv
<1>4. ASSUME NEW i \in 1..Len(tail') PROVE OpInv(i)'
  <2>1. PICK j \in 1..Len(tail) : j = i + 1 /\ j # 1 /\ j > 1 /\ tail'[i] = tail[j]
    BY <1>1, <1>4
  <2>2. OpInv(j) /\ tail[j].stage = "start"
    BY <2>1 DEF TailInv, OpInv
  <2>3. ASSUME tail[j].kind = "complete"
        PROVE  \E a \in attempts' : a.stage = "completing" /\ a.generation = tail[j].attempt
    <3>1. PICK a \in attempts : a.stage = "completing" /\ a.generation = tail[j].attempt
      BY <2>2, <2>3 DEF OpInv
    <3>2. Op.kind = "complete" => a.generation # Op.attempt
      BY <1>1, <1>3, <2>1, <2>3, <3>1 DEF TailInv
    <3> QED
      BY <3>1, <3>2 DEF Kept
  <2> QED
    BY <2>1, <2>2, <2>3 DEF OpInv
<1>5. ASSUME NEW i \in 1..Len(tail'), NEW j \in 1..Len(tail'), tail'[i].kind = "complete",
             tail'[j].kind = "complete", tail'[i].attempt = tail'[j].attempt
      PROVE  i = j
  <2>1. i + 1 = j + 1
    BY <1>1, <1>5 DEF TailInv
  <2> QED
    BY <1>1, <2>1
<1> QED
  BY <1>1, <1>2, <1>4, <1>5, Knows DEF TailInv, TypeInv

\* The first mutation goes on.
LEMMA ProceedKeeps ==
  ASSUME TypeInv, TailInv, tail # <<>>, NEW op \in Ops, tail' = <<op>> \o Tail(tail),
         op.kind = Op.kind, op.kind = "complete" => op.attempt = Op.attempt,
         op.kind = "fire" => op.when <= now, Carries(op) => Projection(op) = Projection(Op),
         op.kind = "project" /\ op.stage = "apply" => journal'.projection = Projection(op),
         \A a \in attempts : a.stage = "completing" => a \in attempts', now' = now,
         generation' = generation
  PROVE  /\ TailInv' /\ tail' \in Seq(Ops)'
         /\ \A i \in 1..Len(tail') : Carries(tail'[i]) => Projection(tail'[i]) \in Known
<1>1. /\ Len(tail) \in Nat /\ Len(tail) >= 1 /\ Op = tail[1] /\ 1 \in 1..Len(tail)
      /\ Tail(tail) \in Seq(Ops) /\ Len(Tail(tail)) = Len(tail) - 1
      /\ \A i \in 1..Len(Tail(tail)) : Tail(tail)[i] = tail[i + 1]
  BY HeadTailProperties, LenProperties, EmptySeq DEF TypeInv, Op
<1>2. /\ tail' \in Seq(Ops) /\ Len(tail') = Len(tail) /\ tail'[1] = op
      /\ \A i \in 1..Len(tail') : i # 1 => tail'[i] = tail[i]
  <2>1. <<op>> \in Seq(Ops) /\ Len(<<op>>) = 1 /\ <<op>>[1] = op
    OBVIOUS
  <2>2. /\ tail' \in Seq(Ops) /\ Len(tail') = Len(tail)
        /\ \A i \in 1..Len(tail') : tail'[i] = IF i <= 1 THEN <<op>>[i] ELSE Tail(tail)[i - 1]
    BY <1>1, <2>1, ConcatProperties
  <2>3. ASSUME NEW i \in 1..Len(tail), i # 1 PROVE tail'[i] = tail[i]
    <3>1. PICK j \in 1..Len(Tail(tail)) : j = i - 1 /\ j + 1 = i /\ ~(i <= 1)
      BY <1>1, <2>3
    <3> QED
      BY <1>1, <2>2, <3>1
  <2> QED
    BY <1>1, <2>1, <2>2, <2>3
<1>3. Seq(Ops)' = Seq(Ops)
  BY DEF Ops, Generations, Deliveries
<1>4. ASSUME NEW i \in 1..Len(tail') PROVE OpInv(i)'
  <2>1. OpInv(i) /\ i \in 1..Len(tail)
    BY <1>2, <1>4 DEF TailInv
  <2>2. CASE i = 1
    BY <1>1, <1>2, <2>1, <2>2 DEF OpInv
  <2>3. CASE i # 1
    BY <1>1, <1>2, <2>1, <2>3 DEF OpInv
  <2> QED
    BY <2>2, <2>3
<1>5. ASSUME NEW i \in 1..Len(tail'), NEW j \in 1..Len(tail'), tail'[i].kind = "complete",
             tail'[j].kind = "complete", tail'[i].attempt = tail'[j].attempt
      PROVE  i = j
  <2>1. /\ i \in 1..Len(tail) /\ tail[i].kind = "complete" /\ tail[i].attempt = tail'[i].attempt
        /\ j \in 1..Len(tail) /\ tail[j].kind = "complete" /\ tail[j].attempt = tail'[j].attempt
    BY <1>1, <1>2, <1>5
  <2> QED
    BY <1>5, <2>1 DEF TailInv
<1>6. ASSUME NEW i \in 1..Len(tail'), Carries(tail'[i]) PROVE Projection(tail'[i]) \in Known
  <2>1. Carries(tail[i]) /\ Projection(tail'[i]) = Projection(tail[i]) /\ i \in 1..Len(tail)
    BY <1>1, <1>2, <1>6 DEF Carries
  <2> QED
    BY <2>1, Knows
<1> QED
  BY <1>2, <1>3, <1>4, <1>5, <1>6 DEF TailInv

\* A mutation joins, maybe behind the reconciliation of a fresh background worker.
LEMMA EnqueueKeeps ==
  ASSUME TypeInv, TailInv, NEW op \in Ops, Enqueue(op), op.stage = "start",
         op.kind \in {"project", "fire"}, op.kind = "fire" => op.when <= now,
         Carries(op) => Projection(op) \in Known,
         UNCHANGED <<attempts, now, generation, journal>>
  PROVE  /\ TailInv' /\ tail' \in Seq(Ops)' /\ bgUp' = TRUE
         /\ \A i \in 1..Len(tail') : Carries(tail'[i]) => Projection(tail'[i]) \in Known
<1> DEFINE before == IF bgUp THEN tail ELSE <<Reconcile>>
<1>1. Reconcile \in Ops /\ Reconcile.kind = "reconcile" /\ Reconcile.stage = "start"
  BY DEF Ops, Reconcile
<1>2. /\ before \in Seq(Ops) /\ Len(before) \in Nat
      /\ \A i \in 1..Len(before) :
           \/ before[i] = Reconcile
           \/ i \in 1..Len(tail) /\ bgUp /\ before[i] = tail[i]
  BY <1>1, LenProperties DEF TypeInv
<1>3. bgUp' = TRUE /\ tail' = before \o <<op>>
  BY DEF Enqueue
<1> HIDE DEF before
<1>4. /\ tail' \in Seq(Ops) /\ Len(tail') = Len(before) + 1 /\ tail'[Len(before) + 1] = op
      /\ \A i \in 1..Len(before) : tail'[i] = before[i]
  <2>1. <<op>> \in Seq(Ops) /\ Len(<<op>>) = 1 /\ <<op>>[1] = op
    OBVIOUS
  <2>2. /\ tail' \in Seq(Ops) /\ Len(tail') = Len(before) + 1
        /\ \A i \in 1..Len(tail') :
             tail'[i] = IF i <= Len(before) THEN before[i] ELSE <<op>>[i - Len(before)]
    BY <1>2, <1>3, <2>1, ConcatProperties
  <2>3. tail'[Len(before) + 1] = op
    <3>1. PICK n \in Nat : n = Len(before)
      BY <1>2
    <3>2. n + 1 \in 1..Len(tail') /\ ~(n + 1 <= n) /\ (n + 1) - n = 1
      BY <2>2, <3>1
    <3> QED
      BY <2>1, <2>2, <3>1, <3>2
  <2> QED
    BY <1>2, <2>2, <2>3
<1>5. ASSUME NEW i \in 1..Len(tail')
      PROVE  \/ tail'[i] = Reconcile
             \/ i = Len(before) + 1 /\ tail'[i] = op
             \/ i \in 1..Len(tail) /\ bgUp /\ tail'[i] = tail[i]
  BY <1>2, <1>4
<1>6. Seq(Ops)' = Seq(Ops)
  BY DEF Ops, Generations, Deliveries
<1>7. ASSUME NEW i \in 1..Len(tail') PROVE OpInv(i)'
  <2>1. CASE tail'[i] = Reconcile
    BY <1>1, <2>1 DEF OpInv
  <2>2. CASE tail'[i] = op
    BY <2>2 DEF OpInv
  <2>3. CASE i \in 1..Len(tail) /\ tail'[i] = tail[i]
    BY <2>3 DEF OpInv, TailInv
  <2> QED
    BY <1>5, <1>7, <2>1, <2>2, <2>3
<1>8. ASSUME NEW i \in 1..Len(tail'), tail'[i].kind = "complete"
      PROVE  i \in 1..Len(tail) /\ tail'[i] = tail[i]
  BY <1>1, <1>5, <1>8
<1>9. ASSUME NEW i \in 1..Len(tail'), Carries(tail'[i]) PROVE Projection(tail'[i]) \in Known
  BY <1>1, <1>5, <1>9, Knows DEF Carries
<1>10. TailInv'
  BY <1>7, <1>8 DEF TailInv
<1> QED
  BY <1>3, <1>4, <1>6, <1>9, <1>10

-----------------------------------------------------------------------------
(***************************************************************************)
(* Answers, settle() and acknowledge().                                    *)
(***************************************************************************)

Attempts == [generation : Generations, after : Instants, answer : Projections,
             stage : {"asking", "waiting", "answered", "completing"}]
Sends    == [when : Wakes, active : {0, 1}, generation : Generations]
Latest   == [when : Wakes, active : {0, 1}, generation : Generations,
             result : {"none", "ok", "failed"}]
Calls    == [generation : Generations, after : Instants]

Unique(A) == \A a, b \in A : a.generation = b.generation => a = b

\* A call that is answered is for a wake before what the scheduler projects.
LEMMA AnswersAreLater ==
  ASSUME NEW outcome, outcome.when \in Wakes, NEW calls \in SUBSET Calls,
         NEW w \in Answers(outcome, calls)
  PROVE  w \in calls /\ outcome.when > w.after
<1>1. w \in calls /\ (outcome.when = Never \/ outcome.when > w.after) /\ w.after \in Instants
  BY DEF Answers, Calls
<1> QED
  BY <1>1, WakesAreNumbers

LEMMA AnswerKeeps ==
  ASSUME TypeInv, AttemptInv, NEW outcome, outcome.generation \in Generations,
         outcome.when \in Wakes, outcome.when = Earliest(row, delivering),
         NEW calls \in SUBSET Calls, attempts' = Answer(outcome, Answers(outcome, calls)),
         UNCHANGED <<row, delivering, now, generation>>
  PROVE  /\ attempts' \subseteq Attempts /\ Unique(attempts') /\ AttemptInv'
         /\ \A a \in attempts : a.stage = "completing" => a \in attempts'
         /\ \A b \in attempts' : b.answer = Projection(outcome) \/ \E a \in attempts : b.answer = a.answer
<1> DEFINE told(a) == \E w \in Answers(outcome, calls) :
                        a.stage = "waiting" /\ w = [generation |-> a.generation, after |-> a.after]
           next(a) == IF told(a)
                      THEN [a EXCEPT !.stage = "answered",
                                     !.answer = [generation |-> outcome.generation, when |-> outcome.when]]
                      ELSE a
<1>1. attempts' = {next(a) : a \in attempts}
  BY DEF Answer
<1>2. ASSUME NEW a \in attempts
      PROVE  /\ a \in Attempts /\ a.after <= now
             /\ a.stage \in {"answered", "completing"} => DoneWith(a)
  BY DEF TypeInv, TypeOK, Attempts, AttemptInv
<1>3. ASSUME NEW a \in attempts, told(a)
      PROVE  /\ next(a) \in Attempts /\ next(a).generation = a.generation
             /\ next(a).after = a.after /\ next(a).answer = Projection(outcome)
             /\ outcome.when > a.after /\ a.stage = "waiting"
  <2>1. next(a) = [a EXCEPT !.stage = "answered", !.answer = Projection(outcome)]
    BY <1>3 DEF Projection
  <2>2. Projection(outcome) \in Projections
    BY DEF Projection, Projections
  <2>3. PICK w \in Answers(outcome, calls) :
          a.stage = "waiting" /\ w = [generation |-> a.generation, after |-> a.after]
    BY <1>3
  <2>4. outcome.when > a.after
    BY <2>3, AnswersAreLater
  <2> QED
    BY <1>2, <2>1, <2>2, <2>3, <2>4 DEF Attempts
<1>4. ASSUME NEW a \in attempts, ~told(a) PROVE next(a) = a
  BY <1>4
<1> HIDE DEF told, next
<1>5. ASSUME NEW b \in attempts'
      PROVE  /\ b \in Attempts /\ b.after <= now
             /\ b.stage \in {"answered", "completing"} => Earliest(row, delivering) > b.after
             /\ b.answer = Projection(outcome) \/ \E a \in attempts : b.answer = a.answer
  <2>1. PICK a \in attempts : b = next(a)
    BY <1>1, <1>5
  <2>2. CASE told(a)
    BY <1>2, <1>3, <2>1, <2>2
  <2>3. CASE ~told(a)
    BY <1>2, <1>4, <2>1, <2>3 DEF DoneWith
  <2> QED
    BY <2>2, <2>3
<1>6. Unique(attempts')
  <2>1. ASSUME NEW b \in attempts', NEW c \in attempts', b.generation = c.generation PROVE b = c
    <3>1. PICK a \in attempts, d \in attempts : b = next(a) /\ c = next(d)
      BY <1>1, <2>1
    <3>2. next(a).generation = a.generation /\ next(d).generation = d.generation
      BY <1>3, <1>4
    <3>3. a = d
      BY <2>1, <3>1, <3>2 DEF TypeInv, TypeOK
    <3> QED
      BY <3>1, <3>3
  <2> QED
    BY <2>1 DEF Unique
<1>7. ASSUME NEW a \in attempts, a.stage = "completing" PROVE a \in attempts'
  <2>1. ~told(a)
    BY <1>3, <1>7
  <2> QED
    BY <1>1, <1>4, <2>1
<1> QED
  BY <1>5, <1>6, <1>7 DEF AttemptInv, DoneWith

\* What the steps of the host leave of the types and of the projections.
HostTypes ==
  /\ sends \in Seq(Sends) /\ latest \in Latest /\ waiters \subseteq Calls
  /\ attempts \subseteq Attempts /\ Unique(attempts)
HostKnown ==
  /\ Projection(latest)' \in Known /\ \A a \in attempts' : a.answer \in Known
  /\ \A i \in 1..Len(sends') : sends'[i].generation > 0 => Projection(sends'[i]) \in Known

LEMMA TypesOfHost ==
  ASSUME TypeInv PROVE HostTypes
  BY DEF TypeInv, TypeOK, HostTypes, Sends, Latest, Calls, Attempts, Unique

\* The first projection leaves the queue.
LEMMA NextSend ==
  ASSUME TypeInv, HostInv, sends # <<>>, sends' = Tail(sends)
  PROVE  /\ sends' \in Seq(Sends) /\ Len(sends) \in Nat /\ Len(sends') = Len(sends) - 1
         /\ \A i \in 1..Len(sends') : /\ i + 1 \in 1..Len(sends) /\ i + 1 # 1
                                      /\ sends'[i] = sends[i + 1] /\ ~(sends'[i].generation > 0)
         /\ Head(sends) = sends[1] /\ 1 \in 1..Len(sends) /\ sends[1] \in Sends
         /\ latest.result = "none"
<1>1. sends \in Seq(Sends) /\ Len(sends) \in Nat
  BY TypesOfHost, LenProperties DEF HostTypes
<1>2. /\ sends' \in Seq(Sends) /\ Len(sends') = Len(sends) - 1
      /\ \A i \in 1..Len(sends') : sends'[i] = sends[i + 1]
      /\ 1 \in 1..Len(sends) /\ Head(sends) = sends[1] /\ sends[1] \in Sends
  BY <1>1, HeadTailProperties, EmptySeq, ElementOfSeq
<1>3. ASSUME NEW i \in 1..Len(sends')
      PROVE  i + 1 \in 1..Len(sends) /\ i + 1 # 1 /\ ~(sends'[i].generation > 0)
  <2>1. i + 1 \in 1..Len(sends) /\ i + 1 # 1
    BY <1>1, <1>2
  <2> QED
    BY <1>2, <2>1 DEF HostInv
<1>4. latest.result = "none"
  BY TypesOfHost DEF HostTypes, Latest, HostInv
<1> QED
  BY <1>1, <1>2, <1>3, <1>4

\* record(): the projection under way settles.
LEMMA Recorded ==
  ASSUME TypeInv, HostInv, AttemptInv, UnderWay, NEW result \in {"ok", "failed"}, Record(result),
         result = "ok" => journal'.projection.generation = generation,
         UNCHANGED <<row, delivering, hostUp, generation, now>>
  PROVE  /\ HostInv' /\ AttemptInv' /\ HostTypes' /\ HostKnown
         /\ \A a \in attempts : a.stage = "completing" => a \in attempts'
<1> DEFINE outcome == [when |-> Head(sends).when, active |-> Head(sends).active,
                       generation |-> Head(sends).generation, result |-> result]
<1>1. /\ sends # <<>> /\ sends' = Tail(sends) /\ Head(sends).generation > 0
      /\ IF Len(sends) > 1 THEN UNCHANGED <<latest, waiters, attempts>>
         ELSE /\ latest' = outcome
              /\ IF result = "failed"
                 THEN waiters' = {} /\ attempts' = {a \in attempts : a.stage # "waiting"}
                 ELSE /\ waiters' = waiters \ Answers(outcome, waiters)
                      /\ attempts' = Answer(outcome, Answers(outcome, waiters))
  BY DEF Record, UnderWay
<1>2. /\ sends' \in Seq(Sends) /\ Len(sends) \in Nat /\ Len(sends') = Len(sends) - 1
      /\ \A i \in 1..Len(sends') : /\ i + 1 \in 1..Len(sends) /\ i + 1 # 1
                                   /\ sends'[i] = sends[i + 1] /\ ~(sends'[i].generation > 0)
      /\ Head(sends) = sends[1] /\ 1 \in 1..Len(sends) /\ sends[1] \in Sends
      /\ latest.result = "none"
  BY <1>1, NextSend
<1>3. sends[1].generation = generation /\ hostUp /\ Projection(sends[1]) \in Known
  BY <1>1, <1>2, Knows DEF HostInv, TypeInv, TypeOK
<1>4. /\ outcome \in Latest /\ outcome.generation = generation /\ outcome.result = result
      /\ Projection(outcome) = Projection(sends[1]) /\ outcome.when = sends[1].when
      /\ outcome.when \in Wakes /\ outcome.generation \in Generations
  BY <1>2, <1>3 DEF Sends, Latest, Projection
<1> HIDE DEF outcome
<1>5. /\ Latest' = Latest /\ Calls' = Calls /\ Attempts' = Attempts /\ Sends' = Sends
      /\ HostTypes
  BY TypesOfHost DEF Latest, Calls, Attempts, Sends, Projections, Generations
<1>6. CASE Len(sends) > 1
  <2>1. UNCHANGED <<latest, waiters, attempts>>
    BY <1>1, <1>6
  <2>2. ASSUME NEW i \in 1..Len(sends') PROVE i = Len(sends') => sends'[i].when = Earliest(row, delivering)
    BY <1>2, <2>2 DEF HostInv
  <2>3. HostInv'
    BY <1>2, <1>3, <2>1, <2>2 DEF HostInv
  <2>4. HostTypes' /\ HostKnown /\ AttemptInv'
    BY <1>2, <1>5, <2>1, Knows DEF HostTypes, HostKnown, AttemptInv, DoneWith, Projection
  <2> QED
    BY <2>1, <2>3, <2>4
<1>7. CASE ~(Len(sends) > 1)
  <2>1. sends' = <<>> /\ Len(sends) = 1 /\ latest' = outcome
    BY <1>1, <1>2, <1>7, EmptySeq
  <2>2. outcome.when = Earliest(row, delivering)
    BY <1>2, <1>4, <2>1 DEF HostInv
  <2>3. HostInv'
    BY <1>2, <1>3, <1>4, <2>1, <2>2 DEF HostInv
  <2>4. Projection(latest)' \in Known
    BY <1>3, <1>4, <2>1 DEF Projection
  <2>5. CASE result = "failed"
    <3>1. waiters' = {} /\ attempts' = {a \in attempts : a.stage # "waiting"}
      BY <1>1, <1>7, <2>5
    <3> QED
      BY <1>2, <1>4, <1>5, <2>1, <2>3, <2>4, <3>1, Knows
         DEF HostTypes, HostKnown, AttemptInv, DoneWith, Unique
  <2>6. CASE result = "ok"
    <3>1. waiters' \subseteq waiters /\ attempts' = Answer(outcome, Answers(outcome, waiters))
      BY <1>1, <1>7, <2>6
    <3>2. waiters \in SUBSET Calls
      BY <1>5 DEF HostTypes
    <3>3. /\ attempts' \subseteq Attempts /\ Unique(attempts') /\ AttemptInv'
          /\ \A a \in attempts : a.stage = "completing" => a \in attempts'
          /\ \A b \in attempts' :
               b.answer = Projection(outcome) \/ \E a \in attempts : b.answer = a.answer
      BY <1>4, <2>2, <3>1, <3>2, AnswerKeeps
    <3>4. \A b \in attempts' : b.answer \in Known
      BY <1>3, <1>4, <3>3, Knows
    <3> QED
      BY <1>2, <1>4, <1>5, <2>1, <2>3, <2>4, <3>1, <3>2, <3>3, <3>4 DEF HostTypes, HostKnown, Unique
  <2> QED
    BY <2>5, <2>6
<1> QED
  BY <1>6, <1>7

-----------------------------------------------------------------------------
(***************************************************************************)
(* The steps of a mutation.                                                *)
(***************************************************************************)

\* The physical alarm, and whether it is gone.
PhysicalTypes == physical \in Wakes /\ unarmed \in BOOLEAN

Journals == [delivery : {NoDelivery} \cup Deliveries, projection : Projections]

LEMMA SameTypes ==
  ASSUME generation' = generation
  PROVE  /\ Generations' = Generations /\ Projections' = Projections /\ Deliveries' = Deliveries
         /\ Journals' = Journals /\ Ops' = Ops /\ Attempts' = Attempts /\ Sends' = Sends
         /\ Latest' = Latest /\ Calls' = Calls
  BY DEF Generations, Projections, Deliveries, Journals, Ops, Attempts, Sends, Latest, Calls

LEMMA Typed ==
  ASSUME HostTypes', row' \in Wakes, delivering' \in Wakes, hostUp' \in BOOLEAN,
         generation' \in Nat, (wire \subseteq Projections)', (journal \in Journals)',
         PhysicalTypes', bgUp' \in BOOLEAN, (tail \in Seq(Ops))', now' \in Instants,
         ~bgUp' => tail' = <<>> /\ attempts' = {}
  PROVE  TypeInv'
<1> USE DEF HostTypes, PhysicalTypes, Journals, Sends, Latest, Calls, Attempts, Unique
<1> QED
  BY DEF TypeInv, TypeOK

LEMMA Types ==
  ASSUME TypeInv
  PROVE  /\ HostTypes /\ row \in Wakes /\ delivering \in Wakes /\ hostUp \in BOOLEAN
         /\ generation \in Nat /\ wire \subseteq Projections /\ journal \in Journals
         /\ PhysicalTypes /\ bgUp \in BOOLEAN /\ tail \in Seq(Ops) /\ now \in Instants
         /\ ~bgUp => tail = <<>> /\ attempts = {}
  BY TypesOfHost DEF TypeInv, TypeOK, Journals, PhysicalTypes

\* The mutation under way.
LEMMA OpIs ==
  ASSUME Inv, tail # <<>>
  PROVE  /\ Op \in Ops /\ Op = tail[1] /\ 1 \in 1..Len(tail) /\ OpInv(1)
         /\ Op.kind = "project" =>
              Op \in [kind : {"project"}, stage : {"start", "apply"}, generation : Generations,
                      when : Wakes]
         /\ Op.kind = "complete" =>
              Op \in [kind : {"complete"}, stage : {"start", "apply"}, attempt : Generations,
                      generation : Generations, when : Wakes]
         /\ Op.kind = "fire" => Op.when \in Instants
         /\ Op.kind = "fire" /\ Op.stage = "save" => Op.delivery \in Deliveries
         /\ Carries(Op) => Projection(Op) \in Known
<1>1. Op = tail[1] /\ 1 \in 1..Len(tail) /\ tail[1] \in Ops
  BY HeadTailProperties, EmptySeq, LenProperties, ElementOfSeq DEF Inv, TypeInv, Op
<1>2. OpInv(1) /\ (Carries(Op) => Projection(Op) \in Known)
  BY <1>1, Knows DEF Inv, TailInv
<1> QED
  BY <1>1, <1>2 DEF Ops

\* A mutation is over that is no projection, ...
LEMMA MutationEnds ==
  ASSUME Inv, bgUp, tail # <<>>, Done, attempts' \subseteq attempts, Kept(Op),
         (journal \in Journals)', journal'.projection = journal.projection, PhysicalTypes',
         UNCHANGED <<host, projector, now>>
  PROVE  Inv'
<1> USE DEF Inv
<1>1. UNCHANGED <<row, delivering, hostUp, generation, sends, latest, waiters, wire, now, bgUp>>
  BY DEF host, projector, Done
<1>2. /\ TailInv' /\ tail' \in Seq(Ops)'
      /\ \A i \in 1..Len(tail') : Carries(tail'[i]) => Projection(tail'[i]) \in Known
  BY <1>1, DoneKeeps DEF Done
<1>3. KnownInv'
  BY <1>1, <1>2, Knows, KnownIsKept DEF Projection
<1>4. HostInv' /\ AttemptInv'
  BY <1>1 DEF HostInv, AttemptInv, DoneWith
<1>5. HostTypes'
  BY <1>1, SameTypes, Types DEF HostTypes, Unique
<1>6. TypeInv'
  BY <1>1, <1>2, <1>5, SameTypes, Types, Typed
<1> QED
  BY <1>2, <1>3, <1>4, <1>6

\* ... or is one, which the host may wait for, ...
LEMMA ProjectSettles ==
  ASSUME Inv, bgUp, tail # <<>>, Op.kind = "project", Done, NEW result \in {"ok", "failed"},
         Settled(Op, result), (journal \in Journals)', journal'.projection \in Known,
         latest.result = "ok" \/ (result = "ok" /\ Op.generation = generation)
           => journal'.projection.generation = generation,
         PhysicalTypes', UNCHANGED <<host, generation, wire, now>>
  PROVE  Inv'
<1> USE DEF Inv
<1>1. UNCHANGED <<row, delivering, hostUp, generation, wire, now, bgUp>>
  BY DEF host, Done
<1>2. /\ HostInv' /\ AttemptInv' /\ HostTypes' /\ HostKnown
      /\ \A a \in attempts : a.stage = "completing" => a \in attempts'
  <2>1. CASE UnderWay /\ Head(sends).generation = Op.generation
    <3>1. Record(result)
      BY <2>1 DEF Settled
    <3>2. Op.generation = generation
      <4>1. sends # <<>> /\ Head(sends).generation > 0
        BY <2>1 DEF UnderWay
      <4>2. sends[1] = Head(sends) /\ 1 \in 1..Len(sends)
        BY <4>1, HeadTailProperties, EmptySeq, LenProperties, Types DEF HostTypes
      <4> QED
        BY <2>1, <4>1, <4>2 DEF HostInv
    <3> QED
      BY <1>1, <2>1, <3>1, <3>2, Recorded
  <2>2. CASE ~(UnderWay /\ Head(sends).generation = Op.generation)
    <3>1. UNCHANGED <<sends, latest, waiters, attempts>>
      BY <2>2 DEF Settled
    <3>2. HostTypes' /\ HostKnown
      BY <1>1, <3>1, SameTypes, Types, Knows DEF HostTypes, Unique, HostKnown, Projection
    <3> QED
      BY <1>1, <3>1, <3>2 DEF HostInv, AttemptInv, DoneWith
  <2> QED
    BY <2>1, <2>2
<1>3. /\ TailInv' /\ tail' \in Seq(Ops)'
      /\ \A i \in 1..Len(tail') : Carries(tail'[i]) => Projection(tail'[i]) \in Known
  BY <1>1, <1>2, DoneKeeps DEF Done, Kept
<1>4. KnownInv'
  BY <1>1, <1>2, <1>3, Knows, KnownIsKept DEF HostKnown
<1>5. TypeInv'
  BY <1>1, <1>2, <1>3, SameTypes, Types, Typed
<1> QED
  BY <1>2, <1>3, <1>4, <1>5

\* ... or it goes on.
LEMMA MutationProceeds ==
  ASSUME Inv, bgUp, tail # <<>>, NEW op \in Ops, Proceed(op), op.kind = Op.kind,
         op.kind = "complete" => op.attempt = Op.attempt, op.kind = "fire" => op.when <= now,
         Carries(op) => Projection(op) = Projection(Op),
         op.kind = "project" /\ op.stage = "apply" => journal'.projection = Projection(op),
         (journal \in Journals)', journal'.projection \in Known,
         latest.result = "ok" => journal'.projection.generation = generation,
         PhysicalTypes', UNCHANGED <<host, projector, attempts, now>>
  PROVE  Inv'
<1> USE DEF Inv
<1>1. UNCHANGED <<row, delivering, hostUp, generation, sends, latest, waiters, wire, attempts,
                  now, bgUp>>
  BY DEF host, projector, Proceed
<1>2. /\ TailInv' /\ tail' \in Seq(Ops)'
      /\ \A i \in 1..Len(tail') : Carries(tail'[i]) => Projection(tail'[i]) \in Known
  BY <1>1, ProceedKeeps DEF Proceed
<1>3. KnownInv'
  BY <1>1, <1>2, Knows, KnownIsKept DEF Projection
<1>4. HostInv' /\ AttemptInv'
  BY <1>1 DEF HostInv, AttemptInv, DoneWith
<1>5. HostTypes'
  BY <1>1, SameTypes, Types DEF HostTypes, Unique
<1>6. TypeInv'
  BY <1>1, <1>2, <1>5, SameTypes, Types, Typed
<1> QED
  BY <1>2, <1>3, <1>4, <1>6

\* What the generation of a mutation that is not stale is, when the host relies on the journal.
LEMMA NotStale ==
  ASSUME Inv, tail # <<>>, Carries(Op), ~Stale(Op.generation)
  PROVE  /\ Op.generation \in Nat /\ journal.projection.generation <= Op.generation
         /\ Op.generation <= generation
         /\ latest.result = "ok" => Op.generation = generation
<1>1. /\ journal.projection.generation \in Generations /\ Op.generation \in Generations
      /\ generation \in Nat
  BY OpIs, Types DEF Inv, Carries, Journals, Projections
<1>2. latest.result = "ok" => journal.projection.generation = generation
  BY DEF Inv, HostInv
<1> QED
  BY <1>1, <1>2 DEF Stale, Generations

LEMMA MutationStep ==
  ASSUME Inv, Mutation PROVE Inv'
<1> USE DEF Inv, PhysicalTypes, Arms
<1>1. bgUp /\ tail # <<>>
  BY DEF Mutation, ProjectStale, ProjectDuringDelivery, ProjectJournaled, ProjectApplied,
         ReconcileDone,
         FireUnexpected, FireEarly, FireDue, FireJournaled, CompleteStale, CompleteJournaled,
         CompleteApplied, At
<1>2. /\ journal \in Journals /\ PhysicalTypes /\ now \in Instants /\ generation \in Nat
      /\ journal.delivery \in {NoDelivery} \cup Deliveries /\ journal.projection \in Projections
      /\ \A d \in {NoDelivery} \cup Deliveries, p \in Projections :
           [delivery |-> d, projection |-> p] \in Journals
  BY Types, SameTypes DEF Journals
<1>3. CASE ProjectStale
  <2>1. /\ Op.kind = "project" /\ Stale(Op.generation) /\ Done /\ Settled(Op, "ok")
        /\ UNCHANGED <<host, generation, wire, journal, physical, unarmed, now>>
    BY <1>3 DEF ProjectStale, At, durable
  <2>2. Op.generation # generation
    BY <1>1, <1>2, <2>1, OpIs DEF Stale, Projections, Generations
  <2>3. latest.result = "ok" => journal'.projection.generation = generation
    BY <2>1 DEF HostInv
  <2> QED
    BY <1>1, <1>2, <2>1, <2>2, <2>3, SameTypes, Knows, ProjectSettles
<1>4. CASE ProjectDuringDelivery
  <2>1. /\ Op.kind = "project" /\ ~Stale(Op.generation) /\ Done /\ Settled(Op, "ok")
        /\ journal' = [journal EXCEPT !.projection = Projection(Op)]
        /\ UNCHANGED <<host, generation, wire, physical, unarmed, now>>
    BY <1>4 DEF ProjectDuringDelivery, At
  <2>2. Projection(Op) \in Known /\ Projection(Op) \in Projections
    BY <1>1, <2>1, OpIs, KnownIsTyped DEF Carries
  <2>3. journal' \in Journals /\ journal'.projection = Projection(Op)
    BY <1>2, <2>1, <2>2 DEF Journals
  <2>4. latest.result = "ok" \/ Op.generation = generation => Op.generation = generation
    BY <1>1, <2>1, NotStale DEF Carries
  <2>5. journal'.projection.generation = Op.generation
    BY <2>3 DEF Projection
  <2> QED
    BY <1>1, <1>2, <2>1, <2>2, <2>3, <2>4, <2>5, SameTypes, ProjectSettles
<1>5. CASE ProjectJournaled
  <2>1. PICK op : op = [Op EXCEPT !.stage = "apply"]
    OBVIOUS
  <2>2. /\ Op.kind = "project" /\ ~Stale(Op.generation) /\ Proceed(op)
        /\ journal' = [delivery |-> NoDelivery, projection |-> Projection(Op)]
        /\ UNCHANGED <<host, projector, attempts, physical, unarmed, now>>
    BY <1>5, <2>1 DEF ProjectJournaled, At
  <2>3. op \in Ops /\ op.kind = "project" /\ Projection(op) = Projection(Op)
    BY <1>1, <2>1, <2>2, OpIs DEF Ops, Projection
  <2>4. Projection(Op) \in Known /\ Projection(Op) \in Projections
    BY <1>1, <2>2, OpIs, KnownIsTyped DEF Carries
  <2>5. latest.result = "ok" => Op.generation = generation
    BY <1>1, <2>2, NotStale DEF Carries
  <2>6. /\ journal' \in Journals /\ journal'.projection = Projection(Op)
        /\ journal'.projection.generation = Op.generation /\ generation' = generation
    BY <1>2, <2>2, <2>4 DEF Projection, projector
  <2> QED
    BY <1>1, <1>2, <2>2, <2>3, <2>4, <2>5, <2>6, SameTypes, MutationProceeds
<1>6. CASE ProjectApplied
  <2>1. /\ Op.kind = "project" /\ Op.stage = "apply" /\ Done /\ Settled(Op, "ok")
        /\ Arms(Op.when) /\ UNCHANGED <<host, generation, wire, journal, now>>
    BY <1>6 DEF ProjectApplied, At
  <2>2. journal.projection = Projection(Op) /\ Op.when \in Wakes
    BY <1>1, <2>1, OpIs DEF OpInv
  <2>3. journal'.projection.generation = Op.generation
    BY <2>1, <2>2 DEF Projection
  <2>4. latest.result = "ok" => journal'.projection.generation = generation
    BY <2>1 DEF HostInv
  <2> QED
    BY <1>1, <1>2, <2>1, <2>2, <2>3, <2>4, SameTypes, Knows, ProjectSettles
<1>7. CASE ReconcileDone
  <2>1. /\ Done /\ UNCHANGED <<host, projector, attempts, journal, now>>
        /\ UNCHANGED <<physical, unarmed>> \/ Arms(Restored)
    BY <1>7 DEF ReconcileDone
  <2>2. Restored \in Wakes
    <3>1. CASE journal.delivery = NoDelivery
      BY <1>2, <3>1 DEF Restored, Projections
    <3>2. CASE journal.delivery # NoDelivery
      <4>1. journal.delivery.wake \in Instants
        BY <1>2, <3>2 DEF Deliveries
      <4>2. PICK wake \in Instants : wake = journal.delivery.wake
        BY <4>1
      <4>3. wake \in Int /\ now \in Int
        BY <1>2, WakesAreNumbers
      <4>4. Max({wake, now}) \in Instants
        BY <1>2, <4>3, MaxOfTwo
      <4> QED
        BY <3>2, <4>2, <4>4, WakesAreNumbers DEF Restored
    <3> QED
      BY <3>1, <3>2
  <2>3. PhysicalTypes' /\ generation' = generation
    BY <1>2, <2>1, <2>2 DEF projector
  <2> QED
    BY <1>1, <1>2, <2>1, <2>3, SameTypes, MutationEnds DEF Kept
<1>8. CASE FireUnexpected \/ FireEarly
  <2>1. /\ Done /\ UNCHANGED <<host, projector, attempts, journal, now>>
        /\ UNCHANGED <<physical, unarmed>> \/ Arms(Owed)
    BY <1>8 DEF FireUnexpected, FireEarly, durable
  <2>2. Owed \in Wakes
    BY <1>2, WakesAreNumbers DEF Owed, ExpectedWake, Projections, Deliveries
  <2>3. PhysicalTypes' /\ generation' = generation
    BY <1>2, <2>1, <2>2 DEF projector
  <2> QED
    BY <1>1, <1>2, <2>1, <2>3, SameTypes, MutationEnds DEF Kept
<1>9. CASE FireDue
  <2>1. PICK op : op = [kind |-> "fire", stage |-> "save", when |-> Op.when, delivery |-> Delivery]
    OBVIOUS
  <2>2. /\ Op.kind = "fire" /\ Proceed(op) /\ Arms(Delivery.wake)
        /\ UNCHANGED <<host, projector, attempts, journal, now>>
    BY <1>9, <2>1 DEF FireDue, At, Watchdog
  <2>3. Op.when \in Instants /\ Op.when <= now /\ Delivery \in Deliveries
    BY <1>1, <2>2, OpIs, DeliveryIsTyped DEF OpInv
  <2>4. op \in Ops /\ op.kind = "fire" /\ op.when = Op.when /\ ~Carries(op)
    BY <2>1, <2>3 DEF Ops, Carries
  <2>5. PhysicalTypes' /\ generation' = generation
    BY <2>2, <2>3, WakesAreNumbers DEF Deliveries, projector
  <2>6. latest.result = "ok" => journal'.projection.generation = generation
    BY <2>2 DEF HostInv
  <2> QED
    BY <1>1, <1>2, <2>2, <2>3, <2>4, <2>5, <2>6, SameTypes, Knows, MutationProceeds
<1>10. CASE FireJournaled
  <2>1. PICK a : a = [generation |-> Op.delivery.generation, after |-> Op.when, stage |-> "asking",
                      answer |-> NoProjection]
    OBVIOUS
  <2>2. /\ Op.kind = "fire" /\ Op.stage = "save" /\ Done
        /\ journal' = [journal EXCEPT !.delivery = Op.delivery]
        /\ attempts' = IF \E b \in attempts : b.generation = Op.delivery.generation THEN attempts
                       ELSE attempts \cup {a}
        /\ UNCHANGED <<row, delivering, hostUp, generation, sends, latest, waiters, wire,
                       physical, unarmed, now,
                       bgUp>>
    BY <1>10, <2>1 DEF FireJournaled, At, host, projector, Done
  <2>3. Op.when \in Instants /\ Op.when <= now /\ Op.delivery \in Deliveries
    BY <1>1, <2>2, OpIs DEF OpInv
  <2>4. a \in Attempts /\ a.stage = "asking" /\ a.after <= now /\ a.answer = NoProjection
    BY <2>1, <2>3, Knows, KnownIsTyped DEF Attempts, Deliveries
  <2>5. /\ journal' \in Journals /\ journal'.projection = journal.projection
    BY <1>2, <2>2, <2>3 DEF Journals
  <2>6. attempts' \subseteq Attempts /\ Unique(attempts') /\ AttemptInv'
    <3>1. CASE attempts' = attempts
      BY <2>2, <3>1, Types DEF HostTypes, AttemptInv, DoneWith
    <3>2. CASE /\ attempts' = attempts \cup {a}
               /\ ~\E b \in attempts : b.generation = Op.delivery.generation
      BY <2>1, <2>2, <2>4, <3>2, Types DEF HostTypes, AttemptInv, DoneWith, Unique
    <3> QED
      BY <2>2, <3>1, <3>2
  <2>7. /\ TailInv' /\ tail' \in Seq(Ops)'
        /\ \A i \in 1..Len(tail') : Carries(tail'[i]) => Projection(tail'[i]) \in Known
    BY <1>1, <2>2, DoneKeeps DEF Done, Kept
  <2>8. \A b \in attempts' : b.answer \in Known
    BY <2>2, <2>4, Knows
  <2>9. KnownInv'
    BY <2>2, <2>5, <2>7, <2>8, Knows, KnownIsKept DEF Projection
  <2>10. HostInv'
    BY <2>2, <2>5 DEF HostInv
  <2>11. HostTypes'
    BY <2>2, <2>6, SameTypes, Types DEF HostTypes
  <2>12. TypeInv'
    BY <1>1, <1>2, <2>2, <2>5, <2>7, <2>11, SameTypes, Types, Typed
  <2> QED
    BY <2>6, <2>7, <2>9, <2>10, <2>12
<1>11. CASE CompleteStale \/ CompleteApplied
  <2>1. /\ Op.kind = "complete" /\ Done /\ Ended(Op) /\ UNCHANGED <<host, projector, journal, now>>
        /\ UNCHANGED <<physical, unarmed>> \/ Arms(Op.when)
    BY <1>11 DEF CompleteStale, CompleteApplied, At, durable
  <2>2. attempts' \subseteq attempts /\ Kept(Op)
    BY <2>1 DEF Ended, Kept
  <2>3. PhysicalTypes' /\ generation' = generation
    BY <1>1, <1>2, <2>1, OpIs DEF projector
  <2> QED
    BY <1>1, <1>2, <2>1, <2>2, <2>3, SameTypes, MutationEnds
<1>12. CASE CompleteJournaled
  <2>1. PICK op : op = [Op EXCEPT !.stage = "apply"]
    OBVIOUS
  <2>2. /\ Op.kind = "complete" /\ ~Stale(Op.generation) /\ Proceed(op)
        /\ journal' = [delivery |-> NoDelivery, projection |-> Projection(Op)]
        /\ UNCHANGED <<host, projector, attempts, physical, unarmed, now>>
    BY <1>12, <2>1 DEF CompleteJournaled, At
  <2>3. /\ op \in Ops /\ op.kind = "complete" /\ Projection(op) = Projection(Op)
        /\ op.attempt = Op.attempt
    BY <1>1, <2>1, <2>2, OpIs DEF Ops, Projection
  <2>4. Projection(Op) \in Known /\ Projection(Op) \in Projections
    BY <1>1, <2>2, OpIs, KnownIsTyped DEF Carries
  <2>5. latest.result = "ok" => Op.generation = generation
    BY <1>1, <2>2, NotStale DEF Carries
  <2>6. /\ journal' \in Journals /\ journal'.projection = Projection(Op)
        /\ journal'.projection.generation = Op.generation /\ generation' = generation
    BY <1>2, <2>2, <2>4 DEF Projection, projector
  <2> QED
    BY <1>1, <1>2, <2>2, <2>3, <2>4, <2>5, <2>6, SameTypes, MutationProceeds
<1> QED
  BY <1>3, <1>4, <1>5, <1>6, <1>7, <1>8, <1>9, <1>10, <1>11, <1>12 DEF Mutation

LEMMA MutationFailsStep ==
  ASSUME Inv, MutationFails PROVE Inv'
<1> USE DEF Inv, PhysicalTypes
<1>1. /\ bgUp /\ tail # <<>> /\ Done
      /\ UNCHANGED <<row, delivering, hostUp, generation, wire, journal, physical, now>> /\ unarmed' \in BOOLEAN
      /\ \/ Op.kind = "project" /\ Settled(Op, "failed")
         \/ Op.kind = "complete" /\ Ended(Op) /\ UNCHANGED <<sends, latest, waiters>>
         \/ Op.kind \notin {"project", "complete"} /\ UNCHANGED <<sends, latest, waiters, attempts>>
  BY DEF MutationFails, host, durable
<1>2. journal' \in Journals' /\ PhysicalTypes'
  BY <1>1, SameTypes, Types
<1>3. CASE Op.kind = "project" /\ Settled(Op, "failed")
  <2>1. latest.result = "ok" => journal'.projection.generation = generation
    BY <1>1 DEF HostInv
  <2> QED
    BY <1>1, <1>2, <1>3, <2>1, Knows, ProjectSettles DEF host
<1>4. CASE Op.kind = "complete" /\ Ended(Op) /\ UNCHANGED <<sends, latest, waiters>>
  <2>1. attempts' \subseteq attempts /\ Kept(Op)
    BY <1>4 DEF Ended, Kept
  <2> QED
    BY <1>1, <1>2, <1>4, <2>1, MutationEnds DEF host, projector
<1>5. CASE Op.kind \notin {"project", "complete"} /\ UNCHANGED <<sends, latest, waiters, attempts>>
  BY <1>1, <1>2, <1>5, MutationEnds DEF host, projector, Kept
<1> QED
  BY <1>1, <1>3, <1>4, <1>5

-----------------------------------------------------------------------------
(***************************************************************************)
(* The steps of the scheduler and of its projector.                        *)
(***************************************************************************)

\* The host changes, or what is known of deliveries.
LEMMA HostMoves ==
  ASSUME Inv, HostInv', HostTypes', HostKnown, AttemptInv', row' \in Wakes, delivering' \in Wakes,
         hostUp' \in BOOLEAN, ~bgUp => attempts' = {},
         \A a \in attempts : a.stage = "completing" => a \in attempts',
         UNCHANGED <<generation, wire, bgUp, tail, durable, now>>
  PROVE  Inv'
<1> USE DEF Inv, PhysicalTypes
<1>1. UNCHANGED <<journal, physical, unarmed>>
  BY DEF durable
<1>2. TailInv'
  BY <1>1 DEF TailInv, OpInv
<1>3. KnownInv'
  BY <1>1, Knows, KnownIsKept DEF HostKnown
<1>4. TypeInv'
  BY <1>1, SameTypes, Types, Typed
<1> QED
  BY <1>2, <1>3, <1>4

\* projectWake()
LEMMA Projected ==
  ASSUME Inv, NEW alarm \in Wakes, NEW active \in Wakes, row' = alarm, delivering' = active,
         hostUp' = TRUE, ProjectWake(alarm, active),
         \A a \in attempts : DoneWith(a) /\ a.after <= now => Earliest(alarm, active) > a.after,
         UNCHANGED <<generation, waiters, wire, background, durable, now>>
  PROVE  Inv'
<1> USE DEF Inv
<1>1. PICK sent : sent = Sent(alarm, active)
  OBVIOUS
<1>2. /\ sent \in Sends /\ sent.generation = 0 /\ sent.when = Earliest(alarm, active)
      /\ Unsettled \in Latest /\ Unsettled.result = "none" /\ Projection(Unsettled) = NoProjection
  BY <1>1, EarliestIs, WakesAreNumbers, Types
     DEF Sent, Sends, Active, Generations, Unsettled, Latest, Projection, NoProjection
<1>3. sends \in Seq(Sends) /\ Len(sends) \in Nat
  BY Types, LenProperties DEF HostTypes
<1>4. /\ sends' \in Seq(Sends) /\ Len(sends') = Len(sends) + 1 /\ sends'[Len(sends) + 1] = sent
      /\ \A i \in 1..Len(sends) : sends'[i] = sends[i]
      /\ latest' = Unsettled /\ UNCHANGED <<bgUp, tail, attempts>>
  BY <1>1, <1>2, <1>3, AppendProperties DEF ProjectWake, background
<1>5. \A i \in 1..Len(sends') : i = Len(sends) + 1 \/ (i \in 1..Len(sends) /\ i # Len(sends'))
  BY <1>3, <1>4
<1>6. HostInv'
  <2>1. ASSUME NEW i \in 1..Len(sends')
        PROVE  /\ sends'[i].generation > 0 => i = 1 /\ sends'[i].generation = generation
               /\ i = Len(sends') => sends'[i].when = Earliest(alarm, active)
    <3>1. CASE i = Len(sends) + 1
      BY <1>2, <1>4, <3>1
    <3>2. CASE i \in 1..Len(sends) /\ i # Len(sends')
      BY <1>4, <3>2 DEF HostInv
    <3> QED
      BY <1>5, <2>1, <3>1, <3>2
  <2> QED
    BY <1>2, <1>4, <2>1 DEF HostInv
<1>7. HostTypes' /\ HostKnown
  <2>1. HostTypes'
    BY <1>2, <1>4, SameTypes, Types DEF HostTypes, Unique
  <2>2. ASSUME NEW i \in 1..Len(sends'), sends'[i].generation > 0 PROVE Projection(sends'[i]) \in Known
    <3>1. CASE i = Len(sends) + 1
      BY <1>2, <1>4, <2>2, <3>1
    <3>2. CASE i \in 1..Len(sends)
      BY <1>4, <2>2, <3>2, Knows
    <3> QED
      BY <1>5, <2>2, <3>1, <3>2
  <2>3. Projection(latest)' = Projection(Unsettled)
    BY <1>4 DEF Projection
  <2> QED
    BY <1>2, <1>4, <2>1, <2>2, <2>3, Knows DEF HostKnown
<1>8. AttemptInv'
  BY <1>4 DEF AttemptInv, DoneWith
<1> QED
  BY <1>4, <1>6, <1>7, <1>8, HostMoves, Types

LEMMA SchedulerStep ==
  ASSUME Inv, Scheduler PROVE Inv'
<1> USE DEF Inv, PhysicalTypes
<1>1. row \in Wakes /\ delivering \in Wakes /\ now \in Instants
  BY Types
<1>2. ASSUME NEW a \in attempts, DoneWith(a), a.after <= now
      PROVE  row > a.after /\ delivering > a.after /\ a.after \in Instants /\ Never > a.after
  <2>1. a.after \in Instants
    BY Types DEF HostTypes, Attempts
  <2>2. PICK n \in Nat : n = a.after
    BY <2>1, WakesAreNumbers
  <2>3. (IF row < delivering THEN row ELSE delivering) > n
    BY <1>1, <1>2, <2>2, EarliestIs DEF DoneWith
  <2>4. row \in Nat /\ delivering \in Nat
    BY <1>1, WakesAreNumbers
  <2>5. row > n /\ delivering > n
    BY <2>3, <2>4
  <2> QED
    BY <2>1, <2>2, <2>5, WakesAreNumbers
<1>3. ASSUME NEW alarm \in Wakes, NEW active \in Wakes, alarm = row \/ alarm > now,
             active \in {row, delivering, Never}, NEW a \in attempts, DoneWith(a), a.after <= now
      PROVE  Earliest(alarm, active) > a.after
  <2>1. row > a.after /\ delivering > a.after /\ a.after \in Instants /\ Never > a.after
    BY <1>2, <1>3
  <2>2. PICK n \in Nat, time \in Nat, m \in Nat :
          n = a.after /\ time = now /\ n <= time /\ m = alarm
    BY <1>1, <1>3, <2>1, WakesAreNumbers
  <2>3. alarm > n
    BY <1>3, <2>1, <2>2
  <2>4. active > n
    BY <1>3, <2>1, <2>2
  <2> QED
    BY <1>3, <2>2, <2>3, <2>4, EarliestIs
<1>4. ASSUME NEW t \in Wakes, SetAlarm(t) PROVE Inv'
  <2>1. /\ row' = t /\ delivering' = delivering /\ hostUp' = TRUE /\ ProjectWake(t, delivering)
        /\ t > now /\ UNCHANGED <<generation, waiters, wire, background, durable, now>>
    BY <1>4, Types DEF SetAlarm
  <2>2. \A a \in attempts : DoneWith(a) /\ a.after <= now => Earliest(t, delivering) > a.after
    BY <1>1, <1>3, <2>1
  <2> QED
    BY <1>1, <2>1, <2>2, Projected
<1>5. CASE Deliver
  <2>1. /\ row' = row /\ delivering' = row /\ hostUp' = TRUE /\ ProjectWake(row, row)
        /\ UNCHANGED <<generation, waiters, wire, background, durable, now>>
    BY <1>5, Types DEF Deliver
  <2>2. \A a \in attempts : DoneWith(a) /\ a.after <= now => Earliest(row, row) > a.after
    BY <1>1, <1>3
  <2> QED
    BY <1>1, <2>1, <2>2, Projected
<1>6. CASE Finish
  <2>1. PICK t \in Wakes :
          /\ row' = t /\ delivering' = Never /\ hostUp' = TRUE /\ ProjectWake(t, Never)
          /\ t = row \/ t > now
          /\ UNCHANGED <<generation, waiters, wire, background, durable, now>>
    BY <1>1, <1>6, Types DEF Finish
  <2>2. \A a \in attempts : DoneWith(a) /\ a.after <= now => Earliest(t, Never) > a.after
    BY <1>3, <2>1, WakesAreNumbers
  <2> QED
    BY <2>1, <2>2, Projected, WakesAreNumbers
<1>7. CASE HostStarts
  <2>1. /\ row' = row /\ delivering' = Never /\ hostUp' = TRUE /\ ProjectWake(row, Never)
        /\ UNCHANGED <<generation, waiters, wire, background, durable, now>>
    BY <1>7 DEF HostStarts, HostInv
  <2>2. \A a \in attempts : DoneWith(a) /\ a.after <= now => Earliest(row, Never) > a.after
    BY <1>1, <1>3, WakesAreNumbers
  <2> QED
    BY <1>1, <1>7, <2>1, <2>2, Projected, WakesAreNumbers DEF HostStarts
<1>8. CASE HostDies
  <2>1. /\ hostUp' = FALSE /\ row' = row /\ delivering' = Never /\ sends' = <<>> /\ waiters' = {}
        /\ latest' = Unsettled /\ attempts' = {a \in attempts : a.stage # "waiting"}
        /\ UNCHANGED <<generation, wire, bgUp, tail, durable, now>>
    BY <1>8 DEF HostDies
  <2>2. /\ Unsettled \in Latest /\ Unsettled.result = "none" /\ Projection(Unsettled) = NoProjection
    BY WakesAreNumbers, Types DEF Generations, Unsettled, Latest, Projection, NoProjection
  <2>3. HostInv'
    BY <2>1, <2>2, EmptySeq DEF HostInv
  <2>4. HostTypes' /\ HostKnown
    BY <2>1, <2>2, SameTypes, Types, Knows, EmptySeq DEF HostTypes, Unique, HostKnown, Projection
  <2>5. AttemptInv'
    <3>1. \A a \in attempts : DoneWith(a) /\ a.after <= now => Earliest(row, Never) > a.after
      BY <1>1, <1>3, WakesAreNumbers
    <3> QED
      BY <2>1, <3>1 DEF AttemptInv, DoneWith
  <2> QED
    BY <1>1, <2>1, <2>3, <2>4, <2>5, HostMoves, Types, WakesAreNumbers
<1> QED
  BY <1>4, <1>5, <1>6, <1>7, <1>8 DEF Scheduler

\* The next projection draws a generation that nothing names yet.
LEMMA ProjectStep ==
  ASSUME Inv, Project PROVE Inv'
<1> USE DEF Inv, PhysicalTypes
<1>1. /\ generation \in Nat /\ generation' = generation + 1 /\ generation' \in Nat
      /\ sends # <<>> /\ ~UnderWay
      /\ sends' = [sends EXCEPT ![1].generation = generation']
      /\ wire' = wire \cup {[generation |-> generation', when |-> Head(sends).when]}
      /\ UNCHANGED <<row, delivering, hostUp, latest, waiters, bgUp, tail, attempts, journal,
                     physical, unarmed, now>>
  BY Types DEF Project, host, background, durable
<1>2. /\ sends \in Seq(Sends) /\ Len(sends) \in Nat /\ 1 \in 1..Len(sends) /\ Head(sends) = sends[1]
      /\ sends[1] \in Sends
  BY <1>1, Types, HeadTailProperties, EmptySeq, LenProperties, ElementOfSeq DEF HostTypes
<1>3. /\ Generations \subseteq Generations' /\ generation' \in Generations'
      /\ \A g \in Generations : g # generation'
  BY <1>1 DEF Generations
<1>4. /\ Projections \subseteq Projections' /\ Deliveries \subseteq Deliveries'
      /\ Sends \subseteq Sends' /\ Latest \subseteq Latest' /\ Calls \subseteq Calls'
  BY <1>3 DEF Projections, Deliveries, Sends, Latest, Calls
<1>5. Journals \subseteq Journals' /\ Attempts \subseteq Attempts'
  BY <1>3, <1>4 DEF Journals, Attempts
<1>6. Ops \subseteq Ops'
  BY <1>3, <1>4 DEF Ops
<1>7. PICK first : first = [sends[1] EXCEPT !.generation = generation']
  OBVIOUS
<1>8. /\ first \in Sends' /\ first.generation = generation' /\ first.when = sends[1].when
      /\ sends[1].when \in Wakes /\ Projection(first) = [generation |-> generation', when |-> sends[1].when]
  BY <1>2, <1>3, <1>7 DEF Sends, Projection
<1>9. /\ sends' \in Seq(Sends') /\ Len(sends') = Len(sends) /\ sends'[1] = first
      /\ \A i \in 1..Len(sends) : i # 1 => sends'[i] = sends[i]
  <2>1. sends \in Seq(Sends')
    BY <1>2, <1>4, SeqMonotonic
  <2>2. sends' = [sends EXCEPT ![1] = first]
    BY <1>1, <1>2, <1>7
  <2> QED
    BY <1>2, <1>8, <2>1, <2>2, ExceptSeq
<1>10. HostTypes'
  BY <1>1, <1>4, <1>5, <1>9, Types DEF HostTypes, Unique
<1>11. tail' \in Seq(Ops')
  BY <1>1, <1>6, Types, SeqMonotonic
<1>12. wire' \subseteq Projections'
  BY <1>1, <1>2, <1>3, <1>4, <1>8, Types DEF Projections
<1>13. TypeInv'
  <2>1. journal' \in Journals' /\ (~bgUp' => tail' = <<>> /\ attempts' = {})
    BY <1>1, <1>5, Types
  <2> QED
    BY <1>1, <1>10, <1>11, <1>12, <2>1, Types, Typed
<1>14. latest.result = "none"
  BY <1>1, Types DEF HostInv, HostTypes, Latest
<1>15. HostInv'
  <2>1. ASSUME NEW i \in 1..Len(sends')
        PROVE  /\ sends'[i].generation > 0 => i = 1 /\ sends'[i].generation = generation'
               /\ i = Len(sends') => sends'[i].when = Earliest(row, delivering)
    <3>1. CASE i = 1
      BY <1>2, <1>8, <1>9, <3>1 DEF HostInv
    <3>2. CASE i # 1
      BY <1>9, <2>1, <3>2 DEF HostInv
    <3> QED
      BY <3>1, <3>2
  <2>2. hostUp
    BY DEF Project
  <2> QED
    BY <1>1, <1>14, <2>1, <2>2 DEF HostInv
<1>16. KnownInv'
  <2>1. PICK new : new = Projection(first)
    OBVIOUS
  <2>2. PICK K : K = Known \cup {new}
    OBVIOUS
  <2>3. ASSUME NEW i \in 1..Len(sends'), sends'[i].generation > 0 PROVE Projection(sends'[i]) \in K
    <3>1. CASE i = 1
      BY <1>9, <2>1, <2>2, <3>1
    <3>2. CASE i # 1
      BY <1>9, <2>2, <2>3, <3>2, Knows
    <3> QED
      BY <3>1, <3>2
  <2>4. wire' \subseteq K
    BY <1>1, <1>2, <1>8, <2>1, <2>2, Knows
  <2>5. /\ NoProjection \in K /\ journal'.projection \in K /\ Projection(latest)' \in K
        /\ \A a \in attempts' : a.answer \in K
        /\ \A i \in 1..Len(tail') : Carries(tail'[i]) => Projection(tail'[i]) \in K
    BY <1>1, <2>2, Knows DEF Projection
  <2>6. Known' \subseteq K
    BY <2>3, <2>4, <2>5 DEF Known, Projection
  <2>7. new.generation = generation' /\ \A p \in Known : p.generation # generation'
    BY <1>3, <1>8, <2>1, KnownIsTyped DEF Projections
  <2> QED
    BY <2>2, <2>6, <2>7 DEF KnownInv
<1>17. TailInv' /\ AttemptInv'
  BY <1>1 DEF TailInv, OpInv, AttemptInv, DoneWith
<1> QED
  BY <1>13, <1>15, <1>16, <1>17

LEMMA ArriveStep ==
  ASSUME Inv, NEW p \in wire, Arrive(p) PROVE Inv'
<1> USE DEF Inv, PhysicalTypes
<1>1. PICK op : op = [kind |-> "project", stage |-> "start", generation |-> p.generation, when |-> p.when]
  OBVIOUS
<1>2. /\ wire' \subseteq wire /\ Enqueue(op)
      /\ UNCHANGED <<row, delivering, hostUp, generation, sends, latest, waiters, attempts, journal,
                     physical, unarmed, now>>
  BY <1>1 DEF Arrive, host, durable
<1>3. p \in Projections /\ p \in Known
  BY Types, Knows
<1>4. op \in Ops /\ op.kind = "project" /\ op.stage = "start" /\ Projection(op) = p
  BY <1>1, <1>3 DEF Ops, Projection, Projections
<1>5. /\ TailInv' /\ tail' \in Seq(Ops)' /\ bgUp' = TRUE
      /\ \A i \in 1..Len(tail') : Carries(tail'[i]) => Projection(tail'[i]) \in Known
  BY <1>2, <1>3, <1>4, EnqueueKeeps
<1>6. KnownInv'
  BY <1>2, <1>5, Knows, KnownIsKept DEF Projection
<1>7. HostInv' /\ AttemptInv'
  BY <1>2 DEF HostInv, AttemptInv, DoneWith
<1>8. HostTypes'
  BY <1>2, SameTypes, Types DEF HostTypes, Unique
<1>9. TypeInv'
  BY <1>2, <1>5, <1>8, SameTypes, Types, Typed
<1> QED
  BY <1>5, <1>6, <1>7, <1>9

LEMMA PhysicalStep ==
  ASSUME Inv, PhysicalGoesOff PROVE Inv'
<1> USE DEF Inv, PhysicalTypes
<1>1. PICK op : op = [kind |-> "fire", stage |-> "start", when |-> physical]
  OBVIOUS
<1>2. /\ physical <= now /\ physical' = Never /\ Enqueue(op)
      /\ UNCHANGED <<row, delivering, hostUp, generation, sends, latest, waiters, wire, attempts,
                     journal, unarmed, now>>
  BY <1>1 DEF PhysicalGoesOff, host, projector
<1>3. physical \in Instants
  <2>1. PhysicalTypes /\ now \in Instants
    BY Types
  <2> QED
    BY <1>2, <2>1, WakesAreNumbers DEF PhysicalTypes, Instants, Wakes
<1>4. op \in Ops /\ op.kind = "fire" /\ op.stage = "start" /\ op.when <= now /\ ~Carries(op)
  BY <1>1, <1>2, <1>3 DEF Ops, Carries
<1>5. /\ TailInv' /\ tail' \in Seq(Ops)' /\ bgUp' = TRUE
      /\ \A i \in 1..Len(tail') : Carries(tail'[i]) => Projection(tail'[i]) \in Known
  BY <1>2, <1>4, EnqueueKeeps
<1>6. KnownInv'
  BY <1>2, <1>5, Knows, KnownIsKept DEF Projection
<1>7. HostInv' /\ AttemptInv'
  BY <1>2 DEF HostInv, AttemptInv, DoneWith
<1>8. HostTypes'
  BY <1>2, SameTypes, Types DEF HostTypes, Unique
<1>9. TypeInv'
  BY <1>2, <1>5, <1>8, SameTypes, Types, Typed, WakesAreNumbers
<1> QED
  BY <1>5, <1>6, <1>7, <1>9

\* acknowledge(): what settled answers at once, and what failed is sent again.
LEMMA AskStep ==
  ASSUME Inv, NEW a \in attempts, Ask(a) PROVE Inv'
<1> USE DEF Inv, PhysicalTypes
<1>1. PICK call : call = [generation |-> a.generation, after |-> a.after]
  OBVIOUS
<1>2. PICK answered : answered = IF sends = <<>> THEN Answers(latest, {call}) ELSE {}
  OBVIOUS
<1>3. PICK b : b = IF answered = {} THEN [a EXCEPT !.stage = "waiting"]
                   ELSE [a EXCEPT !.stage = "answered", !.answer = Projection(latest)]
  OBVIOUS
<1>4. /\ a.stage = "asking" /\ hostUp /\ waiters' = (waiters \cup {call}) \ answered
      /\ attempts' = (attempts \ {a}) \cup {b}
      /\ IF sends = <<>> /\ latest.result = "failed"
         THEN /\ sends' = <<[when |-> latest.when, active |-> latest.active, generation |-> 0]>>
              /\ latest' = Unsettled
         ELSE UNCHANGED <<sends, latest>>
      /\ UNCHANGED <<row, delivering, hostUp, generation, wire, bgUp, tail, durable, now>>
  BY <1>1, <1>2, <1>3 DEF Ask, host, Projection
<1>5. a \in Attempts /\ call \in Calls /\ a.after <= now /\ latest \in Latest /\ Unique(attempts)
  BY <1>1, Types DEF HostTypes, Attempts, Calls, AttemptInv
<1>6. ASSUME answered # {}
      PROVE  Earliest(row, delivering) > a.after
  <2>1. sends = <<>> /\ latest.result = "ok"
    BY <1>2, <1>6 DEF Answers
  <2>2. PICK w \in answered : w \in Answers(latest, {call})
    BY <1>2, <1>6
  <2>3. latest.when \in Wakes /\ {call} \in SUBSET Calls
    BY <1>5 DEF Latest
  <2>4. w \in {call} /\ latest.when > w.after
    BY <2>2, <2>3, AnswersAreLater
  <2> QED
    BY <1>1, <2>1, <2>4 DEF HostInv
<1>7. /\ b \in Attempts /\ b.generation = a.generation /\ b.after = a.after /\ b.answer \in Known
      /\ b.stage \in {"answered", "completing"} => answered # {}
  <2>1. Projection(latest) \in Projections
    BY <1>5 DEF Projection, Projections, Latest
  <2>2. a.answer \in Known /\ Projection(latest) \in Known
    BY Knows
  <2> QED
    BY <1>3, <1>5, <2>1, <2>2 DEF Attempts
<1>8. attempts' \subseteq Attempts /\ Unique(attempts')
  BY <1>4, <1>5, <1>7, Types DEF HostTypes, Unique
<1>9. AttemptInv'
  BY <1>4, <1>5, <1>6, <1>7 DEF AttemptInv, DoneWith
<1>10. waiters' \subseteq Calls
  BY <1>4, <1>5, Types DEF HostTypes
<1>11. /\ sends' \in Seq(Sends) /\ latest' \in Latest /\ Projection(latest)' \in Known /\ HostInv'
       /\ \A i \in 1..Len(sends') : sends'[i].generation > 0 => Projection(sends'[i]) \in Known
  <2>1. CASE sends = <<>> /\ latest.result = "failed"
    <3>1. PICK sent : sent = [when |-> latest.when, active |-> latest.active, generation |-> 0]
      OBVIOUS
    <3>2. sent \in Sends /\ sent.generation = 0 /\ sent.when = Earliest(row, delivering)
      BY <1>5, <2>1, <3>1, Types DEF Latest, Sends, HostInv, Generations
    <3>3. sends' = <<sent>> /\ latest' = Unsettled
      BY <1>4, <2>1, <3>1
    <3>4. sends' \in Seq(Sends) /\ Len(sends') = 1 /\ sends'[1] = sent
      BY <3>2, <3>3
    <3>5. /\ Unsettled \in Latest /\ Unsettled.result = "none" /\ Projection(Unsettled) = NoProjection
      BY WakesAreNumbers, Types DEF Generations, Unsettled, Latest, Projection, NoProjection
    <3>6. HostInv'
      BY <1>4, <3>2, <3>3, <3>4, <3>5 DEF HostInv
    <3>7. Projection(latest)' \in Known
      BY <3>3, <3>5, Knows DEF Projection
    <3> QED
      BY <3>2, <3>3, <3>4, <3>5, <3>6, <3>7
  <2>2. CASE ~(sends = <<>> /\ latest.result = "failed")
    <3>1. UNCHANGED <<sends, latest, row, delivering, hostUp, generation, journal>>
      BY <1>4, <2>2 DEF durable
    <3>2. HostInv'
      BY <3>1 DEF HostInv
    <3> QED
      BY <3>1, <3>2, Types, Knows DEF HostTypes, Projection
  <2> QED
    BY <2>1, <2>2
<1>12. HostTypes' /\ HostKnown
  BY <1>4, <1>7, <1>8, <1>10, <1>11, SameTypes, Knows DEF HostTypes, HostKnown
<1>13. \A c \in attempts : c.stage = "completing" => c \in attempts'
  BY <1>4
<1> QED
  BY <1>4, <1>9, <1>11, <1>12, <1>13, HostMoves, Types

\* deliver() returned: the delivery gets the one mutation that ends it.
LEMMA AnsweredStep ==
  ASSUME Inv, NEW a \in attempts, Answered(a) PROVE Inv'
<1> USE DEF Inv, PhysicalTypes
<1>1. PICK op : op = [kind |-> "complete", stage |-> "start", attempt |-> a.generation,
                      generation |-> a.answer.generation, when |-> a.answer.when]
  OBVIOUS
<1>2. PICK b : b = [a EXCEPT !.stage = "completing"]
  OBVIOUS
<1>3. /\ a.stage = "answered" /\ attempts' = (attempts \ {a}) \cup {b} /\ tail' = Append(tail, op)
      /\ UNCHANGED <<row, delivering, hostUp, generation, sends, latest, waiters, wire, bgUp,
                     journal,
                     physical, unarmed, now>>
  BY <1>1, <1>2 DEF Answered, host, projector, durable
<1>4. /\ a \in Attempts /\ a.after <= now /\ Earliest(row, delivering) > a.after /\ Unique(attempts)
      /\ a.answer \in Projections /\ a.answer \in Known /\ bgUp
  BY <1>3, Types, Knows DEF HostTypes, Attempts, AttemptInv, DoneWith
<1>5. /\ b \in Attempts /\ b.stage = "completing" /\ b.generation = a.generation /\ b.after = a.after
      /\ b.answer = a.answer
  BY <1>2, <1>4 DEF Attempts
<1>6. /\ op \in Ops /\ op.kind = "complete" /\ op.stage = "start" /\ op.attempt = b.generation
      /\ Projection(op) \in Known
  BY <1>1, <1>4, <1>5 DEF Ops, Attempts, Projections, Projection
<1>7. /\ Len(tail) \in Nat /\ tail' \in Seq(Ops) /\ Len(tail') = Len(tail) + 1
      /\ tail'[Len(tail) + 1] = op /\ \A i \in 1..Len(tail) : tail'[i] = tail[i]
  BY <1>3, <1>6, Types, AppendProperties, LenProperties
<1>8. \A i \in 1..Len(tail') : i = Len(tail) + 1 \/ i \in 1..Len(tail)
  BY <1>7
<1>9. \A c \in attempts : c.stage = "completing" => c \in attempts' /\ c.generation # a.generation
  BY <1>3, <1>4 DEF Unique
<1>10. ASSUME NEW i \in 1..Len(tail), tail[i].kind = "complete" PROVE tail[i].attempt # a.generation
  BY <1>9, <1>10 DEF TailInv, OpInv
<1>11. ASSUME NEW i \in 1..Len(tail') PROVE OpInv(i)'
  <2>1. CASE i = Len(tail) + 1
    <3>1. tail'[i] = op /\ b \in attempts'
      BY <1>3, <1>7, <2>1
    <3> QED
      BY <1>5, <1>6, <3>1 DEF OpInv
  <2>2. CASE i \in 1..Len(tail)
    BY <1>3, <1>7, <1>9, <2>2 DEF TailInv, OpInv
  <2> QED
    BY <1>8, <1>11, <2>1, <2>2
<1>12. ASSUME NEW i \in 1..Len(tail'), NEW j \in 1..Len(tail'), tail'[i].kind = "complete",
              tail'[j].kind = "complete", tail'[i].attempt = tail'[j].attempt
       PROVE  i = j
  BY <1>5, <1>6, <1>7, <1>8, <1>10, <1>12 DEF TailInv
<1>13. TailInv'
  BY <1>11, <1>12 DEF TailInv
<1>14. HostInv' /\ AttemptInv'
  BY <1>3, <1>4, <1>5 DEF HostInv, AttemptInv, DoneWith
<1>15. HostTypes'
  BY <1>3, <1>4, <1>5, SameTypes, Types DEF HostTypes, Unique
<1>16. KnownInv'
  <2>1. \A i \in 1..Len(tail') : Carries(tail'[i]) => Projection(tail'[i]) \in Known
    BY <1>6, <1>7, <1>8, Knows
  <2>2. \A c \in attempts' : c.answer \in Known
    BY <1>3, <1>4, <1>5, Knows
  <2> QED
    BY <1>3, <2>1, <2>2, Knows, KnownIsKept DEF Projection
<1>17. TypeInv'
  BY <1>3, <1>4, <1>7, <1>15, SameTypes, Types, Typed
<1> QED
  BY <1>13, <1>14, <1>16, <1>17

LEMMA DeliverFailsStep ==
  ASSUME Inv, NEW a \in attempts, DeliverFails(a) PROVE Inv'
<1> USE DEF Inv, PhysicalTypes
<1>1. /\ a.stage # "completing" /\ attempts' = attempts \ {a}
      /\ UNCHANGED <<row, delivering, hostUp, generation, sends, latest, waiters, wire, bgUp,
                     tail, durable,
                     journal, now>>
  BY DEF DeliverFails, host, projector, durable
<1>2. HostInv' /\ AttemptInv'
  BY <1>1 DEF HostInv, AttemptInv, DoneWith
<1>3. HostTypes' /\ HostKnown
  BY <1>1, SameTypes, Types, Knows DEF HostTypes, Unique, HostKnown, Projection
<1> QED
  BY <1>1, <1>2, <1>3, HostMoves, Types

\* The background worker goes, and with it the projection that it has.
LEMMA BackgroundStopsStep ==
  ASSUME Inv, BackgroundStops PROVE Inv'
<1> USE DEF Inv, PhysicalTypes
<1>1. PICK outcome : outcome = [when |-> Head(sends).when, active |-> Head(sends).active,
                                generation |-> Head(sends).generation, result |-> "failed"]
  OBVIOUS
<1>2. /\ bgUp' = FALSE /\ tail' = <<>> /\ attempts' = {}
      /\ IF Received
         THEN /\ sends' = Tail(sends)
              /\ IF Len(sends) > 1 THEN UNCHANGED <<latest, waiters>>
                 ELSE latest' = outcome /\ waiters' = {}
         ELSE UNCHANGED <<sends, latest, waiters>>
      /\ UNCHANGED <<row, delivering, hostUp, generation, wire, journal, physical, now>> /\ unarmed' \in BOOLEAN
  BY <1>1 DEF BackgroundStops, host, durable
<1>3. /\ HostInv' /\ sends' \in Seq(Sends) /\ latest' \in Latest /\ waiters' \subseteq Calls
      /\ Projection(latest)' \in Known
      /\ \A i \in 1..Len(sends') : sends'[i].generation > 0 => Projection(sends'[i]) \in Known
  <2>1. CASE Received
    <3>1. sends # <<>> /\ sends' = Tail(sends) /\ Head(sends).generation > 0
      BY <1>2, <2>1 DEF Received, UnderWay
    <3>2. /\ sends' \in Seq(Sends) /\ Len(sends) \in Nat /\ Len(sends') = Len(sends) - 1
          /\ \A i \in 1..Len(sends') : /\ i + 1 \in 1..Len(sends) /\ i + 1 # 1
                                       /\ sends'[i] = sends[i + 1] /\ ~(sends'[i].generation > 0)
          /\ Head(sends) = sends[1] /\ 1 \in 1..Len(sends) /\ sends[1] \in Sends
          /\ latest.result = "none"
      BY <3>1, NextSend
    <3>3. sends[1].generation = generation /\ hostUp /\ Projection(sends[1]) \in Known
      BY <3>1, <3>2, Knows, Types DEF HostInv
    <3>4. /\ outcome \in Latest /\ outcome.generation = generation /\ outcome.result = "failed"
          /\ Projection(outcome) = Projection(sends[1]) /\ outcome.when = sends[1].when
      BY <1>1, <3>2, <3>3 DEF Sends, Latest, Projection
    <3>5. CASE Len(sends) > 1
      <4>1. UNCHANGED <<latest, waiters>>
        BY <1>2, <2>1, <3>5
      <4>2. ASSUME NEW i \in 1..Len(sends')
            PROVE  i = Len(sends') => sends'[i].when = Earliest(row, delivering)
        BY <3>2, <4>2 DEF HostInv
      <4>3. HostInv'
        BY <1>2, <3>2, <3>3, <4>1, <4>2 DEF HostInv
      <4> QED
        BY <3>2, <4>1, <4>3, Types, Knows DEF HostTypes, Projection
    <3>6. CASE ~(Len(sends) > 1)
      <4>1. sends' = <<>> /\ Len(sends) = 1 /\ latest' = outcome /\ waiters' = {}
        BY <1>2, <2>1, <3>2, <3>6, EmptySeq
      <4>2. outcome.when = Earliest(row, delivering)
        BY <3>2, <3>4, <4>1 DEF HostInv
      <4>3. HostInv'
        BY <1>2, <3>2, <3>3, <3>4, <4>1, <4>2 DEF HostInv
      <4>4. Projection(latest)' \in Known
        BY <3>3, <3>4, <4>1 DEF Projection
      <4> QED
        BY <3>2, <3>4, <4>1, <4>3, <4>4
    <3> QED
      BY <3>5, <3>6
  <2>2. CASE ~Received
    <3>1. UNCHANGED <<sends, latest, waiters, row, delivering, hostUp, generation, journal>>
      BY <1>2, <2>2
    <3>2. HostInv'
      BY <3>1 DEF HostInv
    <3> QED
      BY <3>1, <3>2, Types, Knows DEF HostTypes, Projection
  <2> QED
    BY <2>1, <2>2
<1>4. TailInv' /\ AttemptInv' /\ tail' \in Seq(Ops)' /\ Len(tail') = 0
  BY <1>2, EmptySeq DEF TailInv, AttemptInv
<1>5. HostTypes'
  BY <1>2, <1>3, SameTypes DEF HostTypes, Unique
<1>6. KnownInv'
  <2>1. /\ \A a \in attempts' : a.answer \in Known
        /\ \A i \in 1..Len(tail') : Carries(tail'[i]) => Projection(tail'[i]) \in Known
    BY <1>2, <1>4
  <2> QED
    BY <1>2, <1>3, <2>1, Knows, KnownIsKept
<1>7. TypeInv'
  BY <1>2, <1>4, <1>5, SameTypes, Types, Typed
<1> QED
  BY <1>3, <1>4, <1>6, <1>7

LEMMA BackgroundStartsStep ==
  ASSUME Inv, BackgroundStarts PROVE Inv'
<1> USE DEF Inv, PhysicalTypes
<1>1. /\ bgUp' = TRUE /\ tail' = <<Reconcile>>
      /\ UNCHANGED <<row, delivering, hostUp, generation, sends, latest, waiters, wire, attempts,
                     journal,
                     physical, unarmed, now>>
  BY DEF BackgroundStarts, host, projector, durable
<1>2. Reconcile \in Ops /\ Reconcile.kind = "reconcile" /\ Reconcile.stage = "start"
  BY DEF Ops, Reconcile
<1>3. tail' \in Seq(Ops) /\ Len(tail') = 1 /\ tail'[1] = Reconcile
  BY <1>1, <1>2
<1>4. TailInv'
  BY <1>2, <1>3 DEF TailInv, OpInv
<1>5. HostInv' /\ AttemptInv'
  BY <1>1 DEF HostInv, AttemptInv, DoneWith
<1>6. KnownInv'
  <2>1. \A i \in 1..Len(tail') : Carries(tail'[i]) => Projection(tail'[i]) \in Known
    BY <1>2, <1>3 DEF Carries
  <2> QED
    BY <1>1, <2>1, Knows, KnownIsKept DEF Projection
<1>7. HostTypes'
  BY <1>1, SameTypes, Types DEF HostTypes, Unique
<1>8. TypeInv'
  BY <1>1, <1>3, <1>7, SameTypes, Types, Typed
<1> QED
  BY <1>4, <1>5, <1>6, <1>8

\* Time passes, or nothing happens.
LEMMA TimeStep ==
  ASSUME Inv, now' \in Instants, now' >= now, UNCHANGED <<host, projector, background, durable>>
  PROVE  Inv'
<1> USE DEF Inv, PhysicalTypes
<1>1. UNCHANGED <<row, delivering, hostUp, generation, sends, latest, waiters, wire, bgUp, tail,
                  attempts, journal, physical, unarmed>>
  BY DEF host, projector, background, durable
<1>2. now \in Int /\ now' \in Int
  BY Types DEF Instants
<1>3. TailInv'
  <2>1. ASSUME NEW i \in 1..Len(tail) PROVE OpInv(i)'
    <3>1. OpInv(i) /\ tail[i] \in Ops
      BY Types, ElementOfSeq DEF TailInv
    <3>2. tail[i].kind = "fire" => tail[i].when \in Instants
      BY <3>1 DEF Ops
    <3>3. tail[i].kind = "fire" => tail[i].when <= now'
      BY <1>2, <3>1, <3>2 DEF OpInv, Instants
    <3> QED
      BY <1>1, <3>1, <3>3 DEF OpInv
  <2> QED
    BY <1>1, <2>1 DEF TailInv
<1>4. AttemptInv'
  <2>1. ASSUME NEW a \in attempts PROVE a.after <= now'
    <3>1. a.after \in Instants /\ a.after <= now
      BY Types DEF HostTypes, Attempts, AttemptInv
    <3> QED
      BY <1>2, <3>1 DEF Instants
  <2> QED
    BY <1>1, <2>1 DEF AttemptInv, DoneWith
<1>5. HostInv'
  BY <1>1 DEF HostInv
<1>6. KnownInv'
  BY <1>1, Knows, KnownIsKept DEF Projection
<1>7. HostTypes'
  BY <1>1, SameTypes, Types DEF HostTypes, Unique
<1>8. TypeInv'
  BY <1>1, <1>7, SameTypes, Types, Typed
<1> QED
  BY <1>3, <1>4, <1>5, <1>6, <1>8

-----------------------------------------------------------------------------
(***************************************************************************)
(* The theorems.                                                           *)
(***************************************************************************)

LEMMA Starting ==
  ASSUME Init PROVE Inv
<1>1. PICK first : first = [when |-> Never, active |-> 0, generation |-> 0]
  OBVIOUS
<1>2. /\ first \in Sends /\ Unsettled \in Latest /\ Unsettled.result = "none" /\ NoJournal \in Journals
      /\ Projection(Unsettled) = NoProjection /\ NoJournal.projection = NoProjection
      /\ Earliest(Never, Never) = Never /\ Never \in Wakes /\ 0 \in Instants
  BY <1>1, WakesAreNumbers, EarliestIs
     DEF Init, Sends, Latest, Unsettled, NoJournal, Journals, NoDelivery, NoProjection, Projections,
         Projection, Generations, Instants
<1>3. sends \in Seq(Sends) /\ Len(sends) = 1 /\ sends[1] = first /\ sends # <<>>
  BY <1>1, <1>2 DEF Init
<1>4. tail \in Seq(Ops) /\ Len(tail) = 0
  BY EmptySeq DEF Init
<1>5. HostTypes
  BY <1>2, <1>3 DEF Init, HostTypes, Unique
<1>6. TypeInv
  <2> USE DEF HostTypes, PhysicalTypes, Journals, Sends, Latest, Calls, Attempts, Unique
  <2> QED
    BY <1>2, <1>4, <1>5 DEF Init, TypeInv, TypeOK
<1>7. KnownInv
  <2>1. Known = {NoProjection}
    <3>1. /\ journal.projection = NoProjection /\ Projection(latest) = NoProjection
          /\ wire = {} /\ attempts = {} /\ \A i \in 1..Len(sends) : ~(sends[i].generation > 0)
      BY <1>1, <1>2, <1>3 DEF Init, Projection
    <3> QED
      BY <1>4, <3>1 DEF Known
  <2> QED
    BY <2>1 DEF KnownInv
<1>8. HostInv /\ TailInv /\ AttemptInv
  BY <1>1, <1>2, <1>3, <1>4 DEF Init, HostInv, TailInv, AttemptInv
<1> QED
  BY <1>6, <1>7, <1>8 DEF Inv

LEMMA Step ==
  ASSUME Inv, [Next]_vars PROVE Inv'
<1>1. CASE Tick
  <2>1. now' = now + 1 /\ now < MaxTime /\ UNCHANGED <<host, projector, background, durable>>
    BY <1>1 DEF Tick
  <2>2. now' \in Instants /\ now' >= now
    BY <2>1, Types, WakesAreNumbers DEF Inv, Instants
  <2> QED
    BY <2>1, <2>2, TimeStep
<1>2. CASE UNCHANGED vars
  <2>1. now' = now /\ now \in Instants /\ UNCHANGED <<host, projector, background, durable>>
    BY <1>2, Types DEF vars, Inv
  <2>2. now' \in Instants /\ now' >= now
    BY <2>1 DEF Instants
  <2> QED
    BY <2>1, <2>2, TimeStep
<1> QED
  BY <1>1, <1>2, SchedulerStep, ProjectStep, MutationStep, MutationFailsStep, ArriveStep, AskStep,
     AnsweredStep, DeliverFailsStep, BackgroundStopsStep, BackgroundStartsStep, PhysicalStep
     DEF Next, Transport

LEMMA Invariance == Spec => []Inv
  BY Starting, Step, PTL DEF Spec

\* The variables keep their types, deliveries under way have different generations, and a
\* background worker that was stopped has neither mutations nor deliveries (src/src/browser/
\* alarm-coordinator.ts).
THEOREM Typing == Spec => []TypeOK
<1>1. Inv => TypeOK
  BY DEF Inv, TypeInv
<1> QED
  BY <1>1, Invariance, PTL

\* A projection whose acceptance the host was told of is the one in the journal, although
\* deliveries of older ones end late and hosts come and go (project() and fire()).
THEOREM Accepted == Spec => []AcceptedIsJournaled
<1>1. Inv => AcceptedIsJournaled
  <2> SUFFICES ASSUME Inv, latest.result = "ok"
               PROVE  journal.projection = [generation |-> latest.generation, when |-> latest.when]
    BY DEF AcceptedIsJournaled
  <2>1. journal.projection.generation = latest.generation
    BY Types DEF Inv, HostInv
  <2>2. journal.projection \in Known /\ Projection(latest) \in Known
    BY Knows
  <2>3. journal.projection.generation = Projection(latest).generation
    BY <2>1 DEF Projection
  <2> QED
    BY <2>2, <2>3 DEF Inv, KnownInv, Projection
<1> QED
  BY <1>1, Invariance, PTL

\* The armed retry of a delivery is given up only when the scheduler is done with all that
\* was due at the wake that was consumed, whatever it set, delivered or lost meanwhile
\* (acknowledge() and the end of fire()).
THEOREM Watchful == Spec => WatchdogOutlivesWork
<1>1. Inv => [\A a \in attempts :
                CompleteJournaled /\ Op.attempt = a.generation
                  => Earliest(row, delivering) > a.after]_vars
  <2> SUFFICES ASSUME Inv, NEW a \in attempts, CompleteJournaled, Op.attempt = a.generation
               PROVE  Earliest(row, delivering) > a.after
    OBVIOUS
  <2>1. tail # <<>> /\ Op.kind = "complete"
    BY DEF CompleteJournaled, At
  <2>2. PICK b \in attempts : b.stage = "completing" /\ b.generation = a.generation
    BY <2>1, OpIs DEF OpInv
  <2>3. a = b
    BY <2>2, Types DEF Inv, HostTypes, Unique
  <2> QED
    BY <2>2, <2>3 DEF Inv, AttemptInv, DoneWith
<1> QED
  BY <1>1, Invariance, PTL DEF WatchdogOutlivesWork

=============================================================================
