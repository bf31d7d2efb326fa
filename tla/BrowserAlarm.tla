---------------------------- MODULE BrowserAlarm ----------------------------
(***************************************************************************)
(* How the next wake of an alarm scheduler becomes one browser alarm,      *)
(* src/src/browser/alarm-coordinator.ts.  The scheduler lives in a worker  *)
(* (the host) that can die; its projector sends one projection at a time   *)
(* to a coordinator in the background worker, which the browser stops at   *)
(* any moment.  The coordinator keeps a durable journal and arms the one   *)
(* physical alarm, which is consumed when it goes off.                     *)
(*                                                                         *)
(* Times are small numbers.  A retry that would be due after the last      *)
(* instant of the clock is due at that instant.                            *)
(***************************************************************************)
EXTENDS Integers, Sequences, FiniteSets, FiniteSetsExt

CONSTANTS
  MaxTime,    \* the last instant of the clock
  MaxTries,   \* ALARM_RETRY_MAX_TRIES
  MaxSets,    \* bound on the alarms that the application sets or deletes
  MaxSends,   \* bound on the projections that are not settled at once
  MaxAttempts,\* bound on the deliveries of the coordinator that are under way at once
  MaxTroubles \* bound on stops of the background worker, deaths of the host and
              \* failing calls (of the store, the browser, the transport) together

ASSUME BrowserAlarmAssumption ==
  /\ MaxTime \in Nat /\ MaxTries \in Nat \ {0} /\ MaxSets \in Nat
  /\ MaxSends \in Nat \ {0} /\ MaxAttempts \in Nat \ {0} /\ MaxTroubles \in Nat

\* A power of two is a number.
ASSUME DelaysAreNumbers == \A retries \in 0..MaxTries : 2 ^ retries \in Nat

Instants == 0..MaxTime
Never    == MaxTime + 1     \* null: no wake
Wakes    == 0..Never

VARIABLES
  row,         \* the alarm in the scheduler's table
  delivering,  \* the alarm the scheduler is delivering
  hostUp,      \* the scheduler's worker is alive
  generation,  \* the last generation that nextGeneration() drew, durable
  sends,       \* tail: projections not settled, the first one under way once it has a generation
  latest,      \* latest, once it is settled; until then it is the last one of sends
  waiters,     \* waiters: calls of acknowledge() that were not answered
  wire,        \* projections on their way to the background worker
  journal,     \* the durable journal
  physical,    \* the physical alarm
  unarmed,     \* it is gone because the call that arms it failed or was never made
  bgUp,        \* the background worker runs
  tail,        \* #tail: mutations, the first one under way
  attempts,    \* #activeDeliveries, each with its call of deliver()
  now, sets, stops, deaths, losses, faults

host       == <<row, delivering, hostUp>>
projector  == <<generation, sends, latest, waiters, wire>>
background == <<bgUp, tail, attempts>>
durable    == <<journal, physical, unarmed>>
counters   == <<sets, stops, deaths, losses, faults>>
vars       == <<host, projector, background, durable, now, counters>>

\* Generations of the host start at 1; nothing was journaled before.
NoProjection == [generation |-> 0, when |-> Never]
NoDelivery   == [generation |-> 0, retryCount |-> 0, wake |-> Never]
NoJournal    == [delivery |-> NoDelivery, projection |-> NoProjection]

\* What the journal promises to wake for: the retry of a delivery under way, or
\* the projection.
ExpectedWake(j) == IF j.delivery = NoDelivery THEN j.projection.when ELSE j.delivery.wake
Owed == ExpectedWake(journal)

\* Another stop, death or failure is within the bound.
Calm == stops + deaths + losses + faults < MaxTroubles

Unsettled == [when |-> Never, active |-> 0, generation |-> 0, result |-> "none"]

Init ==
  /\ row = Never /\ delivering = Never /\ hostUp = TRUE
  /\ generation = 0 /\ waiters = {} /\ wire = {}
  /\ sends = <<[when |-> Never, active |-> 0, generation |-> 0]>>
  /\ latest = Unsettled
  /\ journal = NoJournal /\ physical = Never /\ unarmed = FALSE
  /\ bgUp = TRUE /\ tail = <<>> /\ attempts = {}
  /\ now = 0 /\ sets = 0 /\ stops = 0 /\ deaths = 0 /\ losses = 0 /\ faults = 0

-----------------------------------------------------------------------------
(***************************************************************************)
(* The projector, createBrowserAlarmProjector()                            *)
(***************************************************************************)

\* What AlarmScheduler projects: the earliest of its alarm and its delivery.
Earliest(alarm, active) == Min({alarm, active})
Active(active) == IF active = Never THEN 0 ELSE 1

Sent(alarm, active) ==
  [when |-> Earliest(alarm, active), active |-> Active(active), generation |-> 0]

ProjectWake(alarm, active) ==
  sends' = Append(sends, Sent(alarm, active)) /\ latest' = Unsettled

\* settle(): the calls of acknowledge() that the outcome of the latest
\* projection answers.
AnswersWhileDue(outcome, calls) ==    \* seeded fault
  IF outcome.result # "ok" \/ outcome.active # 0 THEN {} ELSE calls
Answers(outcome, calls) ==
  IF outcome.result # "ok" \/ outcome.active # 0 THEN {}
  ELSE {w \in calls : outcome.when = Never \/ outcome.when > w.after}

Answer(outcome, answered) ==
  {IF \E w \in answered : a.stage = "waiting" /\ w = [generation |-> a.generation, after |-> a.after]
   THEN [a EXCEPT !.stage = "answered",
                  !.answer = [generation |-> outcome.generation, when |-> outcome.when]]
   ELSE a : a \in attempts}

\* record(): the projection under way is accepted or has failed.  Only the
\* latest one answers, and its failure rejects every call.
Record(result) ==
  LET sent    == Head(sends)
      outcome == [when |-> sent.when, active |-> sent.active,
                  generation |-> sent.generation, result |-> result] IN
  /\ sends' = Tail(sends)
  /\ IF Len(sends) > 1 THEN UNCHANGED <<latest, waiters, attempts>>
     ELSE /\ latest' = outcome
          /\ IF result = "failed"
             THEN /\ waiters' = {}
                  /\ attempts' = {a \in attempts : a.stage # "waiting"}
             ELSE /\ waiters' = waiters \ Answers(outcome, waiters)
                  /\ attempts' = Answer(outcome, Answers(outcome, waiters))

\* A projection is under way; the background worker has got it.
UnderWay == sends # <<>> /\ Head(sends).generation > 0
Received == UnderWay /\ \A p \in wire : p.generation # Head(sends).generation

\* An event starts the background worker, which reconciles first.
Reconcile == [kind |-> "reconcile", stage |-> "start"]
Enqueue(op) ==
  /\ bgUp' = TRUE
  /\ tail' = (IF bgUp THEN tail ELSE <<Reconcile>>) \o <<op>>

\* The next projection draws its generation and is sent to project().
Project ==
  /\ hostUp /\ sends # <<>> /\ ~UnderWay
  /\ generation' = generation + 1
  /\ sends' = [sends EXCEPT ![1].generation = generation']
  /\ wire' = wire \cup {[generation |-> generation', when |-> Head(sends).when]}
  /\ UNCHANGED <<host, latest, waiters, background, durable, now, counters>>

\* The projection arrives, maybe when its host is dead and another one has sent
\* its own.
Arrive(p) ==
  /\ wire' = wire \ {p}
  /\ Enqueue([kind |-> "project", stage |-> "start",
              generation |-> p.generation, when |-> p.when])
  /\ UNCHANGED <<host, generation, sends, latest, waiters, attempts, durable, now, counters>>

-----------------------------------------------------------------------------
(***************************************************************************)
(* The scheduler, as far as its wake goes                                  *)
(***************************************************************************)

SetAlarm(t) ==
  /\ hostUp /\ Len(sends) < MaxSends /\ sets < MaxSets /\ t > now /\ t # row
  /\ sets' = sets + 1
  /\ row' = t /\ ProjectWake(t, delivering)
  /\ UNCHANGED <<delivering, hostUp, generation, waiters, wire, background, durable,
                 now, stops, deaths, losses, faults>>

Deliver ==
  /\ hostUp /\ Len(sends) < MaxSends
  /\ delivering = Never /\ row <= now
  /\ delivering' = row /\ ProjectWake(row, row)
  /\ UNCHANGED <<row, hostUp, generation, waiters, wire, background, durable, now, counters>>

\* The delivery ends: the alarm is removed or waits for its retry, unless the
\* actor has set another one meanwhile.
Finish ==
  /\ hostUp /\ Len(sends) < MaxSends
  /\ delivering # Never
  /\ delivering' = Never
  /\ \E next \in IF row = delivering THEN {t \in Wakes : t > now} ELSE {row} :
       row' = next /\ ProjectWake(next, Never)
  /\ UNCHANGED <<hostUp, generation, waiters, wire, background, durable, now, counters>>

\* The scheduler's constructor projects what its table holds.
HostStarts ==
  /\ ~hostUp /\ \E a \in attempts : a.stage = "asking"
  /\ hostUp' = TRUE /\ ProjectWake(row, Never)
  /\ UNCHANGED <<row, delivering, generation, waiters, wire, background, durable, now, counters>>

HostDies ==
  /\ hostUp /\ Calm
  /\ deaths' = deaths + 1
  /\ hostUp' = FALSE /\ delivering' = Never
  /\ sends' = <<>> /\ waiters' = {}
  /\ latest' = Unsettled
  /\ attempts' = {a \in attempts : a.stage # "waiting"}
  /\ UNCHANGED <<row, generation, wire, bgUp, tail, durable, now, sets, stops, losses, faults>>

-----------------------------------------------------------------------------
(***************************************************************************)
(* The coordinator, BrowserAlarmCoordinator                                *)
(***************************************************************************)

Op == Head(tail)
At(kind, stage) == bgUp /\ tail # <<>> /\ Op.kind = kind /\ Op.stage = stage

\* #mutate(): the next mutation starts when this one is settled.
Done == tail' = Tail(tail) /\ UNCHANGED bgUp
Proceed(op) == tail' = <<op>> \o Tail(tail) /\ UNCHANGED bgUp

\* #apply()
Arms(wake) == physical' = wake /\ unarmed' = FALSE

\* One of these mutations does not get to arm an alarm that is gone.
Unarming(ops) ==
  physical = Never /\ \E op \in ops : op.stage = "apply" \/ (op.kind = "fire" /\ op.stage = "start")

\* project() answers its caller, if that one is still there.
Settled(op, result) ==
  IF UnderWay /\ Head(sends).generation = op.generation THEN Record(result)
  ELSE UNCHANGED <<sends, latest, waiters, attempts>>

NeverStale(g) == FALSE    \* seeded fault
Stale(g) == g < journal.projection.generation
Projection(op) == [generation |-> op.generation, when |-> op.when]

\* project(): an old projection is dropped; one that comes during a delivery
\* leaves its retry armed; any other is journaled first and applied then.
ProjectStale ==
  /\ At("project", "start") /\ Stale(Op.generation)
  /\ Done /\ Settled(Op, "ok")
  /\ UNCHANGED <<host, generation, wire, durable, now, counters>>

ProjectDuringDelivery ==
  /\ At("project", "start") /\ ~Stale(Op.generation)
  /\ journal.delivery # NoDelivery
  /\ journal' = [journal EXCEPT !.projection = Projection(Op)]
  /\ Done /\ Settled(Op, "ok")
  /\ UNCHANGED <<host, generation, wire, physical, unarmed, now, counters>>

ProjectJournaled ==
  /\ At("project", "start") /\ ~Stale(Op.generation)
  /\ journal.delivery = NoDelivery
  /\ journal' = [delivery |-> NoDelivery, projection |-> Projection(Op)]
  /\ Proceed([Op EXCEPT !.stage = "apply"])
  /\ UNCHANGED <<host, projector, attempts, physical, unarmed, now, counters>>

ProjectApplied ==
  /\ At("project", "apply")
  /\ Arms(Op.when)
  /\ Done /\ Settled(Op, "ok")
  /\ UNCHANGED <<host, generation, wire, journal, now, counters>>

\* reconcile(), at every start of the background worker.
Restored ==
  IF journal.delivery = NoDelivery THEN journal.projection.when ELSE Max({journal.delivery.wake, now})

ReconcileDone ==
  /\ At("reconcile", "start")
  /\ IF journal = NoJournal THEN UNCHANGED <<physical, unarmed>> ELSE Arms(Restored)
  /\ Done
  /\ UNCHANGED <<host, projector, attempts, journal, now, counters>>

\* The retry of a delivery backs off, as long as the projection stays the same.
Retries ==
  IF journal.delivery # NoDelivery /\ journal.delivery.generation = journal.projection.generation
  THEN journal.delivery.retryCount ELSE 0
RetryDelay(retries) == 2 ^ Min({retries, MaxTries - 1})
Counted(retries) == Min({retries + 1, MaxTries})
Delivery ==
  [generation |-> journal.projection.generation,
   retryCount |-> Counted(Retries),
   wake       |-> Min({now + RetryDelay(Retries), MaxTime})]

\* fire(): nothing is expected any more.
FireUnexpected ==
  /\ At("fire", "start") /\ Owed = Never
  /\ Done
  /\ UNCHANGED <<host, projector, attempts, durable, now, counters>>

\* fire(): the alarm was consumed before its time.
FireEarly ==
  /\ At("fire", "start") /\ Owed # Never /\ Op.when < Owed
  /\ Arms(Owed)
  /\ Done
  /\ UNCHANGED <<host, projector, attempts, journal, now, counters>>

\* fire(): the retry is armed first, then the attempt is journaled, then made.
NoWatchdog == Never    \* seeded fault
Watchdog == Delivery.wake

FireDue ==
  /\ At("fire", "start") /\ Owed # Never /\ Op.when >= Owed
  /\ Arms(Watchdog)
  /\ Proceed([kind |-> "fire", stage |-> "save", when |-> Op.when, delivery |-> Delivery])
  /\ UNCHANGED <<host, projector, attempts, journal, now, counters>>

FireJournaled ==
  /\ At("fire", "save")
  /\ journal' = [journal EXCEPT !.delivery = Op.delivery]
  /\ attempts' = IF \E a \in attempts : a.generation = Op.delivery.generation THEN attempts
                 ELSE attempts \cup {[generation |-> Op.delivery.generation, after |-> Op.when,
                                      stage |-> "asking", answer |-> NoProjection]}
  /\ Done
  /\ UNCHANGED <<host, projector, physical, unarmed, now, counters>>

\* deliver(): the call reaches a host that is up, where acknowledge() sends the
\* latest projection again if it failed, and settles otherwise.
Ask(a) ==
  /\ a.stage = "asking" /\ hostUp
  /\ LET call     == [generation |-> a.generation, after |-> a.after]
         others   == attempts \ {a}
         repeated == sends = <<>> /\ latest.result = "failed"
         answered == IF sends = <<>> THEN Answers(latest, {call}) ELSE {}
     IN /\ waiters' = (waiters \cup {call}) \ answered
        /\ attempts' = others \cup
             {IF answered = {} THEN [a EXCEPT !.stage = "waiting"]
              ELSE [a EXCEPT !.stage = "answered",
                             !.answer = [generation |-> latest.generation, when |-> latest.when]]}
        /\ IF repeated
           THEN /\ sends' = <<[when |-> latest.when, active |-> latest.active, generation |-> 0]>>
                /\ latest' = Unsettled
           ELSE UNCHANGED <<sends, latest>>
  /\ UNCHANGED <<host, generation, wire, bgUp, tail, durable, now, counters>>

\* deliver() returned: its projection is to be journaled and applied.
Answered(a) ==
  /\ a.stage = "answered"
  /\ attempts' = (attempts \ {a}) \cup {[a EXCEPT !.stage = "completing"]}
  /\ tail' = Append(tail, [kind |-> "complete", stage |-> "start", attempt |-> a.generation,
                           generation |-> a.answer.generation, when |-> a.answer.when])
  /\ UNCHANGED <<bgUp, host, projector, durable, now, counters>>

\* deliver() failed: the journal keeps the delivery, whose retry is armed.
DeliverFails(a) ==
  /\ a.stage \in {"asking", "waiting", "answered"} /\ Calm
  /\ losses' = losses + 1
  /\ attempts' = attempts \ {a}
  /\ UNCHANGED <<bgUp, tail, host, projector, durable, now, sets, stops, deaths, faults>>

Ended(op) == attempts' = {a \in attempts : a.generation # op.attempt}

CompleteStale ==
  /\ At("complete", "start") /\ Stale(Op.generation)
  /\ Ended(Op) /\ Done
  /\ UNCHANGED <<host, projector, durable, now, counters>>

CompleteJournaled ==
  /\ At("complete", "start") /\ ~Stale(Op.generation)
  /\ journal' = [delivery |-> NoDelivery, projection |-> Projection(Op)]
  /\ Proceed([Op EXCEPT !.stage = "apply"])
  /\ UNCHANGED <<host, projector, attempts, physical, unarmed, now, counters>>

CompleteApplied ==
  /\ At("complete", "apply")
  /\ Arms(Op.when)
  /\ Ended(Op) /\ Done
  /\ UNCHANGED <<host, projector, journal, now, counters>>

\* A call of the store or the browser throws: the mutation under way fails, the
\* next ones go on.
MutationFails ==
  /\ bgUp /\ tail # <<>> /\ Calm
  /\ faults' = faults + 1
  /\ Done
  /\ CASE Op.kind = "project"  -> Settled(Op, "failed")
       [] Op.kind = "complete" -> Ended(Op) /\ UNCHANGED <<sends, latest, waiters>>
       [] OTHER                -> UNCHANGED <<sends, latest, waiters, attempts>>
  /\ unarmed' = (unarmed \/ Unarming({Op}))
  /\ UNCHANGED <<host, generation, wire, journal, physical, now, sets, stops, deaths, losses>>

\* The browser stops the background worker: its calls of deliver() are gone, and
\* the projection under way is rejected.
BackgroundStops ==
  /\ bgUp /\ Calm
  /\ stops' = stops + 1
  /\ bgUp' = FALSE /\ tail' = <<>>
  /\ IF Received
     THEN /\ sends' = Tail(sends)
          /\ IF Len(sends) > 1 THEN UNCHANGED <<latest, waiters>>
             ELSE /\ latest' = [when |-> Head(sends).when, active |-> Head(sends).active,
                                generation |-> Head(sends).generation, result |-> "failed"]
                  /\ waiters' = {}
     ELSE UNCHANGED <<sends, latest, waiters>>
  /\ attempts' = {}
  /\ unarmed' = (unarmed \/ Unarming({tail[i] : i \in DOMAIN tail}))
  /\ UNCHANGED <<host, generation, wire, journal, physical, now, sets, deaths, losses, faults>>

\* Anything else starts it: the browser, or a page of the extension.
BackgroundStarts ==
  /\ ~bgUp
  /\ bgUp' = TRUE /\ tail' = <<Reconcile>>
  /\ UNCHANGED <<attempts, host, projector, durable, now, counters>>

\* The browser's alarm goes off once and is gone.  The next one is at least half
\* a minute later, when the mutation of the first one is over.
PhysicalGoesOff ==
  /\ physical <= now /\ \A i \in DOMAIN tail : tail[i].kind # "fire"
  /\ (\E a \in attempts : a.generation < journal.projection.generation)
       => Cardinality(attempts) < MaxAttempts
  /\ physical' = Never
  /\ Enqueue([kind |-> "fire", stage |-> "start", when |-> physical])
  /\ UNCHANGED <<attempts, host, projector, journal, unarmed, now, counters>>

Tick ==
  /\ now < MaxTime
  /\ now' = now + 1
  /\ UNCHANGED <<host, projector, background, durable, counters>>

-----------------------------------------------------------------------------

Mutation ==
  \/ ProjectStale \/ ProjectDuringDelivery \/ ProjectJournaled \/ ProjectApplied
  \/ ReconcileDone
  \/ FireUnexpected \/ FireEarly \/ FireDue \/ FireJournaled
  \/ CompleteStale \/ CompleteJournaled \/ CompleteApplied

Scheduler == (\E t \in Wakes : SetAlarm(t)) \/ Deliver \/ Finish \/ HostStarts \/ HostDies

Transport == (\E p \in wire : Arrive(p)) \/ \E a \in attempts : Ask(a) \/ Answered(a)

Next ==
  \/ Scheduler \/ Project
  \/ Mutation \/ MutationFails
  \/ Transport \/ \E a \in attempts : DeliverFails(a)
  \/ BackgroundStops \/ BackgroundStarts
  \/ PhysicalGoesOff \/ Tick

\* The browser's alarms go off, mutations and calls proceed, and a delivery that
\* asks for the host has the offscreen document created.  The scheduler delivers
\* what is due, and time passes.  A handler may run for ever.
Fairness ==
  /\ WF_vars(PhysicalGoesOff) /\ WF_vars(Mutation) /\ WF_vars(Transport)
  /\ WF_vars(HostStarts)
  /\ WF_vars(Project) /\ WF_vars(Deliver) /\ WF_vars(Tick)

Spec == Init /\ [][Next]_vars /\ Fairness

-----------------------------------------------------------------------------
(***************************************************************************)
(* Properties                                                              *)
(***************************************************************************)

Generations == 0..generation
Projections == [generation : Generations, when : Wakes]
Deliveries  == [generation : Generations, retryCount : 1..MaxTries, wake : Instants]

\* The variables keep their types; a generation that anything names was drawn.
TypeOK ==
  /\ row \in Wakes /\ delivering \in Wakes /\ hostUp \in BOOLEAN
  /\ sends \in Seq([when : Wakes, active : {0, 1}, generation : Generations])
  /\ latest \in [when : Wakes, active : {0, 1}, generation : Generations,
                 result : {"none", "ok", "failed"}]
  /\ waiters \subseteq [generation : Generations, after : Instants]
  /\ wire \subseteq Projections
  /\ journal \in [delivery : {NoDelivery} \cup Deliveries, projection : Projections]
  /\ physical \in Wakes /\ unarmed \in BOOLEAN
  /\ ~bgUp => tail = <<>> /\ attempts = {}
  /\ attempts \subseteq
       [generation : Generations, after : Instants, answer : Projections,
        stage : {"asking", "waiting", "answered", "completing"}]
  /\ \A a, b \in attempts : a.generation = b.generation => a = b
  /\ now \in Instants

\* A projection whose acceptance the host was told of is the one in the journal,
\* although deliveries of older ones end late and hosts come and go: otherwise
\* the next wake is not the one the scheduler relies on (project(), fire()).
AcceptedIsJournaled ==
  hostUp /\ sends = <<>> /\ latest.result = "ok" =>
    journal.projection = [generation |-> latest.generation, when |-> latest.when]

\* The retry of a delivery is given up only when the scheduler is done with all
\* that was due at the consumed wake (acknowledge(), the end of fire()).
WatchdogOutlivesWork ==
  [][\A a \in attempts :
       CompleteJournaled /\ Op.attempt = a.generation => Earliest(row, delivering) > a.after]_vars

\* An alarm that is due and was projected is delivered, or replaced by the
\* actor, whatever fails, dies or is stopped on the way, and although nothing but
\* its own events starts a stopped background worker.  Exempt is an alarm that is
\* gone with nothing left to rearm it: the call that arms it failed, or the worker
\* was stopped between the journal and that call or before the alarm it had
\* consumed was armed again.  The next start or projection that arms an alarm ends
\* the exemption (reconcile(), project(), fire()).
DueIsDelivered ==
  \A t \in Instants :
    (row = t /\ t <= now /\ journal.projection.when <= t)
      ~> (delivering # Never \/ row # t \/ unarmed)

=============================================================================
