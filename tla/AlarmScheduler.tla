--------------------------- MODULE AlarmScheduler ---------------------------
(***************************************************************************)
(* The alarm scheduler of a namespace, src/src/server/alarm-scheduler.ts,  *)
(* for one actor: its row in the table _cf_ALARM, its entry in memory, and *)
(* the asynchronous task that waits for the alarm, delivers it and then    *)
(* retries, abandons or removes it.  The actor asks for alarms at any      *)
(* moment, a write to the table may fail, and the worker may die between   *)
(* any two steps and read its rows again.                                  *)
(*                                                                         *)
(* Times are small numbers; a retry is due after a delay that doubles      *)
(* (without jitter), but not after the last instant of the clock, and      *)
(* bookkeeping is repeated after the shortest of these delays.             *)
(***************************************************************************)
EXTENDS Integers, Sequences, FiniteSets, FiniteSetsExt

CONSTANTS
  MaxTime,      \* the latest time an alarm is set for
  MaxNow,       \* the last instant of the clock
  MaxTries,     \* ALARM_RETRY_MAX_TRIES
  MaxBackoff,   \* RETRY_BACKOFF_MAX
  MaxOrphans,   \* bound on the tasks that outlive their entry at once
  MaxFaults,    \* bound on the failures of writes and of calls
  MaxCrashes    \* bound on the deaths of the worker

ASSUME AlarmSchedulerAssumption ==
  /\ MaxTime \in Nat /\ MaxNow \in Nat /\ MaxTime < MaxNow
  /\ MaxTries \in Nat /\ MaxBackoff \in Nat /\ MaxOrphans \in Nat
  /\ MaxFaults \in Nat /\ MaxCrashes \in Nat

\* The provers know nothing of powers: the delays of the ladder are numbers.
ASSUME DelaysAreNumbers == \A backoff \in 0..(MaxBackoff + 1) : 2 ^ backoff \in Nat

Times   == 1..MaxTime
Instants == 0..MaxNow
Never   == MaxNow + 1    \* null: no time

\* What a delivery reports: retry and retryCountsAgainstLimit, or the outcome
\* "aborted" without a retry.
Results  == {"ok", "counted", "uncounted", "aborted"}
NoResult == "none"
Retries(result) == result \in {"counted", "uncounted"}

\* How often the alarm failed and what its failures amount to.
Ladder == [backoff : 0..(MaxBackoff + 1), counted : 0..MaxTries, previous : BOOLEAN]
NewLadder == [backoff |-> 0, counted |-> 0, previous |-> FALSE]

Rows == [time : Times, retry : Instants \cup {Never}, ladder : Ladder, running : BOOLEAN]
NoRow == [time |-> Never]

\* at is the instant its timer fires, wake what is projected for it; doing is
\* where its task is, and result what a task that repeats its bookkeeping carries.
Entries ==
  [time : Times, status : {"WAITING", "STARTED", "FINISHED"},
   doing : {"waiting", "delivering", "abandoning"}, at : Instants,
   wake : Instants \cup {Never}, queued : Times \cup {Never},
   ladder : Ladder, result : Results \cup {NoResult}]
NoEntry == [time |-> Never]

VARIABLES
  row, entry,
  orphans,     \* the times of unmapped entries whose delivery or abandonment is not over
  projected,   \* what the host was last told to wake up for
  up,          \* the worker is alive
  now,
  failures,    \* the counted failures this entry was ever told of (a history variable)
  faults, crashes

vars == <<row, entry, orphans, projected, up, now, failures, faults, crashes>>

Init ==
  /\ row = NoRow /\ entry = NoEntry
  /\ orphans = <<>> /\ projected = Never
  /\ up = TRUE /\ now = 0
  /\ failures = 0
  /\ faults = 0 /\ crashes = 0

-----------------------------------------------------------------------------

Delay(backoff)   == 2 ^ backoff
After(delay)     == Min({now + delay, MaxNow})
Clamped(backoff) == Min({MaxBackoff, backoff})

Fault == faults < MaxFaults /\ faults' = faults + 1

\* scheduleAlarm(): a new entry, which waits for its time, and for a retry time
\* that is later.
Scheduled(time, retry, ladder) ==
  LET at == IF retry # Never THEN Max({time, retry}) ELSE time
  IN  [time |-> time, status |-> "WAITING", doing |-> "waiting", at |-> at, wake |-> at,
       queued |-> Never, ladder |-> ladder, result |-> NoResult]
ScheduledNew(time) == Scheduled(time, Never, NewLadder)

Mapped    == entry # NoEntry
Is(doing) == up /\ Mapped /\ entry.doing = doing
Expected(e) == IF e.queued # Never THEN e.queued ELSE e.time

\* projectNextWake(): deliveries that are not over keep their own time, and
\* the entry its timer or what is queued behind its delivery.
Wakes(e) ==
  IF e = NoEntry THEN {}
  ELSE {e.time : x \in {e.doing} \ {"waiting"}}
       \cup {IF e.status = "STARTED" THEN e.queued ELSE IF e.wake # Never THEN e.wake ELSE e.time}
ProjectNextWake(e, tasks) ==
  projected' = Min({Never} \cup Wakes(e) \cup {tasks[i] : i \in 1..Len(tasks)})

\* The task of an entry that leaves the map goes on until its call returns.
Unmap ==
  orphans' = IF Mapped /\ entry.doing # "waiting" THEN Append(orphans, entry.time) ELSE orphans

\* The history of an entry ends with it.
Remember(result) ==
  failures' = IF entry' = NoEntry \/ entry'.status = "WAITING" THEN 0
              ELSE IF result = "counted" THEN failures + 1 ELSE failures

-----------------------------------------------------------------------------
(***************************************************************************)
(* What actors and hosts ask for                                           *)
(***************************************************************************)

\* The upsert of setAlarm: a fresh retry budget, but a delivery that is in
\* flight stays marked.
RowAfresh(time) ==
  [time |-> time, retry |-> Never, ladder |-> NewLadder, running |-> row # NoRow /\ row.running]

Queued(time) == [entry EXCEPT !.queued = time]

SetAlarm(time) ==
  /\ up
  /\ row' = RowAfresh(time)
  /\ entry' = IF Mapped /\ entry.status # "WAITING" THEN Queued(time) ELSE ScheduledNew(time)
  /\ Remember(NoResult)
  /\ ProjectNextWake(entry', orphans)
  /\ UNCHANGED <<orphans, up, now, faults, crashes>>

\* A running alarm cannot be removed.  Between two attempts it can, and what is
\* queued behind it takes its place.
DeleteAlarm ==
  /\ up
  /\ row' = NoRow
  /\ \/ ~Mapped /\ UNCHANGED <<entry, orphans>>
     \/ Mapped /\ entry.status = "STARTED" /\ entry' = Queued(Never) /\ UNCHANGED orphans
     \/ /\ Mapped /\ entry.status # "STARTED"
        /\ entry' = IF entry.queued # Never THEN ScheduledNew(entry.queued) ELSE NoEntry
        /\ Unmap /\ Len(orphans') <= MaxOrphans
  /\ Remember(NoResult)
  /\ ProjectNextWake(entry', orphans')
  /\ UNCHANGED <<up, now, faults, crashes>>

DeleteAll ==
  /\ up
  /\ row' = NoRow /\ entry' = NoEntry
  /\ Unmap /\ Len(orphans') <= MaxOrphans
  /\ Remember(NoResult)
  /\ ProjectNextWake(entry', orphans')
  /\ UNCHANGED <<up, now, faults, crashes>>

\* reconcile(): the stored alarm of an actor that starts is new work, unless the
\* scheduler comes no later anyway.
Reconcile(stored) ==
  /\ ~(Mapped /\ Expected(entry) <= stored)
  /\ SetAlarm(stored)

-----------------------------------------------------------------------------
(***************************************************************************)
(* The task of an alarm                                                    *)
(***************************************************************************)

\* The catch of makeAlarmTask: the task is repeated later, with what the
\* handler reported, if it did.
RepeatForgetful(result) ==    \* seeded fault
  [entry EXCEPT !.status = "WAITING", !.doing = "waiting", !.at = After(Delay(0))]
RepeatUnarmed(result) ==    \* seeded fault
  [entry EXCEPT !.status = IF result = NoResult THEN "WAITING" ELSE "FINISHED",
                !.doing = "waiting", !.result = result, !.at = Never]
Repeat(result) ==
  [entry EXCEPT !.status = IF result = NoResult THEN "WAITING" ELSE "FINISHED",
                !.doing = "waiting", !.result = result, !.at = After(Delay(0))]

\* A write or a call fails, and the task is to repeat what is left to do.
TaskFails(result) == Fault /\ entry' = Repeat(result) /\ UNCHANGED row

\* The delivery is over, and a queued alarm takes the place of the one it was for.
TakeQueued ==
  /\ row' = IF row = NoRow THEN NoRow ELSE [row EXCEPT !.running = FALSE]
  /\ entry' = ScheduledNew(entry.queued)
  /\ UNCHANGED faults

\* deleteAlarm() by the task of a finished alarm.
Remove == row' = NoRow /\ entry' = NoEntry /\ UNCHANGED faults

\* The next rung of the ladder: the backoff starts over at the first failure
\* that counts.
NextRung(result) ==
  LET counted == result = "counted"
      backoff == IF counted /\ ~entry.ladder.previous THEN 0 ELSE entry.ladder.backoff
  IN  [backoff |-> Clamped(backoff) + 1,
       counted |-> entry.ladder.counted + (IF counted THEN 1 ELSE 0),
       previous |-> counted]

\* saveRetry: one write says where the ladder stands and that the delivery is over.
ArmRetry(result) ==
  LET rung == NextRung(result)
      at   == After(Delay(rung.backoff - 1))
  IN  /\ row' = IF row = NoRow THEN NoRow
                ELSE [row EXCEPT !.retry = at, !.ladder = rung, !.running = FALSE]
      /\ entry' = [entry EXCEPT !.status = "FINISHED", !.doing = "waiting", !.at = at,
                                !.wake = at, !.ladder = rung, !.result = NoResult]
      /\ UNCHANGED faults

\* The counters are published only after the write.
ArmRetryFailsCharging(result) ==    \* seeded fault
  Fault /\ entry' = [Repeat(result) EXCEPT !.ladder = NextRung(result)] /\ UNCHANGED row
ArmRetryFails(result) == TaskFails(result)

StartAbandoning(result) ==
  /\ entry' = [entry EXCEPT !.status = "FINISHED", !.doing = "abandoning", !.result = result]
  /\ UNCHANGED <<row, faults>>

GivesUp(result) ==
  result = "aborted" \/ (Retries(result) /\ entry.ladder.counted >= MaxTries)

\* The rest of makeAlarmTask, with what a delivery reported: a queued alarm wins.
Finish(result) ==
  \/ entry.queued # Never /\ (TakeQueued \/ TaskFails(result))
  \/ /\ entry.queued = Never
     /\ \/ GivesUp(result) /\ StartAbandoning(result)
        \/ Retries(result) /\ ~GivesUp(result) /\ (ArmRetry(result) \/ ArmRetryFails(result))
        \/ result = "ok" /\ (Remove \/ TaskFails(result))

\* checkTimestamp(): a timer may fire early, an alarm may not.
IsTime == Is("waiting") /\ entry.at <= now /\ entry.time <= now

\* The row is marked before the actor hears of its alarm.
StartDelivery ==
  /\ IsTime /\ entry.result = NoResult
  /\ \/ /\ row' = IF row = NoRow THEN NoRow ELSE [row EXCEPT !.running = TRUE]
        /\ entry' = [entry EXCEPT !.status = "STARTED", !.doing = "delivering", !.wake = Never]
        /\ UNCHANGED <<failures, faults>>
     \/ TaskFails(NoResult) /\ UNCHANGED failures
  /\ ProjectNextWake(entry', orphans)
  /\ UNCHANGED <<orphans, up, now, crashes>>

\* Bookkeeping that failed is repeated, without another delivery.
RepeatBookkeeping ==
  /\ IsTime /\ entry.result # NoResult
  /\ Finish(entry.result)
  /\ Remember(NoResult)
  /\ ProjectNextWake(entry', orphans)
  /\ UNCHANGED <<orphans, up, now, crashes>>

\* deliverAlarm() returns, or throws, which is a failure that does not count.
Delivered(result) ==
  /\ Is("delivering")
  /\ Finish(result)
  /\ Remember(result)
  /\ ProjectNextWake(entry', orphans)
  /\ UNCHANGED <<orphans, up, now, crashes>>

\* abandonAlarm() returns the alarm that the actor has instead, if any; it is
\* scheduled, unless an alarm was queued meanwhile.
AbandonedForGood(newer) == Remove    \* seeded fault
Abandoned(newer) ==
  \/ entry.queued # Never /\ TakeQueued
  \/ /\ entry.queued = Never /\ newer # Never
     /\ row' = [RowAfresh(newer) EXCEPT !.running = FALSE]
     /\ entry' = ScheduledNew(newer)
     /\ UNCHANGED faults
  \/ entry.queued = Never /\ newer = Never /\ Remove

\* The newer alarm is queued, but the mark cannot be cleared.
AbandonHalfDone(newer) ==
  /\ entry.queued = Never /\ Fault
  /\ row' = RowAfresh(newer)
  /\ entry' = [Repeat(entry.result) EXCEPT !.queued = newer]

AbandonReturns ==
  /\ Is("abandoning")
  /\ \/ \E newer \in Times \cup {Never} : Abandoned(newer)
     \/ TaskFails(entry.result)
     \/ \E newer \in Times : AbandonHalfDone(newer)
  /\ Remember(NoResult)
  /\ ProjectNextWake(entry', orphans)
  /\ UNCHANGED <<orphans, up, now, crashes>>

\* The call of a task whose entry is gone returns: nothing else is left to do.
OrphanReturns ==
  /\ up
  /\ \E i \in 1..Len(orphans) :
       orphans' = SubSeq(orphans, 1, i - 1) \o SubSeq(orphans, i + 1, Len(orphans))
  /\ ProjectNextWake(entry, orphans')
  /\ UNCHANGED <<row, entry, up, now, failures, faults, crashes>>

-----------------------------------------------------------------------------
(***************************************************************************)
(* Restarts                                                                *)
(***************************************************************************)

\* The worker dies; rows and what was projected stay.
Crash ==
  /\ up /\ crashes < MaxCrashes
  /\ crashes' = crashes + 1
  /\ up' = FALSE
  /\ entry' = NoEntry /\ orphans' = <<>>
  /\ failures' = IF Mapped /\ entry.queued = Never THEN failures ELSE 0
  /\ UNCHANGED <<row, projected, now, faults>>

\* A delivery nothing was heard of becomes a retry that does not count.
Interrupted ==
  LET backoff == Clamped(row.ladder.backoff)
  IN  [row EXCEPT !.retry = After(Delay(backoff)), !.running = FALSE,
                  !.ladder = [backoff |-> backoff + 1, counted |-> @.counted, previous |-> FALSE]]

\* loadAlarmsFromDb().
Resumes(r) == Scheduled(r.time, r.retry, r.ladder)

Load ==
  /\ ~up /\ up' = TRUE
  /\ row' = IF row # NoRow /\ row.running THEN Interrupted ELSE row
  /\ entry' = IF row = NoRow THEN NoEntry ELSE Resumes(row')
  /\ ProjectNextWake(entry', <<>>)
  /\ UNCHANGED <<orphans, now, failures, faults, crashes>>

Tick ==
  /\ now < MaxNow
  /\ now' = now + 1
  /\ UNCHANGED <<row, entry, orphans, projected, up, failures, faults, crashes>>

-----------------------------------------------------------------------------

Asked == (\E time \in Times : SetAlarm(time) \/ Reconcile(time)) \/ DeleteAlarm \/ DeleteAll

Next ==
  \/ Asked
  \/ StartDelivery \/ RepeatBookkeeping
  \/ \E result \in Results : Delivered(result)
  \/ AbandonReturns \/ OrphanReturns
  \/ Crash \/ Load \/ Tick

\* The host starts a worker that is gone when the time it was last told has come
\* (BrowserAlarm), and need not start it before.
WokenUp == projected <= now /\ Load

\* Timers fire, abandonAlarm() returns and the host wakes the worker up; a handler
\* may take for ever.
Fairness ==
  /\ WF_vars(StartDelivery) /\ WF_vars(RepeatBookkeeping)
  /\ WF_vars(AbandonReturns)
  /\ WF_vars(WokenUp) /\ WF_vars(Tick)

Spec == Init /\ [][Next]_vars /\ Fairness

-----------------------------------------------------------------------------
(***************************************************************************)
(* Properties                                                              *)
(***************************************************************************)

\* Every variable has its type; so the row is one readPersistedAlarm() accepts
\* ("_cf_ALARM holds a state this scheduler cannot have written").
TypeOK ==
  /\ row \in Rows \cup {NoRow}
  /\ entry \in Entries \cup {NoEntry}
  /\ orphans \in Seq(Times) /\ Len(orphans) <= MaxOrphans
  /\ projected \in Instants \cup {Never}
  /\ up \in BOOLEAN /\ now \in Instants
  /\ failures \in Nat
  /\ faults \in 0..MaxFaults /\ crashes \in 0..MaxCrashes

\* The handler runs again only when it is on record that its last run is over:
\* bookkeeping that failed is repeated without another delivery.
NoRedeliveryOffTheRecord ==
  [][StartDelivery /\ entry'.doing = "delivering" /\ row # NoRow => ~row.running]_vars

\* No failure is charged twice, by bookkeeping that is repeated or by a restart, ...
FailuresAreChargedOnce ==
  /\ Mapped => entry.ladder.counted <= failures
  /\ row # NoRow => row.ladder.counted <= failures

\* The row of an alarm is deleted when the actor says so or when that alarm is
\* done, never on account of an older alarm that the delivery was for.
NewerAlarmIsKept ==
  [][row # NoRow /\ row' = NoRow =>
       \/ DeleteAlarm \/ DeleteAll
       \/ Is("abandoning") /\ entry.queued = Never /\ entry' = NoEntry
       \/ entry.time = row.time /\ entry.queued = Never]_vars

\* An alarm in the table is eventually delivered or deleted, whatever fails.
AlarmIsDelivered == row # NoRow ~> Is("delivering") \/ row = NoRow

=============================================================================
