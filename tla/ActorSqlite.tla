----------------------------- MODULE ActorSqlite -----------------------------
(***************************************************************************)
(* The commit path of src/src/io/actor-sqlite.ts for one actor: implicit   *)
(* transactions that commit at the end of the checkpoint, explicit nested  *)
(* transactions, deleteAll(), the merging of overlapping commits, and the  *)
(* protocol that keeps the alarm in the database and the alarm in the      *)
(* scheduler together across failures and crashes.                         *)
(*                                                                         *)
(* Data other than the alarm does not matter to that protocol: a write is  *)
(* only its transaction and whether it must be confirmed.  A commit is     *)
(* named by the coroutine that performs it, and the name is free again     *)
(* once it settled.  Alarm times are 1..MaxTime and an unset alarm is      *)
(* later than every time (willFireEarlier).                                *)
(*                                                                         *)
(* The scheduler is the part of src/src/server/alarm-scheduler.ts that one *)
(* actor sees: its row, its entry, and the delivery it is running.         *)
(***************************************************************************)
EXTENDS Integers, Sequences

CONSTANTS
  MaxTime,     \* bound on alarm times; the clock goes one further
  MaxCommits,  \* bound on the commits that are under way at once
  MaxDepth,    \* bound on the nesting of explicit transactions
  MaxFaults,   \* bound on failing calls, in total
  MaxCrashes,  \* bound on crashes of the worker, in total
  DeleteAllAllowed,  \* whether the application calls deleteAll()
  SameInstant,       \* whether an alarm may be delivered, and set, at the
                     \* instant it is due, or only once the clock moved on
  PromptScheduler,   \* whether the scheduler and commitCallback() answer
  PromptStorage      \* before the event loop runs its next task

ASSUME ActorSqliteAssumption ==
  /\ MaxTime \in Nat \ {0} /\ MaxCommits \in Nat \ {0} /\ MaxDepth \in Nat
  /\ MaxFaults \in Nat /\ MaxCrashes \in Nat
  /\ DeleteAllAllowed \in BOOLEAN /\ SameInstant \in BOOLEAN
  /\ PromptScheduler \in BOOLEAN /\ PromptStorage \in BOOLEAN

Commits   == 1..MaxCommits
None      == 0
Rejected  == -1     \* #pendingCommit after it failed: a rejected promise
NoAlarm   == MaxTime + 1
Alarms    == 1..NoAlarm
Undefined == 0

\* A request to the scheduler that was not answered yet, if any.
NoRequest == [time |-> 0, later |-> FALSE]
Requests  == {NoRequest} \cup [time : Alarms, later : BOOLEAN]

\* What a commit remembers of the alarm it requested or persists, and whether
\* the alarm changed since (#alarmVersion).
NothingCaptured == [alarm |-> NoAlarm, changed |-> FALSE]

VARIABLES
  \* The database.
  file,        \* the alarm in the committed database file
  alarm,       \* the alarm the open connection reads (SqliteMetadata.getAlarm)
  implicit,    \* the commit that owns the open implicit transaction, or None
  frames,      \* the explicit transactions that are open, outermost first
  leaked,      \* an open explicit transaction nobody will commit or roll back
  \* The commits.
  pc,          \* where each commit stands
  checkpoint,  \* the commits that wait for the end of the checkpoint, in order
  persisting,  \* the commits that wait for commitCallback(), in order
  leader,      \* leader[k]: the commit a merged commit waits for
  locked,      \* the commits the output gate is locked on
  captured,    \* captured[k]: see NothingCaptured
  pendingCommit, deleteAllScheduled,
  gateBroken, taskFailing, broken,
  \* The alarm protocol.
  noLaterThan,         \* #alarmScheduledNoLaterThan
  lastConfirmed,       \* #lastConfirmedAlarmDbState
  laterIsInFlight, laterRequest, pendingLater,
  deferredDelete,      \* haveDeferredDelete
  \* The scheduler and the delivery it makes.
  row,         \* the scheduled time in the scheduler's database
  entry,       \* the waiting or queued alarm the scheduler holds in memory
  delivering,  \* the scheduled time of the delivery in progress
  handler,     \* where deliverAlarm() stands
  handlerDeps, \* the output locks the end of the handler waits for
  armRequest,  \* the request a cancelled delivery waits for
  \* The environment.
  up, now, faults, crashes

database  == <<file, alarm, implicit, frames, leaked>>
commits   == <<pc, checkpoint, persisting, leader, locked, captured, pendingCommit,
               deleteAllScheduled>>
breakage  == <<gateBroken, taskFailing, broken>>
movingLater == <<laterIsInFlight, laterRequest, pendingLater>>
protocol  == <<noLaterThan, lastConfirmed, movingLater>>
scheduler == <<row, entry>>
delivery  == <<delivering, handler, handlerDeps, armRequest>>
world     == <<up, now, faults, crashes>>

vars == <<database, commits, breakage, protocol, deferredDelete, scheduler,
          delivery, world>>

-----------------------------------------------------------------------------

Init ==
  /\ file = NoAlarm /\ alarm = NoAlarm
  /\ implicit = None /\ frames = <<>> /\ leaked = FALSE
  /\ pc = [k \in Commits |-> "free"] /\ checkpoint = <<>> /\ persisting = <<>>
  /\ leader = [k \in Commits |-> None]
  /\ captured = [k \in Commits |-> NothingCaptured]
  /\ locked = {} /\ pendingCommit = None /\ deleteAllScheduled = FALSE
  /\ gateBroken = FALSE /\ taskFailing = FALSE /\ broken = FALSE
  /\ noLaterThan = NoAlarm /\ lastConfirmed = NoAlarm
  /\ laterIsInFlight = FALSE /\ laterRequest = NoRequest /\ pendingLater = Undefined
  /\ deferredDelete = FALSE
  /\ row = NoAlarm /\ entry = NoAlarm
  /\ delivering = NoAlarm /\ handler = "idle" /\ handlerDeps = {}
  /\ armRequest = NoRequest
  /\ up = TRUE /\ now = 1 /\ faults = 0 /\ crashes = 0

-----------------------------------------------------------------------------
(***************************************************************************)
(* Helpers                                                                 *)
(***************************************************************************)

Last(s) == s[Len(s)]
Pop(s)  == SubSeq(s, 1, Len(s) - 1)

Usable == up /\ ~broken

\* The name of a new commit.
Fresh(k) == pc[k] = "free" /\ \A j \in 1..(k - 1) : pc[j] # "free"

\* One more call fails.
Fault ==
  /\ faults < MaxFaults
  /\ faults' = faults + 1
  /\ UNCHANGED <<up, now, crashes>>

\* The event loop runs another task: prompt answers have arrived.
NextTask ==
  /\ up
  /\ PromptScheduler => laterRequest = NoRequest /\ \A k \in Commits : pc[k] # "prealarm"
  /\ PromptStorage => persisting = <<>>

\* scheduleRun(time) as far as it acts at once: AlarmScheduler.setAlarm writes
\* the row and takes the alarm, deleteAlarm drops both.  A running delivery is
\* left alone, the alarm is then queued behind it.
ScheduleRun(time) == row' = time /\ entry' = time

\* #requestScheduledAlarm: a request that moves the alarm later is believed at
\* once, one that moves it earlier only when it is answered.
Request(known, time) == [time |-> time, later |-> known < time]

BelievedWhenAnsweredOnly(known, time) == known    \* seeded fault
BelievedAtOnce(known, time) == IF known < time THEN time ELSE known

BelievedWhenAnswered(request) == IF request.later THEN noLaterThan ELSE request.time

\* #alarmVersion moves: no commit in progress may still move the alarm later.
NoteAlarmChange ==
  captured' = [k \in Commits |->
                 [alarm |-> captured[k].alarm,
                  changed |-> captured[k].changed \/ pc[k] = "callback"]]

-----------------------------------------------------------------------------
(***************************************************************************)
(* Writing                                                                 *)
(***************************************************************************)

\* #onWrite in no transaction or an implicit one: the first write opens the
\* transaction and schedules its commit for the end of the checkpoint, the
\* first one to be confirmed locks the output gate on that commit.
ImplicitWrite(confirmed) ==
  /\ frames = <<>>
  /\ \E k \in Commits :
       /\ IF implicit = None
            THEN /\ Fresh(k)
                 /\ pc' = [pc EXCEPT ![k] = "queued"]
                 /\ checkpoint' = Append(checkpoint, k)
            ELSE k = implicit /\ UNCHANGED <<pc, checkpoint>>
       /\ implicit' = k
       /\ locked' = IF confirmed THEN locked \cup {k} ELSE locked
  /\ UNCHANGED frames

\* The innermost explicit transaction, or the one that takes over its flags,
\* has changed the alarm (dirty), has written what must be confirmed.
MarkLast(open, dirty, confirmed) ==
  [open EXCEPT ![Len(open)] = [alarm |-> @.alarm,
                               dirty |-> @.dirty \/ dirty,
                               confirmed |-> @.confirmed \/ confirmed]]

\* #onWrite in an explicit transaction: the gate is locked at its commit.
ExplicitWrite(confirmed) ==
  /\ frames # <<>>
  /\ frames' = MarkLast(frames, FALSE, confirmed)
  /\ UNCHANGED <<pc, checkpoint, implicit, locked>>

Write(confirmed) == ImplicitWrite(confirmed) \/ ExplicitWrite(confirmed)

Put(confirmed) ==
  /\ Usable
  /\ Write(confirmed)
  /\ UNCHANGED <<file, alarm, leaked, persisting, leader, captured, pendingCommit,
                 deleteAllScheduled, breakage, protocol, deferredDelete,
                 scheduler, delivery, world>>

CancelDeferredDeletion == deferredDelete' = FALSE

\* The write of setAlarm(): SqliteMetadata.setAlarm writes only a value that
\* changed; the deferred deletion is cancelled, in a transaction only when
\* that commits.
WriteAlarm(time, confirmed) ==
  /\ alarm' = time
  /\ IF time # alarm THEN NoteAlarmChange ELSE UNCHANGED captured
  /\ \/ /\ frames = <<>>
        /\ CancelDeferredDeletion
        /\ IF time # alarm THEN ImplicitWrite(confirmed)
           ELSE UNCHANGED <<pc, checkpoint, implicit, locked, frames>>
     \/ /\ frames # <<>>
        /\ frames' = MarkLast(frames, TRUE, confirmed /\ time # alarm)
        /\ UNCHANGED <<pc, checkpoint, implicit, locked, deferredDelete>>

\* Alarm times in the past are moved to the present (api/actor-state.ts).
SetAlarm(time, confirmed) ==
  /\ Usable
  /\ time >= now
  /\ WriteAlarm(time, confirmed)
  /\ UNCHANGED <<file, leaked, persisting, leader, pendingCommit, deleteAllScheduled,
                 breakage, protocol, scheduler, delivery, world>>

-----------------------------------------------------------------------------
(***************************************************************************)
(* Committing                                                              *)
(***************************************************************************)

\* A commit that fails breaks the gate at once and the actor a little later,
\* when TaskSet reports it.
Breaks == gateBroken' = TRUE /\ taskFailing' = TRUE /\ UNCHANGED broken

\* Commit k and the commits merged into it settle, those in failed with an
\* error, which fails an alarm handler that waits for them.
SettledAlone(k) == {k}    \* seeded fault
SettledBy(k) == {k} \cup {j \in Commits : pc[j] = "merged" /\ leader[j] = k}

Unlock(settled) == locked' = locked \ settled

Settle(k, failed) ==
  /\ pc' = [j \in Commits |-> IF j \in SettledBy(k) THEN "free" ELSE pc[j]]
  /\ leader' = [j \in Commits |-> IF j \in SettledBy(k) THEN None ELSE leader[j]]
  /\ captured' = [captured EXCEPT ![k] = NothingCaptured]
  /\ Unlock(SettledBy(k))
  /\ handlerDeps' = handlerDeps \ SettledBy(k)
  /\ handler' = IF handler = "settling" /\ failed \cap handlerDeps # {}
                THEN "failing" ELSE handler
  /\ UNCHANGED <<delivering, armRequest>>

\* startPrecommitAlarmScheduling() asks for an alarm that fires earlier than
\* the scheduler is known to fire, unless another commit is doing so.
NeedsEarlierThanSet ==    \* seeded fault: no alarm counts as time 0
  pendingCommit = None /\ noLaterThan # NoAlarm /\ alarm < noLaterThan
NeedsEarlier == pendingCommit = None /\ alarm < noLaterThan

\* commitCallback() is asked to persist what was committed so far, and later
\* commits start a round of their own.
CallCommitCallback(k) ==
  /\ pc' = [pc EXCEPT ![k] = "callback"]
  /\ persisting' = Append(persisting, k)
  /\ captured' = [captured EXCEPT ![k] = [alarm |-> alarm, changed |-> FALSE]]
  /\ pendingCommit' = None

RequestEarlier(k) ==
  /\ captured' = [captured EXCEPT ![k] = [alarm |-> alarm, changed |-> FALSE]]
  /\ ScheduleRun(alarm)

\* startPrecommitAlarmScheduling() and commitImpl() up to its first await.
EnterCommit(k) ==
  \/ /\ pendingCommit \in Commits
     /\ leader' = [leader EXCEPT ![k] = pendingCommit]
     /\ pc' = [pc EXCEPT ![k] = "merged"]
     /\ UNCHANGED <<persisting, captured, pendingCommit, pendingLater, scheduler>>
  \/ /\ NeedsEarlier
     /\ RequestEarlier(k)
     /\ pc' = [pc EXCEPT ![k] = "prealarm"]
     /\ pendingCommit' = k
     /\ pendingLater' = Undefined
     /\ UNCHANGED <<persisting, leader>>
  \/ /\ pendingCommit = None /\ ~NeedsEarlier
     /\ CallCommitCallback(k)
     /\ UNCHANGED <<leader, pendingLater, scheduler>>

\* The callbacks of atCheckpointEnd run in the order they were scheduled.
AtCheckpointEnd(k, kind) ==
  /\ NextTask
  /\ checkpoint # <<>> /\ Head(checkpoint) = k
  /\ pc[k] = kind
  /\ checkpoint' = Tail(checkpoint)

\* The open implicit transaction after k's ended (ImplicitTxn.drop).
StillOpen(k) == implicit    \* seeded fault
OpenAfter(k) == IF implicit = k THEN None ELSE implicit

\* The commit of implicit transaction k.  An explicit transaction or deleteAll
\* may have ended the transaction before; the rest of the commit still runs.
CommitImplicit(k) ==
  /\ AtCheckpointEnd(k, "queued") /\ ~broken
  /\ file' = IF implicit = k THEN alarm ELSE file
  /\ implicit' = OpenAfter(k)
  /\ EnterCommit(k)
  /\ UNCHANGED <<alarm, frames, leaked, locked, deleteAllScheduled, breakage,
                 noLaterThan, lastConfirmed, laterIsInFlight, laterRequest,
                 deferredDelete, delivery, world>>

\* It fails because shutdown() was called, because an earlier commit failed to
\* schedule, because scheduleRun() throws, or because COMMIT does; only a usable
\* database is rolled back.
CommitImplicitFails(k) ==
  /\ AtCheckpointEnd(k, "queued")
  /\ \/ broken /\ UNCHANGED <<file, alarm, scheduler, noLaterThan, pendingLater, world>>
     \/ /\ ~broken /\ pendingCommit = Rejected
        /\ file' = IF implicit = k THEN alarm ELSE file
        /\ UNCHANGED <<alarm, scheduler, noLaterThan, pendingLater, world>>
     \/ /\ ~broken /\ NeedsEarlier /\ Fault
        /\ alarm' = IF implicit = k THEN file ELSE alarm
        /\ pendingLater' = Undefined
        /\ UNCHANGED <<file, scheduler, noLaterThan>>
     \/ /\ ~broken /\ implicit = k /\ Fault
        /\ alarm' = file
        /\ IF NeedsEarlier
             THEN /\ ScheduleRun(alarm)
                  /\ noLaterThan' \in {noLaterThan, alarm}
                  /\ pendingLater' = Undefined
             ELSE UNCHANGED <<scheduler, noLaterThan, pendingLater>>
        /\ UNCHANGED file
  /\ implicit' = OpenAfter(k)
  /\ Settle(k, {k})
  /\ Breaks
  /\ UNCHANGED <<frames, leaked, persisting, pendingCommit, deleteAllScheduled, lastConfirmed,
                 laterIsInFlight, laterRequest, deferredDelete>>

\* The commit of deleteAll() leaves its work to an implicit transaction that
\* is open by then.
CommitDeleteAll(k) ==
  /\ AtCheckpointEnd(k, "queuedDeleteAll") /\ ~broken
  /\ deleteAllScheduled' = FALSE
  /\ \/ /\ implicit # None
        /\ Settle(k, {})
        /\ UNCHANGED <<persisting, pendingCommit, pendingLater, scheduler>>
     \/ /\ implicit = None
        /\ EnterCommit(k)
        /\ UNCHANGED <<locked, delivery>>
  /\ UNCHANGED <<database, breakage, noLaterThan, lastConfirmed, laterIsInFlight,
                 laterRequest, deferredDelete, world>>

CommitDeleteAllFails(k) ==
  /\ AtCheckpointEnd(k, "queuedDeleteAll")
  /\ \/ broken /\ UNCHANGED <<pendingLater, deleteAllScheduled, world>>
     \/ /\ ~broken /\ implicit = None
        /\ deleteAllScheduled' = FALSE
        /\ \/ pendingCommit = Rejected /\ UNCHANGED <<pendingLater, world>>
           \/ NeedsEarlier /\ pendingLater' = Undefined /\ Fault
  /\ Settle(k, {k})
  /\ Breaks
  /\ UNCHANGED <<database, persisting, pendingCommit, noLaterThan, lastConfirmed, laterIsInFlight,
                 laterRequest, deferredDelete, scheduler>>

\* The scheduler confirms the earlier alarm; commitImpl asks again while the
\* database meanwhile wants a still earlier one.
PrecommitAnswered(k) ==
  /\ up /\ pc[k] = "prealarm"
  /\ noLaterThan' = captured[k].alarm
  /\ IF alarm < captured[k].alarm
       THEN RequestEarlier(k) /\ UNCHANGED <<pc, persisting, pendingCommit>>
       ELSE CallCommitCallback(k) /\ UNCHANGED scheduler
  /\ UNCHANGED <<database, checkpoint, leader, locked, deleteAllScheduled, breakage,
                 lastConfirmed, movingLater, deferredDelete, delivery, world>>

\* The request, or the next one, fails: every merged commit fails with it, and
\* #pendingCommit keeps the rejected promise.
PrecommitFails(k) ==
  /\ up /\ pc[k] = "prealarm" /\ Fault
  /\ noLaterThan' \in {noLaterThan, captured[k].alarm}
  /\ pendingCommit' = Rejected
  /\ Settle(k, SettledBy(k))
  /\ Breaks
  /\ UNCHANGED <<database, checkpoint, persisting, deleteAllScheduled, lastConfirmed,
                 movingLater, deferredDelete, scheduler>>

\* #scheduleLaterAlarm: one request at a time, the latest wish is parked.
ScheduleLater(time) ==
  IF laterIsInFlight
    THEN pendingLater' = time /\ UNCHANGED <<laterIsInFlight, laterRequest, noLaterThan, scheduler>>
    ELSE /\ laterIsInFlight' = TRUE
         /\ laterRequest' = Request(noLaterThan, time)
         /\ noLaterThan' = BelievedAtOnce(noLaterThan, time)
         /\ ScheduleRun(time)
         /\ UNCHANGED pendingLater

\* Commits are persisted in order.  If no other commit changed the alarm meanwhile,
\* the scheduler is told that it may move later.
MovesLaterAfter(k) == ~captured[k].changed /\ noLaterThan < captured[k].alarm

Persisted(k) ==
  /\ up
  /\ persisting # <<>> /\ Head(persisting) = k
  /\ persisting' = Tail(persisting)

CommitPersisted(k) ==
  /\ Persisted(k)
  /\ lastConfirmed' = captured[k].alarm
  /\ Settle(k, {})
  /\ IF MovesLaterAfter(k)
       THEN ScheduleLater(captured[k].alarm)
       ELSE UNCHANGED <<movingLater, noLaterThan, scheduler>>
  /\ UNCHANGED <<database, checkpoint, pendingCommit, deleteAllScheduled, breakage,
                 deferredDelete, world>>

\* commitCallback() fails, or scheduleRun() throws into the finished commit:
\* its merged commits were told already, its own promise is not.
PersistFails(k) ==
  /\ Persisted(k) /\ Fault
  /\ \/ /\ Settle(k, SettledBy(k))
        /\ UNCHANGED <<noLaterThan, lastConfirmed, laterIsInFlight>>
     \/ /\ MovesLaterAfter(k) /\ ~laterIsInFlight
        /\ lastConfirmed' = captured[k].alarm
        /\ Settle(k, {k})
        /\ noLaterThan' = captured[k].alarm
        /\ laterIsInFlight' = TRUE
  /\ Breaks
  /\ UNCHANGED <<database, checkpoint, pendingCommit, deleteAllScheduled,
                 laterRequest, pendingLater, deferredDelete, scheduler>>

\* The parked wish is taken up when a request is answered, unless the database
\* wants an earlier alarm by now.
TakesUpParked == pendingLater # Undefined /\ ~(alarm < pendingLater)

\* A request to move later is answered, or fails, which is swallowed.
LaterAnswered ==
  /\ up /\ laterRequest # NoRequest
  /\ pendingLater' = Undefined
  /\ \E known \in {BelievedWhenAnswered(laterRequest), noLaterThan} :
       /\ IF known = BelievedWhenAnswered(laterRequest) THEN UNCHANGED world ELSE Fault
       /\ IF TakesUpParked
            THEN /\ ScheduleRun(pendingLater)
                 /\ laterRequest' = Request(known, pendingLater)
                 /\ noLaterThan' = BelievedAtOnce(known, pendingLater)
                 /\ UNCHANGED laterIsInFlight
            ELSE /\ laterIsInFlight' = FALSE
                 /\ laterRequest' = NoRequest
                 /\ noLaterThan' = known
                 /\ UNCHANGED scheduler
  /\ UNCHANGED <<database, commits, breakage, lastConfirmed, deferredDelete, delivery>>

\* The parked wish is taken up and scheduleRun() throws: swallowed, and the
\* flag stays up.
LaterAnsweredThrows ==
  /\ up /\ laterRequest # NoRequest
  /\ TakesUpParked
  /\ Fault
  /\ noLaterThan' = BelievedAtOnce(BelievedWhenAnswered(laterRequest), pendingLater)
  /\ laterRequest' = NoRequest
  /\ pendingLater' = Undefined
  /\ UNCHANGED <<database, commits, breakage, lastConfirmed, laterIsInFlight,
                 deferredDelete, scheduler, delivery>>

\* TaskSet reports a failed commit: further operations are refused.
TaskFailed ==
  /\ up /\ taskFailing
  /\ taskFailing' = FALSE
  /\ broken' = TRUE
  /\ UNCHANGED <<database, commits, gateBroken, protocol, deferredDelete,
                 scheduler, delivery, world>>

\* shutdown() when the actor is aborted, which leaves the gate alone; a
\* critical SQLite error breaks the gate as well.
Shutdown ==
  /\ Usable /\ Fault
  /\ broken' = TRUE
  /\ UNCHANGED <<database, commits, gateBroken, taskFailing, protocol,
                 deferredDelete, scheduler, delivery>>

CriticalError ==
  /\ Usable /\ Fault
  /\ broken' = TRUE /\ gateBroken' = TRUE
  /\ UNCHANGED <<database, commits, taskFailing, protocol, deferredDelete,
                 scheduler, delivery>>

-----------------------------------------------------------------------------
(***************************************************************************)
(* Explicit transactions                                                   *)
(***************************************************************************)

\* Savepoint frames somebody still holds a handle of.
Held == Len(frames) > (IF leaked THEN 1 ELSE 0)

\* new ExplicitTxn: an implicit transaction is committed early, its commit
\* coroutine still runs at the end of the checkpoint.
TxnBegin ==
  /\ Usable
  /\ Len(frames) < MaxDepth
  /\ file' = IF implicit # None THEN alarm ELSE file
  /\ implicit' = None
  /\ frames' = Append(frames,
                      [alarm |-> alarm,
                       dirty |-> frames # <<>> /\ Last(frames).dirty,
                       confirmed |-> frames # <<>> /\ Last(frames).confirmed])
  /\ UNCHANGED <<alarm, leaked, commits, breakage, protocol, deferredDelete,
                 scheduler, delivery, world>>

\* ExplicitTxn.commit of a nested transaction: its parent inherits the flags.
TxnCommitNested ==
  /\ Usable
  /\ Len(frames) > 1
  /\ frames' = MarkLast(Pop(frames), Last(frames).dirty, Last(frames).confirmed)
  /\ UNCHANGED <<file, alarm, implicit, leaked, commits, breakage, protocol,
                 deferredDelete, scheduler, delivery, world>>

\* ExplicitTxn.commit of the root: the savepoint is released, which commits,
\* and a commit coroutine starts at once.
TxnCommitRoot(k) ==
  /\ Usable /\ Fresh(k)
  /\ Len(frames) = 1 /\ ~leaked
  /\ file' = alarm
  /\ frames' = <<>>
  /\ deferredDelete' = (deferredDelete /\ ~Last(frames).dirty)
  /\ locked' = IF Last(frames).confirmed THEN locked \cup {k} ELSE locked
  /\ EnterCommit(k)
  /\ UNCHANGED <<alarm, implicit, leaked, checkpoint, deleteAllScheduled, breakage,
                 noLaterThan, lastConfirmed, laterIsInFlight, laterRequest, delivery, world>>

\* An earlier commit failed to schedule: the savepoint is released all the same.
TxnCommitRejected ==
  /\ Usable
  /\ Len(frames) = 1 /\ ~leaked
  /\ pendingCommit = Rejected
  /\ file' = alarm
  /\ frames' = <<>>
  /\ deferredDelete' = (deferredDelete /\ ~Last(frames).dirty)
  /\ Breaks
  /\ UNCHANGED <<alarm, implicit, leaked, commits, protocol, scheduler, delivery, world>>

\* scheduleRun() or the RELEASE throws out of commit().  maybeCommit() has
\* given up its handle by then, so maybeRollback() drops nothing.
TxnCommitFails ==
  /\ Usable
  /\ Len(frames) = 1 /\ ~leaked
  /\ Fault
  /\ leaked' = TRUE
  /\ IF NeedsEarlier
       THEN /\ pendingLater' = Undefined
            /\ \/ UNCHANGED <<scheduler, noLaterThan>>
               \/ ScheduleRun(alarm) /\ noLaterThan' \in {noLaterThan, alarm}
       ELSE UNCHANGED <<scheduler, noLaterThan, pendingLater>>
  /\ UNCHANGED <<file, alarm, implicit, frames, commits, breakage, lastConfirmed,
                 laterIsInFlight, laterRequest, deferredDelete, delivery>>

\* The alarm the connection reads after a rollback (SqliteMetadata.#cache).
StaleCache == alarm    \* seeded fault
AlarmAtSavepoint == Last(frames).alarm

\* ExplicitTxn.rollback and drop: the connection reads the alarm as of the
\* savepoint again, and #alarmVersion does not change.
TxnRollback ==
  /\ up /\ Held
  /\ alarm' = IF broken THEN alarm ELSE AlarmAtSavepoint
  /\ frames' = Pop(frames)
  /\ UNCHANGED <<file, implicit, leaked, commits, breakage, protocol,
                 deferredDelete, scheduler, delivery, world>>

\* deleteAll() as storage.deleteAll() calls it, to delete the alarm as well:
\* the open implicit transaction is rolled back and the database is reset at
\* once; one confirmed commit at the end of the checkpoint does the rest.
DeleteAll ==
  /\ DeleteAllAllowed
  /\ Usable /\ frames = <<>>
  /\ implicit' = None
  /\ file' = NoAlarm /\ alarm' = NoAlarm
  /\ IF deleteAllScheduled THEN UNCHANGED <<pc, checkpoint, locked>>
     ELSE \E k \in Commits :
            /\ Fresh(k)
            /\ pc' = [pc EXCEPT ![k] = "queuedDeleteAll"]
            /\ checkpoint' = Append(checkpoint, k)
            /\ locked' = locked \cup {k}
  /\ deleteAllScheduled' = TRUE
  /\ IF alarm = NoAlarm THEN UNCHANGED <<captured, deferredDelete>>
     ELSE NoteAlarmChange /\ deferredDelete' = FALSE
  /\ UNCHANGED <<frames, leaked, persisting, leader, pendingCommit, breakage, protocol,
                 scheduler, delivery, world>>

-----------------------------------------------------------------------------
(***************************************************************************)
(* Alarm delivery                                                          *)
(***************************************************************************)

\* makeAlarmTask after a delivery: a queued alarm wins, else the alarm is
\* retried, or its row is deleted.
FinishDelivery(retry) ==
  /\ handler' = "idle"
  /\ delivering' = NoAlarm
  /\ handlerDeps' = {}
  /\ armRequest' = NoRequest
  /\ IF entry # NoAlarm THEN UNCHANGED scheduler
     ELSE IF retry THEN entry' = delivering /\ UNCHANGED row
     ELSE ScheduleRun(NoAlarm)

\* armAlarmHandler: run the handler, hiding the alarm it runs for, ...
ArmRun(hides) ==
  /\ handler' = "running"
  /\ deferredDelete' = hides
  /\ entry' = NoAlarm
  /\ UNCHANGED <<row, armRequest, noLaterThan, pendingLater>>

\* ... or cancel the run and have the scheduler told the alarm of the database.
ArmCancel ==
  /\ handler' = "cancelling"
  /\ ScheduleRun(alarm)
  /\ armRequest' = Request(noLaterThan, alarm)
  /\ noLaterThan' = BelievedAtOnce(noLaterThan, alarm)
  /\ pendingLater' = IF entry < alarm THEN Undefined ELSE pendingLater
  /\ UNCHANGED deferredDelete

\* The alarm of the database is the confirmed one, and differs from the alarm
\* being delivered.
CleanMismatch == alarm # entry /\ alarm = lastConfirmed

AlarmDue ==
  /\ NextTask /\ ~broken /\ handler = "idle" /\ entry # NoAlarm
  /\ entry < now \/ (SameInstant /\ entry = now)

Deliver ==
  /\ AlarmDue
  /\ delivering' = entry
  /\ IF CleanMismatch /\ ~(alarm < now)
       THEN ArmCancel
       ELSE ArmRun(alarm = entry \/ CleanMismatch)
  /\ UNCHANGED <<database, commits, breakage, lastConfirmed, laterIsInFlight,
                 laterRequest, handlerDeps, world>>

\* scheduleRun() throws out of armAlarmHandler: the delivery is retried.
DeliverFails ==
  /\ AlarmDue
  /\ CleanMismatch /\ ~(alarm < now)
  /\ Fault
  /\ noLaterThan' = BelievedAtOnce(noLaterThan, alarm)
  /\ UNCHANGED <<database, commits, breakage, lastConfirmed, movingLater,
                 deferredDelete, scheduler, delivery>>

CancelAnswered ==
  /\ up /\ handler = "cancelling"
  /\ \/ /\ noLaterThan' = BelievedWhenAnswered(armRequest)
        /\ FinishDelivery(FALSE)
        /\ UNCHANGED world
     \/ noLaterThan' = noLaterThan /\ FinishDelivery(TRUE) /\ Fault
  /\ UNCHANGED <<database, commits, breakage, lastConfirmed, movingLater,
                 deferredDelete>>

\* The alarm handler returns, or throws, which keeps the alarm; either way
\* deliverAlarm() waits for the output locks that are outstanding then, and
\* their failure or a broken gate fails the delivery as well.  The handler needs
\* the input gate, which an open transaction() keeps.
HandlerEnds(next) ==
  /\ up /\ handler = "running"
  /\ ~Held
  /\ handler' = next
  /\ deferredDelete' = (deferredDelete /\ next = "settling")
  /\ handlerDeps' = locked
  /\ UNCHANGED <<database, commits, breakage, protocol, scheduler, delivering,
                 armRequest, world>>

HandlerReturns == HandlerEnds(IF gateBroken THEN "failing" ELSE "settling")

HandlerThrows == HandlerEnds("failing")

\* #maybeDeleteDeferredAlarm, the end of a handler that succeeded: the alarm is
\* deleted by a write that must be confirmed, unless the actor is broken.
HandlerSucceeds ==
  /\ up /\ handler = "settling" /\ handlerDeps = {}
  /\ deferredDelete' = FALSE
  /\ IF deferredDelete /\ ~broken /\ alarm # NoAlarm
       THEN alarm' = NoAlarm /\ NoteAlarmChange /\ Write(TRUE)
       ELSE UNCHANGED <<alarm, captured, pc, checkpoint, implicit, locked, frames>>
  /\ FinishDelivery(FALSE)
  /\ UNCHANGED <<file, leaked, persisting, leader, pendingCommit, deleteAllScheduled,
                 breakage, protocol, world>>

HandlerFails ==
  /\ up /\ handler = "failing" /\ handlerDeps = {}
  /\ deferredDelete' = FALSE
  /\ FinishDelivery(TRUE)
  /\ UNCHANGED <<database, commits, breakage, protocol, world>>

\* The handler failed for good, and abandonAlarm() deletes the very alarm from
\* the database; a different one is returned and scheduled again, unless one is
\* queued already.  A broken actor refuses and is asked again when replaced.
HandlerAbandoned ==
  /\ Usable /\ handler = "failing" /\ handlerDeps = {}
  /\ IF alarm = delivering
       THEN WriteAlarm(NoAlarm, TRUE) /\ FinishDelivery(FALSE)
       ELSE /\ handler' = "idle" /\ delivering' = NoAlarm
            /\ IF entry = NoAlarm THEN ScheduleRun(alarm) ELSE UNCHANGED scheduler
            /\ deferredDelete' = FALSE
            /\ UNCHANGED <<alarm, captured, pc, checkpoint, implicit, locked, frames,
                           handlerDeps, armRequest>>
  /\ UNCHANGED <<file, leaked, persisting, leader, pendingCommit, deleteAllScheduled,
                 breakage, protocol, world>>

-----------------------------------------------------------------------------
(***************************************************************************)
(* Restarts                                                                *)
(***************************************************************************)

\* Everything in memory is gone; the database file and the row stay.
Forget ==
  /\ alarm' = file /\ implicit' = None /\ frames' = <<>> /\ leaked' = FALSE
  /\ pc' = [k \in Commits |-> "free"] /\ checkpoint' = <<>> /\ persisting' = <<>>
  /\ leader' = [k \in Commits |-> None]
  /\ captured' = [k \in Commits |-> NothingCaptured]
  /\ locked' = {} /\ pendingCommit' = None /\ deleteAllScheduled' = FALSE
  /\ gateBroken' = FALSE /\ taskFailing' = FALSE /\ broken' = FALSE
  /\ noLaterThan' = file /\ lastConfirmed' = file
  /\ laterIsInFlight' = FALSE /\ laterRequest' = NoRequest /\ pendingLater' = Undefined
  /\ deferredDelete' = FALSE
  /\ delivering' = NoAlarm /\ handler' = "idle" /\ handlerDeps' = {}
  /\ armRequest' = NoRequest
  /\ up' = FALSE
  /\ UNCHANGED <<file, now, faults>>

\* The worker dies, and the scheduler with it: it reloads its rows.
Crash ==
  /\ up /\ crashes < MaxCrashes
  /\ crashes' = crashes + 1
  /\ Forget
  /\ entry' = row /\ UNCHANGED row

\* The worker dies between the request to the scheduler that precedes a COMMIT
\* and the COMMIT itself.
CrashBeforeCommit ==
  /\ Usable /\ crashes < MaxCrashes
  /\ \/ implicit # None /\ NextTask /\ Head(checkpoint) = implicit
     \/ Len(frames) = 1 /\ ~leaked
  /\ NeedsEarlier
  /\ crashes' = crashes + 1
  /\ Forget
  /\ ScheduleRun(alarm)

\* A broken actor is evicted; the scheduler retries a delivery it was making.
Evict ==
  /\ up /\ broken
  /\ Forget
  /\ entry' = IF entry = NoAlarm THEN delivering ELSE entry
  /\ UNCHANGED <<row, crashes>>

\* createActorContainer: the stored alarm is handed to reconcile() before the
\* actor can run.
NoReconcile == UNCHANGED scheduler    \* seeded fault
Reconcile == IF file # NoAlarm /\ file < entry THEN ScheduleRun(file) ELSE UNCHANGED scheduler

Start ==
  /\ ~up
  /\ up' = TRUE
  /\ Reconcile
  /\ UNCHANGED <<database, commits, breakage, protocol, deferredDelete,
                 delivery, now, faults, crashes>>

Tick ==
  /\ now <= MaxTime
  /\ now' = now + 1
  /\ UNCHANGED <<database, commits, breakage, protocol, deferredDelete,
                 scheduler, delivery, up, faults, crashes>>

-----------------------------------------------------------------------------

AlarmCalls == \E time \in Alarms, confirmed \in BOOLEAN : SetAlarm(time, confirmed)

OtherCalls ==
  \/ \E confirmed \in BOOLEAN : Put(confirmed)
  \/ DeleteAll
  \/ TxnBegin \/ TxnCommitNested \/ TxnCommitRejected \/ TxnCommitFails \/ TxnRollback
  \/ \E k \in Commits : TxnCommitRoot(k)

Application == AlarmCalls \/ OtherCalls

Commit(k) ==
  \/ CommitImplicit(k) \/ CommitImplicitFails(k)
  \/ CommitDeleteAll(k) \/ CommitDeleteAllFails(k)
  \/ PrecommitAnswered(k) \/ CommitPersisted(k)

CommitFault(k) == PrecommitFails(k) \/ PersistFails(k)

AlarmDelivery ==
  \/ Deliver \/ DeliverFails \/ CancelAnswered
  \/ HandlerReturns \/ HandlerThrows
  \/ HandlerSucceeds \/ HandlerFails \/ HandlerAbandoned

Restart == Crash \/ CrashBeforeCommit \/ Evict \/ Start

Runtime ==
  \/ \E k \in Commits : Commit(k) \/ CommitFault(k)
  \/ LaterAnswered \/ LaterAnsweredThrows
  \/ TaskFailed \/ Shutdown \/ CriticalError
  \/ AlarmDelivery
  \/ Restart
  \/ Tick

Next == Application \/ Runtime

\* Checkpoint ends, answers of the scheduler and of commitCallback(), and the
\* report of a failed task all arrive, a due alarm is delivered, its handler
\* ends, a broken or crashed actor is placed again, and time passes.  Nothing
\* is assumed of the application.
Fairness ==
  /\ \A k \in Commits : WF_vars(Commit(k))
  /\ WF_vars(LaterAnswered)
  /\ WF_vars(TaskFailed)
  /\ WF_vars(AlarmDelivery)
  /\ SF_vars(Deliver)
  /\ WF_vars(Evict \/ Start)
  /\ WF_vars(Tick)

Spec == Init /\ [][Next]_vars /\ Fairness

-----------------------------------------------------------------------------
(***************************************************************************)
(* Properties                                                              *)
(***************************************************************************)

Frames == [alarm : Alarms, dirty : BOOLEAN, confirmed : BOOLEAN]

CommitStates == {"free", "queued", "queuedDeleteAll", "prealarm", "callback", "merged"}

DatabaseType ==
  /\ file \in Alarms /\ alarm \in Alarms
  /\ implicit \in Commits \cup {None}
  /\ frames \in Seq(Frames) /\ leaked \in BOOLEAN

CommitsType ==
  /\ pc \in [Commits -> CommitStates]
  /\ checkpoint \in Seq(Commits) /\ persisting \in Seq(Commits)
  /\ leader \in [Commits -> Commits \cup {None}]
  /\ captured \in [Commits -> [alarm : Alarms, changed : BOOLEAN]]
  /\ locked \subseteq Commits
  /\ pendingCommit \in Commits \cup {None, Rejected}
  /\ deleteAllScheduled \in BOOLEAN
  /\ gateBroken \in BOOLEAN /\ taskFailing \in BOOLEAN /\ broken \in BOOLEAN

ProtocolType ==
  /\ noLaterThan \in Alarms /\ lastConfirmed \in Alarms
  /\ laterIsInFlight \in BOOLEAN /\ laterRequest \in Requests
  /\ pendingLater \in Alarms \cup {Undefined}
  /\ deferredDelete \in BOOLEAN

DeliveryType ==
  /\ row \in Alarms /\ entry \in Alarms /\ delivering \in Alarms
  /\ handler \in {"idle", "running", "settling", "failing", "cancelling"}
  /\ handlerDeps \subseteq Commits
  /\ armRequest \in Requests

WorldType ==
  /\ up \in BOOLEAN /\ now \in 1..NoAlarm
  /\ faults \in 0..MaxFaults /\ crashes \in 0..MaxCrashes

\* Every variable has its type.
TypeOK == DatabaseType /\ CommitsType /\ ProtocolType /\ DeliveryType /\ WorldType

-----------------------------------------------------------------------------
(***************************************************************************)
(* The commits                                                             *)
(***************************************************************************)

\* An open implicit transaction has its commit queued for the end of the
\* checkpoint: whatever transactions, deleteAll() and failures come between,
\* no write is left in a transaction that nobody will commit.
OpenTxnWillCommit ==
  implicit # None =>
    /\ pc[implicit] = "queued"
    /\ \E i \in 1..Len(checkpoint) : checkpoint[i] = implicit

\* A commit merged into another waits for one that is still going to tell it
\* the outcome, never for one that settled before (#pendingCommit).
MergedCommitsAreLed ==
  \A k \in Commits : pc[k] = "merged" =>
    leader[k] \in Commits /\ pc[leader[k]] \in {"prealarm", "callback"}

\* The output gate is locked only on commits under way, so output is not held
\* back for a commit that settled long ago.
GateWaitsForCommits == \A k \in locked : pc[k] # "free"

\* Outside of transactions the connection, with its cached alarm, reads what
\* the file holds: rollbacks restore the cache (SqliteMetadata.#cache).
CacheMatchesFile ==
  implicit = None /\ frames = <<>> /\ ~broken => alarm = file

-----------------------------------------------------------------------------
(***************************************************************************)
(* The alarm                                                               *)
(***************************************************************************)

\* No call failed and nothing crashed so far.
Untroubled == faults + crashes = 0

\* The alarm that will wake the actor first.
Protects == IF delivering < entry THEN delivering ELSE entry

\* Nothing is under way between the actor and the scheduler.
Quiet ==
  /\ Usable /\ ~taskFailing
  /\ \A k \in Commits : pc[k] = "free"
  /\ implicit = None /\ frames = <<>>
  /\ ~laterIsInFlight
  /\ handler = "idle"

\* At rest the scheduler wakes the actor no later than its alarm.
AlarmCovered == Quiet => entry <= file

\* #alarmScheduledNoLaterThan is what its name says, until the time is past or
\* a request to the scheduler failed.
NoLaterThanIsTrue ==
  Untroubled /\ Usable => noLaterThan < now \/ Protects <= noLaterThan

\* While an alarm is in the file the handler is run when its time has come,
\* unless the application changes the alarm.
AlarmFires ==
  \A time \in 1..MaxTime :
    file = time ~> (handler = "running" /\ delivering <= time /\ time <= now) \/ file # time

=============================================================================
