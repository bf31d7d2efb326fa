------------------------- MODULE AlarmSchedulerProofs -------------------------
(***************************************************************************)
(* Proofs about AlarmScheduler, for every bound on times, tries, failures  *)
(* and deaths of the worker.                                               *)
(***************************************************************************)
EXTENDS AlarmScheduler, SequenceTheorems, WellFoundedInduction, TLAPS

-----------------------------------------------------------------------------
(***************************************************************************)
(* Types                                                                   *)
(***************************************************************************)

LEMMA Constants ==
  /\ Never \in Nat /\ Never \notin Instants /\ Never \notin Times
  /\ Times \subseteq Instants /\ Instants \subseteq Nat /\ 0 \in Instants
  /\ NewLadder \in Ladder /\ NoResult \notin Results
  /\ NoRow \notin Rows /\ NoEntry \notin Entries
  BY AlarmSchedulerAssumption
     DEF Never, Instants, Times, NewLadder, Ladder, NoResult, Results, NoRow, NoEntry, Rows, Entries

\* What projectNextWake() takes the least of has a least element.
LEMMA LeastOf ==
  ASSUME NEW S \in SUBSET Nat, S # {}
  PROVE  Min(S) \in S /\ \A x \in S : Min(S) <= x
<1>1. \E x \in S : \A y \in S : <<y, x>> \notin OpToRel(<, Nat)
  BY NatLessThanWellFounded, WFMin
<1>2. PICK x \in S : \A y \in S : <<y, x>> \notin OpToRel(<, Nat)
  BY <1>1
<1>3. \A y \in S : ~(y < x)
  BY <1>2 DEF OpToRel
<1>4. \A y \in S : x <= y
  BY <1>3
<1> QED
  BY <1>4, Zenon DEF Min

LEMMA AfterType ==
  ASSUME now \in Instants, NEW delay \in Nat PROVE After(delay) \in Instants
<1>1. {now + delay, MaxNow} \in SUBSET Nat /\ now + delay >= 0
  BY AlarmSchedulerAssumption, Constants
<1> QED
  BY <1>1, LeastOf, AlarmSchedulerAssumption DEF After, Instants

LEMMA DelayType == ASSUME NEW backoff \in 0..(MaxBackoff + 1) PROVE Delay(backoff) \in Nat
  BY DelaysAreNumbers DEF Delay

LEMMA ClampedType == ASSUME NEW backoff \in Nat PROVE Clamped(backoff) \in 0..MaxBackoff
<1>1. {MaxBackoff, backoff} \in SUBSET Nat
  BY AlarmSchedulerAssumption
<1> QED
  BY <1>1, LeastOf, AlarmSchedulerAssumption DEF Clamped

LEMMA LadderFields ==
  ASSUME NEW ladder \in Ladder
  PROVE  /\ ladder.backoff \in 0..(MaxBackoff + 1) /\ ladder.counted \in 0..MaxTries
         /\ ladder.previous \in BOOLEAN
  BY DEF Ladder

\* The fields of an entry, and of an entry that is changed.
LEMMA EntryFields ==
  ASSUME NEW e \in Entries
  PROVE  /\ e # NoEntry
         /\ e.time \in Times /\ e.status \in {"WAITING", "STARTED", "FINISHED"}
         /\ e.doing \in {"waiting", "delivering", "abandoning"} /\ e.at \in Instants
         /\ e.wake \in Instants \cup {Never} /\ e.queued \in Times \cup {Never}
         /\ e.ladder \in Ladder /\ e.result \in Results \cup {NoResult}
  BY Constants DEF Entries

LEMMA RowFields ==
  ASSUME NEW r \in Rows
  PROVE  /\ r # NoRow /\ r.time \in Times /\ r.retry \in Instants \cup {Never}
         /\ r.ladder \in Ladder /\ r.running \in BOOLEAN
  BY Constants DEF Rows

LEMMA ScheduledType ==
  ASSUME NEW time \in Times, NEW retry \in Instants \cup {Never}, NEW ladder \in Ladder
  PROVE  Scheduled(time, retry, ladder) \in Entries
<1>1. time \in Instants /\ time \in Nat
  BY Constants
<1>2. ASSUME retry # Never PROVE Max({time, retry}) \in Instants
  <2>1. retry \in Nat /\ retry \in Instants
    BY <1>2, Constants
  <2>2. \E x \in {time, retry} : \A y \in {time, retry} : x >= y
    BY <1>1, <2>1
  <2>3. Max({time, retry}) \in {time, retry}
    BY <2>2, Zenon DEF Max
  <2> QED
    BY <1>1, <2>1, <2>3
<1> DEFINE at == IF retry # Never THEN Max({time, retry}) ELSE time
<1>3. at \in Instants
  BY <1>1, <1>2
<1> HIDE DEF at
<1>4. [time |-> time, status |-> "WAITING", doing |-> "waiting", at |-> at, wake |-> at,
       queued |-> Never, ladder |-> ladder, result |-> NoResult] \in Entries
  BY <1>3 DEF Entries
<1> QED
  BY <1>4 DEF Scheduled, at

LEMMA ScheduledNewType ==
  ASSUME NEW time \in Times PROVE ScheduledNew(time) \in Entries
  BY ScheduledType, Constants DEF ScheduledNew

LEMMA RowAfreshType ==
  ASSUME TypeOK, NEW time \in Times PROVE RowAfresh(time) \in Rows
  BY Constants, RowFields DEF TypeOK, RowAfresh, Rows

LEMMA RepeatType ==
  ASSUME TypeOK, Mapped, NEW result \in Results \cup {NoResult}
  PROVE  Repeat(result) \in Entries
<1>1. After(Delay(0)) \in Instants
  BY AfterType, DelayType, AlarmSchedulerAssumption DEF TypeOK
<1> QED
  BY <1>1, EntryFields DEF TypeOK, Mapped, Repeat, Entries

LEMMA NextRungType ==
  ASSUME TypeOK, Mapped, NEW result \in Results, Retries(result), ~GivesUp(result)
  PROVE  /\ NextRung(result) \in Ladder
         /\ NextRung(result).backoff - 1 \in 0..(MaxBackoff + 1)
<1>1. entry.ladder \in Ladder
  BY EntryFields DEF TypeOK, Mapped
<1>2. entry.ladder.counted + 1 \in 0..MaxTries /\ entry.ladder.counted \in 0..MaxTries
  BY <1>1, LadderFields, AlarmSchedulerAssumption DEF GivesUp
<1> DEFINE backoff == IF result = "counted" /\ ~entry.ladder.previous THEN 0 ELSE entry.ladder.backoff
<1>3. backoff \in Nat
  BY <1>1, LadderFields, AlarmSchedulerAssumption
<1> HIDE DEF backoff
<1>4. Clamped(backoff) \in 0..MaxBackoff
  BY <1>3, ClampedType
<1>5. Clamped(backoff) + 1 \in 0..(MaxBackoff + 1)
  BY <1>4, AlarmSchedulerAssumption
<1>6. CASE result = "counted"
  <2>1. NextRung(result) = [backoff |-> Clamped(backoff) + 1,
                            counted |-> entry.ladder.counted + 1, previous |-> TRUE]
    BY <1>6 DEF NextRung, backoff
  <2> QED
    BY <2>1, <1>2, <1>4, <1>5, AlarmSchedulerAssumption DEF Ladder
<1>7. CASE result # "counted"
  <2>1. entry.ladder.counted + 0 = entry.ladder.counted /\ (result = "counted") = FALSE
    BY <1>2, <1>7, AlarmSchedulerAssumption
  <2>2. NextRung(result) = [backoff |-> Clamped(backoff) + 1,
                            counted |-> entry.ladder.counted, previous |-> FALSE]
    BY <1>7, <2>1 DEF NextRung, backoff
  <2> QED
    BY <2>2, <1>2, <1>4, <1>5, AlarmSchedulerAssumption DEF Ladder
<1> QED
  BY <1>6, <1>7

LEMMA ProjectedType ==
  ASSUME NEW e \in Entries \cup {NoEntry}, NEW tasks \in Seq(Times), ProjectNextWake(e, tasks)
  PROVE  projected' \in Instants \cup {Never}
<1>1. Wakes(e) \subseteq Instants \cup {Never}
  <2>1. CASE e = NoEntry
    BY <2>1 DEF Wakes
  <2>2. CASE e \in Entries
    BY <2>2, EntryFields, Constants DEF Wakes
  <2> QED
    BY <2>1, <2>2
<1>2. \A i \in 1..Len(tasks) : tasks[i] \in Instants
  BY ElementOfSeq, Constants
<1> DEFINE S == {Never} \cup Wakes(e) \cup {tasks[i] : i \in 1..Len(tasks)}
<1>3. S \in SUBSET (Instants \cup {Never}) /\ S # {}
  BY <1>1, <1>2
<1>4. S \in SUBSET Nat
  BY <1>3, Constants
<1>5. projected' = Min(S)
  BY DEF ProjectNextWake
<1> HIDE DEF S
<1> QED
  BY <1>3, <1>4, <1>5, LeastOf

\* The task of an unmapped entry comes last, and a task that is over leaves.
LEMMA UnmapType == ASSUME TypeOK, Unmap PROVE orphans' \in Seq(Times)
  BY EntryFields, AppendProperties DEF TypeOK, Unmap, Mapped

LEMMA OrphanLeaves ==
  ASSUME NEW tasks \in Seq(Times), NEW i \in 1..Len(tasks)
  PROVE  /\ SubSeq(tasks, 1, i - 1) \o SubSeq(tasks, i + 1, Len(tasks)) \in Seq(Times)
         /\ Len(SubSeq(tasks, 1, i - 1) \o SubSeq(tasks, i + 1, Len(tasks))) <= Len(tasks)
<1> DEFINE before == SubSeq(tasks, 1, i - 1)
           after  == SubSeq(tasks, i + 1, Len(tasks))
<1>1. Len(tasks) \in Nat /\ i \in Nat /\ 1 <= i /\ i <= Len(tasks)
  BY LenProperties
<1>2. \A j \in 1..Len(tasks) : tasks[j] \in Times
  BY ElementOfSeq
<1>3. before \in Seq(Times) /\ Len(before) = i - 1
  <2>1. \A j \in 1..(i - 1) : tasks[j] \in Times
    BY <1>1, <1>2
  <2>2. Len(before) = IF 1 <= i - 1 THEN i - 1 - 1 + 1 ELSE 0
    BY <1>1, <2>1, SubSeqProperties
  <2> QED
    BY <1>1, <2>1, <2>2, SubSeqProperties
<1>4. after \in Seq(Times) /\ Len(after) = Len(tasks) - i
  <2>1. \A j \in (i + 1)..Len(tasks) : tasks[j] \in Times
    BY <1>1, <1>2
  <2>2. Len(after) = IF i + 1 <= Len(tasks) THEN Len(tasks) - (i + 1) + 1 ELSE 0
    BY <1>1, <2>1, SubSeqProperties
  <2> QED
    BY <1>1, <2>1, <2>2, SubSeqProperties
<1> HIDE DEF before, after
<1>5. before \o after \in Seq(Times) /\ Len(before \o after) = Len(before) + Len(after)
  BY <1>3, <1>4, ConcatProperties
<1>6. Len(before \o after) <= Len(tasks)
  BY <1>1, <1>3, <1>4, <1>5
<1> QED
  BY <1>5, <1>6 DEF before, after

\* What a task leaves of the row and of its entry.
TaskTypes == row' \in Rows \cup {NoRow} /\ entry' \in Entries \cup {NoEntry} /\ faults' \in 0..MaxFaults

LEMMA TaskFailsType ==
  ASSUME TypeOK, Mapped, NEW result \in Results \cup {NoResult}, TaskFails(result)
  PROVE  TaskTypes
  BY RepeatType, AlarmSchedulerAssumption DEF TypeOK, TaskFails, Fault, TaskTypes

LEMMA TakeQueuedType ==
  ASSUME TypeOK, Mapped, entry.queued # Never, TakeQueued PROVE TaskTypes
<1>1. entry.queued \in Times
  BY EntryFields DEF TypeOK, Mapped
<1>2. row' \in Rows \cup {NoRow}
  BY RowFields DEF TypeOK, TakeQueued, Rows
<1> QED
  BY <1>1, <1>2, ScheduledNewType DEF TypeOK, TakeQueued, TaskTypes

LEMMA ArmRetryType ==
  ASSUME TypeOK, Mapped, NEW result \in Results, Retries(result), ~GivesUp(result),
         ArmRetry(result)
  PROVE  TaskTypes
<1> DEFINE rung == NextRung(result)
           at   == After(Delay(rung.backoff - 1))
<1>1. rung \in Ladder /\ at \in Instants
  BY NextRungType, AfterType, DelayType DEF TypeOK
<1>2. /\ row' = IF row = NoRow THEN NoRow
                ELSE [row EXCEPT !.retry = at, !.ladder = rung, !.running = FALSE]
      /\ entry' = [entry EXCEPT !.status = "FINISHED", !.doing = "waiting", !.at = at,
                                !.wake = at, !.ladder = rung, !.result = NoResult]
      /\ faults' = faults
  BY DEF ArmRetry
<1> HIDE DEF rung, at
<1>3. row' \in Rows \cup {NoRow}
  BY <1>1, <1>2, RowFields DEF TypeOK, Rows
<1>4. entry' \in Entries
  BY <1>1, <1>2, EntryFields DEF TypeOK, Mapped, Entries
<1> QED
  BY <1>2, <1>3, <1>4 DEF TypeOK, TaskTypes

LEMMA FinishType ==
  ASSUME TypeOK, Mapped, NEW result \in Results, Finish(result)
  PROVE  TaskTypes
<1>1. CASE entry.queued # Never
  BY <1>1, TakeQueuedType, TaskFailsType DEF Finish
<1>2. CASE StartAbandoning(result)
  BY <1>2, EntryFields DEF TypeOK, Mapped, StartAbandoning, Entries, TaskTypes
<1>3. CASE Retries(result) /\ ~GivesUp(result) /\ (ArmRetry(result) \/ ArmRetryFails(result))
  BY <1>3, ArmRetryType, TaskFailsType DEF ArmRetryFails
<1>4. CASE Remove
  BY <1>4 DEF TypeOK, Remove, TaskTypes
<1>5. CASE TaskFails(result)
  BY <1>5, TaskFailsType
<1> QED
  BY <1>1, <1>2, <1>3, <1>4, <1>5 DEF Finish

LEMMA AbandonType ==
  ASSUME TypeOK, Is("abandoning"), AbandonReturns PROVE TaskTypes
<1>1. Mapped /\ entry \in Entries /\ entry.result \in Results \cup {NoResult}
  BY EntryFields DEF TypeOK, Is, Mapped
<1>2. ASSUME NEW newer \in Times \cup {Never}, Abandoned(newer) PROVE TaskTypes
  <2>1. CASE entry.queued # Never /\ TakeQueued
    BY <1>1, <2>1, TakeQueuedType
  <2>2. CASE newer # Never /\ entry' = ScheduledNew(newer) /\ UNCHANGED faults
             /\ row' = [RowAfresh(newer) EXCEPT !.running = FALSE]
    <3>1. RowAfresh(newer) \in Rows
      BY <2>2, RowAfreshType
    <3>2. row' \in Rows
      BY <2>2, <3>1, RowFields DEF Rows
    <3> QED
      BY <2>2, <3>2, ScheduledNewType DEF TypeOK, TaskTypes
  <2>3. CASE Remove
    BY <2>3 DEF TypeOK, Remove, TaskTypes
  <2> QED
    BY <1>2, <2>1, <2>2, <2>3 DEF Abandoned
<1>3. CASE TaskFails(entry.result)
  BY <1>1, <1>3, TaskFailsType
<1>4. ASSUME NEW newer \in Times, AbandonHalfDone(newer) PROVE TaskTypes
  <2>1. Repeat(entry.result) \in Entries
    BY <1>1, RepeatType
  <2>2. entry' \in Entries
    BY <1>4, <2>1, EntryFields DEF AbandonHalfDone, Entries
  <2> QED
    BY <1>4, <2>2, RowAfreshType, AlarmSchedulerAssumption
       DEF TypeOK, AbandonHalfDone, Fault, TaskTypes
<1> QED
  BY <1>2, <1>3, <1>4 DEF AbandonReturns

LEMMA RememberType == ASSUME TypeOK, NEW result, Remember(result) PROVE failures' \in Nat
  BY DEF TypeOK, Remember

LEMMA QueuedType ==
  ASSUME TypeOK, Mapped, NEW time \in Times \cup {Never} PROVE Queued(time) \in Entries
  BY EntryFields DEF TypeOK, Mapped, Queued, Entries

LEMMA SetAlarmType == ASSUME TypeOK, NEW time \in Times, SetAlarm(time) PROVE TypeOK'
<1>1. row' \in Rows
  BY RowAfreshType DEF SetAlarm
<1>2. entry' \in Entries
  BY QueuedType, ScheduledNewType DEF SetAlarm
<1>3. failures' \in Nat
  BY RememberType DEF SetAlarm
<1>4. projected' \in Instants \cup {Never}
  BY <1>2, ProjectedType DEF TypeOK, SetAlarm
<1> QED
  BY <1>1, <1>2, <1>3, <1>4 DEF TypeOK, SetAlarm

LEMMA DeleteType == ASSUME TypeOK, DeleteAlarm \/ DeleteAll PROVE TypeOK'
<1>1. row' = NoRow /\ UNCHANGED <<up, now, faults, crashes>>
  BY DEF DeleteAlarm, DeleteAll
<1>2. entry' \in Entries \cup {NoEntry}
  <2>1. Mapped /\ entry.queued # Never => entry.queued \in Times
    BY EntryFields DEF TypeOK, Mapped
  <2> QED
    BY <2>1, QueuedType, ScheduledNewType DEF TypeOK, DeleteAlarm, DeleteAll
<1>3. orphans' \in Seq(Times) /\ Len(orphans') <= MaxOrphans
  BY UnmapType DEF TypeOK, DeleteAlarm, DeleteAll
<1>4. failures' \in Nat
  BY RememberType DEF DeleteAlarm, DeleteAll
<1>5. projected' \in Instants \cup {Never}
  BY <1>2, <1>3, ProjectedType DEF DeleteAlarm, DeleteAll
<1> QED
  BY <1>1, <1>2, <1>3, <1>4, <1>5 DEF TypeOK

LEMMA TaskType ==
  ASSUME TypeOK, StartDelivery \/ RepeatBookkeeping \/ (\E result \in Results : Delivered(result))
                 \/ AbandonReturns
  PROVE  TypeOK'
<1>1. UNCHANGED <<orphans, up, now, crashes>> /\ ProjectNextWake(entry', orphans)
  BY DEF StartDelivery, RepeatBookkeeping, Delivered, AbandonReturns
<1>2. Mapped
  BY DEF StartDelivery, RepeatBookkeeping, Delivered, AbandonReturns, IsTime, Is
<1>3. TaskTypes
  <2>1. CASE StartDelivery
    <3>1. CASE TaskFails(NoResult)
      BY <1>2, <3>1, TaskFailsType
    <3>2. CASE /\ row' = IF row = NoRow THEN NoRow ELSE [row EXCEPT !.running = TRUE]
               /\ entry' = [entry EXCEPT !.status = "STARTED", !.doing = "delivering", !.wake = Never]
               /\ UNCHANGED <<failures, faults>>
      <4>1. row' \in Rows \cup {NoRow}
        BY <3>2, RowFields DEF TypeOK, Rows
      <4>2. entry' \in Entries
        BY <1>2, <3>2, EntryFields DEF TypeOK, Mapped, Entries
      <4> QED
        BY <3>2, <4>1, <4>2 DEF TypeOK, TaskTypes
    <3> QED
      BY <2>1, <3>1, <3>2 DEF StartDelivery
  <2>2. CASE RepeatBookkeeping
    <3>1. entry.result \in Results
      BY <1>2, <2>2, EntryFields DEF TypeOK, Mapped, RepeatBookkeeping
    <3> QED
      BY <1>2, <2>2, <3>1, FinishType DEF RepeatBookkeeping
  <2>3. CASE \E result \in Results : Delivered(result)
    BY <1>2, <2>3, FinishType DEF Delivered
  <2>4. CASE AbandonReturns
    BY <2>4, AbandonType DEF AbandonReturns
  <2> QED
    BY <2>1, <2>2, <2>3, <2>4
<1>4. failures' \in Nat
  <2>1. CASE UNCHANGED failures
    BY <2>1 DEF TypeOK
  <2>2. CASE \E result : Remember(result)
    BY <2>2, RememberType
  <2> QED
    BY <2>1, <2>2 DEF StartDelivery, RepeatBookkeeping, Delivered, AbandonReturns
<1>5. projected' \in Instants \cup {Never}
  BY <1>1, <1>3, ProjectedType DEF TypeOK, TaskTypes
<1> QED
  BY <1>1, <1>3, <1>4, <1>5 DEF TypeOK, TaskTypes

LEMMA LoadType == ASSUME TypeOK, Load PROVE TypeOK' /\ row' \in Rows \cup {NoRow}
<1>1. ASSUME row # NoRow PROVE Interrupted \in Rows
  <2> DEFINE backoff == Clamped(row.ladder.backoff)
             at      == After(Delay(backoff))
             ladder  == [backoff |-> backoff + 1, counted |-> row.ladder.counted, previous |-> FALSE]
  <2>1. row \in Rows /\ row.ladder \in Ladder /\ row.ladder.backoff \in 0..(MaxBackoff + 1)
    BY <1>1, RowFields, LadderFields DEF TypeOK
  <2>2. row.ladder.backoff \in Nat
    BY <2>1, AlarmSchedulerAssumption
  <2>3. backoff \in 0..MaxBackoff
    BY <2>2, ClampedType
  <2> HIDE DEF backoff
  <2>4. backoff \in 0..(MaxBackoff + 1) /\ backoff + 1 \in 0..(MaxBackoff + 1)
    BY <2>3, AlarmSchedulerAssumption
  <2>5. at \in Instants
    BY <2>4, DelayType, AfterType DEF TypeOK
  <2>6. ladder \in Ladder
    BY <2>1, <2>4, LadderFields DEF Ladder
  <2>7. Interrupted = [row EXCEPT !.retry = at, !.running = FALSE, !.ladder = ladder]
    BY DEF Interrupted, backoff
  <2> HIDE DEF at, ladder
  <2> QED
    BY <2>1, <2>5, <2>6, <2>7, RowFields DEF Rows
<1>2. row' \in Rows \cup {NoRow} /\ (row = NoRow <=> row' = NoRow)
  BY <1>1, RowFields DEF TypeOK, Load
<1>3. entry' \in Entries \cup {NoEntry}
  BY <1>2, ScheduledType, RowFields DEF TypeOK, Load, Resumes
<1>4. projected' \in Instants \cup {Never}
  BY <1>3, ProjectedType, EmptySeq DEF Load
<1> QED
  BY <1>2, <1>3, <1>4 DEF TypeOK, Load

LEMMA TypeStep == TypeOK /\ [Next]_vars => TypeOK'
<1> SUFFICES ASSUME TypeOK, [Next]_vars PROVE TypeOK'
  OBVIOUS
<1>1. CASE Asked
  BY <1>1, SetAlarmType, DeleteType DEF Asked, Reconcile
<1>2. CASE StartDelivery \/ RepeatBookkeeping \/ (\E result \in Results : Delivered(result))
           \/ AbandonReturns
  BY <1>2, TaskType
<1>3. CASE OrphanReturns
  <2>1. orphans' \in Seq(Times) /\ Len(orphans') <= MaxOrphans
    <3>1. orphans' \in Seq(Times) /\ Len(orphans') <= Len(orphans)
      BY <1>3, OrphanLeaves DEF TypeOK, OrphanReturns
    <3>2. Len(orphans') \in Nat /\ Len(orphans) \in Nat
      BY <3>1, LenProperties DEF TypeOK
    <3> QED
      BY <3>1, <3>2, AlarmSchedulerAssumption DEF TypeOK
  <2>2. projected' \in Instants \cup {Never}
    BY <1>3, <2>1, ProjectedType DEF TypeOK, OrphanReturns
  <2> QED
    BY <1>3, <2>1, <2>2 DEF TypeOK, OrphanReturns
<1>4. CASE Crash
  <2>1. failures' \in Nat /\ crashes' \in 0..MaxCrashes
    BY <1>4, AlarmSchedulerAssumption DEF TypeOK, Crash
  <2>2. orphans' \in Seq(Times) /\ Len(orphans') <= MaxOrphans
    BY <1>4, EmptySeq, AlarmSchedulerAssumption DEF Crash
  <2>3. /\ entry' \in Entries \cup {NoEntry} /\ up' \in BOOLEAN
        /\ UNCHANGED <<row, projected, now, faults>>
    BY <1>4 DEF Crash
  <2> QED
    BY <2>1, <2>2, <2>3 DEF TypeOK
<1>5. CASE Load
  BY <1>5, LoadType
<1>6. CASE Tick
  BY <1>6, AlarmSchedulerAssumption DEF TypeOK, Tick, Instants
<1>7. CASE UNCHANGED vars
  BY <1>7 DEF TypeOK, vars
<1> QED
  BY <1>1, <1>2, <1>3, <1>4, <1>5, <1>6, <1>7 DEF Next

LEMMA TypeInit == Init => TypeOK
  BY AlarmSchedulerAssumption, EmptySeq DEF Init, TypeOK, Instants

\* Every variable has its type; the row is one that readPersistedAlarm() accepts.
THEOREM Typing == Spec => []TypeOK
<1> QED
  BY TypeInit, TypeStep, PTL DEF Spec

-----------------------------------------------------------------------------
(***************************************************************************)
(* The inductive invariant.  The row and the entry are about one alarm:    *)
(* the one that is queued if there is one, else the one of the entry.      *)
(***************************************************************************)

\* A worker that lives has an entry for its row.
RowIsMapped == up /\ ~Mapped => row = NoRow
DeadIsUnmapped == ~up => ~Mapped

\* The row is the one of the newest alarm.
RowIsNewest ==
  Mapped /\ row # NoRow =>
    row.time = (IF entry.queued # Never THEN entry.queued ELSE entry.time)

\* Where the task is says what it carries.
TaskInv ==
  Mapped =>
    /\ entry.doing = "delivering" => entry.status = "STARTED" /\ entry.result = NoResult
    /\ entry.doing = "abandoning" => entry.status = "FINISHED" /\ entry.result # NoResult
    /\ entry.doing = "waiting" => entry.status # "STARTED"
    /\ entry.status = "WAITING" => entry.result = NoResult

\* An alarm that is queued has failed at nothing, and a failure that is carried was
\* counted in the history, but not in the ladder yet.
ChargeInv ==
  /\ Mapped /\ row # NoRow /\ entry.queued # Never => row.ladder.counted = 0
  /\ Mapped /\ entry.result = "counted" => entry.ladder.counted < failures

\* A row that is marked has a delivery, or the bookkeeping of one, ahead.
MarkInv ==
  row # NoRow /\ row.running /\ Mapped => entry.doing = "delivering" \/ entry.result # NoResult

Inv ==
  /\ RowIsMapped /\ DeadIsUnmapped /\ RowIsNewest /\ TaskInv /\ ChargeInv /\ MarkInv
  /\ FailuresAreChargedOnce

-----------------------------------------------------------------------------
(***************************************************************************)
(* It is inductive: first the ways in which a step leaves the row and the  *)
(* entry, then the actions.                                                *)
(***************************************************************************)

LEMMA InitInv == Init => Inv
  BY DEF Init, Inv, RowIsMapped, DeadIsUnmapped, RowIsNewest, TaskInv, ChargeInv, MarkInv,
         FailuresAreChargedOnce, Mapped

LEMMA SameInv == ASSUME Inv, UNCHANGED <<row, entry, up, failures>> PROVE Inv'
  BY DEF Inv, RowIsMapped, DeadIsUnmapped, RowIsNewest, TaskInv, ChargeInv, MarkInv,
         FailuresAreChargedOnce, Mapped

\* Nothing is left.
LEMMA EmptyInv == ASSUME row' = NoRow, entry' = NoEntry PROVE Inv'
  BY DEF Inv, RowIsMapped, DeadIsUnmapped, RowIsNewest, TaskInv, ChargeInv, MarkInv,
         FailuresAreChargedOnce, Mapped

\* A new entry, for a row that is its own.
LEMMA ResumedInv ==
  ASSUME NEW time \in Times, NEW retry, NEW ladder \in Ladder, up',
         entry' = Scheduled(time, retry, ladder), ladder.counted <= failures',
         row' = NoRow \/ (row'.time = time /\ row'.ladder.counted <= failures' /\ ~row'.running)
  PROVE  Inv'
<1>1. /\ entry'.time = time /\ entry'.status = "WAITING" /\ entry'.doing = "waiting"
      /\ entry'.queued = Never /\ entry'.ladder = ladder /\ entry'.result = NoResult
  BY DEF Scheduled
<1>2. Mapped'
  <2>1. time # Never
    BY Constants
  <2> QED
    BY <1>1, <2>1 DEF Mapped, NoEntry
<1> QED
  BY <1>1, <1>2
     DEF Inv, RowIsMapped, DeadIsUnmapped, RowIsNewest, TaskInv, ChargeInv, MarkInv,
         FailuresAreChargedOnce, NoResult

LEMMA AfreshInv ==
  ASSUME NEW time \in Times, up', entry' = ScheduledNew(time), failures' = 0,
         row' = NoRow \/ (row'.time = time /\ row'.ladder.counted = 0 /\ ~row'.running)
  PROVE  Inv'
<1>1. NewLadder.counted = 0
  BY DEF NewLadder
<1> QED
  BY <1>1, ResumedInv, Constants DEF ScheduledNew

\* The same alarm goes on, with what is queued behind it.
LEMMA GoesOnInv ==
  ASSUME Inv, Mapped, up', entry' \in Entries,
         entry'.time = entry.time, entry'.queued = entry.queued,
         entry'.ladder.counted <= failures',
         entry'.result = "counted" => entry'.ladder.counted < failures',
         \/ row' = NoRow
         \/ /\ row # NoRow /\ row'.time = row.time /\ row'.ladder.counted <= failures'
            /\ entry.queued # Never => row'.ladder = row.ladder,
         TaskInv', MarkInv'
  PROVE  Inv'
<1>1. Mapped'
  BY EntryFields DEF Mapped
<1> QED
  BY <1>1
     DEF Inv, RowIsMapped, DeadIsUnmapped, RowIsNewest, ChargeInv, FailuresAreChargedOnce

-----------------------------------------------------------------------------

LEMMA CountedTypes ==
  ASSUME TypeOK
  PROVE  /\ failures \in Nat
         /\ Mapped => entry \in Entries /\ entry.ladder.counted \in Nat
         /\ row # NoRow => row \in Rows /\ row.ladder.counted \in Nat
  BY EntryFields, RowFields, LadderFields, AlarmSchedulerAssumption DEF TypeOK, Mapped

LEMMA ScheduledNewFields ==
  ASSUME NEW time \in Times
  PROVE  ScheduledNew(time) # NoEntry /\ ScheduledNew(time).status = "WAITING"
  BY ScheduledNewType, EntryFields DEF ScheduledNew, Scheduled

LEMMA SetAlarmInv ==
  ASSUME TypeOK, Inv, NEW time \in Times, SetAlarm(time) PROVE Inv'
<1>1. /\ up /\ up' /\ row' # NoRow /\ row'.time = time /\ row'.ladder.counted = 0
      /\ row'.running = (row # NoRow /\ row.running)
  <2>1. RowAfresh(time) # NoRow
    BY RowAfreshType, RowFields
  <2> QED
    BY <2>1 DEF SetAlarm, RowAfresh, NewLadder
<1>2. CASE Mapped /\ entry.status # "WAITING"
  <2>1. /\ entry' \in Entries /\ entry' = [entry EXCEPT !.queued = time]
        /\ entry \in Entries /\ time # Never
    BY <1>2, QueuedType, Constants, CountedTypes DEF SetAlarm, Queued
  <2>2. Mapped' /\ failures' = failures
    BY <1>2, <2>1, EntryFields DEF SetAlarm, Remember, Mapped, NoResult, Entries
  <2>3. /\ entry'.queued = time /\ entry'.status = entry.status /\ entry'.doing = entry.doing
        /\ entry'.ladder = entry.ladder /\ entry'.result = entry.result
    BY <2>1 DEF Entries
  <2>4. row'.running => row # NoRow /\ row.running
    BY <1>1
  <2> QED
    BY <1>1, <1>2, <2>1, <2>2, <2>3, <2>4, CountedTypes
       DEF Inv, RowIsMapped, DeadIsUnmapped, RowIsNewest, TaskInv, ChargeInv, MarkInv,
           FailuresAreChargedOnce
<1>3. CASE ~(Mapped /\ entry.status # "WAITING")
  <2>1. entry' = ScheduledNew(time) /\ failures' = 0
    BY <1>3, ScheduledNewFields DEF SetAlarm, Remember
  <2>2. ~(row # NoRow /\ row.running)
    BY <1>1, <1>3 DEF Inv, RowIsMapped, TaskInv, MarkInv
  <2>3. ~row'.running
    BY <1>1, <2>2
  <2> QED
    BY <1>1, <2>1, <2>3, AfreshInv
<1> QED
  BY <1>2, <1>3

LEMMA DeleteInv ==
  ASSUME TypeOK, Inv, DeleteAlarm \/ DeleteAll PROVE Inv'
<1>1. row' = NoRow /\ up /\ up'
  BY DEF DeleteAlarm, DeleteAll
<1>2. CASE entry' = NoEntry
  BY <1>1, <1>2, EmptyInv
<1>3. CASE Mapped /\ entry.status = "STARTED" /\ entry' = Queued(Never) /\ Remember(NoResult)
  <2>1. /\ entry' \in Entries /\ entry' = [entry EXCEPT !.queued = Never] /\ entry \in Entries
    BY <1>3, QueuedType, CountedTypes DEF Queued
  <2>2. /\ entry'.queued = Never /\ entry'.status = entry.status /\ entry'.doing = entry.doing
        /\ entry'.ladder = entry.ladder /\ entry'.result = entry.result
    BY <2>1 DEF Entries
  <2>3. Mapped' /\ failures' = failures
    BY <1>3, <2>1, <2>2, EntryFields DEF Remember, Mapped, NoResult
  <2> QED
    BY <1>1, <1>3, <2>2, <2>3
       DEF Inv, RowIsMapped, DeadIsUnmapped, RowIsNewest, TaskInv, ChargeInv, MarkInv,
           FailuresAreChargedOnce
<1>4. CASE entry.queued # Never /\ Mapped /\ entry' = ScheduledNew(entry.queued) /\ Remember(NoResult)
  <2>1. entry.queued \in Times
    BY <1>4, CountedTypes, EntryFields
  <2>2. failures' = 0
    BY <1>4, <2>1, ScheduledNewFields DEF Remember
  <2> QED
    BY <1>1, <1>4, <2>1, <2>2, AfreshInv
<1> QED
  BY <1>2, <1>3, <1>4 DEF DeleteAlarm, DeleteAll, Mapped

\* What a task that fails leaves, when its delivery reported this result.
LEMMA RepeatFields ==
  ASSUME TypeOK, Mapped, NEW result \in Results \cup {NoResult}, TaskFails(result)
  PROVE  /\ entry' \in Entries /\ row' = row /\ entry' # NoEntry
         /\ entry'.time = entry.time /\ entry'.queued = entry.queued
         /\ entry'.ladder = entry.ladder /\ entry'.result = result
         /\ entry'.doing = "waiting"
         /\ entry'.status = IF result = NoResult THEN "WAITING" ELSE "FINISHED"
<1>1. entry' \in Entries /\ entry' = Repeat(result) /\ row' = row
  BY RepeatType DEF TaskFails
<1> QED
  BY <1>1, EntryFields, CountedTypes DEF Repeat, Entries

\* The failure that a result reports is in the history by the time it is carried.
Charged(result) ==
  IF entry' = NoEntry \/ entry'.status = "WAITING" THEN failures' = 0
  ELSE failures' >= failures /\ (result = "counted" => failures' > entry.ladder.counted)

LEMMA TaskFailsInv ==
  ASSUME TypeOK, Inv, Mapped, up', NEW result \in Results, TaskFails(result), Charged(result),
         failures' \in Nat
  PROVE  Inv'
<1>1. failures' >= failures /\ (result = "counted" => failures' > entry.ladder.counted)
  BY RepeatFields DEF Charged, NoResult, Results
<1>2. TaskInv' /\ MarkInv'
  BY RepeatFields DEF TaskInv, MarkInv, NoResult, Results
<1>3. /\ entry.ladder.counted <= failures' /\ (row # NoRow => row.ladder.counted <= failures')
  BY <1>1, CountedTypes DEF Inv, FailuresAreChargedOnce
<1> QED
  BY <1>1, <1>2, <1>3, RepeatFields, GoesOnInv

LEMMA TakeQueuedInv ==
  ASSUME TypeOK, Inv, Mapped, up', entry.queued # Never, TakeQueued, failures' = 0
  PROVE  Inv'
<1>1. entry.queued \in Times
  BY CountedTypes, EntryFields
<1>2. row # NoRow => row.time = entry.queued /\ row.ladder.counted = 0
  BY DEF Inv, RowIsNewest, ChargeInv
<1>3. row' = NoRow \/ (row'.time = entry.queued /\ row'.ladder.counted = 0 /\ ~row'.running)
  BY <1>2, CountedTypes DEF TakeQueued, Rows
<1> QED
  BY <1>1, <1>3, AfreshInv DEF TakeQueued

LEMMA ArmRetryInv ==
  ASSUME TypeOK, Inv, Mapped, up', entry.queued = Never, NEW result \in Results,
         Retries(result), ~GivesUp(result), ArmRetry(result), Charged(result), failures' \in Nat
  PROVE  Inv'
<1> DEFINE rung == NextRung(result)
           at   == After(Delay(rung.backoff - 1))
<1>1. rung \in Ladder /\ at \in Instants
  BY NextRungType, AfterType, DelayType DEF TypeOK
<1>2. rung.counted = entry.ladder.counted + (IF result = "counted" THEN 1 ELSE 0)
  BY DEF NextRung
<1>3. /\ row' = IF row = NoRow THEN NoRow
                ELSE [row EXCEPT !.retry = at, !.ladder = rung, !.running = FALSE]
      /\ entry' = [entry EXCEPT !.status = "FINISHED", !.doing = "waiting", !.at = at,
                                !.wake = at, !.ladder = rung, !.result = NoResult]
  BY DEF ArmRetry
<1> HIDE DEF rung, at
<1>4. /\ entry' \in Entries
      /\ entry'.time = entry.time /\ entry'.queued = entry.queued /\ entry'.ladder = rung
      /\ entry'.result = NoResult /\ entry'.status = "FINISHED" /\ entry'.doing = "waiting"
  BY <1>1, <1>3, EntryFields, CountedTypes DEF Entries
<1>5. row = NoRow => row' = NoRow
  BY <1>3
<1>6. row # NoRow => row'.time = row.time /\ row'.ladder = rung /\ row'.running = FALSE
  BY <1>3, CountedTypes DEF Rows
<1>7. entry' # NoEntry /\ entry'.status # "WAITING"
  BY <1>4, EntryFields
<1>8. rung.counted <= failures'
  BY <1>2, <1>7, CountedTypes DEF Charged, Inv, FailuresAreChargedOnce
<1>9. TaskInv' /\ MarkInv'
  BY <1>4, <1>5, <1>6 DEF TaskInv, MarkInv
<1> QED
  BY <1>4, <1>5, <1>6, <1>8, <1>9, GoesOnInv DEF NoResult

LEMMA FinishInv ==
  ASSUME TypeOK, Inv, Mapped, up', NEW result \in Results, Finish(result), Charged(result),
         failures' \in Nat
  PROVE  Inv'
<1>1. CASE entry.queued # Never /\ TakeQueued
  <2>1. entry'.status = "WAITING"
    BY <1>1, CountedTypes, EntryFields, ScheduledNewFields DEF TakeQueued
  <2> QED
    BY <1>1, <2>1, TakeQueuedInv DEF Charged
<1>2. CASE TaskFails(result)
  BY <1>2, TaskFailsInv
<1>3. CASE StartAbandoning(result)
  <2>1. /\ entry' \in Entries /\ entry' # NoEntry /\ row' = row
        /\ entry'.time = entry.time /\ entry'.queued = entry.queued
        /\ entry'.ladder = entry.ladder /\ entry'.result = result
        /\ entry'.status = "FINISHED" /\ entry'.doing = "abandoning"
    <3>1. entry \in Entries /\ row' = row
          /\ entry' = [entry EXCEPT !.status = "FINISHED", !.doing = "abandoning", !.result = result]
      BY <1>3, CountedTypes DEF StartAbandoning
    <3>2. entry' \in Entries
      BY <3>1, EntryFields DEF Entries
    <3> QED
      BY <3>1, <3>2, EntryFields DEF Entries
  <2>2. failures' >= failures /\ (result = "counted" => failures' > entry.ladder.counted)
    BY <2>1 DEF Charged
  <2>3. TaskInv' /\ MarkInv'
    BY <2>1 DEF TaskInv, MarkInv, NoResult, Results
  <2>4. entry.ladder.counted <= failures' /\ (row # NoRow => row.ladder.counted <= failures')
    BY <2>2, CountedTypes DEF Inv, FailuresAreChargedOnce
  <2> QED
    BY <2>1, <2>2, <2>3, <2>4, GoesOnInv
<1>4. CASE entry.queued = Never /\ Retries(result) /\ ~GivesUp(result) /\ ArmRetry(result)
  BY <1>4, ArmRetryInv
<1>5. CASE Remove
  BY <1>5, EmptyInv DEF Remove
<1> QED
  BY <1>1, <1>2, <1>3, <1>4, <1>5 DEF Finish, ArmRetryFails

\* What Remember() makes of a failure that is reported now, ...
LEMMA DeliveredCharges ==
  ASSUME TypeOK, Inv, Mapped, NEW result \in Results, Remember(result) PROVE Charged(result)
  BY CountedTypes DEF Remember, Charged, Inv, FailuresAreChargedOnce

\* ... and of one that is carried since.
LEMMA CarriedIsCharged ==
  ASSUME TypeOK, Inv, Mapped, Remember(NoResult) PROVE Charged(entry.result)
  BY CountedTypes DEF Remember, Charged, Inv, ChargeInv, NoResult

LEMMA StartInv == ASSUME TypeOK, Inv, StartDelivery PROVE Inv'
<1>1. Mapped /\ up' /\ entry.doing = "waiting" /\ entry.result = NoResult /\ failures' = failures
  BY DEF StartDelivery, IsTime, Is
<1>2. CASE TaskFails(NoResult)
  <2>1. ~(row # NoRow /\ row.running)
    BY <1>1 DEF Inv, MarkInv
  <2>2. TaskInv' /\ MarkInv'
    BY <1>1, <1>2, <2>1, RepeatFields DEF TaskInv, MarkInv
  <2>3. entry.ladder.counted <= failures' /\ (row # NoRow => row.ladder.counted <= failures')
    BY <1>1 DEF Inv, FailuresAreChargedOnce
  <2> QED
    BY <1>1, <1>2, <2>2, <2>3, RepeatFields, GoesOnInv DEF NoResult
<1>3. CASE /\ row' = IF row = NoRow THEN NoRow ELSE [row EXCEPT !.running = TRUE]
           /\ entry' = [entry EXCEPT !.status = "STARTED", !.doing = "delivering", !.wake = Never]
  <2>1. entry' \in Entries
    BY <1>1, <1>3, CountedTypes, EntryFields DEF Entries
  <2>2. /\ entry'.time = entry.time /\ entry'.queued = entry.queued
        /\ entry'.ladder = entry.ladder /\ entry'.result = NoResult
        /\ entry'.status = "STARTED" /\ entry'.doing = "delivering"
    BY <1>1, <1>3, CountedTypes DEF Entries
  <2>3. row = NoRow => row' = NoRow
    BY <1>3
  <2>4. row # NoRow => row'.time = row.time /\ row'.ladder = row.ladder
    BY <1>3, CountedTypes DEF Rows
  <2>5. TaskInv' /\ MarkInv'
    BY <2>2 DEF TaskInv, MarkInv
  <2>6. entry.ladder.counted <= failures' /\ (row # NoRow => row.ladder.counted <= failures')
    BY <1>1 DEF Inv, FailuresAreChargedOnce
  <2> QED
    BY <1>1, <2>1, <2>2, <2>3, <2>4, <2>5, <2>6, GoesOnInv DEF NoResult
<1> QED
  BY <1>2, <1>3 DEF StartDelivery

LEMMA AbandonInv == ASSUME TypeOK, Inv, AbandonReturns PROVE Inv'
<1>1. /\ Mapped /\ up' /\ entry \in Entries /\ entry.result \in Results
      /\ Remember(NoResult) /\ failures' \in Nat
  BY CountedTypes, EntryFields, RememberType DEF AbandonReturns, Is, Inv, TaskInv
<1>2. Charged(entry.result)
  BY <1>1, CarriedIsCharged
<1>3. ASSUME NEW newer \in Times \cup {Never}, Abandoned(newer) PROVE Inv'
  <2>1. CASE entry.queued # Never /\ TakeQueued
    <3>1. entry'.status = "WAITING"
      BY <1>1, <2>1, EntryFields, ScheduledNewFields DEF TakeQueued
    <3> QED
      BY <1>1, <1>2, <2>1, <3>1, TakeQueuedInv DEF Charged
  <2>2. CASE newer # Never /\ entry' = ScheduledNew(newer)
             /\ row' = [RowAfresh(newer) EXCEPT !.running = FALSE]
    <3>1. failures' = 0
      BY <1>2, <1>3, <2>2, ScheduledNewFields DEF Charged
    <3>2. row'.time = newer /\ row'.ladder.counted = 0 /\ row'.running = FALSE
      BY <2>2 DEF RowAfresh, NewLadder
    <3> QED
      BY <1>1, <1>3, <2>2, <3>1, <3>2, AfreshInv
  <2>3. CASE Remove
    BY <2>3, EmptyInv DEF Remove
  <2> QED
    BY <1>3, <2>1, <2>2, <2>3 DEF Abandoned
<1>4. CASE TaskFails(entry.result)
  BY <1>1, <1>2, <1>4, TaskFailsInv
<1>5. ASSUME NEW newer \in Times, AbandonHalfDone(newer) PROVE Inv'
  <2>1. Repeat(entry.result) \in Entries
    BY <1>1, RepeatType
  <2>2. /\ entry' \in Entries /\ entry' # NoEntry /\ entry'.queued = newer
        /\ entry'.ladder = entry.ladder /\ entry'.result = entry.result
        /\ entry'.doing = "waiting" /\ entry'.status = "FINISHED"
    <3>1. entry' \in Entries
      BY <1>5, <2>1, EntryFields DEF AbandonHalfDone, Entries
    <3>2. /\ Repeat(entry.result).ladder = entry.ladder
          /\ Repeat(entry.result).result = entry.result
          /\ Repeat(entry.result).doing = "waiting"
          /\ Repeat(entry.result).status = "FINISHED"
      BY <1>1, Constants DEF Repeat, Entries
    <3> QED
      BY <1>5, <2>1, <3>1, <3>2, EntryFields DEF AbandonHalfDone, Entries
  <2>3. row' # NoRow /\ row'.time = newer /\ row'.ladder.counted = 0
    BY <1>5, RowAfreshType, RowFields DEF AbandonHalfDone, RowAfresh, NewLadder
  <2>4. /\ entry.ladder.counted <= failures'
        /\ entry.result = "counted" => entry.ladder.counted < failures'
    BY <1>1, <1>2, <2>2, CountedTypes DEF Charged, Inv, FailuresAreChargedOnce
  <2> QED
    BY <1>1, <1>5, <2>2, <2>3, <2>4, Constants
       DEF Mapped, Inv, RowIsMapped, DeadIsUnmapped, RowIsNewest, TaskInv, ChargeInv, MarkInv,
           FailuresAreChargedOnce
<1> QED
  BY <1>3, <1>4, <1>5 DEF AbandonReturns

\* What a worker that dies knew of failures is what its row knows.
LEMMA CrashInv == ASSUME TypeOK, Inv, Crash PROVE Inv'
<1>1. up /\ ~up' /\ ~Mapped' /\ row' = row
  BY DEF Crash, Mapped
<1>2. row # NoRow => row.ladder.counted <= failures'
  BY <1>1, CountedTypes DEF Crash, Inv, RowIsMapped, ChargeInv, FailuresAreChargedOnce
<1> QED
  BY <1>1, <1>2
     DEF Inv, RowIsMapped, DeadIsUnmapped, RowIsNewest, TaskInv, ChargeInv, MarkInv,
         FailuresAreChargedOnce

LEMMA LoadInv == ASSUME TypeOK, Inv, Load PROVE Inv'
<1>1. CASE row = NoRow
  BY <1>1, EmptyInv DEF Load
<1>2. CASE row # NoRow
  <2>1. row' \in Rows
    BY <1>2, CountedTypes, LoadType, RowFields DEF Load, Interrupted, NoRow, Rows
  <2>2. row'.ladder.counted = row.ladder.counted /\ ~row'.running
    BY <1>2, CountedTypes DEF Load, Interrupted, Rows
  <2>3. row'.ladder.counted <= failures' /\ up' /\ entry' = Scheduled(row'.time, row'.retry, row'.ladder)
    BY <1>2, <2>2 DEF Load, Resumes, Inv, FailuresAreChargedOnce
  <2> QED
    BY <2>1, <2>2, <2>3, RowFields, ResumedInv
<1> QED
  BY <1>1, <1>2

LEMMA InvStep == TypeOK /\ Inv /\ [Next]_vars => Inv'
<1> SUFFICES ASSUME TypeOK, Inv, [Next]_vars PROVE Inv'
  OBVIOUS
<1>1. CASE Asked
  BY <1>1, SetAlarmInv, DeleteInv DEF Asked, Reconcile
<1>2. CASE StartDelivery
  BY <1>2, StartInv
<1>3. CASE RepeatBookkeeping
  <2>1. Mapped /\ up' /\ entry.result \in Results /\ Remember(NoResult) /\ failures' \in Nat
    BY <1>3, CountedTypes, EntryFields, RememberType DEF RepeatBookkeeping, IsTime, Is
  <2> QED
    BY <1>3, <2>1, CarriedIsCharged, FinishInv DEF RepeatBookkeeping
<1>4. ASSUME NEW result \in Results, Delivered(result) PROVE Inv'
  <2>1. Mapped /\ up' /\ failures' \in Nat
    BY <1>4, RememberType DEF Delivered, Is
  <2> QED
    BY <1>4, <2>1, DeliveredCharges, FinishInv DEF Delivered
<1>5. CASE AbandonReturns
  BY <1>5, AbandonInv
<1>6. CASE OrphanReturns \/ Tick \/ UNCHANGED vars
  BY <1>6, SameInv DEF OrphanReturns, Tick, vars
<1>7. CASE Crash
  BY <1>7, CrashInv
<1>8. CASE Load
  BY <1>8, LoadInv
<1> QED
  BY <1>1, <1>2, <1>3, <1>4, <1>5, <1>6, <1>7, <1>8 DEF Next

LEMMA Invariance == Spec => [](TypeOK /\ Inv)
<1>1. Init => TypeOK /\ Inv
  BY TypeInit, InitInv
<1>2. TypeOK /\ Inv /\ [Next]_vars => (TypeOK /\ Inv)'
  BY TypeStep, InvStep
<1> QED
  BY <1>1, <1>2, PTL DEF Spec

-----------------------------------------------------------------------------

\* Bookkeeping that is repeated and workers that die charge no failure of a handler
\* twice: the ladder never counts more than was reported.
THEOREM ChargedOnce == Spec => []FailuresAreChargedOnce
<1> QED
  BY Invariance, PTL DEF Inv

\* makeAlarmTask() delivers an alarm again only when its row says that the delivery
\* before is over, whichever of the writes in between failed.
THEOREM Redelivery == Spec => NoRedeliveryOffTheRecord
<1>1. Inv => [StartDelivery /\ entry'.doing = "delivering" /\ row # NoRow => ~row.running]_vars
  BY DEF Inv, MarkInv, StartDelivery, IsTime, Is
<1> QED
  BY <1>1, Invariance, PTL DEF Spec, NoRedeliveryOffTheRecord

\* A row that a task changes stays a row.
LEMMA RowStays ==
  ASSUME TypeOK, row # NoRow,
         TakeQueued \/ StartDelivery \/ Load
         \/ \E result : ArmRetry(result) \/ TaskFails(result) \/ StartAbandoning(result)
  PROVE  row' # NoRow
<1>1. row \in Rows /\ row.time \in Times
  BY CountedTypes, RowFields
<1>2. CASE UNCHANGED row
  BY <1>2
<1>3. CASE TakeQueued
  BY <1>1, <1>3, Constants DEF TakeQueued, Rows, NoRow
<1>4. CASE StartDelivery
  BY <1>1, <1>4, Constants DEF StartDelivery, TaskFails, Rows, NoRow
<1>5. CASE Load
  <2>1. row'.time = row.time
    BY <1>1, <1>5 DEF Load, Interrupted, Rows
  <2> QED
    BY <1>1, <2>1, Constants DEF NoRow
<1>6. ASSUME NEW result, ArmRetry(result) PROVE row' # NoRow
  <2>1. row'.time = row.time
    BY <1>1, <1>6 DEF ArmRetry, Rows
  <2> QED
    BY <1>1, <2>1, Constants DEF NoRow
<1> QED
  BY <1>2, <1>3, <1>4, <1>5, <1>6 DEF TaskFails, StartAbandoning

\* deleteAlarm() by the task of an alarm removes no alarm that was set since.
THEOREM NewerIsKept == Spec => NewerAlarmIsKept
<1> DEFINE Kept ==
      row # NoRow /\ row' = NoRow =>
        \/ DeleteAlarm \/ DeleteAll
        \/ Is("abandoning") /\ entry.queued = Never /\ entry' = NoEntry
        \/ entry.time = row.time /\ entry.queued = Never
<1>1. TypeOK /\ Inv /\ [Next]_vars => [Kept]_vars
  <2> SUFFICES ASSUME TypeOK, Inv, [Next]_vars, row # NoRow, row' = NoRow PROVE Kept
    OBVIOUS
  <2>1. ASSUME NEW time \in Times, RowAfresh(time) = NoRow PROVE FALSE
    BY <2>1, RowAfreshType, RowFields
  <2>2. CASE Asked
    BY <2>1, <2>2 DEF Asked, Reconcile, SetAlarm
  <2>3. ASSUME NEW result, Mapped, Finish(result) PROVE Kept
    <3>1. entry.queued = Never
      BY <2>3, RowStays DEF Finish
    <3> QED
      BY <2>3, <3>1 DEF Inv, RowIsNewest
  <2>4. CASE RepeatBookkeeping \/ \E result \in Results : Delivered(result)
    BY <2>3, <2>4 DEF RepeatBookkeeping, Delivered, IsTime, Is
  <2>5. CASE AbandonReturns
    <3>1. ~TakeQueued /\ \A result : ~TaskFails(result)
      BY RowStays
    <3>2. \A newer \in Times : [RowAfresh(newer) EXCEPT !.running = FALSE] # NoRow
      BY RowAfreshType, RowFields, Constants DEF Rows, NoRow
    <3>3. entry.queued = Never /\ entry' = NoEntry
      BY <2>1, <2>5, <3>1, <3>2 DEF AbandonReturns, Abandoned, AbandonHalfDone, Remove
    <3> QED
      BY <2>5, <3>3 DEF AbandonReturns
  <2>6. CASE OrphanReturns \/ Crash \/ Tick \/ UNCHANGED vars
    BY <2>6 DEF OrphanReturns, Crash, Tick, vars
  <2>7. ~StartDelivery /\ ~Load
    BY RowStays
  <2> QED
    BY <2>2, <2>4, <2>5, <2>6, <2>7 DEF Next
<1> QED
  BY <1>1, Invariance, PTL DEF Spec, NewerAlarmIsKept

=============================================================================
