-------------------------- MODULE ActorSqliteProofs --------------------------
(***************************************************************************)
(* Proofs about ActorSqlite, for every bound on times, commits, nesting,   *)
(* failures and crashes and for every behaviour of the scheduler.          *)
(***************************************************************************)
EXTENDS ActorSqlite, SequenceTheorems, TLAPS

-----------------------------------------------------------------------------
(***************************************************************************)
(* Types                                                                   *)
(***************************************************************************)

\* What a step may write into the fields of the commits, ...
CommitFields == [alarm : Alarms, changed : BOOLEAN]

\* ... and the constants that are in their types.
LEMMA Constants ==
  /\ NoAlarm \in Alarms /\ MaxTime \in Alarms /\ 1 \in Alarms
  /\ NothingCaptured \in CommitFields
  /\ NoRequest \in Requests
  /\ Alarms \subseteq Int
  /\ None \notin Commits /\ Rejected \notin Commits /\ Undefined \notin Alarms
  BY ActorSqliteAssumption
     DEF NoAlarm, Alarms, NothingCaptured, CommitFields, NoRequest, Requests, None, Commits,
         Rejected, Undefined

LEMMA InitType == Init => TypeOK
<1> SUFFICES ASSUME Init PROVE TypeOK
  OBVIOUS
<1> USE Constants DEF Init
<1>1. DatabaseType
  BY EmptySeq DEF DatabaseType
<1>2. CommitsType
  BY EmptySeq DEF CommitsType, CommitFields, CommitStates
<1>3. ProtocolType /\ DeliveryType
  BY DEF ProtocolType, DeliveryType
<1>4. WorldType
  BY ActorSqliteAssumption DEF WorldType, NoAlarm
<1> QED
  BY <1>1, <1>2, <1>3, <1>4 DEF TypeOK

\* A transaction that is marked is still a sequence of frames.
LEMMA MarkLastType ==
  ASSUME NEW open \in Seq(Frames), open # <<>>, NEW dirty \in BOOLEAN, NEW confirmed \in BOOLEAN
  PROVE  /\ MarkLast(open, dirty, confirmed) \in Seq(Frames)
         /\ Len(MarkLast(open, dirty, confirmed)) = Len(open)
         /\ \A i \in 1..Len(open) : MarkLast(open, dirty, confirmed)[i].alarm = open[i].alarm
<1>1. Len(open) \in 1..Len(open) /\ open[Len(open)] \in Frames
  BY EmptySeq
<1>2. [alarm |-> open[Len(open)].alarm, dirty |-> open[Len(open)].dirty \/ dirty,
       confirmed |-> open[Len(open)].confirmed \/ confirmed] \in Frames
  BY <1>1 DEF Frames
<1> QED
  BY <1>1, <1>2 DEF MarkLast

\* The stack of transactions without the innermost one.
LEMMA PopProperties ==
  ASSUME NEW open \in Seq(Frames), open # <<>>
  PROVE  /\ Pop(open) \in Seq(Frames) /\ Len(Pop(open)) = Len(open) - 1
         /\ \A i \in 1..(Len(open) - 1) : Pop(open)[i] = open[i]
         /\ Last(open) \in Frames
<1>1. Len(open) \in Nat \ {0} /\ \A i \in 1..Len(open) : open[i] \in Frames
  BY EmptySeq, ElementOfSeq
<1> DEFINE n == Len(open) - 1
<1>2. n \in Nat /\ \A i \in 1..n : open[i] \in Frames
  BY <1>1
<1>3. /\ SubSeq(open, 1, n) \in Seq(Frames)
      /\ Len(SubSeq(open, 1, n)) = IF 1 <= n THEN n - 1 + 1 ELSE 0
      /\ \A i \in 1..(n - 1 + 1) : SubSeq(open, 1, n)[i] = open[1 + i - 1]
  <2> HIDE DEF n
  <2> QED
    BY <1>2, SubSeqProperties
<1>4. n = Len(open) - 1 /\ n - 1 + 1 = n /\ \A i \in 1..n : 1 + i - 1 = i
  BY <1>2
<1>5. Len(Pop(open)) = n /\ Pop(open) \in Seq(Frames)
  BY <1>2, <1>3, <1>4 DEF Pop
<1>6. \A i \in 1..n : Pop(open)[i] = open[i]
  BY <1>2, <1>3, <1>4 DEF Pop
<1> QED
  BY <1>1, <1>5, <1>6 DEF Last

LEMMA NoteAlarmChangeType ==
  ASSUME CommitsType, NoteAlarmChange PROVE captured' \in [Commits -> CommitFields]
  BY DEF CommitsType, CommitFields, NoteAlarmChange

\* What Write(confirmed) and WriteAlarm(time, confirmed) assign has its type.
LEMMA WriteTypes ==
  ASSUME TypeOK, NEW confirmed \in BOOLEAN, Write(confirmed)
  PROVE  /\ frames' \in Seq(Frames) /\ implicit' \in Commits \cup {None}
         /\ pc' \in [Commits -> CommitStates] /\ checkpoint' \in Seq(Commits)
         /\ locked' \subseteq Commits
<1>1. ASSUME ImplicitWrite(confirmed)
      PROVE  /\ frames' \in Seq(Frames) /\ implicit' \in Commits \cup {None}
             /\ pc' \in [Commits -> CommitStates] /\ checkpoint' \in Seq(Commits)
             /\ locked' \subseteq Commits
  <2>1. PICK k \in Commits :
          /\ IF implicit = None
               THEN /\ pc' = [pc EXCEPT ![k] = "queued"]
                    /\ checkpoint' = Append(checkpoint, k)
               ELSE UNCHANGED <<pc, checkpoint>>
          /\ implicit' = k
          /\ locked' = IF confirmed THEN locked \cup {k} ELSE locked
    BY <1>1 DEF ImplicitWrite
  <2>2. frames' = frames
    BY <1>1 DEF ImplicitWrite
  <2>3. Append(checkpoint, k) \in Seq(Commits)
    BY DEF TypeOK, CommitsType
  <2> QED
    BY <2>1, <2>2, <2>3 DEF CommitStates, TypeOK, DatabaseType, CommitsType
<1>2. ASSUME ExplicitWrite(confirmed)
      PROVE  /\ frames' \in Seq(Frames) /\ implicit' \in Commits \cup {None}
             /\ pc' \in [Commits -> CommitStates] /\ checkpoint' \in Seq(Commits)
             /\ locked' \subseteq Commits
  BY <1>2, MarkLastType DEF ExplicitWrite, TypeOK, DatabaseType, CommitsType
<1> QED
  BY <1>1, <1>2, Zenon DEF Write

LEMMA WriteAlarmTypes ==
  ASSUME TypeOK, NEW time \in Alarms, NEW confirmed \in BOOLEAN, WriteAlarm(time, confirmed)
  PROVE  /\ frames' \in Seq(Frames) /\ implicit' \in Commits \cup {None}
         /\ pc' \in [Commits -> CommitStates] /\ checkpoint' \in Seq(Commits)
         /\ locked' \subseteq Commits /\ alarm' \in Alarms
         /\ captured' \in [Commits -> CommitFields]
         /\ deferredDelete' \in BOOLEAN
<1>1. captured' \in [Commits -> CommitFields] /\ alarm' \in Alarms
  BY NoteAlarmChangeType DEF WriteAlarm, TypeOK, CommitsType, CommitFields
<1>2. CASE frames = <<>> /\ time # alarm
  BY <1>1, <1>2, WriteTypes DEF WriteAlarm, Write, CancelDeferredDeletion
<1>3. CASE frames = <<>> /\ time = alarm
  BY <1>1, <1>3 DEF WriteAlarm, CancelDeferredDeletion, TypeOK, DatabaseType, CommitsType
<1>4. CASE frames # <<>>
  BY <1>1, <1>4, MarkLastType DEF WriteAlarm, TypeOK, DatabaseType, CommitsType, ProtocolType
<1> QED
  BY <1>2, <1>3, <1>4

\* What EnterCommit(k), Settle(k, failed) and the requests to the scheduler
\* assign has its type.
LEMMA EnterCommitTypes ==
  ASSUME TypeOK, NEW k \in Commits, EnterCommit(k)
  PROVE  /\ pc' \in [Commits -> CommitStates] /\ persisting' \in Seq(Commits)
         /\ leader' \in [Commits -> Commits \cup {None}]
         /\ captured' \in [Commits -> CommitFields]
         /\ pendingCommit' \in Commits \cup {None, Rejected}
         /\ pendingLater' \in Alarms \cup {Undefined}
         /\ row' \in Alarms /\ entry' \in Alarms
<1>1. CASE /\ pendingCommit \in Commits
           /\ leader' = [leader EXCEPT ![k] = pendingCommit]
           /\ pc' = [pc EXCEPT ![k] = "merged"]
           /\ UNCHANGED <<persisting, captured, pendingCommit, pendingLater, scheduler>>
  BY <1>1 DEF CommitStates, CommitFields, TypeOK, DatabaseType, CommitsType, ProtocolType,
              DeliveryType, scheduler
<1>2. CASE /\ RequestEarlier(k)
           /\ pc' = [pc EXCEPT ![k] = "prealarm"]
           /\ pendingCommit' = k
           /\ pendingLater' = Undefined
           /\ UNCHANGED <<persisting, leader>>
  BY <1>2 DEF CommitStates, CommitFields, TypeOK, DatabaseType, CommitsType, ProtocolType,
              DeliveryType, RequestEarlier, ScheduleRun
<1>3. CASE CallCommitCallback(k) /\ UNCHANGED <<leader, pendingLater, scheduler>>
  BY <1>3 DEF CommitStates, CommitFields, TypeOK, DatabaseType, CommitsType, ProtocolType,
              DeliveryType, CallCommitCallback, scheduler
<1> QED
  BY <1>1, <1>2, <1>3 DEF EnterCommit

LEMMA SettleTypes ==
  ASSUME TypeOK, NEW k \in Commits, NEW failed, Settle(k, failed)
  PROVE  /\ pc' \in [Commits -> CommitStates]
         /\ leader' \in [Commits -> Commits \cup {None}]
         /\ captured' \in [Commits -> CommitFields]
         /\ locked' \subseteq Commits
         /\ row' \in Alarms /\ entry' \in Alarms => DeliveryType'
  BY Constants DEF Settle, TypeOK, CommitsType, CommitFields, DeliveryType, Unlock, CommitStates

LEMMA RequestTypes ==
  ASSUME TypeOK
  PROVE  /\ \A known, time \in Alarms :
              BelievedAtOnce(known, time) \in Alarms /\ Request(known, time) \in Requests
         /\ laterRequest # NoRequest => BelievedWhenAnswered(laterRequest) \in Alarms
         /\ armRequest # NoRequest => BelievedWhenAnswered(armRequest) \in Alarms
  BY Constants DEF TypeOK, ProtocolType, DeliveryType, BelievedAtOnce, Request, Requests,
                   BelievedWhenAnswered

LEMMA FinishDeliveryTypes ==
  ASSUME TypeOK, NEW retry \in BOOLEAN, FinishDelivery(retry) PROVE DeliveryType'
<1> USE Constants DEF TypeOK, DeliveryType, FinishDelivery
<1>1. CASE entry # NoAlarm
  BY <1>1 DEF scheduler
<1>2. CASE entry = NoAlarm /\ retry
  BY <1>2
<1>3. CASE entry = NoAlarm /\ ~retry
  BY <1>3 DEF ScheduleRun
<1> QED
  BY <1>1, <1>2, <1>3

LEMMA FaultTypes == ASSUME TypeOK, Fault PROVE WorldType'
  BY ActorSqliteAssumption DEF TypeOK, WorldType, Fault

\* A cancelled delivery waits for a request it made: without this the types do
\* not determine what an answer says.
CancelWaits == handler = "cancelling" => armRequest # NoRequest

\* Every step of the application keeps the types.
LEMMA ApplicationTypes == ASSUME TypeOK, Application PROVE TypeOK'
<1> USE DEF TypeOK, database, commits, breakage, protocol, movingLater, scheduler, delivery, world
<1>1. ASSUME NEW confirmed \in BOOLEAN, Put(confirmed) PROVE TypeOK'
  BY <1>1, WriteTypes
     DEF Put, DatabaseType, CommitsType, ProtocolType, DeliveryType, WorldType
<1>2. ASSUME NEW time \in Alarms, NEW confirmed \in BOOLEAN, SetAlarm(time, confirmed)
      PROVE  TypeOK'
  BY <1>2, WriteAlarmTypes
     DEF SetAlarm, DatabaseType, CommitsType, CommitFields, ProtocolType, DeliveryType, WorldType
<1>3. CASE DeleteAll
  <2>1. captured' \in [Commits -> CommitFields] /\ deferredDelete' \in BOOLEAN
    BY <1>3, NoteAlarmChangeType DEF DeleteAll, CommitsType, CommitFields, ProtocolType
  <2>2. /\ pc' \in [Commits -> CommitStates] /\ checkpoint' \in Seq(Commits)
        /\ locked' \subseteq Commits
    <3>1. CASE deleteAllScheduled
      BY <1>3, <3>1 DEF DeleteAll, CommitsType
    <3>2. CASE ~deleteAllScheduled
      <4>1. PICK k \in Commits : /\ pc' = [pc EXCEPT ![k] = "queuedDeleteAll"]
                                 /\ checkpoint' = Append(checkpoint, k)
                                 /\ locked' = locked \cup {k}
        BY <1>3, <3>2 DEF DeleteAll
      <4> QED
        BY <4>1 DEF CommitsType, CommitStates
    <3> QED
      BY <3>1, <3>2
  <2>3. DatabaseType' /\ CommitsType'
    BY <1>3, <2>1, <2>2, Constants DEF DeleteAll, DatabaseType, CommitsType, CommitFields
  <2>4. ProtocolType' /\ DeliveryType' /\ WorldType'
    BY <1>3, <2>1 DEF DeleteAll, ProtocolType, DeliveryType, WorldType
  <2> QED
    BY <2>3, <2>4
<1>4. CASE TxnBegin
  <2>1. frames' \in Seq(Frames)
    <3>1. frames # <<>> => Last(frames) \in Frames
      BY EmptySeq DEF DatabaseType, Last
    <3>2. [alarm |-> alarm, dirty |-> frames # <<>> /\ Last(frames).dirty,
           confirmed |-> frames # <<>> /\ Last(frames).confirmed] \in Frames
      BY <3>1 DEF DatabaseType, Frames
    <3> QED
      BY <1>4, <3>2 DEF TxnBegin, DatabaseType
  <2> QED
    BY <1>4, <2>1 DEF TxnBegin, DatabaseType, CommitsType, ProtocolType, DeliveryType, WorldType
<1>5. CASE TxnCommitNested
  <2>1. Pop(frames) \in Seq(Frames) /\ Pop(frames) # <<>> /\ Last(frames) \in Frames
    BY <1>5, EmptySeq, PopProperties DEF TxnCommitNested, DatabaseType
  <2>2. frames' \in Seq(Frames)
    BY <1>5, <2>1, MarkLastType DEF TxnCommitNested, Frames
  <2> QED
    BY <1>5, <2>2
       DEF TxnCommitNested, DatabaseType, CommitsType, ProtocolType, DeliveryType, WorldType
<1>6. CASE TxnCommitRejected
  BY <1>6 DEF TxnCommitRejected, Breaks, DatabaseType, CommitsType, ProtocolType, DeliveryType,
              WorldType
<1>7. CASE TxnCommitFails
  <2>1. WorldType'
    BY <1>7, FaultTypes DEF TxnCommitFails
  <2>2. ProtocolType' /\ row' \in Alarms /\ entry' \in Alarms
    BY <1>7 DEF TxnCommitFails, ScheduleRun, DatabaseType, ProtocolType, DeliveryType
  <2> QED
    BY <1>7, <2>1, <2>2 DEF TxnCommitFails, DatabaseType, CommitsType, DeliveryType
<1>8. CASE TxnRollback
  <2>1. frames # <<>> /\ Pop(frames) \in Seq(Frames) /\ Last(frames) \in Frames
    BY <1>8, EmptySeq, PopProperties DEF TxnRollback, Held, DatabaseType
  <2>2. alarm' \in Alarms
    BY <1>8, <2>1 DEF TxnRollback, AlarmAtSavepoint, DatabaseType, Frames
  <2> QED
    BY <1>8, <2>1, <2>2
       DEF TxnRollback, DatabaseType, CommitsType, ProtocolType, DeliveryType, WorldType
<1>9. ASSUME NEW k \in Commits, TxnCommitRoot(k) PROVE TypeOK'
  <2>1. EnterCommit(k)
    BY <1>9 DEF TxnCommitRoot
  <2>2. DatabaseType' /\ WorldType' /\ ProtocolType'
    BY <1>9, <2>1, EnterCommitTypes DEF TxnCommitRoot, DatabaseType, WorldType, ProtocolType
  <2>3. CommitsType' /\ DeliveryType'
    BY <1>9, <2>1, EnterCommitTypes DEF TxnCommitRoot, CommitsType, CommitFields, DeliveryType
  <2> QED
    BY <2>2, <2>3
<1> QED
  BY <1>1, <1>2, <1>3, <1>4, <1>5, <1>6, <1>7, <1>8, <1>9 DEF Application, AlarmCalls, OtherCalls

\* So does every step of a commit, ...
LEMMA CommitTypes ==
  ASSUME TypeOK, NEW k \in Commits, Commit(k) \/ CommitFault(k) PROVE TypeOK'
<1> USE DEF TypeOK, database, commits, breakage, protocol, movingLater, scheduler, delivery, world
<1>1. ASSUME checkpoint # <<>> PROVE Tail(checkpoint) \in Seq(Commits)
  BY <1>1 DEF CommitsType
<1>2. ASSUME persisting # <<>> PROVE Tail(persisting) \in Seq(Commits)
  BY <1>2 DEF CommitsType
<1>3. CASE CommitImplicit(k)
  <2>1. EnterCommit(k) /\ checkpoint' \in Seq(Commits)
    BY <1>1, <1>3 DEF CommitImplicit, AtCheckpointEnd
  <2>2. DatabaseType' /\ WorldType' /\ ProtocolType'
    BY <1>3, <2>1, EnterCommitTypes
       DEF CommitImplicit, OpenAfter, DatabaseType, WorldType, ProtocolType
  <2>3. CommitsType' /\ DeliveryType'
    BY <1>3, <2>1, EnterCommitTypes DEF CommitImplicit, CommitsType, CommitFields, DeliveryType
  <2> QED
    BY <2>2, <2>3
<1>4. CASE CommitImplicitFails(k)
  <2>1. Settle(k, {k}) /\ checkpoint' \in Seq(Commits)
    BY <1>1, <1>4 DEF CommitImplicitFails, AtCheckpointEnd
  <2>2. /\ WorldType'
        /\ file' \in Alarms /\ alarm' \in Alarms /\ noLaterThan' \in Alarms
        /\ row' \in Alarms /\ entry' \in Alarms /\ pendingLater' \in Alarms \cup {Undefined}
    BY <1>4, FaultTypes
       DEF CommitImplicitFails, ScheduleRun, DatabaseType, ProtocolType, DeliveryType, WorldType
  <2>3. DatabaseType' /\ ProtocolType'
    BY <1>4, <2>2 DEF CommitImplicitFails, OpenAfter, DatabaseType, ProtocolType
  <2>4. CommitsType' /\ DeliveryType'
    BY <1>4, <2>1, <2>2, SettleTypes DEF CommitImplicitFails, Breaks, CommitsType, CommitFields
  <2> QED
    BY <2>2, <2>3, <2>4
<1>5. CASE CommitDeleteAll(k)
  <2>1. checkpoint' \in Seq(Commits) /\ DatabaseType' /\ WorldType'
    BY <1>1, <1>5 DEF CommitDeleteAll, AtCheckpointEnd, DatabaseType, WorldType
  <2>2. CASE implicit # None
    <3>1. Settle(k, {}) /\ UNCHANGED <<persisting, pendingCommit, pendingLater, scheduler>>
      BY <1>5, <2>2 DEF CommitDeleteAll
    <3>2. DeliveryType'
      BY <3>1, SettleTypes DEF DeliveryType
    <3> QED
      BY <1>5, <2>1, <3>1, <3>2, SettleTypes
         DEF CommitDeleteAll, CommitsType, CommitFields, ProtocolType
  <2>3. CASE implicit = None
    <3>1. EnterCommit(k) /\ UNCHANGED <<locked, delivery>>
      BY <1>5, <2>3 DEF CommitDeleteAll
    <3> QED
      BY <1>5, <2>1, <3>1, EnterCommitTypes
         DEF CommitDeleteAll, CommitsType, CommitFields, ProtocolType, DeliveryType
  <2> QED
    BY <2>2, <2>3
<1>6. CASE CommitDeleteAllFails(k)
  <2>1. Settle(k, {k}) /\ checkpoint' \in Seq(Commits)
    BY <1>1, <1>6 DEF CommitDeleteAllFails, AtCheckpointEnd
  <2>2. /\ WorldType' /\ pendingLater' \in Alarms \cup {Undefined}
        /\ deleteAllScheduled' \in BOOLEAN
    BY <1>6, FaultTypes DEF CommitDeleteAllFails, ProtocolType, CommitsType, WorldType
  <2>3. DatabaseType' /\ ProtocolType' /\ row' \in Alarms /\ entry' \in Alarms
    BY <1>6, <2>2 DEF CommitDeleteAllFails, DatabaseType, ProtocolType, DeliveryType
  <2> QED
    BY <1>6, <2>1, <2>2, <2>3, SettleTypes DEF CommitDeleteAllFails, Breaks, CommitsType, CommitFields
<1>7. CASE PrecommitAnswered(k)
  <2>1. captured[k].alarm \in Alarms
    BY DEF CommitsType
  <2>2. CommitsType' /\ row' \in Alarms /\ entry' \in Alarms
    <3>1. CASE alarm < captured[k].alarm
      <4>1. RequestEarlier(k) /\ UNCHANGED <<pc, persisting, pendingCommit>>
        BY <1>7, <3>1 DEF PrecommitAnswered
      <4>2. captured' \in [Commits -> CommitFields] /\ row' \in Alarms /\ entry' \in Alarms
        BY <4>1 DEF RequestEarlier, ScheduleRun, CommitFields, DatabaseType, CommitsType
      <4> QED
        BY <1>7, <4>1, <4>2 DEF PrecommitAnswered, CommitsType, CommitFields
    <3>2. CASE ~(alarm < captured[k].alarm)
      <4>1. CallCommitCallback(k) /\ UNCHANGED scheduler
        BY <1>7, <3>2 DEF PrecommitAnswered
      <4>2. /\ pc' \in [Commits -> CommitStates] /\ persisting' \in Seq(Commits)
            /\ captured' \in [Commits -> CommitFields] /\ pendingCommit' = None
        BY <4>1 DEF CallCommitCallback, CommitStates, CommitFields, DatabaseType, CommitsType
      <4> QED
        BY <1>7, <4>1, <4>2 DEF PrecommitAnswered, CommitsType, CommitFields, DeliveryType
    <3> QED
      BY <3>1, <3>2
  <2> QED
    BY <1>7, <2>1, <2>2 DEF PrecommitAnswered, DatabaseType, ProtocolType, DeliveryType, WorldType
<1>8. CASE PrecommitFails(k)
  <2>1. Settle(k, SettledBy(k)) /\ WorldType' /\ captured[k].alarm \in Alarms
    BY <1>8, FaultTypes DEF PrecommitFails, CommitsType
  <2>2. DatabaseType' /\ ProtocolType' /\ row' \in Alarms /\ entry' \in Alarms
    BY <1>8, <2>1 DEF PrecommitFails, DatabaseType, ProtocolType, DeliveryType
  <2> QED
    BY <1>8, <2>1, <2>2, SettleTypes DEF PrecommitFails, Breaks, CommitsType, CommitFields
<1>9. CASE CommitPersisted(k)
  <2>1. Settle(k, {}) /\ persisting' \in Seq(Commits) /\ captured[k].alarm \in Alarms
    BY <1>2, <1>9 DEF CommitPersisted, Persisted, CommitsType
  <2>2. ProtocolType' /\ row' \in Alarms /\ entry' \in Alarms
    <3>1. CASE MovesLaterAfter(k) /\ laterIsInFlight
      BY <1>9, <2>1, <3>1 DEF CommitPersisted, ScheduleLater, ProtocolType, DeliveryType
    <3>2. CASE MovesLaterAfter(k) /\ ~laterIsInFlight
      BY <1>9, <2>1, <3>2, RequestTypes
         DEF CommitPersisted, ScheduleLater, ScheduleRun, ProtocolType, DeliveryType
    <3>3. CASE ~MovesLaterAfter(k)
      BY <1>9, <2>1, <3>3 DEF CommitPersisted, ProtocolType, DeliveryType
    <3> QED
      BY <3>1, <3>2, <3>3
  <2> QED
    BY <1>9, <2>1, <2>2, SettleTypes
       DEF CommitPersisted, DatabaseType, CommitsType, CommitFields, WorldType
<1>10. CASE PersistFails(k)
  <2>1. /\ \E failed : Settle(k, failed)
        /\ persisting' \in Seq(Commits) /\ captured[k].alarm \in Alarms /\ WorldType'
    BY <1>2, <1>10, FaultTypes DEF PersistFails, Persisted, CommitsType
  <2>2. DatabaseType' /\ ProtocolType' /\ row' \in Alarms /\ entry' \in Alarms
    BY <1>10, <2>1 DEF PersistFails, DatabaseType, ProtocolType, DeliveryType
  <2> QED
    BY <1>10, <2>1, <2>2, SettleTypes DEF PersistFails, Breaks, CommitsType, CommitFields
<1> QED
  BY <1>3, <1>4, <1>5, <1>6, <1>7, <1>8, <1>9, <1>10 DEF Commit, CommitFault

\* ... every delivery and every answer of the scheduler, ...
LEMMA DeliveryTypes ==
  ASSUME TypeOK, CancelWaits, AlarmDelivery \/ LaterAnswered \/ LaterAnsweredThrows PROVE TypeOK'
<1> USE DEF TypeOK, database, commits, breakage, protocol, movingLater, scheduler, delivery, world
<1>1. CASE Deliver
  <2>1. CASE ArmCancel
    <3>1. ProtocolType'
      BY <1>1, <2>1, RequestTypes DEF Deliver, ArmCancel, DatabaseType, ProtocolType, DeliveryType
    <3>2. DeliveryType'
      BY <1>1, <2>1, RequestTypes
         DEF Deliver, ArmCancel, ScheduleRun, DatabaseType, ProtocolType, DeliveryType
    <3> QED
      BY <1>1, <3>1, <3>2 DEF Deliver, DatabaseType, CommitsType, WorldType
  <2>2. CASE ArmRun(alarm = entry \/ CleanMismatch)
    <3>1. ProtocolType'
      BY <1>1, <2>2 DEF Deliver, ArmRun, CleanMismatch, ProtocolType
    <3>2. DeliveryType'
      BY <1>1, <2>2, Constants DEF Deliver, ArmRun, DeliveryType
    <3> QED
      BY <1>1, <3>1, <3>2 DEF Deliver, DatabaseType, CommitsType, WorldType
  <2> QED
    BY <1>1, <2>1, <2>2 DEF Deliver
<1>2. CASE DeliverFails
  BY <1>2, RequestTypes, FaultTypes
     DEF DeliverFails, DatabaseType, CommitsType, ProtocolType, DeliveryType
<1>3. CASE CancelAnswered
  <2>1. DeliveryType' /\ WorldType'
    BY <1>3, FinishDeliveryTypes, FaultTypes DEF CancelAnswered, WorldType
  <2>2. noLaterThan' \in Alarms
    BY <1>3, RequestTypes DEF CancelAnswered, CancelWaits, ProtocolType
  <2> QED
    BY <1>3, <2>1, <2>2 DEF CancelAnswered, DatabaseType, CommitsType, ProtocolType
<1>4. CASE HandlerReturns
  BY <1>4 DEF HandlerReturns, HandlerEnds, DatabaseType, CommitsType, ProtocolType, DeliveryType,
              WorldType
<1>5. CASE HandlerThrows
  BY <1>5 DEF HandlerThrows, HandlerEnds, DatabaseType, CommitsType, ProtocolType, DeliveryType,
              WorldType
<1>6. CASE HandlerSucceeds
  <2>1. DeliveryType'
    BY <1>6, FinishDeliveryTypes DEF HandlerSucceeds
  <2>2. captured' \in [Commits -> CommitFields] /\ alarm' \in Alarms
    BY <1>6, NoteAlarmChangeType, Constants DEF HandlerSucceeds, DatabaseType, CommitsType, CommitFields
  <2>3. /\ frames' \in Seq(Frames) /\ implicit' \in Commits \cup {None}
        /\ pc' \in [Commits -> CommitStates] /\ checkpoint' \in Seq(Commits)
        /\ locked' \subseteq Commits
    <3>1. CASE Write(TRUE)
      BY <3>1, WriteTypes
    <3>2. CASE UNCHANGED <<pc, checkpoint, implicit, locked, frames>>
      BY <3>2 DEF DatabaseType, CommitsType
    <3> QED
      BY <1>6, <3>1, <3>2 DEF HandlerSucceeds
  <2> QED
    BY <1>6, <2>1, <2>2, <2>3
       DEF HandlerSucceeds, DatabaseType, CommitsType, CommitFields, ProtocolType, WorldType
<1>7. CASE HandlerFails
  BY <1>7, FinishDeliveryTypes
     DEF HandlerFails, DatabaseType, CommitsType, ProtocolType, WorldType
<1>8. CASE HandlerAbandoned
  <2>1. CASE alarm = delivering
    <3>1. WriteAlarm(NoAlarm, TRUE) /\ DeliveryType'
      BY <1>8, <2>1, FinishDeliveryTypes DEF HandlerAbandoned
    <3> QED
      BY <1>8, <3>1, WriteAlarmTypes, Constants
         DEF HandlerAbandoned, DatabaseType, CommitsType, CommitFields, ProtocolType, WorldType
  <2>2. CASE alarm # delivering
    <3>1. DeliveryType'
      BY <1>8, <2>2, Constants DEF HandlerAbandoned, ScheduleRun, DatabaseType, DeliveryType
    <3> QED
      BY <1>8, <2>2, <3>1
         DEF HandlerAbandoned, DatabaseType, CommitsType, ProtocolType, WorldType
  <2> QED
    BY <2>1, <2>2
<1>9. CASE LaterAnswered
  <2>1. PICK known \in {BelievedWhenAnswered(laterRequest), noLaterThan} :
          /\ IF known = BelievedWhenAnswered(laterRequest) THEN UNCHANGED world ELSE Fault
          /\ IF TakesUpParked
               THEN /\ ScheduleRun(pendingLater)
                    /\ laterRequest' = Request(known, pendingLater)
                    /\ noLaterThan' = BelievedAtOnce(known, pendingLater)
                    /\ UNCHANGED laterIsInFlight
               ELSE /\ laterIsInFlight' = FALSE
                    /\ laterRequest' = NoRequest
                    /\ noLaterThan' = known
                    /\ UNCHANGED scheduler
    BY <1>9 DEF LaterAnswered
  <2>2. known \in Alarms
    BY <1>9, <2>1, RequestTypes DEF LaterAnswered, ProtocolType
  <2>3. WorldType'
    BY <2>1, FaultTypes DEF WorldType
  <2>4. laterRequest' \in Requests /\ noLaterThan' \in Alarms /\ row' \in Alarms /\ entry' \in Alarms
    BY <2>1, <2>2, RequestTypes, Constants DEF TakesUpParked, ScheduleRun, ProtocolType, DeliveryType
  <2>5. laterIsInFlight' \in BOOLEAN
    BY <2>1 DEF ProtocolType
  <2> QED
    BY <1>9, <2>3, <2>4, <2>5
       DEF LaterAnswered, DatabaseType, CommitsType, ProtocolType, DeliveryType
<1>10. CASE LaterAnsweredThrows
  <2>1. noLaterThan' \in Alarms /\ WorldType'
    BY <1>10, RequestTypes, FaultTypes DEF LaterAnsweredThrows, TakesUpParked, ProtocolType
  <2> QED
    BY <1>10, <2>1, Constants
       DEF LaterAnsweredThrows, DatabaseType, CommitsType, ProtocolType, DeliveryType
<1> QED
  BY <1>1, <1>2, <1>3, <1>4, <1>5, <1>6, <1>7, <1>8, <1>9, <1>10 DEF AlarmDelivery

\* ... every failure and restart, and the clock.
LEMMA RestartTypes ==
  ASSUME TypeOK, Restart \/ TaskFailed \/ Shutdown \/ CriticalError \/ Tick PROVE TypeOK'
<1> USE DEF TypeOK, database, commits, breakage, protocol, movingLater, scheduler, delivery, world
<1>1. ASSUME Forget, row' \in Alarms, entry' \in Alarms, crashes' \in 0..MaxCrashes PROVE TypeOK'
  <2>1. DatabaseType'
    BY <1>1, EmptySeq DEF Forget, DatabaseType
  <2>2. CommitsType'
    BY <1>1, EmptySeq, Constants DEF Forget, CommitsType, CommitFields, CommitStates
  <2>3. ProtocolType' /\ DeliveryType' /\ WorldType'
    BY <1>1, Constants DEF Forget, DatabaseType, ProtocolType, DeliveryType, WorldType
  <2> QED
    BY <2>1, <2>2, <2>3
<1>2. CASE Crash
  BY <1>1, <1>2, ActorSqliteAssumption DEF Crash, DeliveryType, WorldType
<1>3. CASE CrashBeforeCommit
  BY <1>1, <1>3, ActorSqliteAssumption
     DEF CrashBeforeCommit, ScheduleRun, DatabaseType, WorldType
<1>4. CASE Evict
  BY <1>1, <1>4 DEF Evict, DeliveryType, WorldType
<1>5. CASE Start
  <2>1. row' \in Alarms /\ entry' \in Alarms
    BY <1>5 DEF Start, Reconcile, ScheduleRun, DatabaseType, DeliveryType
  <2> QED
    BY <1>5, <2>1 DEF Start, DatabaseType, CommitsType, ProtocolType, DeliveryType, WorldType
<1>6. CASE TaskFailed
  BY <1>6 DEF TaskFailed, DatabaseType, CommitsType, ProtocolType, DeliveryType, WorldType
<1>7. CASE Shutdown
  BY <1>7, FaultTypes DEF Shutdown, DatabaseType, CommitsType, ProtocolType, DeliveryType
<1>8. CASE CriticalError
  BY <1>8, FaultTypes DEF CriticalError, DatabaseType, CommitsType, ProtocolType, DeliveryType
<1>9. CASE Tick
  BY <1>9, ActorSqliteAssumption
     DEF Tick, NoAlarm, DatabaseType, CommitsType, ProtocolType, DeliveryType, WorldType
<1> QED
  BY <1>2, <1>3, <1>4, <1>5, <1>6, <1>7, <1>8, <1>9 DEF Restart

LEMMA StutterTypes == ASSUME TypeOK, UNCHANGED vars PROVE TypeOK'
  BY DEF vars, TypeOK, database, commits, breakage, protocol, movingLater, scheduler, delivery, world,
         DatabaseType, CommitsType, ProtocolType, DeliveryType, WorldType

\* A step that leaves an idle or a failed delivery, or one that settles a
\* commit, asks nothing of the scheduler.
LEMMA CancelStep == TypeOK /\ CancelWaits /\ [Next]_vars => CancelWaits'
<1> SUFFICES ASSUME TypeOK, CancelWaits, [Next]_vars PROVE CancelWaits'
  OBVIOUS
<1> USE DEF CancelWaits
<1>1. ASSUME handler' # "cancelling" \/ UNCHANGED <<handler, armRequest>> PROVE CancelWaits'
  BY <1>1
<1>2. ASSUME NEW k \in Commits, NEW failed, Settle(k, failed) PROVE CancelWaits'
  BY <1>2 DEF Settle
<1>3. ASSUME NEW retry, FinishDelivery(retry) PROVE CancelWaits'
  BY <1>3 DEF FinishDelivery
<1>4. CASE Application
  BY <1>1, <1>4
     DEF Application, AlarmCalls, OtherCalls, Put, SetAlarm, DeleteAll, TxnBegin, TxnCommitNested, TxnCommitRejected,
         TxnCommitFails, TxnRollback, TxnCommitRoot, delivery
<1>5. ASSUME NEW k \in Commits, Commit(k) \/ CommitFault(k) PROVE CancelWaits'
  BY <1>1, <1>2, <1>5
     DEF Commit, CommitFault, CommitImplicit, CommitImplicitFails, CommitDeleteAll,
         CommitDeleteAllFails, PrecommitAnswered, PrecommitFails, CommitPersisted, PersistFails,
         delivery
<1>6. CASE Deliver
  <2>1. CASE ArmCancel
    <3>1. armRequest' = Request(noLaterThan, alarm) /\ alarm \in Alarms
      BY <2>1 DEF ArmCancel, TypeOK, DatabaseType
    <3> QED
      BY <3>1, ActorSqliteAssumption DEF Request, NoRequest, Alarms, NoAlarm
  <2>2. CASE handler' = "running"
    BY <2>2
  <2> QED
    BY <1>6, <2>1, <2>2 DEF Deliver, ArmRun
<1>7. CASE AlarmDelivery /\ ~Deliver
  BY <1>1, <1>3, <1>7
     DEF AlarmDelivery, DeliverFails, CancelAnswered, HandlerReturns, HandlerThrows, HandlerEnds,
         HandlerSucceeds, HandlerFails, HandlerAbandoned, delivery
<1>8. CASE Restart
  BY <1>1, <1>8 DEF Restart, Crash, CrashBeforeCommit, Evict, Start, Forget, delivery
<1>9. CASE LaterAnswered \/ LaterAnsweredThrows \/ TaskFailed \/ Shutdown \/ CriticalError \/ Tick
  BY <1>1, <1>9
     DEF LaterAnswered, LaterAnsweredThrows, TaskFailed, Shutdown, CriticalError, Tick, delivery
<1>10. CASE UNCHANGED vars
  BY <1>1, <1>10 DEF vars, delivery
<1> QED
  BY <1>4, <1>5, <1>6, <1>7, <1>8, <1>9, <1>10 DEF Next, Runtime

LEMMA TypeStep == TypeOK /\ CancelWaits /\ [Next]_vars => TypeOK'
  BY ApplicationTypes, CommitTypes, DeliveryTypes, RestartTypes, StutterTypes DEF Next, Runtime

\* Whatever the application, the scheduler and the failures do, every variable
\* keeps its type.
THEOREM Typing == Spec => []TypeOK
<1>1. Init => CancelWaits
  BY DEF Init, CancelWaits
<1> QED
  BY <1>1, InitType, TypeStep, CancelStep, PTL DEF Spec

-----------------------------------------------------------------------------
(***************************************************************************)
(* The commits                                                             *)
(*                                                                         *)
(* OpenTxnWillCommit, MergedCommitsAreLed and GateWaitsForCommits depend   *)
(* on each other, through the state a commit is in, and on two more facts: *)
(* #pendingCommit names a commit that is still asking for an earlier       *)
(* alarm, and each commit that waits for commitCallback() does so once.    *)
(***************************************************************************)

PendingIsAsking == pendingCommit \in Commits => pc[pendingCommit] = "prealarm"

PersistingOnce ==
  /\ \A i \in 1..Len(persisting) : pc[persisting[i]] = "callback"
  /\ \A i, j \in 1..Len(persisting) : i # j => persisting[i] # persisting[j]

RoundInv ==
  MergedCommitsAreLed /\ GateWaitsForCommits /\ PendingIsAsking /\ PersistingOnce

CommitsInv == OpenTxnWillCommit /\ RoundInv

round == <<pc, persisting, leader, locked, pendingCommit>>

LEMMA InitCommits == Init => CommitsInv
  BY Constants
     DEF Init, CommitsInv, RoundInv, OpenTxnWillCommit, MergedCommitsAreLed,
         GateWaitsForCommits, PendingIsAsking, PersistingOnce

\* The first write of a transaction queues its commit, whose name was free.
LEMMA WriteKeeps ==
  ASSUME TypeOK, CommitsInv, NEW confirmed \in BOOLEAN, Write(confirmed),
         UNCHANGED <<persisting, leader, pendingCommit>>
  PROVE  CommitsInv'
<1>1. CASE ImplicitWrite(confirmed)
  <2>1. PICK k \in Commits :
          /\ IF implicit = None
               THEN /\ Fresh(k)
                    /\ pc' = [pc EXCEPT ![k] = "queued"]
                    /\ checkpoint' = Append(checkpoint, k)
               ELSE k = implicit /\ UNCHANGED <<pc, checkpoint>>
          /\ implicit' = k
          /\ locked' = IF confirmed THEN locked \cup {k} ELSE locked
    BY <1>1 DEF ImplicitWrite
  <2>2. CASE implicit = None
    <3>1. /\ pc[k] = "free" /\ pc'[k] = "queued"
          /\ \A j \in Commits : j # k => pc'[j] = pc[j]
      BY <2>1, <2>2 DEF Fresh, TypeOK, CommitsType
    <3>2. OpenTxnWillCommit'
      <4>1. /\ Len(checkpoint') = Len(checkpoint) + 1
            /\ checkpoint'[Len(checkpoint) + 1] = k
            /\ Len(checkpoint) \in Nat
        BY <2>1, <2>2, AppendProperties, LenProperties DEF TypeOK, CommitsType
      <4> QED
        BY <2>1, <3>1, <4>1 DEF OpenTxnWillCommit
    <3>3. MergedCommitsAreLed' /\ GateWaitsForCommits' /\ PendingIsAsking'
      BY <2>1, <3>1
         DEF CommitsInv, RoundInv, MergedCommitsAreLed, GateWaitsForCommits, PendingIsAsking,
             TypeOK, CommitsType
    <3>4. PersistingOnce'
      <4>1. \A i \in 1..Len(persisting) : persisting[i] \in Commits
        BY ElementOfSeq DEF TypeOK, CommitsType
      <4> QED
        BY <3>1, <4>1 DEF CommitsInv, RoundInv, PersistingOnce
    <3> QED
      BY <3>2, <3>3, <3>4 DEF CommitsInv, RoundInv
  <2>3. CASE implicit # None
    <3>1. UNCHANGED <<pc, checkpoint, implicit>> /\ pc[k] = "queued"
      BY <2>1, <2>3 DEF CommitsInv, OpenTxnWillCommit
    <3> QED
      BY <2>1, <3>1
         DEF CommitsInv, RoundInv, OpenTxnWillCommit, MergedCommitsAreLed, GateWaitsForCommits,
             PendingIsAsking, PersistingOnce
  <2> QED
    BY <2>2, <2>3
<1>2. CASE ExplicitWrite(confirmed)
  BY <1>2
     DEF ExplicitWrite, CommitsInv, RoundInv, OpenTxnWillCommit, MergedCommitsAreLed,
         GateWaitsForCommits, PendingIsAsking, PersistingOnce
<1> QED
  BY <1>1, <1>2 DEF Write

\* An implicit transaction that stays open keeps its commit in the queue: only
\* its own commit is taken from the head.
LEMMA QueueKeeps ==
  ASSUME TypeOK, OpenTxnWillCommit, implicit' \in {implicit, None},
         implicit' # None => pc'[implicit] = pc[implicit],
         \/ checkpoint' = checkpoint
         \/ /\ checkpoint # <<>> /\ checkpoint' = Tail(checkpoint)
            /\ implicit' # None => Head(checkpoint) # implicit
  PROVE  OpenTxnWillCommit'
<1> SUFFICES ASSUME implicit' # None
             PROVE  pc'[implicit] = "queued" /\ \E i \in 1..Len(checkpoint') : checkpoint'[i] = implicit
  BY DEF OpenTxnWillCommit
<1>1. PICK i \in 1..Len(checkpoint) : checkpoint[i] = implicit
  BY DEF OpenTxnWillCommit
<1>2. CASE checkpoint' = checkpoint
  BY <1>1, <1>2 DEF OpenTxnWillCommit
<1>3. CASE checkpoint # <<>> /\ checkpoint' = Tail(checkpoint) /\ Head(checkpoint) # implicit
  <2>1. /\ Len(checkpoint) \in Nat \ {0} /\ Len(Tail(checkpoint)) = Len(checkpoint) - 1
        /\ \A j \in 1..Len(Tail(checkpoint)) : Tail(checkpoint)[j] = checkpoint[j + 1]
    BY <1>3, EmptySeq, HeadTailProperties DEF TypeOK, CommitsType
  <2>2. i # 1
    BY <1>1, <1>3 DEF TypeOK, CommitsType
  <2>3. i - 1 \in 1..Len(Tail(checkpoint)) /\ (i - 1) + 1 = i
    BY <2>1, <2>2
  <2>4. checkpoint'[i - 1] = implicit
    BY <1>1, <1>3, <2>1, <2>3
  <2> QED
    BY <1>3, <2>3, <2>4 DEF OpenTxnWillCommit
<1> QED
  BY <1>2, <1>3

\* A commit that starts joins the round of #pendingCommit, begins one, or
\* waits for commitCallback().
LEMMA EnterKeeps ==
  ASSUME TypeOK, RoundInv, NEW k \in Commits, EnterCommit(k),
         pc[k] \in {"free", "queued", "queuedDeleteAll"}, locked' \subseteq locked \cup {k}
  PROVE  RoundInv' /\ \A j \in Commits : j # k => pc'[j] = pc[j]
<1>1. \A i \in 1..Len(persisting) : persisting[i] \in Commits /\ persisting[i] # k
  BY ElementOfSeq DEF TypeOK, CommitsType, RoundInv, PersistingOnce
<1>2. /\ pc'[k] \in {"merged", "prealarm", "callback"}
      /\ \A j \in Commits : j # k => pc'[j] = pc[j]
  BY DEF EnterCommit, CallCommitCallback, TypeOK, CommitsType
<1>3. GateWaitsForCommits'
  BY <1>2 DEF RoundInv, GateWaitsForCommits, TypeOK, CommitsType
<1>4. CASE /\ pendingCommit \in Commits
           /\ leader' = [leader EXCEPT ![k] = pendingCommit]
           /\ pc' = [pc EXCEPT ![k] = "merged"]
           /\ UNCHANGED <<persisting, captured, pendingCommit, pendingLater, scheduler>>
  <2>1. MergedCommitsAreLed' /\ PendingIsAsking'
    BY <1>2, <1>4 DEF RoundInv, MergedCommitsAreLed, PendingIsAsking, TypeOK, CommitsType
  <2>2. PersistingOnce'
    BY <1>1, <1>2, <1>4 DEF RoundInv, PersistingOnce
  <2> QED
    BY <1>2, <1>3, <2>1, <2>2 DEF RoundInv
<1>5. CASE /\ pc' = [pc EXCEPT ![k] = "prealarm"]
           /\ pendingCommit' = k
           /\ UNCHANGED <<persisting, leader>>
  <2>1. MergedCommitsAreLed' /\ PendingIsAsking'
    BY <1>2, <1>5 DEF RoundInv, MergedCommitsAreLed, PendingIsAsking, TypeOK, CommitsType
  <2>2. PersistingOnce'
    BY <1>1, <1>2, <1>5 DEF RoundInv, PersistingOnce
  <2> QED
    BY <1>2, <1>3, <2>1, <2>2 DEF RoundInv
<1>6. CASE CallCommitCallback(k) /\ UNCHANGED leader
  <2>1. /\ pc' = [pc EXCEPT ![k] = "callback"] /\ pendingCommit' = None
        /\ persisting' = Append(persisting, k)
    BY <1>6 DEF CallCommitCallback
  <2>2. MergedCommitsAreLed' /\ PendingIsAsking'
    BY <1>2, <1>6, <2>1, Constants
       DEF RoundInv, MergedCommitsAreLed, PendingIsAsking, TypeOK, CommitsType
  <2>3. PersistingOnce'
    <3>1. /\ Len(persisting) \in Nat /\ Len(persisting') = Len(persisting) + 1
          /\ \A i \in 1..Len(persisting) : persisting'[i] = persisting[i]
          /\ persisting'[Len(persisting) + 1] = k
      BY <2>1, AppendProperties, LenProperties DEF TypeOK, CommitsType
    <3>2. pc'[k] = "callback"
      BY <2>1 DEF TypeOK, CommitsType
    <3> QED
      BY <1>1, <1>2, <3>1, <3>2 DEF RoundInv, PersistingOnce
  <2> QED
    BY <1>2, <1>3, <2>2, <2>3 DEF RoundInv
<1> QED
  BY <1>4, <1>5, <1>6 DEF EnterCommit

\* A commit that settles frees those that were merged into it and the gate,
\* and no one else waits for it.
LEMMA SettleKeeps ==
  ASSUME TypeOK, RoundInv, NEW k \in Commits, NEW failed, Settle(k, failed),
         pc[k] \notin {"free", "merged"},
         \/ UNCHANGED pendingCommit /\ pc[k] # "prealarm"
         \/ pendingCommit' = Rejected,
         \/ UNCHANGED persisting /\ pc[k] # "callback"
         \/ persisting # <<>> /\ k = Head(persisting) /\ persisting' = Tail(persisting)
  PROVE  RoundInv' /\ \A j \in Commits : pc[j] # "merged" /\ j # k => pc'[j] = pc[j]
<1>1. /\ \A j \in Commits : pc'[j] = IF j \in SettledBy(k) THEN "free" ELSE pc[j]
      /\ \A j \in Commits : leader'[j] = IF j \in SettledBy(k) THEN None ELSE leader[j]
      /\ locked' = locked \ SettledBy(k)
  BY DEF Settle, Unlock
<1>2. \A j \in Commits : j \in SettledBy(k) <=> j = k \/ (pc[j] = "merged" /\ leader[j] = k)
  BY DEF SettledBy
<1>3. \A j \in Commits : pc[j] # "merged" /\ j # k => pc'[j] = pc[j]
  BY <1>1, <1>2
<1>4. MergedCommitsAreLed' /\ GateWaitsForCommits'
  <2>1. ASSUME NEW j \in Commits, pc'[j] = "merged"
        PROVE  leader'[j] \in Commits /\ pc'[leader'[j]] \in {"prealarm", "callback"}
    <3>1. pc[j] = "merged" /\ leader[j] # k /\ leader'[j] = leader[j]
      BY <1>1, <1>2, <2>1
    <3>2. leader[j] \in Commits /\ pc[leader[j]] \in {"prealarm", "callback"}
      BY <3>1 DEF RoundInv, MergedCommitsAreLed
    <3> QED
      BY <1>3, <3>1, <3>2
  <2>2. GateWaitsForCommits'
    BY <1>1 DEF RoundInv, GateWaitsForCommits, TypeOK, CommitsType
  <2> QED
    BY <2>1, <2>2 DEF MergedCommitsAreLed
<1>5. PendingIsAsking'
  BY <1>3, Constants DEF RoundInv, PendingIsAsking
<1>6. PersistingOnce'
  <2>1. \A i \in 1..Len(persisting) : persisting[i] \in Commits
    BY ElementOfSeq DEF TypeOK, CommitsType
  <2>2. CASE UNCHANGED persisting /\ pc[k] # "callback"
    BY <1>3, <2>1, <2>2 DEF RoundInv, PersistingOnce
  <2>3. CASE persisting # <<>> /\ k = Head(persisting) /\ persisting' = Tail(persisting)
    <3>1. /\ Len(persisting) \in Nat \ {0} /\ Len(persisting') = Len(persisting) - 1
          /\ \A i \in 1..Len(persisting') : persisting'[i] = persisting[i + 1]
      BY <2>3, EmptySeq, HeadTailProperties DEF TypeOK, CommitsType
    <3>2. persisting[1] = k
      BY <2>3 DEF TypeOK, CommitsType
    <3>3. \A i \in 1..Len(persisting') : i + 1 \in 1..Len(persisting) /\ i + 1 # 1
      BY <3>1
    <3>4. 1 \in 1..Len(persisting)
      BY <3>1
    <3>5. \A i \in 1..Len(persisting') :
            /\ persisting'[i] \in Commits /\ persisting'[i] # k
            /\ pc[persisting'[i]] = "callback"
      BY <2>1, <3>1, <3>2, <3>3, <3>4 DEF RoundInv, PersistingOnce
    <3>6. \A i, j \in 1..Len(persisting') : i # j => persisting'[i] # persisting'[j]
      BY <3>1, <3>3 DEF RoundInv, PersistingOnce
    <3> QED
      BY <1>3, <3>5, <3>6 DEF PersistingOnce
  <2> QED
    BY <2>2, <2>3
<1> QED
  BY <1>3, <1>4, <1>5, <1>6 DEF RoundInv

\* A step that touches neither the commits nor the gate, or starts from scratch.
LEMMA IdleKeeps ==
  ASSUME TypeOK, CommitsInv, UNCHANGED round, UNCHANGED checkpoint, implicit' \in {implicit, None}
  PROVE  CommitsInv'
<1>1. OpenTxnWillCommit'
  BY QueueKeeps DEF CommitsInv, round
<1>2. RoundInv'
  BY DEF round, CommitsInv, RoundInv, MergedCommitsAreLed, GateWaitsForCommits, PendingIsAsking,
         PersistingOnce
<1> QED
  BY <1>1, <1>2 DEF CommitsInv

LEMMA ForgetKeeps == ASSUME Forget PROVE CommitsInv'
  BY Constants
     DEF Forget, CommitsInv, RoundInv, OpenTxnWillCommit, MergedCommitsAreLed,
         GateWaitsForCommits, PendingIsAsking, PersistingOnce

LEMMA WriteAlarmKeeps ==
  ASSUME TypeOK, CommitsInv, NEW time \in Alarms, NEW confirmed \in BOOLEAN,
         WriteAlarm(time, confirmed), UNCHANGED <<persisting, leader, pendingCommit>>
  PROVE  CommitsInv'
<1>1. CASE ImplicitWrite(confirmed)
  BY <1>1, WriteKeeps DEF Write
<1>2. CASE UNCHANGED <<pc, checkpoint, implicit, locked>>
  BY <1>2, IdleKeeps DEF round
<1> QED
  BY <1>1, <1>2 DEF WriteAlarm

LEMMA ApplicationKeepsCommits == ASSUME TypeOK, CommitsInv, Application PROVE CommitsInv'
<1> USE DEF commits, round
<1>1. ASSUME NEW confirmed \in BOOLEAN, Put(confirmed) PROVE CommitsInv'
  BY <1>1, WriteKeeps DEF Put
<1>2. ASSUME NEW time \in Alarms, NEW confirmed \in BOOLEAN, SetAlarm(time, confirmed)
      PROVE  CommitsInv'
  BY <1>2, WriteAlarmKeeps DEF SetAlarm
<1>3. CASE DeleteAll
  <2>1. CASE deleteAllScheduled
    BY <1>3, <2>1, IdleKeeps DEF DeleteAll
  <2>2. CASE ~deleteAllScheduled
    <3>1. PICK k \in Commits : /\ Fresh(k)
                               /\ pc' = [pc EXCEPT ![k] = "queuedDeleteAll"]
                               /\ locked' = locked \cup {k}
      BY <1>3, <2>2 DEF DeleteAll
    <3>2. /\ pc[k] = "free" /\ pc'[k] = "queuedDeleteAll"
          /\ \A j \in Commits : j # k => pc'[j] = pc[j]
          /\ UNCHANGED <<persisting, leader, pendingCommit>> /\ implicit' = None
      BY <1>3, <3>1 DEF DeleteAll, Fresh, TypeOK, CommitsType
    <3>3. MergedCommitsAreLed' /\ GateWaitsForCommits' /\ PendingIsAsking' /\ OpenTxnWillCommit'
      BY <3>1, <3>2
         DEF CommitsInv, RoundInv, MergedCommitsAreLed, GateWaitsForCommits, PendingIsAsking,
             OpenTxnWillCommit, TypeOK, CommitsType
    <3>4. PersistingOnce'
      <4>1. \A i \in 1..Len(persisting) : persisting[i] \in Commits
        BY ElementOfSeq DEF TypeOK, CommitsType
      <4> QED
        BY <3>2, <4>1 DEF CommitsInv, RoundInv, PersistingOnce
    <3> QED
      BY <3>3, <3>4 DEF CommitsInv, RoundInv
  <2> QED
    BY <2>1, <2>2
<1>4. CASE TxnBegin \/ TxnCommitNested \/ TxnCommitRejected \/ TxnCommitFails \/ TxnRollback
  BY <1>4, IdleKeeps
     DEF TxnBegin, TxnCommitNested, TxnCommitRejected, TxnCommitFails, TxnRollback
<1>5. ASSUME NEW k \in Commits, TxnCommitRoot(k) PROVE CommitsInv'
  <2>1. /\ pc[k] = "free" /\ EnterCommit(k) /\ locked' \subseteq locked \cup {k}
        /\ UNCHANGED <<implicit, checkpoint>>
    BY <1>5 DEF TxnCommitRoot, Fresh
  <2>2. RoundInv' /\ \A j \in Commits : j # k => pc'[j] = pc[j]
    BY <2>1, EnterKeeps DEF CommitsInv
  <2>3. OpenTxnWillCommit'
    BY <2>1, <2>2, QueueKeeps DEF CommitsInv, OpenTxnWillCommit, TypeOK, DatabaseType
  <2> QED
    BY <2>2, <2>3 DEF CommitsInv
<1> QED
  BY <1>1, <1>2, <1>3, <1>4, <1>5 DEF Application, AlarmCalls, OtherCalls

LEMMA CommitKeepsCommits ==
  ASSUME TypeOK, CommitsInv, NEW k \in Commits, Commit(k) \/ CommitFault(k) PROVE CommitsInv'
<1> USE DEF CommitsInv
<1>1. ASSUME NEW kind, AtCheckpointEnd(k, kind)
      PROVE  /\ pc[k] = kind /\ checkpoint # <<>> /\ Head(checkpoint) = k
             /\ checkpoint' = Tail(checkpoint)
  BY <1>1 DEF AtCheckpointEnd
<1>2. implicit \in Commits \cup {None} /\ (implicit # None => pc[implicit] = "queued")
  BY DEF TypeOK, DatabaseType, OpenTxnWillCommit
<1>3. CASE CommitImplicit(k)
  <2>1. /\ EnterCommit(k) /\ implicit' = OpenAfter(k) /\ locked' = locked
        /\ AtCheckpointEnd(k, "queued")
    BY <1>3 DEF CommitImplicit
  <2>2. RoundInv' /\ \A j \in Commits : j # k => pc'[j] = pc[j]
    BY <1>1, <2>1, EnterKeeps
  <2>3. OpenTxnWillCommit'
    BY <1>1, <1>2, <2>1, <2>2, QueueKeeps DEF OpenAfter
  <2> QED
    BY <2>2, <2>3
<1>4. CASE CommitImplicitFails(k)
  <2>1. /\ Settle(k, {k}) /\ implicit' = OpenAfter(k) /\ UNCHANGED <<persisting, pendingCommit>>
        /\ AtCheckpointEnd(k, "queued")
    BY <1>4 DEF CommitImplicitFails
  <2>2. RoundInv' /\ \A j \in Commits : pc[j] # "merged" /\ j # k => pc'[j] = pc[j]
    BY <1>1, <2>1, SettleKeeps
  <2>3. OpenTxnWillCommit'
    BY <1>1, <1>2, <2>1, <2>2, QueueKeeps DEF OpenAfter
  <2> QED
    BY <2>2, <2>3
<1>5. CASE CommitDeleteAll(k) /\ implicit # None
  <2>1. /\ Settle(k, {}) /\ implicit' = implicit /\ UNCHANGED <<persisting, pendingCommit>>
        /\ AtCheckpointEnd(k, "queuedDeleteAll")
    BY <1>5 DEF CommitDeleteAll, database
  <2>2. RoundInv' /\ \A j \in Commits : pc[j] # "merged" /\ j # k => pc'[j] = pc[j]
    BY <1>1, <2>1, SettleKeeps
  <2>3. OpenTxnWillCommit'
    BY <1>1, <1>2, <2>1, <2>2, QueueKeeps
  <2> QED
    BY <2>2, <2>3
<1>6. CASE CommitDeleteAll(k) /\ implicit = None
  <2>1. /\ EnterCommit(k) /\ implicit' = None /\ locked' = locked
        /\ AtCheckpointEnd(k, "queuedDeleteAll")
    BY <1>6 DEF CommitDeleteAll, database
  <2>2. RoundInv'
    BY <1>1, <2>1, EnterKeeps
  <2> QED
    BY <2>1, <2>2 DEF OpenTxnWillCommit
<1>7. CASE CommitDeleteAllFails(k)
  <2>1. /\ Settle(k, {k}) /\ implicit' = implicit /\ UNCHANGED <<persisting, pendingCommit>>
        /\ AtCheckpointEnd(k, "queuedDeleteAll")
    BY <1>7 DEF CommitDeleteAllFails, database
  <2>2. RoundInv' /\ \A j \in Commits : pc[j] # "merged" /\ j # k => pc'[j] = pc[j]
    BY <1>1, <2>1, SettleKeeps
  <2>3. OpenTxnWillCommit'
    BY <1>1, <1>2, <2>1, <2>2, QueueKeeps
  <2> QED
    BY <2>2, <2>3
<1>8. CASE PrecommitAnswered(k)
  <2>1. /\ pc[k] = "prealarm" /\ UNCHANGED <<implicit, checkpoint, leader, locked>>
    BY <1>8 DEF PrecommitAnswered, database
  <2>2. CASE UNCHANGED <<pc, persisting, pendingCommit>>
    BY <2>1, <2>2, IdleKeeps DEF round
  <2>3. CASE CallCommitCallback(k)
    <3>1. /\ pc' = [pc EXCEPT ![k] = "callback"] /\ pendingCommit' = None
          /\ persisting' = Append(persisting, k)
      BY <2>3 DEF CallCommitCallback
    <3>2. pc'[k] = "callback" /\ \A j \in Commits : j # k => pc'[j] = pc[j]
      BY <3>1 DEF TypeOK, CommitsType
    <3>3. MergedCommitsAreLed' /\ GateWaitsForCommits' /\ PendingIsAsking'
      BY <2>1, <3>1, <3>2, Constants
         DEF RoundInv, MergedCommitsAreLed, GateWaitsForCommits, PendingIsAsking, TypeOK, CommitsType
    <3>4. PersistingOnce'
      <4>1. /\ Len(persisting) \in Nat /\ Len(persisting') = Len(persisting) + 1
            /\ \A i \in 1..Len(persisting) : persisting'[i] = persisting[i]
            /\ persisting'[Len(persisting) + 1] = k
        BY <3>1, AppendProperties, LenProperties DEF TypeOK, CommitsType
      <4>2. \A i \in 1..Len(persisting) : persisting[i] \in Commits /\ persisting[i] # k
        BY <2>1, ElementOfSeq DEF TypeOK, CommitsType, RoundInv, PersistingOnce
      <4> QED
        BY <3>2, <4>1, <4>2 DEF RoundInv, PersistingOnce
    <3>5. OpenTxnWillCommit'
      BY <1>2, <2>1, <3>2, QueueKeeps
    <3> QED
      BY <3>3, <3>4, <3>5 DEF RoundInv
  <2> QED
    BY <1>8, <2>2, <2>3 DEF PrecommitAnswered
<1>9. CASE PrecommitFails(k)
  <2>1. /\ pc[k] = "prealarm" /\ Settle(k, SettledBy(k)) /\ pendingCommit' = Rejected
        /\ UNCHANGED <<implicit, checkpoint, persisting>>
    BY <1>9 DEF PrecommitFails, database
  <2>2. RoundInv' /\ \A j \in Commits : pc[j] # "merged" /\ j # k => pc'[j] = pc[j]
    BY <2>1, SettleKeeps
  <2>3. OpenTxnWillCommit'
    BY <1>2, <2>1, <2>2, QueueKeeps
  <2> QED
    BY <2>2, <2>3
<1>10. ASSUME NEW failed, Persisted(k), Settle(k, failed), UNCHANGED <<database, checkpoint, pendingCommit>>
       PROVE  CommitsInv'
  <2>1. /\ persisting # <<>> /\ Head(persisting) = k /\ persisting' = Tail(persisting)
        /\ UNCHANGED <<implicit, checkpoint>>
    BY <1>10 DEF Persisted, database
  <2>2. pc[k] = "callback"
    <3>1. persisting[1] = k /\ 1 \in 1..Len(persisting)
      BY <2>1, EmptySeq DEF TypeOK, CommitsType
    <3> QED
      BY <3>1 DEF RoundInv, PersistingOnce
  <2>3. RoundInv' /\ \A j \in Commits : pc[j] # "merged" /\ j # k => pc'[j] = pc[j]
    BY <1>10, <2>1, <2>2, SettleKeeps
  <2>4. OpenTxnWillCommit'
    BY <1>2, <2>1, <2>2, <2>3, QueueKeeps
  <2> QED
    BY <2>3, <2>4
<1>11. CASE CommitPersisted(k)
  BY <1>10, <1>11 DEF CommitPersisted
<1>12. CASE PersistFails(k)
  <2>1. PICK failed : Settle(k, failed)
    BY <1>12 DEF PersistFails
  <2> QED
    BY <1>10, <1>12, <2>1 DEF PersistFails
<1> QED
  BY <1>3, <1>4, <1>5, <1>6, <1>7, <1>8, <1>9, <1>11, <1>12 DEF Commit, CommitFault

LEMMA CommitsStep == TypeOK /\ CommitsInv /\ [Next]_vars => CommitsInv'
<1> SUFFICES ASSUME TypeOK, CommitsInv, [Next]_vars PROVE CommitsInv'
  OBVIOUS
<1> USE DEF database, commits, round
<1>1. CASE HandlerSucceeds
  <2>1. UNCHANGED <<persisting, leader, pendingCommit>>
    BY <1>1 DEF HandlerSucceeds
  <2>2. CASE Write(TRUE)
    BY <2>1, <2>2, WriteKeeps
  <2>3. CASE UNCHANGED <<pc, checkpoint, implicit, locked>>
    BY <2>1, <2>3, IdleKeeps
  <2> QED
    BY <1>1, <2>2, <2>3 DEF HandlerSucceeds
<1>2. CASE HandlerAbandoned
  <2>1. UNCHANGED <<persisting, leader, pendingCommit>>
    BY <1>2 DEF HandlerAbandoned
  <2>2. CASE WriteAlarm(NoAlarm, TRUE)
    BY <2>1, <2>2, WriteAlarmKeeps, Constants
  <2>3. CASE UNCHANGED <<pc, checkpoint, implicit, locked>>
    BY <2>1, <2>3, IdleKeeps
  <2> QED
    BY <1>2, <2>2, <2>3 DEF HandlerAbandoned
<1>3. CASE AlarmDelivery /\ ~HandlerSucceeds /\ ~HandlerAbandoned
  BY <1>3, IdleKeeps
     DEF AlarmDelivery, Deliver, DeliverFails, CancelAnswered, HandlerReturns, HandlerThrows,
         HandlerEnds, HandlerFails
<1>4. CASE Restart
  BY <1>4, IdleKeeps, ForgetKeeps DEF Restart, Crash, CrashBeforeCommit, Evict, Start
<1>5. CASE LaterAnswered \/ LaterAnsweredThrows \/ TaskFailed \/ Shutdown \/ CriticalError \/ Tick
  BY <1>5, IdleKeeps
     DEF LaterAnswered, LaterAnsweredThrows, TaskFailed, Shutdown, CriticalError, Tick
<1>6. CASE UNCHANGED vars
  BY <1>6, IdleKeeps DEF vars
<1> QED
  BY <1>1, <1>2, <1>3, <1>4, <1>5, <1>6, ApplicationKeepsCommits, CommitKeepsCommits DEF Next, Runtime

LEMMA CommitsInvariant == Spec => []CommitsInv
<1>1. Init => CancelWaits
  BY DEF Init, CancelWaits
<1> QED
  BY <1>1, InitType, InitCommits, TypeStep, CancelStep, CommitsStep, PTL DEF Spec

\* Between transactions, deleteAll() and failures no write is left in an
\* implicit transaction without a commit queued for it.
THEOREM WritesWillCommit == Spec => []OpenTxnWillCommit
  BY CommitsInvariant, PTL DEF CommitsInv

\* A commit merged into another always has one in progress to wait for.
THEOREM MergingIsSafe == Spec => []MergedCommitsAreLed
  BY CommitsInvariant, PTL DEF CommitsInv, RoundInv

\* The output gate is locked on commits in progress only.
THEOREM GateIsReleased == Spec => []GateWaitsForCommits
  BY CommitsInvariant, PTL DEF CommitsInv, RoundInv

-----------------------------------------------------------------------------
(***************************************************************************)
(* The connection and the file                                             *)
(*                                                                         *)
(* That they agree outside of transactions is inductive once the outermost *)
(* savepoint is known to hold the alarm of the file: no implicit           *)
(* transaction, and so no commit, changes the file below it.               *)
(***************************************************************************)

SavepointInv ==
  ~broken /\ frames # <<>> => implicit = None /\ frames[1].alarm = file

CacheInv == CacheMatchesFile /\ SavepointInv

LEMMA CacheStutter ==
  ASSUME CacheInv, UNCHANGED <<file, alarm, implicit, frames>>, broken => broken'
  PROVE  CacheInv'
  BY DEF CacheInv, CacheMatchesFile, SavepointInv

\* Neither marking nor ending the innermost transaction disturbs the outermost.
LEMMA OutermostMarked ==
  ASSUME NEW open \in Seq(Frames), open # <<>>, NEW dirty \in BOOLEAN, NEW confirmed \in BOOLEAN
  PROVE  /\ MarkLast(open, dirty, confirmed) # <<>>
         /\ MarkLast(open, dirty, confirmed)[1].alarm = open[1].alarm
<1>1. Len(open) \in Nat \ {0} /\ Len(MarkLast(open, dirty, confirmed)) = Len(open)
  BY EmptySeq, MarkLastType
<1>2. MarkLast(open, dirty, confirmed) # <<>>
  BY <1>1, EmptySeq
<1>3. 1 \in 1..Len(open)
  BY <1>1
<1> QED
  BY <1>2, <1>3, MarkLastType

LEMMA OutermostPopped ==
  ASSUME NEW open \in Seq(Frames), open # <<>>, Len(open) # 1
  PROVE  Pop(open) # <<>> /\ Pop(open)[1] = open[1]
<1>1. Len(open) \in Nat \ {0} /\ Len(Pop(open)) = Len(open) - 1
  BY EmptySeq, PopProperties
<1>2. Pop(open) # <<>>
  BY <1>1, EmptySeq
<1>3. 1 \in 1..(Len(open) - 1)
  BY <1>1
<1> QED
  BY <1>2, <1>3, PopProperties

\* A write opens an implicit transaction or is made in an explicit one, whose
\* savepoint it leaves alone.
LEMMA WriteKeepsCache ==
  ASSUME TypeOK, CacheInv, NEW confirmed \in BOOLEAN, Write(confirmed), UNCHANGED <<file, broken>>
  PROVE  CacheInv'
<1>1. CASE ImplicitWrite(confirmed)
  BY <1>1, Constants DEF ImplicitWrite, CacheInv, CacheMatchesFile, SavepointInv
<1>2. CASE ExplicitWrite(confirmed)
  <2>1. /\ frames # <<>> /\ frames' = MarkLast(frames, FALSE, confirmed)
        /\ implicit' = implicit /\ frames \in Seq(Frames)
    BY <1>2 DEF ExplicitWrite, TypeOK, DatabaseType
  <2>2. frames'[1].alarm = frames[1].alarm /\ frames' # <<>>
    BY <2>1, OutermostMarked
  <2> QED
    BY <2>1, <2>2 DEF CacheInv, CacheMatchesFile, SavepointInv
<1> QED
  BY <1>1, <1>2 DEF Write

LEMMA WriteAlarmKeepsCache ==
  ASSUME TypeOK, CacheInv, NEW time \in Alarms, NEW confirmed \in BOOLEAN,
         WriteAlarm(time, confirmed), UNCHANGED <<file, broken>>
  PROVE  CacheInv'
<1>1. CASE frames = <<>> /\ time # alarm
  BY <1>1, WriteKeepsCache DEF WriteAlarm, Write
<1>2. CASE frames = <<>> /\ time = alarm
  BY <1>2, CacheStutter DEF WriteAlarm
<1>3. CASE frames # <<>>
  <2>1. frames' = MarkLast(frames, TRUE, confirmed /\ time # alarm) /\ implicit' = implicit
    BY <1>3 DEF WriteAlarm
  <2>2. frames'[1].alarm = frames[1].alarm /\ frames' # <<>>
    <3>1. (confirmed /\ time # alarm) \in BOOLEAN
      OBVIOUS
    <3> QED
      BY <1>3, <2>1, <3>1, OutermostMarked DEF TypeOK, DatabaseType
  <2> QED
    BY <1>3, <2>1, <2>2 DEF CacheInv, CacheMatchesFile, SavepointInv
<1> QED
  BY <1>1, <1>2, <1>3

LEMMA ApplicationKeepsCache == ASSUME TypeOK, CacheInv, Application PROVE CacheInv'
<1> USE DEF breakage
<1>1. ASSUME NEW confirmed \in BOOLEAN, Put(confirmed) PROVE CacheInv'
  BY <1>1, WriteKeepsCache DEF Put
<1>2. ASSUME NEW time \in Alarms, NEW confirmed \in BOOLEAN, SetAlarm(time, confirmed)
      PROVE  CacheInv'
  BY <1>2, WriteAlarmKeepsCache DEF SetAlarm
<1>3. CASE DeleteAll
  BY <1>3 DEF DeleteAll, CacheInv, CacheMatchesFile, SavepointInv
<1>4. CASE TxnBegin
  <2>1. ~broken /\ implicit' = None /\ frames' # <<>>
    BY <1>4, AppendProperties DEF TxnBegin, Usable, TypeOK, DatabaseType
  <2>2. frames'[1].alarm = file'
    <3>1. CASE frames = <<>>
      <4>1. frames'[1].alarm = alarm
        BY <1>4, <3>1 DEF TxnBegin
      <4>2. file' = alarm
        BY <1>4, <2>1, <3>1 DEF TxnBegin, CacheInv, CacheMatchesFile
      <4> QED
        BY <4>1, <4>2
    <3>2. CASE frames # <<>>
      <4>1. file' = file /\ frames[1].alarm = file
        BY <1>4, <2>1, <3>2 DEF TxnBegin, CacheInv, SavepointInv
      <4>2. frames'[1] = frames[1]
        BY <1>4, <3>2 DEF TxnBegin, TypeOK, DatabaseType
      <4> QED
        BY <4>1, <4>2
    <3> QED
      BY <3>1, <3>2
  <2> QED
    BY <2>1, <2>2 DEF CacheInv, CacheMatchesFile, SavepointInv
<1>5. CASE TxnCommitNested
  <2>1. /\ frames \in Seq(Frames) /\ frames # <<>> /\ Len(frames) \in Nat /\ Len(frames) > 1
        /\ UNCHANGED <<file, implicit, broken>>
    BY <1>5 DEF TxnCommitNested, TypeOK, DatabaseType
  <2>2. /\ Pop(frames) \in Seq(Frames) /\ Pop(frames) # <<>> /\ Pop(frames)[1] = frames[1]
        /\ Last(frames) \in Frames
    BY <2>1, OutermostPopped, PopProperties
  <2> DEFINE dirty == Last(frames).dirty
             confirmed == Last(frames).confirmed
  <2>3. dirty \in BOOLEAN /\ confirmed \in BOOLEAN
    BY <2>2 DEF Frames
  <2>4. frames' = MarkLast(Pop(frames), dirty, confirmed)
    BY <1>5 DEF TxnCommitNested
  <2>5. frames' # <<>> /\ frames'[1].alarm = frames[1].alarm
    <3> HIDE DEF dirty, confirmed
    <3> QED
      BY <2>2, <2>3, <2>4, OutermostMarked
  <2> QED
    BY <2>1, <2>5 DEF CacheInv, CacheMatchesFile, SavepointInv
<1>6. CASE TxnCommitRejected
  BY <1>6 DEF TxnCommitRejected, CacheInv, CacheMatchesFile, SavepointInv
<1>7. CASE TxnCommitFails
  BY <1>7, CacheStutter DEF TxnCommitFails
<1>8. CASE TxnRollback
  <2>1. /\ frames \in Seq(Frames) /\ frames # <<>> /\ Len(frames) \in Nat \ {0}
        /\ UNCHANGED <<file, implicit, broken>> /\ frames' = Pop(frames)
    BY <1>8, EmptySeq DEF TxnRollback, Held, TypeOK, DatabaseType
  <2>2. CASE Len(frames) = 1 /\ ~broken
    <3>1. alarm' = frames[1].alarm
      BY <1>8, <2>2 DEF TxnRollback, AlarmAtSavepoint, Last
    <3>2. frames' = <<>>
      BY <2>1, <2>2, PopProperties, EmptySeq
    <3> QED
      BY <2>1, <2>2, <3>1, <3>2 DEF CacheInv, CacheMatchesFile, SavepointInv
  <2>3. CASE Len(frames) # 1 /\ ~broken
    <3>1. frames'[1] = frames[1] /\ frames' # <<>>
      BY <2>1, <2>3, OutermostPopped
    <3> QED
      BY <2>1, <2>3, <3>1 DEF CacheInv, CacheMatchesFile, SavepointInv
  <2>4. CASE broken
    BY <2>1, <2>4 DEF CacheInv, CacheMatchesFile, SavepointInv
  <2> QED
    BY <2>2, <2>3, <2>4
<1>9. ASSUME NEW k \in Commits, TxnCommitRoot(k) PROVE CacheInv'
  BY <1>9 DEF TxnCommitRoot, CacheInv, CacheMatchesFile, SavepointInv
<1> QED
  BY <1>1, <1>2, <1>3, <1>4, <1>5, <1>6, <1>7, <1>8, <1>9 DEF Application, AlarmCalls, OtherCalls

LEMMA CommitKeepsCache ==
  ASSUME TypeOK, CacheInv, NEW k \in Commits, Commit(k) \/ CommitFault(k) PROVE CacheInv'
<1> USE DEF breakage, database, Breaks
<1>1. CASE CommitImplicit(k)
  BY <1>1, Constants DEF CommitImplicit, OpenAfter, CacheInv, CacheMatchesFile, SavepointInv
<1>2. CASE CommitImplicitFails(k)
  BY <1>2, Constants
     DEF CommitImplicitFails, OpenAfter, CacheInv, CacheMatchesFile, SavepointInv
<1>3. CASE \/ CommitDeleteAll(k) \/ CommitDeleteAllFails(k) \/ PrecommitAnswered(k)
           \/ PrecommitFails(k) \/ CommitPersisted(k) \/ PersistFails(k)
  BY <1>3, CacheStutter
     DEF CommitDeleteAll, CommitDeleteAllFails, PrecommitAnswered, PrecommitFails,
         CommitPersisted, PersistFails
<1> QED
  BY <1>1, <1>2, <1>3 DEF Commit, CommitFault

LEMMA CacheStep == TypeOK /\ CacheInv /\ [Next]_vars => CacheInv'
<1> SUFFICES ASSUME TypeOK, CacheInv, [Next]_vars PROVE CacheInv'
  OBVIOUS
<1> USE DEF breakage, database
<1>1. CASE HandlerSucceeds
  <2>1. UNCHANGED <<file, broken>>
    BY <1>1 DEF HandlerSucceeds
  <2>2. CASE Write(TRUE)
    BY <2>1, <2>2, WriteKeepsCache
  <2>3. CASE UNCHANGED <<alarm, implicit, frames>>
    BY <2>1, <2>3, CacheStutter
  <2> QED
    BY <1>1, <2>2, <2>3 DEF HandlerSucceeds
<1>2. CASE HandlerAbandoned
  <2>1. UNCHANGED <<file, broken>>
    BY <1>2 DEF HandlerAbandoned
  <2>2. CASE WriteAlarm(NoAlarm, TRUE)
    BY <2>1, <2>2, WriteAlarmKeepsCache, Constants
  <2>3. CASE UNCHANGED <<alarm, implicit, frames>>
    BY <2>1, <2>3, CacheStutter
  <2> QED
    BY <1>2, <2>2, <2>3 DEF HandlerAbandoned
<1>3. CASE AlarmDelivery /\ ~HandlerSucceeds /\ ~HandlerAbandoned
  <2>1. UNCHANGED <<database, breakage>>
    BY <1>3
       DEF AlarmDelivery, Deliver, DeliverFails, CancelAnswered, HandlerReturns, HandlerThrows,
           HandlerEnds, HandlerFails
  <2> QED
    BY <2>1, CacheStutter
<1>4. ASSUME Forget PROVE CacheInv'
  BY <1>4 DEF Forget, CacheInv, CacheMatchesFile, SavepointInv
<1>5. CASE Restart
  BY <1>4, <1>5, CacheStutter DEF Restart, Crash, CrashBeforeCommit, Evict, Start
<1>6. CASE LaterAnswered \/ LaterAnsweredThrows \/ TaskFailed \/ Shutdown \/ CriticalError \/ Tick
  BY <1>6, CacheStutter
     DEF LaterAnswered, LaterAnsweredThrows, TaskFailed, Shutdown, CriticalError, Tick
<1>7. CASE UNCHANGED vars
  BY <1>7, CacheStutter DEF vars
<1> QED
  BY <1>1, <1>2, <1>3, <1>5, <1>6, <1>7, ApplicationKeepsCache, CommitKeepsCache DEF Next, Runtime

\* Outside of transactions a usable actor reads the alarm its file holds,
\* whatever was rolled back, failed, or restarted before.
THEOREM CacheIsTrue == Spec => []CacheMatchesFile
<1>1. Init => CancelWaits /\ CacheInv
  BY DEF Init, CancelWaits, CacheInv, CacheMatchesFile, SavepointInv
<1>2. CacheInv => CacheMatchesFile
  BY DEF CacheInv
<1> QED
  BY <1>1, <1>2, InitType, TypeStep, CancelStep, CacheStep, PTL DEF Spec

=============================================================================
